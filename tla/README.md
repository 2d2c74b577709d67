# TLA+ project for OpenCL-Layers

OpenCL-Layers is a set of layers for the OpenCL ICD loader. A layer receives
every OpenCL call of a program, may check or log it, and passes it on to the
next layer or the driver through a dispatch table. The layer with state, with
threads and with invariants worth a proof is **object-lifetime**: it counts the
references to every OpenCL object on its own, next to the driver, and rejects
calls that use an object that is dead, of another type or unknown. Most of this
project is about it: its tracker, the wrappers of all entry points around the
tracker, and the mock driver it is tested with. The rest is about what a layer
does before its first call (settings, platform lists) and about the checks of
param-verification.

## 1. Inventory

| Component | State | Operations | Interacts with |
|---|---|---|---|
| object-lifetime, tracker (`object_lifetime.cpp` 22-887) | `objects` (handle to record: type, version, refcount, parents, num_children), `deleted_objects`, `objects_mutex` | `check_exists`, `check_exist_list`, `check_creation(_list)`, `check_add_or_exists`, `check_create_or_exists`, `check_release`, `check_retain`, `report` | called by every wrapper; asks the driver for versions |
| object-lifetime, wrappers (1097-4012) | none of their own | about 150 `*_wrap` functions: check the arguments, call the driver, record what came back | tracker, driver, application threads |
| object-lifetime, helpers (961-1094) | none | property list scans, `get_parent`, `get_parent_devices` | driver queries |
| object-lifetime, start-up (134-172, 896-959) | `settings`, `log_stream`, `dispatch` | `clGetLayerInfo`, `clInitLayer`, `atexit(report)` | utils |
| mock ICD (`object_lifetime_test_icd*`) | the objects it ever made, with explicit and implicit counts; its options | the driver of the layer's tests | tests |
| ocl-icd-compat | the platforms of the driver, sorted, and the default | `clInitLayer`, `clGetPlatformIDs`, the calls that name a platform | loader, driver |
| param-verification | settings | a function per call, generated from `cl-avl.xml`, with hand-written list and structure checks | driver queries |
| utils | none | settings file, environment, layer paths | file system |
| simple-print | target dispatch table | prints and passes on | loader |

What is hard here, and what correctness means:

* **Tracker.** `num_children` is maintained by hand; deleting a record recurses
  up its parents and erases map entries on the way; handles come back. Correct:
  the counter equals the relation it counts, no parent goes before a child,
  nothing is kept or dropped without reason, the walk ends.
* **Wrappers.** The mutex is held inside a check only. A release is counted
  before the driver sees it, a creation after. Correct: a legal program is never
  rejected, the two counts agree up to the calls in flight, a misused handle
  does not reach the driver, the leak report is exact.
* **Mock ICD.** Two counts per object; an object made from others unreferences
  them at its end whether it referenced them or not. Correct: the counts agree
  with the objects, nothing released comes back, an error has no effect.
* **Settings.** Three places and the environment, each half overriding the one
  before. Correct: a weaker source never reaches a setting.
* **ocl-icd-compat.** A list built once, with failures on the way. Correct:
  whatever goes down names a platform the driver reported.
* **param-verification.** Tests in order, of which later ones rely on earlier
  ones (pitches before overlaps, limits before products). Correct: the
  arithmetic decides what it is meant to decide, and survives what it reads.

Every hazard, with its line and the properties that cover it, is in
`PROJECT.json`.

## 2. Modules

| Module | Models |
|---|---|
| `ObjectLifetime` | the tracker, every check function as one action, under arbitrary calls |
| `ConformingLifetime` | the same tracker behind a driver that gives out fresh handles; its safety, action and liveness properties |
| `LifetimeSpec` | the abstract promise: an object is known while it is referenced or is a parent of a known object |
| `ObjectLifetimeProofs`, `ChildrenProofs` | theorems about `ObjectLifetime`: the walk; the counter of children |
| `ConformingProofs` | theorems about `ConformingLifetime` |
| `LifetimeRefinementProofs` | the tracker implements `LifetimeSpec`, step by step |
| `EntryPoints` | every wrapper of the dispatch table, as data: its checks in order and the records it makes |
| `LayeredSystem` | threads that call entry points, the tracker, and a driver |
| `SystemProofs` | theorems about `LayeredSystem`: the tracker and the driver agree |
| `TestIcd` | the objects of the mock driver and their methods |
| `TestIcdSurface` | the entry points of the mock driver, an action each |
| `TestIcdProofs` | theorems about the mock driver: its objects; its two counters |
| `ApiTypes` | context property lists, and the two ways layers read a platform from one |
| `LayerSettings` | where settings are found and what they come to |
| `IcdCompat` | the platform list of the compatibility layer and what it forwards |
| `ParamChecks` | checks on property and partition lists, rectangles, ranges of memory |
| `EnqueueChecks` | checks on kernel enqueues and sub-buffers |
| `LayerProcess` | a process with one layer: loading it, then a call; uses the five modules above |
| `FoldProofs` | lemmas on induction, sums and products over finite sets |
| `LayerProcessProofs` | theorems about `LayerProcess` |
| `MCTracker`, `MCConforming`, `MCSystem`, `MCTestIcd`, `MCLayerProcess` | the instances TLC checks |

An operator whose comment begins with `Fault:` is a plausible bug: it stands
before the definition it would replace, is used nowhere, and a run's property
fails when it takes that definition's place (`mutants` in `PROJECT.json`).

### ObjectLifetime

`objects`, `deleted` and `mutex` are the three globals of the code. A record has
the fields of `object_record`; `deleted` keeps the type of the last deleted
record per handle, the only part of `deleted_objects` that is read (by
`error_does_not_exist`, for its message). `ret` is what each thread's last check
returned: success or the type that `object_errors` is indexed by. `leaks` is what
`report` listed.

A check function runs under one `lock_guard`, so it is one action, with one
exception: deleting a record (`delete_object_record`, `notify_child_released`)
is a recursion and its steps are actions of their own while the mutex is held.
`mutex.stack` is the call stack of that recursion, `frames[h]` the state of the
loop over the parents of `h`, and `mutex.todo` what the caller inserts after the
deletion (`check_creation_no_lock` on an existing handle, and the rest of
`check_creation_list`). The order is the code's: the record that is deleted first
leaves the map after its parents have been told, a parent that dies leaves the
map before its own parents are.

`NotifyChildReleased`, `ReturnToCaller` and `FinishDelete` are that recursion;
`CreateNext` is the body of `check_creation_no_lock`; `CheckExists`,
`CheckExistList`, `CheckCreationList`, `CheckAddOrExists`,
`CheckCreateOrExists`, `CheckRelease`, `CheckRetain` and `Report` are the
functions with those names. The template specialisations for OCL_PLATFORM,
OCL_DEVICE and OCL_MEM are folded into `Accepted`, `IsCounted` and `Usable`.
Versions are numbers: 12 for OpenCL 1.2, 20 for 2.0.

The environment, `Next`, calls any check with any arguments from the constants.
It makes two assumptions: a created handle is not a parent of a record in the
map, nor of itself (no driver gives out the address of an object that others
use), and counts stay at `MaxRefcount` (`CanCount`, `CanAdopt`; bounds for TLC
that the theorems do not depend on).

### ConformingLifetime and LifetimeSpec

`ConformingNext` restricts creation, not use: a created handle is not in the map
and its parents are. Under this environment the counter is exact. An *edge* is
an element of a parents vector whose parent has not been told that the child is
gone; during a walk the edges of a deleted record live on in its frame.
`ImplementsLifetime` maps the tracker to `LifetimeSpec`, where a record whose
deletion has begun is no longer known; `Reap` is the death of a parent in the
walk, and its weak fairness is implied by that of `Continue`.

### EntryPoints and LayeredSystem

`EntryPoints` has a record for each wrapper: the handle arguments in the order
they are checked (with the type asked for, whether null skips the check, whether
the macro writes through `errcode_ret` untested, or that the argument is not
checked at all), the type of object the driver makes, and the records the
wrapper can make of the answer (which check function, which type, where the
parents come from). Arguments that are no handles are left out.

`LayeredSystem` executes them. A call of a thread takes its arguments one at a
time, each in the mutex section of its check (`Begin`, `NextArgument`); no
argument is read before its check, so choosing it there loses no behaviour.
`RejectedCall` is the early return; `DriverStep` the driver's entry point,
`PostCheck` the records, one mutex section each, `ReturnToApp` the return.
Between any two steps other threads may run. `Crash` is the write through a null
output pointer, of a check's result (`bare`) or, in `clGetDeviceIDs`, the read of
the count (`ReadsCount`), for applications with `NullPointers`.

`Null` is the handle NULL. An application passes it only if it misuses the layer,
and the driver never makes an object of it, but `clGetImageInfo` may record it:
`AnswersNull` is the driver's NULL for `CL_IMAGE_BUFFER` of an image made from
nothing, which that wrapper (`RecordsNull`) does not test for, unlike the others.

The driver is external: an object has a type, references, the objects it was
made from and its context (a context is its own, a device has none), lives while
it is referenced or used, may be freed any time later, and its handle may then
be given out again. `MayFail` names what it may refuse.
`own` counts the references each thread holds; with `Legal` a thread passes only
handles it holds, without it any handle at all. References move between threads
(`HandOver`), at any time, also while the other thread is in a call: a thread
that made or retained an object twice can give one of the two away, and from then
on both threads may retain, release and use the object, ask for the default queue
of a context they share, or end its life, as in
`object-lifetime/test/cross_counting_parallel.cpp`. Each thread needs a reference of
its own: the workers of that test, which retain objects under the one reference of
the main thread, correspond to threads that were handed one each, so counts in
the model are higher than in the test by the references handed over. Roots are
held by whoever lists them.

### TestIcd and TestIcdSurface

`obj` maps addresses to objects; none is freed, as in the code, so addresses are
numbers given out in order. `ref_count` and `implicit_ref_count` are the
counters of `ref_counted_object`, modulo `UINT_RANGE`; `parents` is the list
`notify()` unreferences, and `referenced`, a ghost, the part of it on which
`reference()` was called. A method is an operator that gives its outcome: code,
objects, value. Every call holds the surface's mutex throughout, so an entry
point is one action: `invoke_if_valid`, `create_if_valid` with the outcomes of
the method for one argument or another. The options are read from the
environment once; `always_return_success` masks codes only.

### LayerProcess

`Init` chooses a world: which layer, its environment, the file system, the
driver's platforms. `clInitLayer` loads settings (`load`, `init_output_stream`)
or builds the platform list (`init_platforms`); `answer` records the last call
and what became of it: refused, forwarded, answered, undefined (freed or null
memory is used) or crashed (the check itself falls). The function generated for
a command is `Verified` of the first violation; transparent mode forwards all
the same. What a test asks the driver is part of the argument: a device is its
limits, a queue its context and device, a kernel what it was built for.

The constants carry assumptions, which say what C makes true of the arguments:
variables and options are text (`SettingWorldsAssumption`), a driver reports a
platform once and fewer than `Many` devices (`IcdWorldsAssumption`;
`cmp_platforms` compares one kind of device after the other, `OrderIsWorth`
compares a number in base `Many`), property lists are finite (`ListsAssumption`),
partition lists end with a zero (`PartitionsAssumption`), sizes, offsets and
pitches are natural numbers, sizes there are for each dimension of the device
(`RegionsAssumption`, `EnqueuesAssumption`, `SubBuffersAssumption`).

## 3. Runs

| Run | Question | Bounds |
|---|---|---|
| `tracker_open` | is the state well formed under arbitrary calls, does a walk keep the record it started from, does a counter ever fall short | 3 handles, 2 counted types, counts up to 1, one parent each: enough for re-creation over a live record, for a type change and for a cascade of three |
| `conforming` | exact counts, parents outlive children, nothing kept or forgotten without reason, no resurrection up to 1.2 | 3 handles, vectors of up to two parents with repetition, versions 1.2, 2.0 and 2.1, counts up to 2 |
| `refinement` | does the tracker implement `LifetimeSpec`, does every walk end | 3 handles, one parent each: cascades of three |
| `system_legal` | false rejections, count drift, records that outlive their objects or are put below forgotten ones, leak report, with two threads that share objects | a device and 3 handles, OpenCL 1.2, counts up to 3; contexts, their default queues, markers and events, events with one reference |
| `system_every_call` | false rejections for every wrapper, and whether records form the graph of the driver's objects | 1 thread, 2 devices and 3 handles, OpenCL 2.0, lists up to 2, counts up to 1 |
| `system_misuse` | what reaches the driver from a program that does anything | 1 thread, a device and 3 handles, OpenCL 2.0, every wrapper but `clGetEventInfo` |
| `system_programs` | the same four objects deep, with refused releases and null output pointers | 1 thread, a platform, a device and 4 handles, OpenCL 2.0; programs, kernels, clones |
| `system_zombie`, `system_default_order`, `system_from_type` | see findings | 1 thread, a device and 2 or 3 handles |
| `test_icd` | the mock driver under any calls | the root device and 5 objects; counts modulo 6, up to 2 explicit ones; four sets of options, those of CI |
| `single_layer` | where settings come from, what the compatibility layer forwards, what the checks of param-verification decide | some 8,000 worlds; one call after the layer is loaded; cl_uint of 16 values, size_t of 64 |

Why this is enough:

* **Threads.** A call has one window before and one after the driver, and each
  race involves one other call on the same handle. Two threads of `system_legal`
  reach these races because references are handed over: each holds one to the same
  context or queue, and a third is retained, asked for or released meanwhile. Two
  retains at once of an object both hold would take four; they commute, and the
  theorems have no bound. The mutants of `NoFalsePositive` and `CountsAgree` in
  that run do not wait for the mutex, which takes two threads to find. The other
  runs of the composition have one thread: the wrappers differ in what they check
  and record, not in how the mutex is taken.
* **Handles.** Three give a chain of parent, child and grandchild, the shortest
  where a cascade continues past a parent; four add the depth of context,
  program, kernel and clone. The driver gives handles out again in every run.
* **Lists.** Two elements are the shortest list in which the first may be
  recorded and the second rejected.
* **Mock driver.** The constraint `Bounded` keeps more than three objects beyond
  the root device to one shape, a kernel that is enqueued with its event and its
  clone: the deepest there is. Counts are taken modulo 6, more than five
  objects and two references can make, so that a wrap-around can only be one
  below zero; the theorem assumes the same of a cl_uint.
* **Single layer.** No layer here keeps anything between calls, so every call
  after the first begins in the same state: `FirstCall` loses nothing. The
  numbers are small enough that sums and products wrap within the inputs.

Symmetry over pool handles, threads and (where two devices are there) devices is
used in safety runs only; the refinement run has liveness and uses none. Pool
handles differ in nothing until the driver gives them out. The views leave out
variables that guide no step: `deleted` (read for a message), `own` where the
application passes anything, the ghost `answer` of `test_icd`. `answer` matters to
`ErrorsChangeNothing`, which reads only its new value, so the step that sets it
is the one that is checked. Deadlock is checked in the system runs, whose final
states (after the report, after a crash) stutter explicitly. The others switch it
off: the tracker and the mock driver may sit at their bounds, and a process of
`single_layer` ends with its call.

Fairness: weak fairness of `Continue`, the steps of the thread that holds the
mutex, and nothing else. It is a running thread inside a function without any
wait, so it proceeds; no thread is assumed to make calls. Nothing else in the
code waits or retries, and nothing is persisted, so there is no further liveness
and no restart to model.

### What the properties say

* Tracker: `IteratorStaysValid` (no use of an erased record), `ChildrenCovered`,
  `ChildrenCounted`, `ParentsOutlive`, `KeptForAReason`, `DeletionIsFinal`,
  `ForgottenOnlyWhenDead`, `NoResurrectionBefore20`; `ImplementsLifetime` and
  `MutexReleased`.
* System: `NoFalsePositive`, `CountsAgree`, `TrackedIsAlive`, `LeakReportExact`
  relate layer and driver through every interleaving, of calls on shared objects
  too; `TrackedIsAlive` makes the one exception of NULL, whose record is never
  referenced; `ParentsAreAncestors` says
  that whatever query an object is met in first, its record is put below objects
  it was made from, or below its context (`Ancestors`), `ParentInMap` that those
  have records when it gets one; `DriverShielded` is the promise to a program that
  misuses objects, on the arguments a wrapper checks. `TrackedIsAlive` is checked on
  programs that misuse objects and proved for those that do not.
* Mock driver: `ImplicitBetween` (the implicit count lies between the children
  still referenced and all that could count), `OneDefaultQueue`,
  `ErrorsChangeNothing`, `NoResurrection`.
* Settings and platforms: `SettingsByPrecedence` compares what was loaded with
  what would be loaded if the weaker sources were not there;
  `DefaultPlatformIsBest`; `OnlyReportedPlatforms`.
* Checks: `ReadersAgree` is about three readers of one list that stop at
  different ends. `PartitionExact`, `RectOverlapExact` and `SvmOverlapExact`
  compare arithmetic with the set of sub-devices, or bytes, it is about.
  `GroupsFit`: the wrap-around of a product in one check is made up for by the
  comparison in a later one. `ChecksSurvive` lists the only calls that fell a
  check. `SubBufferWithinBuffer`: bytes, alignment and access of a sub-buffer.

### Findings

* `system_zombie`: `clGetEventInfo(CL_EVENT_COMMAND_QUEUE)` on an event whose
  queue has been released puts the queue back into the map with refcount 0 and
  no children. Nothing deletes that record, it keeps the context counted, and
  when the driver reuses the handle `check_creation_no_lock` leaves it there: the
  new object is rejected.
* `system_default_order`: `queue_properties_is_on_device_default` tests the first
  property pair over and over while another pointer advances.
* `system_from_type`: `clCreateContextFromType` makes contexts whose parents
  are not in the map, contrary to the comment on `derive_object_version`.

### Other deviations met while modelling

These are in the model as the code has them; the properties are stated so that
they neither hide them nor fail on them.

object-lifetime (`object_lifetime.cpp`):

* 3525: the event of `clCreateEventFromEGLSyncKHR` is not registered, so its
  first use is rejected. The wrapper is left out of `system_every_call`.
* 1275 and others: the device of `clCreateCommandQueue`, the device list of
  `clCreateProgramWithBuiltInKernels` and the headers of `clCompileProgram` go
  down unchecked.
* 1230: a release the driver refuses has been counted all the same; the
  application's second, legal attempt is rejected.
* 512: the list and create-or-exists macros write through a null `errcode_ret`;
  1152: `clGetDeviceIDs` reads through a null `num_devices`.
* 1513: `clGetImageInfo` does not test the answer to `CL_IMAGE_BUFFER` for NULL,
  as 1471 and 1851 do, and records a buffer under the handle NULL. Nothing ever
  references that record or is put below it, so a NULL passed for a buffer is still
  rejected, with another message.

Mock driver (`object_lifetime_test_icd.cpp`, `.hpp`):

* Sub-buffers, clones, enqueues, queues and programs unreference parents they
  never referenced; an object that ends while it has children does not pass
  the end on to its own parents.
* 1000: `clCreateImageWithProperties` accepts any memory object, released ones
  too. 1181: a default queue that has ended is found, not retained, and returned
  with CL_SUCCESS. 364: `dev_plat` is stale after a device that cannot be asked.
* `clCreateSubDevices` fails for a count query with `num_devices` 0, and the
  queue of a user event needs 64 bytes to be asked for.

ocl-icd-compat (`ocl_icd_compat.c`):

* 144-157: after a failure `_num_platforms` stays while the list is freed.
* 245, 294: a refusal is written through `errcode_ret`, null or not.
* 221: only the first CL_CONTEXT_PLATFORM of a list is looked at; a list without
  one is refused by `clCreateContextFromType` and accepted by `clCreateContext`.
* An OCL_ICD_DEFAULT_PLATFORM that counts no platform leaves no default at all.

param-verification:

* `cl-avl.xml` 4432: the overlap of a rectangle copy is tested even between two
  buffers, so legal copies are refused. 1461: a check for version 1.0 that can
  never hold.
* `list_violation.cpp` 28, 50, 107, 129: partition counts are cast and added up
  in cl_uint; null properties of `clCreateSubDevices` are dereferenced.
  508: a length is read into half of an uninitialised `size_t`.
* `struct_violation.cpp` 1216: a local size of zero divides by zero, and a null
  global size, legal from 2.1 on, is read when work-groups must be uniform.
  1182, 502: products and sums of `size_t` wrap around. 540: an alignment in
  bits is compared with bytes.

utils (`utils.cpp`): HOME is not consulted once XDG_DATA_HOME is set, and a
directory in OPENCL_LAYERS_SETTINGS_PATH wins even if it holds no settings.

## 4. Proofs

The theorems hold for any values of the constants that their assumptions allow:
any number of handles and threads, vectors of any length, any bounds.
`PROJECT.json` lists them with the property each states.

**The walk** (`ObjectLifetimeProofs`: `TrackerInvariant`, `TrackerTypeCorrect`,
`TrackerIteratorValid`). The loop in `delete_object_record` holds an iterator
while the recursion erases other records; the record it refers to is never among
them. Type correctness is not inductive alone: `FinishDelete` reads the record of
the outermost loop, so it must still be in the map. `WalkInv` says why it is. The
stack and the running loops are the same handles without repetition
(`StackIsFrames`), all loops but the outermost belong to records that have left
the map, and the outermost record cannot die in the walk because it is
referenced (re-creation), or has no child to lose (release), or nothing names it
as a parent (replacement); `Lasting` is that disjunction. `NotifyInv` is the
heart of it. The only assumption about the environment is `NoDependents` in
`Create`.

**The counter under arbitrary calls** (`ChildrenProofs`:
`TrackerChildrenCovered`). An edge is an element of a parents vector that has not
been notified; `num_children` is never below the number of edges to a record.
This needs what is pending (`CoverInv`): a handle still to be inserted by
`check_creation_list` is nobody's parent, in the map or among the pending, and a
record that is being replaced is the next to be inserted. The work is in how a
step changes the set of edges, which the lemmas on `ChildEdges` say once per
kind of change: nothing, one edge gone, a vector's edges new.

**The conforming tracker** (`ConformingProofs`). The four invariants of
`ConformingLifetime` support each other: an exact count needs parents that
outlive their children, that needs deletions that are final, and those need
exact counts. `ExactInv` states them together, handle by handle (`NodeOK`), in
the middle of any walk, with what is pending (`PendingFresh`). Every step has one
of a few effects on the records (`Effect`: one raised, lowered, added, erased, a
walk's parent reaped, nothing, all forgotten by `report`), and the two action
properties and the refinement follow from the effects alone.

**The refinement** (`LifetimeRefinementProofs`: `TrackerRefinesLifetime`). The
safety part of `ImplementsLifetime`: the initial state maps to the initial
state, and each effect to a step of `LifetimeSpec` or to a stutter. `Reap`, the
death of a parent in the walk, is the step that needs `ExactInv`: the record
that the code erases is one the abstract specification lets go. `RootsAlone`,
that platforms and devices have no parents, is part of the invariant here.

**The mock driver** (`TestIcdProofs`). The calls are many
and come to little: nothing, one reference more, one less, or new objects
(`Outcome`). The first half shows that of every method and entry point, the
second that these keep `IcdInv`: addresses are given out in order, parents are
known and of the kinds the methods make objects from, a context has one default
queue per device, the root device keeps its reference.
`IcdErrorsChangeNothing` and `IcdNoResurrection` follow from the outcomes. For
`ImplicitBetween` the invariant is the property itself on top of `IcdInv`:
children that reach their end are counted off by `notify()` once for each
parent, referenced or not. It holds as long as the counters do not wrap
(`CountsFit`: fewer objects, and references to each, than a cl_uint counts);
without that the theorem is false.

**Threads, tracker and driver** (`SystemProofs`: `SysInvariant`). All properties
of `LayeredSystem` that runs check are proved for any number of threads and
handles, lists of any length, any driver version, every interleaving and every
entry point of a legal use, on objects that threads share by `HandOver` too.
`LegalUse` is that hypothesis, on the constants only:
the application passes what its thread holds (`Legal`), with the output
pointers the layer writes through (`NullPointers` false); the driver refuses no
retain and no release; queue property lists are such that the layer sees a
request for the default queue that is there; and three entry points are not
called. What it leaves out is what the layer gets wrong, each a finding or a
deviation of section 3: `clGetEventInfo` (`system_zombie`), property lists with
the pair elsewhere (`system_default_order`), `clCreateContextFromType`
(`system_from_type`), `clCreateEventFromEGLSyncKHR`, refused releases, null
`errcode_ret`. Outside it `LegalCallsPass` is false, as those runs show, or the
graph of records the proof rests on is not there (a context from a type has
parents without records). `LegalUse` also asks that `ParentLists` has the
lists passed, as the runs' values do: `system_legal` is an instance.

`SysInv` is the inductive invariant. No property of the composition stands on its
own: a check passes because what a thread holds is in the map, which needs the
counts to agree; they agree only as long as no call is rejected; and a count can
be matched with references only if the handle still is the object it was. The
parts are:

* `Structure`: the driver's objects are made from others without cycles
  (`WellFounded`) and have the shapes that what a query answers is read from.
* `Links`: a record, and the frame of a record being deleted, has the type and the
  parents of the driver's object under that handle. A record with children is
  then an object in use, so no record is that of a dead object (`KnownIsAlive`).
* `Calls`: what a call in progress has checked is still held by its thread, since
  none gives references away inside a call, whatever the others do to theirs; what
  it made is
  known to nobody else until it is recorded (`Fresh`); what a query answered
  stays related to the object asked about, and so alive and in the map.
* `Balance`: the driver's count of an object is the sum over the threads of what
  each holds, has in flight to release and has made (`DriverShare`); the
  tracker's count is the same sum with retains in flight and without what is
  still to be registered (`TrackerShare`). A step of a thread changes its
  shares by what it changes the counts (`BalanceMoves`); `HandOver` moves a
  reference from one thread's share to another's (`BalanceShifts`).
* `MutexOK`, `AfterExit`, `RootsKept`: the walk belongs to the release that
  began it, what is pending to the call that made it; the report is of what is
  held; platforms and devices are not counted.
* `NullOK`: a record of NULL has neither references nor parents, and no thread holds
  NULL. The driver has no object there, so no record names it as a parent
  (`NullIsBare`) and no walk comes to it.

`ExactInv` of the conforming tracker is a part of it: each check of a legal use
is one that `ConformingProofs` has a lemma for. A step is on the driver's side,
where the tracker stands still (`DriverSide`), or on the tracker's
(`TrackerSide`, `SectionStep`), and the lemma for each action shows what little
it changes. The entry points are data, so the cases are not 150 wrappers but the
`Shape` of each (`UsedShapes`): it counts its argument, uses objects, lists
roots, asks, or makes an object below its first argument; five have a rule of
their own.

From `SysInv` follow `LegalTypes`, `LegalCallsPass` (`NoFalsePositive`),
`LegalCountsAgree`, `LegalTrackedIsAlive`, `LegalLeakReport`,
`LegalParentsAreAncestors`, `LegalDriverShielded` and, since a step adds at most
one record (`StepAddsOne`), the action property `LegalParentInMap`.
`system_legal` checks that one (`ParentInMap`) on an instance with two threads; the
run `system_from_type` shows why the hypothesis excludes `clCreateContextFromType`.

**A process with one layer** (`LayerProcessProofs`). `Loaded` is the inductive
part: what `clInitLayer` left is the function of environment, files and driver
that the code computes, and no call changes it. The properties about settings and
platforms then are statements about those functions:
`LayerSettingsByPrecedence` by looking at one option after the other and at which
sources `get_option` reads for it, `LayerDefaultPlatformIsBest` from a reordering
that is onto. The properties of the checks are statements about the answer to
one call, for arguments of any size:

* `LayerRectOverlapExact`: two rows, or slices, of a period overlap exactly if
  the distance of their origins, modulo the period, is outside the gaps
  (`GapsDoNotMeet`, `OutsideGapsMeet`); the distance of two bytes of a box is
  less than a period in each dimension (`DistanceInRegion`, `RegionInDistance`),
  which is what the pitch checks in front of the overlap are for.
* `LayerPartitionExact`: each partial sum is compared before the next count is
  added, so none wraps around (`CountsAddedUp`).
* `LayerGroupsFit`: a product that wrapped around has a factor above the
  device's limit (`GroupWithinLimit`), which a later check refuses.
* `LayerReadersAgree`, `LayerSvmOverlapExact`, `LayerSubBufferWithinBuffer`,
  `LayerChecksSurvive`, `LayerOnlyReportedPlatforms`.

`FoldProofs` has what sums and products need. The folds of the community modules
choose an element, take it out and go on; that any element may be taken out
first is proved from the existence of one function that solves the recursion on
all subsets. Induction over a data structure takes an operator as a parameter,
which the provers cannot instantiate: it is replaced by the smallest number, or
the smallest finite set, outside a set (`SmallestElement`, `SubsetInduction`,
`UpTo`).

Only model-checked:

* Liveness (`MutexReleased`, the fairness part of `ImplementsLifetime`): fairness
  and `ENABLED` are out of the prover's reach.
* A program that misuses objects: `DriverShielded` and `TrackedIsAlive` in
  `system_misuse` and `system_programs`, where no hypothesis on the application
  is made, are about one thread (with two, the object can go between the check
  and the driver) and a driver whose handles the program guesses. The theorems
  are about legal use.
* `clCreateContextFromType` in a legal program (`system_every_call`).

## 5. Not modelled

* Log messages: their wording, and the stream's contents.
* The wrappers of `object_lifetime.cpp` that are compiled for Windows only (D3D
  and DX9 sharing); the registry as a source of settings.
* Some 150 commands of `cl-avl.xml` whose tests are single comparisons of an
  argument with an answer of the driver, the image structure checks of
  `struct_violation.cpp`, the parts of `list_violation.cpp` about other lists,
  and the generator `parser.cpp` itself but for the function it generates.
* `parse_cl_version_string`; a version is a number here.
* simple-print, a generated pass-through without state; the test programs, read
  as the statement of what is promised; build files.

## 6. Plan

What is left: the shield under misuse for one thread, whose invariant has to do
without what a thread holds; the contexts of `clCreateContextFromType`, with
records whose parents are not in the map; and of the model, the commands of
`cl-avl.xml` listed above.
