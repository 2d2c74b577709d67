------------------------------- MODULE TestIcd -------------------------------
(***************************************************************************)
(* The objects of the mock driver the layer is tested with                 *)
(* (object_lifetime_test_icd.hpp and .cpp).  Each object counts explicit   *)
(* references and, apart from them, the implicit references of the objects *)
(* made from it.                                                           *)
(*                                                                         *)
(* A method is an operator that gives the outcome of the call: its code,   *)
(* the objects after it, and the value it returns.  TestIcdSurface makes   *)
(* actions of them.                                                        *)
(***************************************************************************)
EXTENDS Integers, Sequences, FiniteSets, SequencesExt

CONSTANTS
    MaxObjects,     \* bound: as many objects are created
    ComputeUnits,   \* how many compute units it has (64 in the code)
    UINT_RANGE,     \* 2^32 in the code: cl_uint wraps around
    KERNEL_COUNT,   \* the kernels of a program (3 in the code)
    FormatCount,    \* the image formats of a context (41 in the code)
    None

ASSUME IcdConstants ==
    /\ MaxObjects \in Nat /\ None \notin 0 .. MaxObjects
    /\ ComputeUnits \in Nat \ {0}
    /\ UINT_RANGE \in Nat \ {0, 1}
    /\ KERNEL_COUNT \in Nat \ {0} /\ FormatCount \in Nat

VARIABLES
    obj,            \* address -> object, None until it is created
    env             \* the options that are set

\* Addresses, in the order they are given out; the first is the root device's.
\* No address is given out twice: objects stay in get_objects<T> to the end.
Objects == 0 .. MaxObjects

RootDevice == 0

Options == {"report_implicit_ref_count_to_user", "allow_using_released_objects",
            "allow_using_inaccessible_objects", "always_return_success"}

\* The objects of get_objects<T>.
Kinds(T) ==
    CASE T = "DEVICE" -> {"DEVICE", "SUB_DEVICE"}
      [] T = "MEM" -> {"BUFFER", "IMAGE", "PIPE"}
      [] OTHER -> {T}

Types == {"DEVICE", "SUB_DEVICE", "CONTEXT", "COMMAND_QUEUE", "BUFFER", "IMAGE", "PIPE",
          "PROGRAM", "KERNEL", "EVENT", "SAMPLER"}

\* `parents` are the objects notify() unreferences, in its order.  `referenced`
\* remembers which of them the creation called reference() on.
Object ==
    [type: Types, ref_count: 0 .. UINT_RANGE - 1, implicit_ref_count: 0 .. UINT_RANGE - 1,
     parents: Seq(Objects), referenced: SUBSET Objects,
     cu_count: Nat, default: BOOLEAN]

ASSUME NoneIsNoObject == None \notin Object

Exists(T, h) == h \in Objects /\ obj[h] # None /\ obj[h].type \in Kinds(T)

UInt(n) == n % UINT_RANGE

-----------------------------------------------------------------------------
(***************************************************************************)
(* ref_counted_object.                                                     *)
(***************************************************************************)

\* The value is a list of what the call returns, None if it returns nothing.
Success(objects, value) == [code |-> "CL_SUCCESS", obj |-> objects, value |-> value]

Failure(code) == [code |-> code, obj |-> obj, value |-> None]

INVALID(T) == "CL_INVALID_" \o T

is_valid(h, retain) ==
    \/ obj[h].ref_count > 0
    \/ /\ obj[h].implicit_ref_count > 0
       /\ "allow_using_inaccessible_objects" \in env \/ retain
    \/ "allow_using_released_objects" \in env

CL_OBJECT_REFERENCE_COUNT(h) ==
    IF "report_implicit_ref_count_to_user" \in env
    THEN UInt(obj[h].ref_count + obj[h].implicit_ref_count)
    ELSE obj[h].ref_count

\* Fault: an object without explicit references can always be retained.
RetainWhatIsValid(T, h) ==
    Success([obj EXCEPT ![h].ref_count = UInt(@ + 1)], None)

retain(T, h) ==
    IF \/ obj[h].ref_count > 0
       \/ /\ obj[h].implicit_ref_count > 0
          /\ "allow_using_inaccessible_objects" \in env
    THEN Success([obj EXCEPT ![h].ref_count = UInt(@ + 1)], None)
    ELSE Failure(INVALID(T))

\* Fault: several references at a time count as one.
ReferenceOnce(objects, h, count) ==
    [objects EXCEPT ![h].implicit_ref_count = UInt(@ + 1)]

reference(objects, h, count) ==
    [objects EXCEPT ![h].implicit_ref_count = UInt(@ + count)]

Occurrences(h, hs) == Cardinality({i \in DOMAIN hs : hs[i] = h})

\* The parents lose a reference each; nothing is passed on to theirs.
notify(objects, h) ==
    [p \in Objects |->
        IF p \in ToSet(objects[h].parents)
        THEN [objects[p] EXCEPT !.implicit_ref_count =
                UInt(@ - Occurrences(p, objects[h].parents))]
        ELSE objects[p]]

release(T, h) ==
    LET released == [obj EXCEPT ![h].ref_count = @ - 1]
        last == released[h].ref_count = 0 /\ released[h].implicit_ref_count = 0
    IN  IF obj[h].ref_count = 0 THEN Failure(INVALID(T))
        ELSE Success(IF last THEN notify(released, h) ELSE released, None)

-----------------------------------------------------------------------------
(***************************************************************************)
(* Creation: create_or_exit stores a new object, after reference() was     *)
(* called on those of its parents in `referenced`.                         *)
(***************************************************************************)

\* The next n addresses; Room: there are as many.
New(n) == LET used == Cardinality({h \in Objects : obj[h] # None})
          IN  [i \in 1 .. n |-> used + i - 1]

Room(n) == ToSet(New(n)) \subseteq Objects

NewObject(type, parents, referenced) ==
    [type |-> type, ref_count |-> 1, implicit_ref_count |-> 0, parents |-> parents,
     referenced |-> referenced, cu_count |-> 0, default |-> FALSE]

\* `hs` are created alike.  Each of `referenced` was given `count` references.
CreateAll(hs, object, count) ==
    LET counted == [p \in Objects |->
                      IF p \in object.referenced
                      THEN reference(obj, p, count)[p] ELSE obj[p]]
    IN  [h \in Objects |-> IF h \in ToSet(hs) THEN object ELSE counted[h]]

Create(h, object) == Success(CreateAll(<<h>>, object, 1), <<h>>)

\* The context of an object; a kernel's is its program's.
ContextOf(h) ==
    LET ps == obj[h].parents
    IN  CASE obj[h].type = "COMMAND_QUEUE" -> ps[2]
          [] obj[h].type = "KERNEL" -> obj[ps[1]].parents[1]
          [] obj[h].type \in Kinds("MEM") -> Last(ps)
          [] OTHER -> ps[1]

InContext(ctx, h, type) == Create(h, NewObject(type, <<ctx>>, {ctx}))

\* An object of the context with the address h.
context_clCreateBuffer(ctx, h) == InContext(ctx, h, "BUFFER")

context_clCreateBufferWithProperties(ctx, h) == InContext(ctx, h, "BUFFER")

context_clCreateImage(ctx, h) == InContext(ctx, h, "IMAGE")

\* An image made from a buffer: the code takes any memory object of the
\* context for it, the first in its set.
context_clCreateImageWithProperties(ctx, h, from_buffer) ==
    LET mems == {m \in Objects : Exists("MEM", m) /\ ContextOf(m) = ctx}
    IN  IF from_buffer /\ mems # {}
        THEN {Create(h, NewObject("IMAGE", <<m, ctx>>, {m, ctx})) : m \in mems}
        ELSE {InContext(ctx, h, "IMAGE")}

context_clCreateImage2D(ctx, h) == InContext(ctx, h, "IMAGE")

context_clCreateImage3D(ctx, h) == InContext(ctx, h, "IMAGE")

context_clCreatePipe(ctx, h) == InContext(ctx, h, "PIPE")

context_clCreateUserEvent(ctx, h) == InContext(ctx, h, "EVENT")

context_clCreateSampler(ctx, h) == InContext(ctx, h, "SAMPLER")

context_clCreateSamplerWithProperties(ctx, h) == InContext(ctx, h, "SAMPLER")

\* The devices of the context become the program's; they are not referenced.
context_clCreateProgramWithSource(ctx, h) ==
    Create(h, NewObject("PROGRAM", <<ctx>> \o obj[ctx].parents, {ctx}))

\* A queue refers to its device and references its context only.
NewQueue(ctx, device, default) ==
    [NewObject("COMMAND_QUEUE", <<device, ctx>>, {ctx}) EXCEPT !.default = default]

context_clCreateCommandQueue(ctx, h, device) ==
    IF device \notin ToSet(obj[ctx].parents) THEN Failure(INVALID("DEVICE"))
    ELSE Create(h, NewQueue(ctx, device, FALSE))

\* Fault: a default queue is made for everyone who asks.
NewDefaultQueue(ctx, h, device, default) ==
    IF device \notin ToSet(obj[ctx].parents) THEN {Failure(INVALID("DEVICE"))}
    ELSE {Create(h, NewQueue(ctx, device, default))}

\* The default queue of the device is looked for among all queues ever made;
\* whether it can still be retained is not asked.
context_clCreateCommandQueueWithProperties(ctx, h, device, default) ==
    LET existing == {q \in Objects : Exists("COMMAND_QUEUE", q)
                        /\ obj[q].parents = <<device, ctx>> /\ obj[q].default}
    IN  IF device \notin ToSet(obj[ctx].parents) THEN {Failure(INVALID("DEVICE"))}
        ELSE IF default /\ existing # {}
        THEN {Success(retain("COMMAND_QUEUE", q).obj, <<q>>) : q \in existing}
        ELSE {Create(h, NewQueue(ctx, device, default))}

\* Fault: the buffer is referenced before its size is checked.
ReferenceThenCheck(m, h, region) ==
    IF region = "null" \/ obj[m].type # "BUFFER" THEN Failure("CL_INVALID_VALUE")
    ELSE IF region = "too_large"
    THEN [Failure("CL_INVALID_BUFFER_SIZE") EXCEPT !.obj = reference(obj, m, 1)]
    ELSE Create(h, NewObject("BUFFER", <<m, ContextOf(m)>>, {m}))

\* A sub-buffer references its buffer, and notifies its context as well.
mem_clCreateSubBuffer(m, h, region) ==
    IF region = "null" \/ obj[m].type # "BUFFER" THEN Failure("CL_INVALID_VALUE")
    ELSE IF region = "too_large" THEN Failure("CL_INVALID_BUFFER_SIZE")
    ELSE Create(h, NewObject("BUFFER", <<m, ContextOf(m)>>, {m}))

program_clCreateKernel(p, h) == Create(h, NewObject("KERNEL", <<p>>, {p}))

\* kernels is null, or has room for num_kernels.
program_clCreateKernelsInProgram(p, hs, num_kernels, kernels) ==
    IF ~kernels THEN Success(obj, <<KERNEL_COUNT>>)
    ELSE IF num_kernels < KERNEL_COUNT THEN Failure("CL_INVALID_VALUE")
    ELSE Success(CreateAll(hs, NewObject("KERNEL", <<p>>, {p}), KERNEL_COUNT), hs)

\* The program of the clone is not referenced.
kernel_clCloneKernel(k, h) == Create(h, NewObject("KERNEL", obj[k].parents, {}))

\* The devices are this platform's if one of them so far could be asked: the
\* variable the answer goes to is not cleared between two devices.
AllOurs(devices) ==
    \A i \in DOMAIN devices : \E j \in 1 .. i : is_valid(devices[j], FALSE)

device_clCreateContext(devices, h) ==
    IF ~AllOurs(devices) THEN Failure(INVALID("DEVICE"))
    ELSE LET object == NewObject("CONTEXT", devices, ToSet(devices))
             counted == [p \in Objects |->
                           IF p \in ToSet(devices)
                           THEN reference(obj, p, Occurrences(p, devices))[p] ELSE obj[p]]
         IN  Success([counted EXCEPT ![h] = object], <<h>>)

\* CL_DEVICE_PARTITION_EQUALLY by n.  As many devices are made as there is
\* room for, as many references are counted as there should be devices.
device_clCreateSubDevices(d, hs, n, num_devices, out_devices) ==
    LET ret_count == obj[d].cu_count \div n
        part == [NewObject("SUB_DEVICE", <<d>>, {d}) EXCEPT !.cu_count = n]
    IN  IF num_devices < ret_count THEN Failure("CL_INVALID_DEVICE_PARTITION_COUNT")
        ELSE IF ~out_devices THEN Success(obj, <<ret_count>>)
        ELSE Success(CreateAll(hs, part, ret_count), hs)

\* An event of the queue, if one is asked for.  `events` is None when the
\* length of the wait list and its pointer do not agree.  A wait list with an
\* event that cannot be used makes no event, and no error.
command_queue_clEnqueueNDRangeKernel(q, h, k, events, event) ==
    LET ctx == ContextOf(q)
        usable(e) == is_valid(e, FALSE) /\ ContextOf(e) = ctx
    IN  IF ~is_valid(k, FALSE) \/ ContextOf(k) # ctx THEN Failure(INVALID("KERNEL"))
        ELSE IF events = None THEN Failure("CL_INVALID_EVENT_WAIT_LIST")
        ELSE IF event /\ \A e \in ToSet(events) : usable(e)
        THEN Create(h, NewObject("EVENT", <<ctx, q>>, {q}))
        ELSE Success(obj, None)

-----------------------------------------------------------------------------
(***************************************************************************)
(* The rest: calls that create no object.                                  *)
(***************************************************************************)

device_clRetainDevice(d) ==
    IF obj[d].type = "DEVICE" THEN Success(obj, None) ELSE retain("DEVICE", d)

\* Fault: the root device is released like any other.
ReleaseAnyDevice(d) == release("DEVICE", d)

device_clReleaseDevice(d) ==
    IF obj[d].type = "DEVICE" THEN Success(obj, None) ELSE release("DEVICE", d)

program_clBuildProgram(p, devices) ==
    IF ToSet(devices) \subseteq ToSet(Tail(obj[p].parents)) THEN Success(obj, None)
    ELSE Failure(INVALID("DEVICE"))

event_clSetUserEventStatus(e, status) ==
    IF Len(obj[e].parents) = 2 THEN Failure(INVALID("EVENT"))
    ELSE IF status # "CL_COMPLETE" THEN Failure("CL_INVALID_VALUE")
    ELSE Success(obj, None)

event_clWaitForEvents(e, events) ==
    IF \E o \in ToSet(events) : ~is_valid(o, FALSE) \/ ContextOf(o) # ContextOf(e)
    THEN Failure(INVALID("CONTEXT"))
    ELSE Success(obj, None)

kernel_clSetKernelArg(k) == Success(obj, None)

\* Writes the formats there is room for.
context_clGetSupportedImageFormats(num_entries, image_formats) ==
    IF num_entries = 0 /\ image_formats THEN Failure("CL_INVALID_VALUE")
    ELSE Success(obj, <<IF image_formats /\ num_entries < FormatCount
                        THEN num_entries ELSE FormatCount>>)

\* The only device that is found is the root device.
platform_clGetDeviceIDs(num_entries, devices, asking_for_custom) ==
    IF num_entries = 0 /\ devices THEN Failure("CL_INVALID_VALUE")
    ELSE Success(obj, IF asking_for_custom THEN <<RootDevice>> ELSE <<>>)

\* What the clGet*Info methods answer, by parameter, and its size in words.
\* The parameters about what an object never changes (names, sizes, flags,
\* formats) are one parameter, Attribute.
Word(value) == [value |-> <<value>>, size |-> 1]

Words(values) == [value |-> values, size |-> Len(values)]

platform_clGetPlatformInfo == [Attribute |-> Word(None)]

device_clGetDeviceInfo(d) ==
    [Attribute |-> Word(None),
     CL_DEVICE_PARENT_DEVICE |->
        Word(IF obj[d].type = "DEVICE" THEN None ELSE obj[d].parents[1]),
     CL_DEVICE_REFERENCE_COUNT |->
        Word(IF obj[d].type = "DEVICE" THEN 1 ELSE CL_OBJECT_REFERENCE_COUNT(d)),
     CL_DEVICE_MAX_COMPUTE_UNITS |-> Word(obj[d].cu_count)]

context_clGetContextInfo(c) ==
    [CL_CONTEXT_REFERENCE_COUNT |-> Word(CL_OBJECT_REFERENCE_COUNT(c)),
     CL_CONTEXT_NUM_DEVICES |-> Word(Len(obj[c].parents)),
     CL_CONTEXT_DEVICES |-> Words(obj[c].parents)]

mem_clGetMemObjectInfo(m) ==
    [CL_MEM_REFERENCE_COUNT |-> Word(CL_OBJECT_REFERENCE_COUNT(m)),
     CL_MEM_CONTEXT |-> Word(ContextOf(m)),
     CL_MEM_TYPE |-> Word(obj[m].type),
     Attribute |-> Word(None),
     CL_MEM_ASSOCIATED_MEMOBJECT |->
        Word(IF Len(obj[m].parents) = 2 THEN obj[m].parents[1] ELSE None)]

mem_clGetImageInfo(m) ==
    IF obj[m].type = "IMAGE" THEN [Attribute |-> Word(None)] ELSE <<>>

command_queue_clGetCommandQueueInfo(q) ==
    [CL_QUEUE_PROPERTIES |-> Word(obj[q].default),
     CL_QUEUE_REFERENCE_COUNT |-> Word(CL_OBJECT_REFERENCE_COUNT(q)),
     CL_QUEUE_CONTEXT |-> Word(ContextOf(q)),
     CL_QUEUE_DEVICE |-> Word(obj[q].parents[1])]

program_clGetProgramInfo(p) ==
    [CL_PROGRAM_REFERENCE_COUNT |-> Word(CL_OBJECT_REFERENCE_COUNT(p)),
     CL_PROGRAM_CONTEXT |-> Word(ContextOf(p)),
     CL_PROGRAM_NUM_DEVICES |-> Word(Len(obj[p].parents) - 1),
     CL_PROGRAM_DEVICES |-> Words(Tail(obj[p].parents))]

kernel_clGetKernelInfo(k) ==
    [CL_KERNEL_REFERENCE_COUNT |-> Word(CL_OBJECT_REFERENCE_COUNT(k)),
     CL_KERNEL_PROGRAM |-> Word(obj[k].parents[1]),
     CL_KERNEL_CONTEXT |-> Word(ContextOf(k))]

\* For a user event the size of the null queue is taken eight times.
event_clGetEventInfo(e) ==
    [CL_EVENT_REFERENCE_COUNT |-> Word(CL_OBJECT_REFERENCE_COUNT(e)),
     CL_EVENT_CONTEXT |-> Word(ContextOf(e)),
     CL_EVENT_COMMAND_QUEUE |->
        IF Len(obj[e].parents) = 2 THEN Word(obj[e].parents[2])
        ELSE [value |-> <<None>>, size |-> 8]]

sampler_clGetSamplerInfo(s) ==
    [CL_SAMPLER_REFERENCE_COUNT |-> Word(CL_OBJECT_REFERENCE_COUNT(s)),
     CL_SAMPLER_CONTEXT |-> Word(ContextOf(s))]

\* The answer to the question `param`: `size` words are offered, at a pointer
\* or at none.
Info(answers, param, size, pointer) ==
    IF size = 0 /\ pointer THEN Failure("CL_INVALID_VALUE")
    ELSE IF param \notin DOMAIN answers THEN Failure("CL_INVALID_VALUE")
    ELSE IF size # 0 /\ size < answers[param].size THEN Failure("CL_INVALID_VALUE")
    ELSE Success(obj, IF pointer THEN answers[param].value ELSE <<answers[param].size>>)
=============================================================================
