---------------------------- MODULE LayeredSystem ----------------------------
(***************************************************************************)
(* Application threads calling OpenCL through the layer's wrappers         *)
(* (object_lifetime.cpp, the *_wrap functions), the tracker of             *)
(* ObjectLifetime and a conforming driver behind it.                       *)
(*                                                                         *)
(* A wrapped call executes one of EntryPoints: the checks on its           *)
(* arguments, one after the other, the driver's entry point, and the       *)
(* records of what the driver returned.  objects_mutex is held inside the  *)
(* checks only, so the steps of different threads interleave freely        *)
(* between them.                                                           *)
(***************************************************************************)
EXTENDS ObjectLifetime, EntryPoints, SequencesExt

CONSTANTS
    Platforms,      \* the platforms and the root devices; the other handles
    Devices,        \* are the driver's to give
    Null,           \* NULL, the one handle that is nobody's
    Used,           \* the entry points the application calls
    Legal,          \* TRUE: the application uses only what it holds
    PropertyLists,  \* queue property lists: sequences of <<key, whether the
                    \* value has CL_QUEUE_ON_DEVICE_DEFAULT set>>
    DriverVersion,  \* what clGetPlatformInfo reports
    MaxList,        \* bound on the lists of handles passed and returned
    MayFail,        \* what the driver may refuse: subset of {"retain", "release"}
    NullPointers    \* whether the application leaves out optional output pointers

VARIABLES
    drv,            \* handle -> the driver's object, None when it is free
    call,           \* thread -> the call it is in, None between calls
    own             \* thread -> handle -> references the thread holds

sysVars == <<objects, deleted, frames, mutex, ret, leaks, drv, call, own>>

Roots == Platforms \cup Devices

Pool == Handles \ (Roots \cup {Null})

SystemAssumption ==
    /\ Roots \subseteq Handles
    /\ Null \in Handles \ Roots
    /\ IsFiniteSet(Threads)
    /\ Used \subseteq Dispatch
    /\ DriverVersion \in Versions
    /\ Legal \in BOOLEAN /\ NullPointers \in BOOLEAN
    /\ MaxList \in Nat
    /\ MayFail \subseteq {"retain", "release"}

ASSUME SystemConstants == SystemAssumption

-----------------------------------------------------------------------------
(***************************************************************************)
(* The driver: each object is referenced by the application and keeps the  *)
(* objects it was made from alive.  A freed handle can be handed out       *)
(* again.                                                                  *)
(***************************************************************************)

\* An object knows its context, a context being its own; devices have none.
DriverObject == [type: ObjectTypes, refs: Nat, on: Seq(Handles),
                 context: Handles \cup {None}, default: BOOLEAN]

DriverHas(h) == h \in Handles /\ drv[h] # None

InUse(h) == \E c \in Handles : DriverHas(c) /\ h \in Elements(drv[c].on)

Alive(h) == DriverHas(h) /\ (h \in Roots \/ drv[h].refs > 0 \/ InUse(h))

\* The driver gives memory back at any time after the last use.
DriverFree(h) ==
    /\ DriverHas(h) /\ ~Alive(h)
    /\ drv' = [drv EXCEPT ![h] = None]
    /\ UNCHANGED <<vars, call, own>>

\* `hs` are given out as new objects of type T, made from the objects `on`.
DriverMake(hs, T, on, default) ==
    /\ \A h \in Elements(hs) : h \in Pool /\ ~DriverHas(h)
    /\ IsInjective(hs)
    /\ drv' = [h \in Handles |->
                 IF h \in Elements(hs)
                 THEN [type |-> T, refs |-> 1, on |-> on, default |-> default,
                       context |-> IF T = "CONTEXT" THEN h ELSE drv[on[1]].context]
                 ELSE drv[h]]

\* What an object was made from, and the context above it.
Ancestors(h) == (Elements(drv[h].on) \cup {drv[h].context}) \ {h, None}

-----------------------------------------------------------------------------
(***************************************************************************)
(* The arguments.  Nothing reads an argument before its check, so it is    *)
(* chosen there.  `args` holds a sequence of handles for each argument:    *)
(* one, a list, or <<>> for a null pointer.                                *)
(***************************************************************************)

Stages == {"check", "post", "return", "crashed"}

Call == [fn: Used, args: Seq(Seq(Handles \cup {None})), stage: Stages,
         result: (UNION {fn.results : fn \in Used}) \cup {None}, made: Seq(Handles)]

ASSUME NoCallAssumption ==
    /\ None \notin DriverObject
    /\ None \notin Call
    /\ \A fn \in Used : None \notin fn.results

NewCall(fn) == [fn |-> fn, args |-> <<>>, stage |-> "check", result |-> None, made |-> <<>>]

Holds(t) == mutex # None /\ mutex.owner = t

At(t, stage) == call[t] # None /\ call[t].stage = stage /\ ~Holds(t)

Finish(t) == call' = [call EXCEPT ![t] = None]

\* A legal application passes handles of the type asked for that the calling
\* thread holds a reference to; another thread may hold one too (HandOver).
MayPass(t, T, h) ==
    Legal => own[t][h] > 0 /\ drv[h].type \in Accepted(T)

\* The check on a platform lets NULL pass before it looks it up, which is
\* None here; any other looks it up like every handle.
Passable(t, a) ==
    LET passed == {h \in Handles : MayPass(t, a.type, h)}
        single == IF a.type = "PLATFORM" THEN (passed \ {Null}) \cup {None} ELSE passed
    IN  IF a.check = "list" THEN BoundedSeq(passed, MaxList)
        ELSE {<<h>> : h \in single} \cup (IF a.null THEN {<<>>} ELSE {})

\* Bound on the tracker's counts and on the driver's.
CanRetain(h) == CanCount(h) /\ (DriverHas(h) => drv[h].refs < MaxRefcount)

\* The mutex section of one check.
Check(t, a, hs) ==
    \/ /\ a.check = "unchecked" \/ hs = <<>>
       /\ Return(t, CL_SUCCESS)
       /\ UNCHANGED <<objects, deleted, frames, mutex, leaks>>
    \/ a.check = "exists" /\ hs # <<>> /\ CheckExists(t, a.type, hs[1])
    \/ a.check = "list" /\ hs # <<>> /\ CheckExistList(t, a.type, hs)
    \/ a.check = "retain" /\ CanRetain(hs[1]) /\ CheckRetain(t, a.type, hs[1])
    \/ a.check = "release" /\ CheckRelease(t, a.type, hs[1])

\* A released reference is gone for the application when the call begins.
GivenUp(t, a, hs) ==
    IF a.check = "release" /\ hs[1] \in Pool /\ own[t][hs[1]] > 0
    THEN [own EXCEPT ![t][hs[1]] = @ - 1]
    ELSE own

\* The next argument of call c of thread t is checked.
TakeArgument(t, c) ==
    LET a == c.fn.arguments[Len(c.args) + 1]
    IN  /\ \E hs \in Passable(t, a) :
              /\ Check(t, a, hs)
              /\ call' = [call EXCEPT ![t] = [c EXCEPT !.args = Append(@, hs)]]
              /\ own' = GivenUp(t, a, hs)
        /\ UNCHANGED drv

\* The same bound on the references to a default queue.
CanDefault == \A h \in Pool : DriverHas(h) /\ drv[h].default => CanRetain(h)

Begin(t, fn) ==
    /\ call[t] = None /\ leaks = None
    /\ \A i \in DOMAIN fn.arguments : Passable(t, fn.arguments[i]) # {}
    /\ fn = clCreateCommandQueueWithProperties => CanDefault
    /\ \/ /\ fn.arguments # <<>>
          /\ TakeArgument(t, NewCall(fn))
       \/ /\ fn.arguments = <<>>
          /\ call' = [call EXCEPT ![t] = NewCall(fn)]
          /\ Return(t, CL_SUCCESS)
          /\ UNCHANGED <<objects, deleted, frames, mutex, leaks, drv, own>>

NextArgument(t) ==
    /\ At(t, "check") /\ ret[t] = CL_SUCCESS
    /\ Len(call[t].args) < Len(call[t].fn.arguments)
    /\ TakeArgument(t, call[t])

RejectedCall(t) ==
    /\ At(t, "check") /\ ret[t] # CL_SUCCESS
    /\ Finish(t)
    /\ UNCHANGED <<vars, drv, own>>

-----------------------------------------------------------------------------
(***************************************************************************)
(* The driver's entry point.                                               *)
(***************************************************************************)

AtDriver(t) ==
    /\ At(t, "check") /\ ret[t] = CL_SUCCESS
    /\ Len(call[t].args) = Len(call[t].fn.arguments)

\* What entry points that count do with their argument.
Counting(fn) ==
    IF fn.arguments = <<>> THEN "nothing"
    ELSE IF fn.arguments[1].check \in {"retain", "release"} THEN fn.arguments[1].check
    ELSE "nothing"

\* An argument the driver can work with.
Sound(a, h) ==
    \/ h = None /\ a.type = "PLATFORM"
    \/ /\ Alive(h)
       /\ drv[h].type \in Accepted(a.type)
       /\ a.check = "release" => h \in Roots \/ drv[h].refs > 0

SoundArguments(t, kinds) ==
    \A i \in DOMAIN call[t].args :
        LET a == call[t].fn.arguments[i]
        IN  a.check \in kinds => \A h \in Elements(call[t].args[i]) : Sound(a, h)

CheckedKinds == {"exists", "list", "retain", "release"}

\* The driver does its work.  What it does with a dead handle is undefined
\* and left out.
Works(t) == AtDriver(t) /\ SoundArguments(t, CheckedKinds)

Argument1(t) == call[t].args[1][1]

Proceed(t, result, made) ==
    call' = [call EXCEPT ![t].stage = "post", ![t].result = result, ![t].made = made]

\* Nothing comes back: there is nothing to return, it was not asked for, or
\* the driver failed.
DriverReturns(t) ==
    /\ AtDriver(t) /\ Counting(call[t].fn) = "nothing"
    /\ Finish(t)
    /\ UNCHANGED <<vars, drv, own>>

\* Roots are not counted.
Counted(t, n) == IF Argument1(t) \in Pool THEN n ELSE 0

DriverRetain(t) ==
    /\ Works(t) /\ Counting(call[t].fn) = "retain"
    /\ drv' = [drv EXCEPT ![Argument1(t)].refs = @ + Counted(t, 1)]
    /\ own' = [own EXCEPT ![t][Argument1(t)] = @ + Counted(t, 1)]
    /\ Finish(t)
    /\ UNCHANGED vars

DriverRelease(t) ==
    /\ Works(t) /\ Counting(call[t].fn) = "release"
    /\ drv' = [drv EXCEPT ![Argument1(t)].refs = @ - Counted(t, 1)]
    /\ Finish(t)
    /\ UNCHANGED <<vars, own>>

\* Out of resources: the driver's count, and what the application holds, are
\* what they were.
DriverRefuses(t) ==
    /\ Works(t) /\ Counting(call[t].fn) \in MayFail
    /\ own' = IF Counting(call[t].fn) = "release"
              THEN [own EXCEPT ![t][Argument1(t)] = @ + Counted(t, 1)]
              ELSE own
    /\ Finish(t)
    /\ UNCHANGED <<vars, drv>>

\* The objects the new one is made from: the devices of a context, the program
\* of a clone, the memory object of an image, else the first argument.
MadeFrom(t) ==
    LET fn == call[t].fn
        args == call[t].args
    IN  CASE fn = clCreateContext -> {args[2]} \ {<<>>}
          [] fn = clCreateContextFromType -> {<<d>> : d \in Devices}
          [] fn = clCloneKernel -> {drv[args[1][1]].on}
          [] fn \in {clCreateImage, clCreateImageWithProperties} /\ args[2] # <<>> -> {args[2]}
          [] OTHER -> {args[1]}

\* What can be recorded of a call, None when the wrapper records nothing.
Recorded(fn) == IF fn.results = {} THEN {None} ELSE fn.results

ReturnsList(result) == result # None /\ result.check = "list"

DriverCreate(t) ==
    /\ Works(t)
    /\ call[t].fn.makes # NOTHING /\ call[t].fn # clCreateCommandQueueWithProperties
    /\ \E on \in MadeFrom(t), r \in Recorded(call[t].fn), hs \in BoundedSeq(Pool, MaxList) :
          /\ hs # <<>> /\ (Len(hs) > 1 => ReturnsList(r))
          /\ DriverMake(hs, call[t].fn.makes, on, FALSE)
          /\ Proceed(t, r, hs)
    /\ UNCHANGED <<vars, own>>

\* Whether a property list asks for the on-device default queue.
WantsDefault(properties) == <<"CL_QUEUE_PROPERTIES", TRUE>> \in Elements(properties)

\* The loop advances one pointer and reads another: it sees the first pair
\* every time.
QueuePropertiesIsOnDeviceDefault(properties) ==
    properties # <<>> /\ properties[1] = <<"CL_QUEUE_PROPERTIES", TRUE>>

\* Which record clCreateCommandQueueWithProperties_wrap makes of the queue.
QueueResult(properties) ==
    CHOOSE r \in clCreateCommandQueueWithProperties.results :
        r.check = IF QueuePropertiesIsOnDeviceDefault(properties)
                  THEN "create or exists" ELSE "creation"

DefaultQueue(c) ==
    {h \in Pool : DriverHas(h) /\ drv[h].default /\ drv[h].on = <<c>> /\ drv[h].refs > 0}

\* There is one default queue: asking for another retains it.
DriverCreateQueue(t) ==
    /\ Works(t) /\ call[t].fn = clCreateCommandQueueWithProperties
    /\ \E properties \in PropertyLists :
          LET existing == IF WantsDefault(properties) THEN DefaultQueue(Argument1(t)) ELSE {}
              r == QueueResult(properties)
          IN  \/ \E h \in existing :
                    /\ drv' = [drv EXCEPT ![h].refs = @ + 1]
                    /\ Proceed(t, r, <<h>>)
              \/ /\ existing = {}
                 /\ \E h \in Pool :
                       /\ DriverMake(<<h>>, "COMMAND_QUEUE", call[t].args[1],
                                     WantsDefault(properties))
                       /\ Proceed(t, r, <<h>>)
    /\ UNCHANGED <<vars, own>>

\* One platform or device of those there are (the bound is one per call).
DriverLists(t, r) ==
    /\ r.check = "roots"
    /\ \E h \in Roots : drv[h].type = r.type /\ Proceed(t, r, <<h>>)

\* What a query on h answers: its context, the devices of that, or the object
\* it was made from.
Answers(h, r) ==
    LET devices == drv[drv[h].context].on
    IN  CASE r.type = "CONTEXT" -> {<<drv[h].context>>}
          [] r.type = "DEVICE" /\ drv[h].type = "COMMAND_QUEUE" ->
                {<<d>> : d \in Elements(devices)}
          [] r.type = "DEVICE" /\ drv[h].type # "COMMAND_QUEUE" -> {devices}
          [] OTHER -> {<<p>> : p \in {q \in {drv[h].on[1]} : drv[q].type = r.type}}

\* The answer is NULL where there is no such object.  Most wrappers test for
\* it and record nothing, as in DriverReturns.
AnswersNull(t, r) ==
    /\ call[t].fn \in RecordsNull
    /\ Answers(Argument1(t), r) = {}
    /\ Proceed(t, r, <<Null>>)

DriverQuery(t) ==
    /\ Works(t) /\ call[t].fn.makes = NOTHING
    /\ \E r \in call[t].fn.results :
          \/ DriverLists(t, r)
          \/ /\ r.check = "add"
             /\ \/ \E hs \in Answers(Argument1(t), r) : Proceed(t, r, hs)
                \/ AnswersNull(t, r)
    /\ UNCHANGED <<vars, drv, own>>

DriverStep(t) ==
    \/ DriverReturns(t)
    \/ DriverRetain(t) \/ DriverRelease(t) \/ DriverRefuses(t)
    \/ DriverCreate(t) \/ DriverCreateQueue(t) \/ DriverQuery(t)

-----------------------------------------------------------------------------
(***************************************************************************)
(* The records made of what came back, and the return.                     *)
(***************************************************************************)

\* get_parent, by type: an event is put below its context.  Of NULL the
\* driver answers nothing, and no parent is named.
GetParent(h) ==
    IF h = Null THEN <<>>
    ELSE IF drv[h].type = "EVENT" THEN <<drv[h].context>>
    ELSE <<drv[h].on[1]>>

\* Fault: what a query returns is put below the object asked about.
ParentIsArgument(t, r, h) ==
    LET args == call[t].args
    IN  CASE r.parents = "none" -> <<>>
          [] r.parents = "device list" -> args[2]
          [] r.parents = "get_parent_devices" -> drv[h].on
          [] OTHER -> args[1]

\* The parents a wrapper gives the record of h.
LayerParents(t, r, h) ==
    LET args == call[t].args
    IN  CASE r.parents = "none" -> <<>>
          [] r.parents = "argument" -> args[1]
          [] r.parents = "device list" -> args[2]
          [] r.parents = "get_parent" -> GetParent(h)
          [] r.parents = "get_parent_devices" -> drv[h].on
          [] r.parents = "get_parent_device" ->
                IF drv[h].type = "SUB_DEVICE" THEN drv[h].on ELSE <<>>
          [] r.parents = "get_parent(argument)" -> GetParent(args[1][1])
          [] r.parents = "image_desc" -> IF args[2] # <<>> THEN args[2] ELSE args[1]

\* Fault: every device met in a query is recorded as a root device.
TypeInWrapper(r, h) == r.type

\* A device with a parent is recorded as a sub-device.
RecordedType(r, h) == IF r.parents = "get_parent_device" THEN drv[h].type ELSE r.type

PostCheck(t) ==
    /\ At(t, "post") /\ ret[t] = CL_SUCCESS
    /\ call[t].made # <<>> /\ call[t].result # None
    /\ LET r == call[t].result
           hs == call[t].made
           T == RecordedType(r, hs[1])
           ps == LayerParents(t, r, hs[1])
       IN  /\ \/ r.check \in {"creation", "list"} /\ CheckCreationList(t, T, hs, ps)
              \/ r.check = "create or exists" /\ CheckCreateOrExists(t, T, hs[1], ps[1])
              \/ r.check \in {"add", "roots"} /\ CheckAddOrExists(t, T, hs[1], ps, DriverVersion)
           /\ call' = IF r.check = "add" /\ Len(hs) > 1
                      THEN [call EXCEPT ![t].made = Tail(@)]
                      ELSE [call EXCEPT ![t].stage = "return"]
    /\ UNCHANGED <<drv, own>>

\* The call is over when all is recorded, at once if there is nothing to
\* record, or at the first error of a loop over a list.
Done(t) ==
    \/ At(t, "return")
    \/ At(t, "post") /\ (ret[t] # CL_SUCCESS \/ call[t].result = None)

\* A created object is the application's unless the call failed.
ReturnToApp(t) ==
    /\ Done(t)
    /\ LET c == call[t]
       IN  own' = [own EXCEPT ![t] = [h \in Handles |->
                     IF h \notin Elements(c.made) \/ ret[t] # CL_SUCCESS THEN own[t][h]
                     ELSE IF c.fn.makes # NOTHING THEN own[t][h] + 1
                     ELSE IF c.result.check = "roots" THEN 1
                     ELSE own[t][h]]]
    /\ Finish(t)
    /\ UNCHANGED <<vars, drv>>

\* The result of a check is written through errcode_ret without a test for
\* null, and some wrappers read num_devices after the driver's call likewise.
WritesThroughNull(t) ==
    LET c == call[t]
        next == Len(c.args) + 1
    IN  \/ /\ At(t, "check") /\ ret[t] = CL_SUCCESS /\ next <= Len(c.fn.arguments)
           /\ c.fn.arguments[next].bare
        \/ At(t, "post") /\ c.result # None /\ c.result.bare
        \/ AtDriver(t) /\ c.fn.readsCount

Crash(t) ==
    /\ NullPointers /\ WritesThroughNull(t)
    /\ call' = [call EXCEPT ![t].stage = "crashed"]
    /\ UNCHANGED <<vars, drv, own>>

-----------------------------------------------------------------------------

RootObject(h) ==
    [type |-> IF h \in Devices THEN "DEVICE" ELSE "PLATFORM",
     refs |-> 0, on |-> <<>>, context |-> None, default |-> FALSE]

SysInit ==
    /\ Init
    /\ drv = [h \in Handles |-> IF h \in Roots THEN RootObject(h) ELSE None]
    /\ call = [t \in Threads |-> None]
    /\ own = [t \in Threads |-> [h \in Handles |-> 0]]

\* A thread between two calls gives another a reference it holds, whatever
\* that one is doing: from then on both may use the object if it held two.
HandOver(t, u, h) ==
    /\ Legal /\ leaks = None
    /\ t # u /\ call[t] = None
    /\ own[t][h] > 0
    /\ own' = [own EXCEPT ![t][h] = @ - 1, ![u][h] = @ + 1]
    /\ UNCHANGED <<vars, drv, call>>

\* The program ends when no call is in progress; report() runs at exit.
Exit ==
    /\ \A t \in Threads : call[t] = None
    /\ Report
    /\ UNCHANGED <<drv, call, own>>

Stopped ==
    /\ leaks # None \/ \E t \in Threads : At(t, "crashed")
    /\ UNCHANGED sysVars

Within(t) ==
    \/ NextArgument(t) \/ RejectedCall(t) \/ DriverStep(t)
    \/ PostCheck(t) \/ ReturnToApp(t) \/ Crash(t)

SysNext ==
    \/ \E t \in Threads : Within(t) \/ \E fn \in Used : Begin(t, fn)
    \/ Continue /\ UNCHANGED <<drv, call, own>>
    \/ \E h \in Pool : DriverFree(h)
    \/ \E t, u \in Threads, h \in Pool : HandOver(t, u, h)
    \/ Exit
    \/ Stopped

SysSpec == SysInit /\ [][SysNext]_sysVars
                   /\ WF_sysVars(Continue /\ UNCHANGED <<drv, call, own>>)

-----------------------------------------------------------------------------
(***************************************************************************)
(* The three variables of the composition have their types.                *)
(***************************************************************************)
SysTypeOK ==
    /\ TypeOK
    /\ drv \in [Handles -> DriverObject \cup {None}]
    /\ call \in [Threads -> Call \cup {None}]
    /\ own \in [Threads -> [Handles -> Nat]]

\* A legal call is never rejected, however the steps of other threads fall.
NoFalsePositive == \A t \in Threads : ret[t] = CL_SUCCESS

\* A retain or a release of h the driver has yet to see.
InFlight(h, op) == Cardinality({t \in Threads :
    /\ call[t] # None /\ call[t].stage = "check" /\ ret[t] = CL_SUCCESS
    /\ call[t].args # <<>> /\ Counting(call[t].fn) = op
    /\ Argument1(t) = h})

\* A created object the tracker has not been told of yet.
Unregistered(h) == Cardinality({t \in Threads :
    /\ call[t] # None /\ call[t].fn.makes # NOTHING /\ h \in Elements(call[t].made)
    /\ \/ call[t].stage = "post"
       \/ Holds(t) /\ \E p \in Elements(mutex.todo) : p.handle = h})

\* The tracker's reference count is the driver's, but for the calls between
\* the two: a retain or a release the driver has yet to see, a creation the
\* tracker has yet to see.
CountsAgree ==
    leaks = None => \A h \in Pool :
        LET tracked == IF Tracked(h) THEN objects[h].refcount ELSE 0
            actual == IF DriverHas(h) THEN drv[h].refs ELSE 0
        IN  tracked + InFlight(h, "release") + Unregistered(h)
                = actual + InFlight(h, "retain")

\* The tracker knows no object that is dead for the driver, or another type
\* of object under the same handle: the record goes before the object does.
\* The one exception is NULL, which clGetImageInfo_wrap may record: it is
\* never referenced, neither by the application nor by a child.
TrackedIsAlive ==
    \A h \in Handles :
        Tracked(h) /\ frames[h] = None =>
            IF h = Null THEN objects[h].refcount = 0 /\ objects[h].num_children = 0
            ELSE Alive(h) /\ drv[h].type = objects[h].type

\* A record is kept by the records of objects made from it and of objects in
\* it, if it is a context: a wrapper never puts an object below one that the
\* driver does not keep for it, whatever query it is met in first
\* (clGetMemObjectInfo_wrap puts it below the object asked about).
ParentsAreAncestors ==
    \A h \in Handles :
        Tracked(h) /\ frames[h] = None =>
            \A p \in Elements(objects[h].parents) : p \in Ancestors(h)

\* What is listed at exit is what some thread still holds, no more, no less.
LeakReportExact ==
    leaks # None => leaks = {h \in Pool : \E t \in Threads : own[t][h] > 0}

\* Whatever a single-threaded application does, a call that passes the checks
\* reaches the driver with live objects of the right types, and a release
\* with a reference to give back.
DriverShielded ==
    \A t \in Threads : AtDriver(t) => SoundArguments(t, CheckedKinds)

\* The comment on derive_object_version: the object need not be in the map,
\* but any parent is.
ParentInMap ==
    [][\A h \in Handles :
         ~Tracked(h) /\ Tracked(h)' =>
            \A p \in Elements(objects'[h].parents) : Tracked(p)]_sysVars
=============================================================================
