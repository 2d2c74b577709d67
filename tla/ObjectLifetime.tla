--------------------------- MODULE ObjectLifetime ---------------------------
(***************************************************************************)
(* The tracker of the object-lifetime layer: the map `objects`, the map    *)
(* `deleted_objects` and the check_* functions every wrapped OpenCL entry  *)
(* point calls under objects_mutex (object_lifetime.cpp, lines 15-894).    *)
(*                                                                         *)
(* A check function is one action, except that the deletion of a record,   *)
(* which walks up the parents recursively, is one action per notified      *)
(* parent, with the mutex held from the call to the end of the walk.       *)
(* Threads only appear as the owner of the mutex and of a return value;    *)
(* the calls they make are in LayeredSystem.                               *)
(***************************************************************************)
EXTENDS Integers, Sequences, FiniteSets, FiniteSetsExt

CONSTANTS
    Handles,        \* the void* values the driver can hand out
    Threads,        \* the application's threads
    ParentLists,    \* the parent vectors the environment passes
    Types,          \* the object types the environment creates and names
    Versions,       \* OpenCL versions a platform reports: 12, 20, 21, ...
    Transparent,    \* settings.transparent
    MaxRefcount,    \* bound on the counts the environment drives up
    None            \* no record, no frame, NULL

VARIABLES
    objects,        \* handle -> its object_record, None when not in the map
    deleted,        \* handle -> type of its last deleted record, or None
    frames,         \* handle -> the loop over its parents, while one runs
    mutex,          \* objects_mutex: None, or who holds it and what is left
    ret,            \* thread -> what its last check returned
    leaks           \* None, or what report() listed at exit

vars == <<objects, deleted, frames, mutex, ret, leaks>>

ObjectTypes == {"PLATFORM", "DEVICE", "SUB_DEVICE", "CONTEXT", "COMMAND_QUEUE",
                "MEM", "BUFFER", "IMAGE", "PIPE", "PROGRAM", "KERNEL", "EVENT",
                "SAMPLER"}

\* Types that live as long as the program: no count is kept for them.
RootTypes == {"PLATFORM", "DEVICE"}

\* The record types a check for T accepts: T itself, except that OCL_MEM and
\* OCL_DEVICE stand for several types.
Accepted(T) ==
    CASE T = "MEM"    -> {"BUFFER", "IMAGE", "PIPE"}
      [] T = "DEVICE" -> {"DEVICE", "SUB_DEVICE"}
      [] OTHER        -> {T}

FALLBACK_VERSION == 20

NewObject == [type: ObjectTypes, refcount: {0, 1}, parents: ParentLists,
              reported: Versions]

Record == [type: ObjectTypes, version: Versions, refcount: Int,
           parents: ParentLists, num_children: Int]

Frame == [parents: ParentLists, next: Nat \ {0}]

Pending == [handle: Handles, new: NewObject]

Held == [owner: Threads, stack: Seq(Handles), todo: Seq(Pending)]

ASSUME HandlesAssumption == IsFiniteSet(Handles)
ASSUME ParentListsAssumption == ParentLists \subseteq Seq(Handles)
ASSUME NoParentsAssumption == <<>> \in ParentLists
ASSUME VersionsAssumption == FALLBACK_VERSION \in Versions /\ Versions \subseteq Nat
ASSUME TypesAssumption == Types \subseteq ObjectTypes
ASSUME BoundAssumption == MaxRefcount \in Nat
ASSUME TransparentAssumption == Transparent \in BOOLEAN
ASSUME NoneAssumption ==
    /\ None \notin Handles
    /\ None \notin Record
    /\ None \notin Frame
    /\ None \notin Held
    /\ \A hs \in SUBSET Handles : None # hs
    /\ None \notin Int

CL_SUCCESS == "CL_SUCCESS"

\* The error a check returns: object_errors[T], named here by T, or success
\* after the message has been logged when the layer is transparent.
Error(T) == IF Transparent THEN CL_SUCCESS ELSE T

Results == ObjectTypes \cup {CL_SUCCESS}

Tracked(h) == h \in Handles /\ objects[h] # None

IsCounted(rec) == rec.type \notin RootTypes

TrackedAs(T, h) == Tracked(h) /\ objects[h].type = T

Matches(T, h) == Tracked(h) /\ objects[h].type \in Accepted(T)

Counts(h) == Tracked(h) /\ IsCounted(objects[h])

Retained(h) == Tracked(h) /\ objects[h].refcount > 0

-----------------------------------------------------------------------------
(***************************************************************************)
(* Reading the map: check_exists and the test shared with check_retain.    *)
(***************************************************************************)

\* Fault: the OpenCL 1.2 half of the rule is forgotten.
CanUseDestroyed(rec, retain) == ~(rec.version >= 21 /\ ~retain)

\* A record whose explicit count is zero is kept by its children.  OpenCL up
\* to 1.2 has destroyed it, 2.0 lets it be used, 2.1 and later let it only be
\* retained.
CanUseInaccessible(rec, retain) ==
    ~(rec.version <= 12 \/ (rec.version >= 21 /\ ~retain))

Usable(rec, retain) ==
    \/ ~IsCounted(rec)
    \/ rec.refcount > 0
    \/ (rec.num_children > 0 /\ CanUseInaccessible(rec, retain))

\* Which object type a rejected use names.  The OCL_MEM check passes the type
\* it found as the expected one.
WrongTypeExpected(T, rec) == IF T = "MEM" THEN rec.type ELSE T

ExistsResult(T, h) ==
    CASE T = "PLATFORM" /\ h = None -> CL_SUCCESS
      [] ~Tracked(h) /\ ~(T = "PLATFORM" /\ h = None) -> Error(T)
      [] Tracked(h) /\ objects[h].type \notin Accepted(T) ->
            Error(WrongTypeExpected(T, objects[h]))
      [] Tracked(h) /\ objects[h].type \in Accepted(T) ->
            IF Usable(objects[h], FALSE) THEN CL_SUCCESS ELSE Error(objects[h].type)

Unlocked == mutex = None

Return(t, result) == ret' = [ret EXCEPT ![t] = result]

CheckExists(t, T, h) ==
    /\ Unlocked
    /\ Return(t, ExistsResult(T, h))
    /\ UNCHANGED <<objects, deleted, frames, mutex, leaks>>

\* The first handle of the list that fails decides; the mutex is taken once.
CheckExistList(t, T, hs) ==
    LET failing == {i \in DOMAIN hs : ExistsResult(T, hs[i]) # CL_SUCCESS}
    IN  /\ Unlocked
        /\ Return(t, IF failing = {} THEN CL_SUCCESS
                     ELSE ExistsResult(T, hs[Min(failing)]))
        /\ UNCHANGED <<objects, deleted, frames, mutex, leaks>>

-----------------------------------------------------------------------------
(***************************************************************************)
(* Deleting a record: delete_object_record and notify_child_released.      *)
(* A frame is one activation of the loop over a record's parents, `stack`  *)
(* the handles whose loops are running, innermost last.  The record that   *)
(* is deleted first stays in the map until its parents have been notified; *)
(* a parent that dies leaves the map before its own parents are notified.  *)
(***************************************************************************)

NewFrame(h) == [parents |-> objects[h].parents, next |-> 1]

\* `then` is what the caller inserts once the record of h is gone.
DeleteObjectRecord(t, h, then) ==
    /\ frames' = [frames EXCEPT ![h] = NewFrame(h)]
    /\ mutex' = [owner |-> t, stack |-> <<h>>, todo |-> then]

Deleting == mutex # None /\ mutex.stack # <<>>

Top == mutex.stack[Len(mutex.stack)]

TopFrame == frames[Top]

\* Faults: a parent whose last child goes is erased though it is referenced,
\* or is not erased at all; the loop does not get past a device.
NotifyErasesReferenced ==
    /\ Deleting
    /\ TopFrame.next <= Len(TopFrame.parents)
    /\ LET p == TopFrame.parents[TopFrame.next]
           advanced == [frames EXCEPT ![Top].next = @ + 1]
       IN  \/ /\ ~Counts(p)
              /\ frames' = advanced
              /\ UNCHANGED <<objects, deleted, mutex>>
           \/ /\ Counts(p) /\ objects[p].num_children # 1
              /\ objects' = [objects EXCEPT ![p].num_children = @ - 1]
              /\ frames' = advanced
              /\ UNCHANGED <<deleted, mutex>>
           \/ /\ Counts(p) /\ objects[p].num_children = 1
              /\ objects' = [objects EXCEPT ![p] = None]
              /\ deleted' = [deleted EXCEPT ![p] = objects[p].type]
              /\ frames' = [advanced EXCEPT ![p] = NewFrame(p)]
              /\ mutex' = [mutex EXCEPT !.stack = Append(@, p)]
    /\ UNCHANGED <<ret, leaks>>

NotifyNeverErases ==
    /\ Deleting
    /\ TopFrame.next <= Len(TopFrame.parents)
    /\ LET p == TopFrame.parents[TopFrame.next]
       IN  objects' = IF Counts(p) THEN [objects EXCEPT ![p].num_children = @ - 1]
                      ELSE objects
    /\ frames' = [frames EXCEPT ![Top].next = @ + 1]
    /\ UNCHANGED <<deleted, mutex, ret, leaks>>

NotifySticksAtRoot ==
    /\ Deleting
    /\ TopFrame.next <= Len(TopFrame.parents)
    /\ IF Counts(TopFrame.parents[TopFrame.next]) THEN NotifyNeverErases ELSE UNCHANGED vars

\* One parent of the innermost frame is told that a child of it is gone.
NotifyChildReleased ==
    /\ Deleting
    /\ TopFrame.next <= Len(TopFrame.parents)
    /\ LET p == TopFrame.parents[TopFrame.next]
           advanced == [frames EXCEPT ![Top].next = @ + 1]
           dies == /\ objects[p].refcount = 0
                   /\ objects[p].num_children = 1
       IN  \/ /\ ~Counts(p)
              /\ frames' = advanced
              /\ UNCHANGED <<objects, deleted, mutex>>
           \/ /\ Counts(p) /\ ~dies
              /\ objects' = [objects EXCEPT ![p].num_children = @ - 1]
              /\ frames' = advanced
              /\ UNCHANGED <<deleted, mutex>>
           \/ /\ Counts(p) /\ dies
              /\ objects' = [objects EXCEPT ![p] = None]
              /\ deleted' = [deleted EXCEPT ![p] = objects[p].type]
              /\ frames' = [advanced EXCEPT ![p] = NewFrame(p)]
              /\ mutex' = [mutex EXCEPT !.stack = Append(@, p)]
    /\ UNCHANGED <<ret, leaks>>

\* The loop of a parent that died is over: back to the loop that notified it.
ReturnToCaller ==
    /\ Deleting
    /\ TopFrame.next > Len(TopFrame.parents)
    /\ Len(mutex.stack) > 1
    /\ frames' = [frames EXCEPT ![Top] = None]
    /\ mutex' = [mutex EXCEPT !.stack = SubSeq(@, 1, Len(@) - 1)]
    /\ UNCHANGED <<objects, deleted, ret, leaks>>

-----------------------------------------------------------------------------
(***************************************************************************)
(* Inserting a record.                                                     *)
(***************************************************************************)

Occurrences(ps, p) == Cardinality({i \in DOMAIN ps : ps[i] = p})

\* Faults: a parent named twice is referenced once; a parent without explicit
\* references is not referenced.
ReferenceDistinctParents(objs, ps) ==
    [p \in Handles |->
        IF objs[p] # None /\ Occurrences(ps, p) > 0
        THEN IF IsCounted(objs[p]) THEN [objs[p] EXCEPT !.num_children = @ + 1] ELSE objs[p]
        ELSE objs[p]]

ReferenceRetainedParents(objs, ps) ==
    [p \in Handles |->
        IF objs[p] # None /\ Occurrences(ps, p) > 0
        THEN IF IsCounted(objs[p]) /\ objs[p].refcount > 0
             THEN [objs[p] EXCEPT !.num_children = @ + Occurrences(ps, p)] ELSE objs[p]
        ELSE objs[p]]

\* reference_parent for every element of the vector.
ReferenceParents(objs, ps) ==
    [p \in Handles |->
        IF objs[p] = None THEN None
        ELSE IF IsCounted(objs[p])
             THEN [objs[p] EXCEPT !.num_children = @ + Occurrences(ps, p)]
             ELSE objs[p]]

\* Fault: no fallback for an object without parents.
DeriveParentVersion(objs, new) ==
    IF new.type \in RootTypes THEN new.reported
    ELSE IF new.parents # <<>> /\ objs[new.parents[1]] # None
         THEN objs[new.parents[1]].version
         ELSE None

\* The platform answers for devices and platforms, the first parent otherwise.
DeriveVersion(objs, new) ==
    IF new.type \in RootTypes THEN new.reported
    ELSE IF new.parents # <<>> /\ objs[new.parents[1]] # None
         THEN objs[new.parents[1]].version
         ELSE FALLBACK_VERSION

NewRecord(objs, new) ==
    [type |-> new.type, version |-> DeriveVersion(objs, new),
     refcount |-> new.refcount, parents |-> new.parents, num_children |-> 0]

\* objects.insert does nothing when the key is there, and the parents that
\* are referenced are those of the record the map then holds.
InsertObject(objs, h, new) ==
    LET inserted == IF objs[h] # None THEN objs
                    ELSE [objs EXCEPT ![h] = NewRecord(objs, new)]
    IN  ReferenceParents(inserted, inserted[h].parents)

\* The mutex once the pending insertions are down to `rest`.
AfterInsertion(rest) ==
    IF rest = <<>> THEN None
    ELSE [owner |-> mutex.owner, stack |-> <<>>, todo |-> rest]

\* The outermost loop is over: its record leaves the map, and the object that
\* takes its handle, if there is one, enters.
FinishDelete ==
    /\ Deleting
    /\ TopFrame.next > Len(TopFrame.parents)
    /\ Len(mutex.stack) = 1
    /\ LET h == Top
           erased == [objects EXCEPT ![h] = None]
       IN  /\ deleted' = [deleted EXCEPT ![h] = objects[h].type]
           /\ frames' = [frames EXCEPT ![h] = None]
           /\ \/ /\ mutex.todo = <<>>
                 /\ objects' = erased
                 /\ mutex' = None
              \/ /\ mutex.todo # <<>>
                 /\ objects' = InsertObject(erased, h, Head(mutex.todo).new)
                 /\ mutex' = AfterInsertion(Tail(mutex.todo))
    /\ UNCHANGED <<ret, leaks>>

\* check_creation and check_creation_list: one mutex section for the list.
CheckCreationList(t, T, hs, ps) ==
    /\ Unlocked
    /\ mutex' = [owner |-> t, stack |-> <<>>,
                 todo |-> [i \in DOMAIN hs |->
                             [handle |-> hs[i],
                              new |-> [type |-> T, refcount |-> 1, parents |-> ps,
                                       reported |-> FALLBACK_VERSION]]]]
    /\ Return(t, CL_SUCCESS)
    /\ UNCHANGED <<objects, deleted, frames, leaks>>

CheckCreation(t, T, h, ps) == CheckCreationList(t, T, <<h>>, ps)

\* check_creation_no_lock on the next handle of the list.  A handle that is
\* still counted is an error: its record goes first.
CreateNext ==
    /\ mutex # None /\ mutex.stack = <<>>
    /\ LET next == Head(mutex.todo)
           t == mutex.owner
           rec == objects[next.handle]
       IN  \/ /\ Retained(next.handle)
              /\ Return(t, IF ret[t] = CL_SUCCESS THEN Error(rec.type) ELSE ret[t])
              /\ DeleteObjectRecord(t, next.handle, mutex.todo)
              /\ UNCHANGED objects
           \/ /\ ~Retained(next.handle)
              /\ objects' = InsertObject(objects, next.handle, next.new)
              /\ mutex' = AfterInsertion(Tail(mutex.todo))
              /\ UNCHANGED <<frames, ret>>
    /\ UNCHANGED <<deleted, leaks>>

-----------------------------------------------------------------------------
(***************************************************************************)
(* Records for handles the application met in a query, or that the driver  *)
(* returned again.                                                         *)
(***************************************************************************)

\* What both functions do with a handle that is absent or of another type.
AddOrReplace(t, h, new) ==
    \/ /\ ~Tracked(h)
       /\ objects' = InsertObject(objects, h, new)
       /\ Return(t, CL_SUCCESS)
       /\ UNCHANGED <<frames, mutex>>
    \/ /\ Tracked(h) /\ objects[h].type # new.type
       /\ Return(t, Error(objects[h].type))
       /\ DeleteObjectRecord(t, h, <<[handle |-> h, new |-> new]>>)
       /\ UNCHANGED objects

\* check_add_or_exists; check_creation on a platform or a device is the same
\* with no parents.
CheckAddOrExists(t, T, h, ps, reported) ==
    /\ Unlocked
    /\ \/ AddOrReplace(t, h, [type |-> T, refcount |-> 0, parents |-> ps,
                              reported |-> reported])
       \/ /\ TrackedAs(T, h)
          /\ Return(t, CL_SUCCESS)
          /\ UNCHANGED <<objects, frames, mutex>>
    /\ UNCHANGED <<deleted, leaks>>

\* Fault: the mutex is not taken.
CheckCreateOrExistsUnlocked(t, T, h, p) ==
    /\ \/ AddOrReplace(t, h, [type |-> T, refcount |-> 1, parents |-> <<p>>,
                              reported |-> FALLBACK_VERSION])
       \/ /\ TrackedAs(T, h)
          /\ Return(t, CL_SUCCESS)
          /\ objects' = [objects EXCEPT ![h].refcount = @ + 1]
          /\ UNCHANGED <<frames, mutex>>
    /\ UNCHANGED <<deleted, leaks>>

CheckCreateOrExists(t, T, h, p) ==
    /\ Unlocked
    /\ \/ AddOrReplace(t, h, [type |-> T, refcount |-> 1, parents |-> <<p>>,
                              reported |-> FALLBACK_VERSION])
       \/ /\ TrackedAs(T, h)
          /\ Return(t, CL_SUCCESS)
          /\ objects' = [objects EXCEPT ![h].refcount = @ + 1]
          /\ UNCHANGED <<frames, mutex>>
    /\ UNCHANGED <<deleted, leaks>>

-----------------------------------------------------------------------------
(***************************************************************************)
(* check_release, check_retain and report.                                 *)
(***************************************************************************)

\* Faults: the record is deleted below its children, one reference early or
\* never, or is erased before its parents are told; a release without a
\* reference to give back passes.
ReleaseIgnoresChildren(t, h) ==
    LET lowered == [objects EXCEPT ![h].refcount = @ - 1]
    IN  \/ /\ objects[h].refcount <= 0
           /\ Return(t, Error(objects[h].type))
           /\ UNCHANGED <<objects, frames, mutex>>
        \/ /\ objects[h].refcount > 1
           /\ Return(t, CL_SUCCESS)
           /\ objects' = lowered
           /\ UNCHANGED <<frames, mutex>>
        \/ /\ objects[h].refcount = 1
           /\ Return(t, CL_SUCCESS)
           /\ objects' = lowered
           /\ DeleteObjectRecord(t, h, <<>>)

ReleaseOneEarly(t, h) ==
    /\ Return(t, CL_SUCCESS)
    /\ objects' = [objects EXCEPT ![h].refcount = @ - 1]
    /\ \/ /\ objects[h].refcount > 2 \/ objects[h].num_children # 0
          /\ UNCHANGED <<frames, mutex>>
       \/ /\ objects[h].refcount <= 2 /\ objects[h].num_children = 0
          /\ DeleteObjectRecord(t, h, <<>>)

ReleaseKeepsRecord(t, h) ==
    /\ IF objects[h].refcount <= 0
       THEN Return(t, Error(objects[h].type)) /\ UNCHANGED objects
       ELSE Return(t, CL_SUCCESS) /\ objects' = [objects EXCEPT ![h].refcount = @ - 1]
    /\ UNCHANGED <<frames, mutex>>

ReleaseErasesFirst(t, h) ==
    /\ Return(t, CL_SUCCESS)
    /\ IF objects[h].refcount = 1 /\ objects[h].num_children = 0
       THEN /\ DeleteObjectRecord(t, h, <<>>)
            /\ objects' = [objects EXCEPT ![h] = None]
       ELSE /\ objects' = [objects EXCEPT ![h].refcount = @ - 1]
            /\ UNCHANGED <<frames, mutex>>

ReleaseUnguarded(t, h) ==
    LET lowered == [objects EXCEPT ![h].refcount = @ - 1]
    IN  /\ Return(t, CL_SUCCESS)
        /\ objects' = lowered
        /\ IF lowered[h].refcount = 0 /\ objects[h].num_children = 0
           THEN DeleteObjectRecord(t, h, <<>>)
           ELSE UNCHANGED <<frames, mutex>>

ReleaseObject(t, h) ==
    LET rec == objects[h]
        lowered == [objects EXCEPT ![h].refcount = @ - 1]
    IN  \/ /\ rec.refcount <= 0
           /\ Return(t, Error(rec.type))
           /\ UNCHANGED <<objects, frames, mutex>>
        \/ /\ rec.refcount > 1 \/ (rec.refcount = 1 /\ rec.num_children # 0)
           /\ Return(t, CL_SUCCESS)
           /\ objects' = lowered
           /\ UNCHANGED <<frames, mutex>>
        \/ /\ rec.refcount = 1 /\ rec.num_children = 0
           /\ Return(t, CL_SUCCESS)
           /\ objects' = lowered
           /\ DeleteObjectRecord(t, h, <<>>)

\* Fault: the mutex is not taken; of two deletions at once the walk of the
\* first is lost.
CheckReleaseUnlocked(t, T, h) ==
    /\ \/ /\ ~Matches(T, h)
          /\ Return(t, Error(T))
          /\ UNCHANGED <<objects, frames, mutex>>
       \/ /\ Matches(T, h)
          /\ IF IsCounted(objects[h]) THEN ReleaseObject(t, h)
             ELSE Return(t, CL_SUCCESS) /\ UNCHANGED <<objects, frames, mutex>>
    /\ UNCHANGED <<deleted, leaks>>

CheckRelease(t, T, h) ==
    /\ Unlocked
    /\ \/ /\ ~Matches(T, h)
          /\ Return(t, Error(T))
          /\ UNCHANGED <<objects, frames, mutex>>
       \/ /\ Matches(T, h)
          /\ ~IsCounted(objects[h])
          /\ Return(t, CL_SUCCESS)
          /\ UNCHANGED <<objects, frames, mutex>>
       \/ /\ Matches(T, h)
          /\ IsCounted(objects[h])
          /\ ReleaseObject(t, h)
    /\ UNCHANGED <<deleted, leaks>>

CheckRetain(t, T, h) ==
    /\ Unlocked
    /\ \/ /\ ~Matches(T, h)
          /\ Return(t, Error(T))
          /\ UNCHANGED objects
       \/ /\ Matches(T, h)
          /\ ~Usable(objects[h], TRUE)
          /\ Return(t, Error(objects[h].type))
          /\ UNCHANGED objects
       \/ /\ Matches(T, h)
          /\ Usable(objects[h], TRUE)
          /\ Return(t, CL_SUCCESS)
          /\ objects' = IF IsCounted(objects[h])
                        THEN [objects EXCEPT ![h].refcount = @ + 1]
                        ELSE objects
    /\ UNCHANGED <<deleted, frames, mutex, leaks>>

\* Fault: everything in the map is listed.
ReportAll ==
    /\ Unlocked
    /\ leaks = None
    /\ leaks' = {h \in Handles : Counts(h)}
    /\ objects' = [h \in Handles |-> None]
    /\ deleted' = [h \in Handles |-> None]
    /\ UNCHANGED <<frames, mutex, ret>>

\* Registered with atexit: lists what is still counted and empties both maps.
Report ==
    /\ Unlocked
    /\ leaks = None
    /\ leaks' = {h \in Handles : Retained(h)}
    /\ objects' = [h \in Handles |-> None]
    /\ deleted' = [h \in Handles |-> None]
    /\ UNCHANGED <<frames, mutex, ret>>

-----------------------------------------------------------------------------
(***************************************************************************)
(* The environment: any thread, any check, any arguments from the          *)
(* constants, except that a created handle is not the parent of a tracked  *)
(* record: no driver hands out the handle of an object others depend on.   *)
(***************************************************************************)

Init ==
    /\ objects = [h \in Handles |-> None]
    /\ deleted = [h \in Handles |-> None]
    /\ frames = [h \in Handles |-> None]
    /\ mutex = None
    /\ ret = [t \in Threads |-> CL_SUCCESS]
    /\ leaks = None

\* The thread that holds the mutex runs on.
Continue == NotifyChildReleased \/ ReturnToCaller \/ FinishDelete \/ CreateNext

Elements(s) == {s[i] : i \in DOMAIN s}

NoDependents(h) ==
    \A c \in Handles : Tracked(c) => h \notin Elements(objects[c].parents)

CreatedTypes == Types \ (RootTypes \cup {"MEM"})

HandleLists == {hs \in ParentLists : hs # <<>>}

\* Bound on num_children: nobody creates below a parent that has reached it.
CanAdopt == \A p \in Handles : Counts(p) => objects[p].num_children < MaxRefcount

CanCount(h) == Tracked(h) => objects[h].refcount < MaxRefcount

Query(t) ==
    \/ \E T \in Types, h \in Handles \cup {None} : CheckExists(t, T, h)
    \/ \E T \in Types, hs \in HandleLists : CheckExistList(t, T, hs)

Count(t) ==
    \E T \in Types \ {"PLATFORM"}, h \in Handles :
        \/ CheckRelease(t, T, h)
        \/ CanCount(h) /\ CheckRetain(t, T, h)

Create(t) ==
    /\ CanAdopt
    /\ \/ \E T \in CreatedTypes, hs \in HandleLists, ps \in ParentLists :
            /\ \A h \in Elements(hs) : (NoDependents(h) /\ h \notin Elements(ps))
            /\ CheckCreationList(t, T, hs, ps)
       \/ \E T \in Types \ {"MEM"}, h \in Handles, ps \in ParentLists, v \in Versions :
            /\ NoDependents(h) /\ h \notin Elements(ps)
            /\ T \in RootTypes => ps = <<>>
            /\ CheckAddOrExists(t, T, h, ps, v)
       \/ \E T \in CreatedTypes, h \in Handles, p \in Handles :
            /\ NoDependents(h) /\ CanCount(h) /\ p # h /\ <<p>> \in ParentLists
            /\ CheckCreateOrExists(t, T, h, p)

Next ==
    \/ Continue
    \/ Report
    \/ \E t \in Threads : Query(t) \/ Count(t) \/ Create(t)

Spec == Init /\ [][Next]_vars /\ WF_vars(Continue)

(***************************************************************************)
(* Parts of the state have their types.                                    *)
(***************************************************************************)
TypeOK ==
    /\ objects \in [Handles -> Record \cup {None}]
    /\ deleted \in [Handles -> ObjectTypes \cup {None}]
    /\ frames \in [Handles -> Frame \cup {None}]
    /\ mutex \in Held \cup {None}
    /\ ret \in [Threads -> Results]
    /\ leaks \in (SUBSET Handles) \cup {None}

-----------------------------------------------------------------------------
(***************************************************************************)
(* An object is alive until the deletion of its record begins.            *)
(* An edge is one element of a parents vector whose parent has not been    *)
(* told yet that the child is gone.                                        *)
(***************************************************************************)

InLife(h) == Counts(h) /\ frames[h] = None

ParentsOf(c) == IF frames[c] # None THEN frames[c].parents
                ELSE IF objects[c] # None THEN objects[c].parents
                ELSE <<>>

FirstOwed(c) == IF frames[c] # None THEN frames[c].next ELSE 1

Edges == UNION {{<<c, i>> : i \in FirstOwed(c)..Len(ParentsOf(c))} : c \in Handles}

ParentOf(e) == ParentsOf(e[1])[e[2]]

ChildEdges(p) == {e \in Edges : ParentOf(e) = p}

\* The loop of delete_object_record keeps an iterator to the record while the
\* walk below it erases other records: the record itself stays in the map.
IteratorStaysValid == Deleting => Tracked(mutex.stack[1])

\* Whatever handles the driver reuses and whatever the application names, a
\* record is never kept by fewer children than name it: a confused tracker
\* holds on to a parent too long, it does not forget it below its children.
ChildrenCovered ==
    \A p \in Handles :
        Counts(p) => objects[p].num_children >= Cardinality(ChildEdges(p))
=============================================================================
