------------------------ MODULE ObjectLifetimeProofs ------------------------
(***************************************************************************)
(* Type correctness of the tracker and the integrity of its walk up the    *)
(* parents, under arbitrary calls, for any number of handles and threads   *)
(* and parent vectors of any length.                                       *)
(***************************************************************************)
EXTENDS ObjectLifetime, TLAPS, FiniteSetTheorems

-----------------------------------------------------------------------------
(***************************************************************************)
(* The invariant.  The stack and the frames are the same thing; all loops  *)
(* but the outermost belong to records that have left the map, and the     *)
(* record of the outermost, which is still in it, cannot die: it is        *)
(* referenced, or has no child to lose, or nothing names it as a parent.   *)
(***************************************************************************)

Framed(h) == frames[h] # None

Unnamed(r) ==
    \A c \in Handles :
        /\ Tracked(c) => r \notin Elements(objects[c].parents)
        /\ Framed(c) => r \notin Elements(frames[c].parents)

Lasting(r) ==
    \/ objects[r].refcount > 0
    \/ objects[r].num_children <= 0
    \/ Unnamed(r)

StackIsFrames ==
    /\ \A i, j \in DOMAIN mutex.stack : mutex.stack[i] = mutex.stack[j] => i = j
    /\ \A h \in Handles :
         Framed(h) <=> \E i \in DOMAIN mutex.stack : mutex.stack[i] = h

OnlyRootTracked ==
    /\ \A i \in DOMAIN mutex.stack : i > 1 => ~Tracked(mutex.stack[i])
    /\ mutex.stack # <<>> => Tracked(mutex.stack[1]) /\ Lasting(mutex.stack[1])

WalkInv ==
    /\ mutex = None => \A h \in Handles : ~Framed(h)
    /\ mutex # None =>
         /\ mutex.stack # <<>> \/ mutex.todo # <<>>
         /\ StackIsFrames
         /\ OnlyRootTracked

Inv == TypeOK /\ WalkInv

-----------------------------------------------------------------------------
(***************************************************************************)
(* What the tracker's operators return.                                    *)
(***************************************************************************)

LEMMA OccurrencesType ==
    ASSUME NEW ps \in Seq(Handles), NEW p
    PROVE  Occurrences(ps, p) \in Nat
<1> DEFINE at == {i \in DOMAIN ps : ps[i] = p}
<1>1. IsFiniteSet(DOMAIN ps)
  BY FS_Interval
<1>2. IsFiniteSet(at)
  BY <1>1, FS_Subset
<1> QED
  BY <1>2, FS_CardinalityType DEF Occurrences

LEMMA ReferenceParentsType ==
    ASSUME NEW objs \in [Handles -> Record \cup {None}], NEW ps \in ParentLists
    PROVE  ReferenceParents(objs, ps) \in [Handles -> Record \cup {None}]
<1> SUFFICES ASSUME NEW p \in Handles, objs[p] # None
             PROVE  /\ objs[p] \in Record
                    /\ [objs[p] EXCEPT !.num_children = @ + Occurrences(ps, p)] \in Record
  BY DEF ReferenceParents
<1>1. Occurrences(ps, p) \in Nat
  BY OccurrencesType, ParentListsAssumption
<1>2. objs[p] \in Record
  OBVIOUS
<1> QED
  BY <1>1, <1>2 DEF Record

LEMMA NewRecordType ==
    ASSUME NEW objs \in [Handles -> Record \cup {None}], NEW new \in NewObject
    PROVE  NewRecord(objs, new) \in Record
<1>1. DeriveVersion(objs, new) \in Versions
  <2>1. CASE new.type \in RootTypes
    BY <2>1 DEF DeriveVersion, NewObject
  <2>2. CASE new.type \notin RootTypes /\ new.parents # <<>> /\ objs[new.parents[1]] # None
    <3>1. new.parents \in Seq(Handles)
      BY ParentListsAssumption DEF NewObject
    <3>2. new.parents[1] \in Handles
      BY <2>2, <3>1
    <3>3. objs[new.parents[1]] \in Record
      BY <2>2, <3>2
    <3> QED
      BY <2>2, <3>3 DEF DeriveVersion, Record
  <2>3. CASE new.type \notin RootTypes /\ ~(new.parents # <<>> /\ objs[new.parents[1]] # None)
    BY <2>3, VersionsAssumption DEF DeriveVersion
  <2> QED
    BY <2>1, <2>2, <2>3
<1> QED
  BY <1>1 DEF NewRecord, NewObject, Record

LEMMA InsertObjectType ==
    ASSUME NEW objs \in [Handles -> Record \cup {None}], NEW h \in Handles,
           NEW new \in NewObject
    PROVE  InsertObject(objs, h, new) \in [Handles -> Record \cup {None}]
<1> DEFINE inserted == IF objs[h] # None THEN objs
                       ELSE [objs EXCEPT ![h] = NewRecord(objs, new)]
<1>1. inserted \in [Handles -> Record \cup {None}] /\ inserted[h] \in Record
  BY NewRecordType
<1>2. inserted[h].parents \in ParentLists
  BY <1>1 DEF Record
<1> HIDE DEF inserted
<1>3. ReferenceParents(inserted, inserted[h].parents) \in [Handles -> Record \cup {None}]
  BY <1>1, <1>2, ReferenceParentsType
<1> QED
  BY <1>3 DEF InsertObject, inserted

LEMMA ExistsResultType ==
    ASSUME TypeOK, NEW T \in ObjectTypes, NEW h
    PROVE  ExistsResult(T, h) \in Results
<1>1. \A U \in ObjectTypes : Error(U) \in Results
  BY DEF Error, Results
<1>2. ASSUME Tracked(h)
      PROVE  objects[h].type \in ObjectTypes
  BY <1>2 DEF Tracked, TypeOK, Record
<1>3. Tracked(h) => Error(WrongTypeExpected(T, objects[h])) \in Results
  BY <1>1, <1>2 DEF WrongTypeExpected
<1> QED
  BY <1>1, <1>2, <1>3 DEF ExistsResult, Results

LEMMA NewFrameType ==
    ASSUME TypeOK, NEW h \in Handles, Tracked(h)
    PROVE  NewFrame(h) \in Frame
BY DEF TypeOK, Tracked, NewFrame, Frame, Record

\* A record that has lost a child.
LEMMA ChildLess ==
    ASSUME NEW rec \in Record, NEW less, less = [rec EXCEPT !.num_children = @ - 1]
    PROVE  /\ less \in Record
           /\ less.type = rec.type /\ less.version = rec.version
           /\ less.refcount = rec.refcount /\ less.parents = rec.parents
           /\ less.num_children = rec.num_children - 1 /\ rec.num_children \in Int
BY DEF Record

\* Fields of the mutex and of the innermost frame while the mutex is held.
LEMMA HeldType ==
    ASSUME TypeOK, mutex # None
    PROVE  /\ mutex \in Held
           /\ mutex.owner \in Threads
           /\ mutex.stack \in Seq(Handles)
           /\ mutex.todo \in Seq(Pending)
BY DEF TypeOK, Held

LEMMA AfterInsertionType ==
    ASSUME TypeOK, mutex # None, NEW rest \in Seq(Pending)
    PROVE  AfterInsertion(rest) \in Held \cup {None}
BY HeldType DEF AfterInsertion, Held

LEMMA ReturnType ==
    ASSUME TypeOK, NEW t \in Threads, NEW r \in Results, Return(t, r)
    PROVE  ret' \in [Threads -> Results]
BY DEF TypeOK, Return

LEMMA DeleteObjectRecordType ==
    ASSUME TypeOK, NEW t \in Threads, NEW h \in Handles, Tracked(h),
           NEW then \in Seq(Pending), DeleteObjectRecord(t, h, then)
    PROVE  /\ frames' \in [Handles -> Frame \cup {None}]
           /\ mutex' \in Held \cup {None}
<1>1. NewFrame(h) \in Frame
  BY NewFrameType
<1>2. frames' \in [Handles -> Frame \cup {None}]
  BY <1>1 DEF DeleteObjectRecord, TypeOK
<1>3. mutex' \in Held
  BY DEF DeleteObjectRecord, Held
<1> QED
  BY <1>2, <1>3

LEMMA AddOrReplaceType ==
    ASSUME TypeOK, NEW t \in Threads, NEW h \in Handles, NEW new \in NewObject,
           AddOrReplace(t, h, new)
    PROVE  /\ objects' \in [Handles -> Record \cup {None}]
           /\ frames' \in [Handles -> Frame \cup {None}]
           /\ mutex' \in Held \cup {None}
           /\ ret' \in [Threads -> Results]
<1> USE DEF TypeOK
<1>1. CASE /\ ~Tracked(h)
           /\ objects' = InsertObject(objects, h, new)
           /\ Return(t, CL_SUCCESS)
           /\ UNCHANGED <<frames, mutex>>
  BY <1>1, InsertObjectType, ReturnType DEF Results
<1>2. CASE /\ Tracked(h) /\ objects[h].type # new.type
           /\ Return(t, Error(objects[h].type))
           /\ DeleteObjectRecord(t, h, <<[handle |-> h, new |-> new]>>)
           /\ UNCHANGED objects
  <2>1. Error(objects[h].type) \in Results
    BY <1>2 DEF Tracked, Record, Error, Results
  <2>2. <<[handle |-> h, new |-> new]>> \in Seq(Pending)
    BY DEF Pending
  <2> QED
    BY <1>2, <2>1, <2>2, ReturnType, DeleteObjectRecordType
<1> QED
  BY <1>1, <1>2 DEF AddOrReplace

-----------------------------------------------------------------------------
(***************************************************************************)
(* Steps outside a walk.                                                   *)
(***************************************************************************)

\* A step that leaves the mutex free keeps the invariant of the walk.
LEMMA StaysUnlocked ==
    ASSUME WalkInv, Unlocked, UNCHANGED <<frames, mutex>>
    PROVE  WalkInv'
BY DEF WalkInv, Unlocked, Framed

\* A walk starts on a record that lasts.
LEMMA WalkStarts ==
    ASSUME NEW t \in Threads, NEW h \in Handles, NEW then \in Seq(Pending),
           frames \in [Handles -> Frame \cup {None}],
           \A g \in Handles : ~Framed(g), NewFrame(h) \in Frame,
           DeleteObjectRecord(t, h, then), Tracked(h)', Lasting(h)'
    PROVE  WalkInv'
<1>1. mutex' = [owner |-> t, stack |-> <<h>>, todo |-> then]
  BY DEF DeleteObjectRecord
<1>2. /\ mutex'.stack = <<h>>
      /\ DOMAIN mutex'.stack = {1}
      /\ mutex'.stack[1] = h
  BY <1>1
<1>3. frames' = [frames EXCEPT ![h] = NewFrame(h)]
  BY DEF DeleteObjectRecord
<1>4. StackIsFrames'
  BY <1>2, <1>3, NoneAssumption DEF StackIsFrames, Framed
<1>5. OnlyRootTracked'
  BY <1>2 DEF OnlyRootTracked
<1>6. mutex' \in Held
  BY <1>1 DEF Held
<1> QED
  BY <1>2, <1>4, <1>5, <1>6, NoneAssumption DEF WalkInv

-----------------------------------------------------------------------------
(***************************************************************************)
(* One lemma per action: it keeps the invariant.                           *)
(***************************************************************************)

LEMMA CheckExistsInv ==
    ASSUME Inv, NEW t \in Threads, NEW T \in ObjectTypes, NEW h,
           CheckExists(t, T, h)
    PROVE  Inv'
<1>1. ExistsResult(T, h) \in Results
  BY ExistsResultType DEF Inv
<1>2. TypeOK'
  BY <1>1, ReturnType DEF Inv, CheckExists, TypeOK
<1>3. WalkInv'
  BY StaysUnlocked DEF Inv, CheckExists
<1> QED
  BY <1>2, <1>3 DEF Inv

LEMMA CheckExistListInv ==
    ASSUME Inv, NEW t \in Threads, NEW T \in ObjectTypes, NEW hs,
           CheckExistList(t, T, hs)
    PROVE  Inv'
<1> DEFINE failing == {i \in DOMAIN hs : ExistsResult(T, hs[i]) # CL_SUCCESS}
           result == IF failing = {} THEN CL_SUCCESS ELSE ExistsResult(T, hs[Min(failing)])
<1>1. result \in Results
  BY ExistsResultType DEF Inv, Results
<1>2. Return(t, result) /\ UNCHANGED <<objects, deleted, frames, mutex, leaks>> /\ Unlocked
  BY DEF CheckExistList
<1> HIDE DEF result
<1>3. TypeOK'
  BY <1>1, <1>2, ReturnType DEF Inv, TypeOK
<1>4. WalkInv'
  BY <1>2, StaysUnlocked DEF Inv
<1> QED
  BY <1>3, <1>4 DEF Inv

LEMMA CheckCreationListInv ==
    ASSUME Inv, NEW t \in Threads, NEW T \in ObjectTypes,
           NEW hs \in Seq(Handles), hs # <<>>, NEW ps \in ParentLists,
           CheckCreationList(t, T, hs, ps)
    PROVE  Inv'
<1> DEFINE new == [type |-> T, refcount |-> 1, parents |-> ps,
                   reported |-> FALLBACK_VERSION]
           todo == [i \in DOMAIN hs |-> [handle |-> hs[i], new |-> new]]
<1>1. new \in NewObject
  BY VersionsAssumption DEF NewObject
<1>2. todo \in Seq(Pending) /\ todo # <<>>
  <2>1. \A i \in DOMAIN hs : [handle |-> hs[i], new |-> new] \in Pending
    BY <1>1 DEF Pending
  <2>2. DOMAIN hs = 1..Len(hs) /\ Len(hs) \in Nat /\ Len(hs) # 0
    OBVIOUS
  <2> QED
    BY <2>1, <2>2
<1>3. mutex' = [owner |-> t, stack |-> <<>>, todo |-> todo]
  BY DEF CheckCreationList
<1> HIDE DEF todo
<1>4. mutex' \in Held /\ mutex' # None
  <2>1. <<>> \in Seq(Handles)
    OBVIOUS
  <2>2. mutex' \in Held
    BY <1>2, <1>3, <2>1 DEF Held
  <2> QED
    BY <2>2, NoneAssumption
<1>5. TypeOK'
  <2>1. Return(t, CL_SUCCESS) /\ UNCHANGED <<objects, deleted, frames, leaks>>
    BY DEF CheckCreationList
  <2>2. ret' \in [Threads -> Results]
    BY <2>1, ReturnType DEF Inv, Results
  <2> QED
    BY <1>4, <2>1, <2>2 DEF Inv, TypeOK
<1>6. \A h \in Handles : ~Framed(h)
  BY DEF CheckCreationList, Unlocked, Inv, WalkInv
<1>7. \A h \in Handles : ~Framed(h)'
  BY <1>6 DEF CheckCreationList, Framed
<1>8. WalkInv'
  BY <1>2, <1>3, <1>4, <1>7 DEF WalkInv, StackIsFrames, OnlyRootTracked
<1> QED
  BY <1>5, <1>8 DEF Inv

\* A handle that is replaced is nobody's parent.
LEMMA AddOrReplaceInv ==
    ASSUME Inv, Unlocked, NEW t \in Threads, NEW h \in Handles, NEW new \in NewObject,
           Tracked(h) => NoDependents(h),
           AddOrReplace(t, h, new), UNCHANGED <<deleted, leaks>>
    PROVE  Inv'
<1>1. TypeOK'
  BY AddOrReplaceType DEF Inv, TypeOK
<1>2. CASE ~Tracked(h) /\ UNCHANGED <<frames, mutex>>
  BY <1>1, <1>2, StaysUnlocked DEF Inv
<1>3. CASE /\ Tracked(h) /\ UNCHANGED objects
           /\ DeleteObjectRecord(t, h, <<[handle |-> h, new |-> new]>>)
  <2>1. \A g \in Handles : ~Framed(g)
    BY DEF Inv, WalkInv, Unlocked
  <2>2. NewFrame(h) \in Frame
    BY <1>3, NewFrameType DEF Inv
  <2>3. frames' = [frames EXCEPT ![h] = NewFrame(h)]
    BY <1>3 DEF DeleteObjectRecord
  <2>4. Unnamed(h)'
    BY <1>3, <2>1, <2>3 DEF Unnamed, NoDependents, Tracked, Framed, NewFrame, Inv, TypeOK
  <2>5. <<[handle |-> h, new |-> new]>> \in Seq(Pending)
    BY DEF Pending
  <2>6. WalkInv'
    BY <1>3, <2>1, <2>2, <2>4, <2>5, WalkStarts DEF Inv, TypeOK, Tracked, Lasting
  <2> QED
    BY <1>1, <2>6 DEF Inv
<1> QED
  BY <1>2, <1>3 DEF AddOrReplace

LEMMA CheckAddOrExistsInv ==
    ASSUME Inv, NEW t \in Threads, NEW T \in ObjectTypes, NEW h \in Handles,
           NEW ps \in ParentLists, NEW v \in Versions,
           Tracked(h) /\ ~TrackedAs(T, h) => NoDependents(h),
           CheckAddOrExists(t, T, h, ps, v)
    PROVE  Inv'
<1> DEFINE new == [type |-> T, refcount |-> 0, parents |-> ps, reported |-> v]
<1>1. CASE TrackedAs(T, h) /\ Return(t, CL_SUCCESS) /\ UNCHANGED <<objects, frames, mutex>>
  <2>1. TypeOK'
    BY <1>1, ReturnType DEF CheckAddOrExists, Inv, TypeOK, Results
  <2> QED
    BY <1>1, <2>1, StaysUnlocked DEF CheckAddOrExists, Inv
<1>2. CASE AddOrReplace(t, h, new)
  <2>1. new \in NewObject
    BY DEF NewObject
  <2>2. ~TrackedAs(T, h)
    BY <1>2 DEF AddOrReplace, TrackedAs
  <2> QED
    BY <1>2, <2>1, <2>2, AddOrReplaceInv DEF CheckAddOrExists
<1> QED
  BY <1>1, <1>2 DEF CheckAddOrExists

LEMMA CheckCreateOrExistsInv ==
    ASSUME Inv, NEW t \in Threads, NEW T \in ObjectTypes, NEW h \in Handles,
           NEW p \in Handles, <<p>> \in ParentLists,
           Tracked(h) /\ ~TrackedAs(T, h) => NoDependents(h),
           CheckCreateOrExists(t, T, h, p)
    PROVE  Inv'
<1> DEFINE new == [type |-> T, refcount |-> 1, parents |-> <<p>>,
                   reported |-> FALLBACK_VERSION]
<1>1. CASE /\ TrackedAs(T, h) /\ Return(t, CL_SUCCESS)
           /\ objects' = [objects EXCEPT ![h].refcount = @ + 1]
           /\ UNCHANGED <<frames, mutex>>
  <2>1. objects[h] \in Record
    BY <1>1 DEF TrackedAs, Tracked, Inv, TypeOK
  <2>2. [objects[h] EXCEPT !.refcount = @ + 1] \in Record
    BY <2>1 DEF Record
  <2>3. objects' \in [Handles -> Record \cup {None}]
    BY <1>1, <2>2 DEF Inv, TypeOK
  <2>4. TypeOK'
    BY <1>1, <2>3, ReturnType DEF CheckCreateOrExists, Inv, TypeOK, Results
  <2> QED
    BY <1>1, <2>4, StaysUnlocked DEF CheckCreateOrExists, Inv
<1>2. CASE AddOrReplace(t, h, new)
  <2>1. new \in NewObject
    BY VersionsAssumption DEF NewObject
  <2>2. ~TrackedAs(T, h)
    BY <1>2 DEF AddOrReplace, TrackedAs
  <2> QED
    BY <1>2, <2>1, <2>2, AddOrReplaceInv DEF CheckCreateOrExists
<1> QED
  BY <1>1, <1>2 DEF CheckCreateOrExists

LEMMA CreateNextInv == Inv /\ CreateNext => Inv'
<1> SUFFICES ASSUME Inv, CreateNext,
                    NEW next, next = Head(mutex.todo),
                    NEW h, h = next.handle,
                    NEW t, t = mutex.owner
             PROVE  Inv'
  OBVIOUS
<1>1. /\ mutex # None /\ mutex.stack = <<>>
      /\ mutex.todo # <<>>
      /\ mutex \in Held /\ t \in Threads
      /\ mutex.todo \in Seq(Pending)
  BY HeldType DEF CreateNext, Inv, WalkInv
<1>2. next \in Pending /\ Tail(mutex.todo) \in Seq(Pending)
  BY <1>1
<1>3. h \in Handles /\ next.new \in NewObject
  BY <1>2 DEF Pending
<1>4. \A g \in Handles : ~Framed(g)
  BY <1>1 DEF Inv, WalkInv, StackIsFrames
<1>5. CASE /\ Retained(h)
           /\ Return(t, IF ret[t] = CL_SUCCESS THEN Error(objects[h].type) ELSE ret[t])
           /\ DeleteObjectRecord(t, h, mutex.todo)
           /\ UNCHANGED <<objects, deleted, leaks>>
  <2>1. Tracked(h) /\ objects[h] \in Record /\ objects[h].refcount > 0
    BY <1>3, <1>5 DEF Retained, Tracked, Inv, TypeOK
  <2>2. Error(objects[h].type) \in Results /\ ret[t] \in Results
    BY <1>1, <2>1 DEF Error, Results, Record, Inv, TypeOK
  <2>3. ret' \in [Threads -> Results]
    BY <1>1, <1>5, <2>2, ReturnType DEF Inv
  <2>4. /\ frames' \in [Handles -> Frame \cup {None}]
        /\ mutex' \in Held \cup {None}
    BY <1>1, <1>3, <1>5, <2>1, DeleteObjectRecordType DEF Inv
  <2>5. TypeOK'
    BY <1>5, <2>3, <2>4 DEF Inv, TypeOK
  <2>6. NewFrame(h) \in Frame
    BY <1>3, <2>1, NewFrameType DEF Inv
  <2>7. Tracked(h)' /\ Lasting(h)'
    BY <1>5, <2>1 DEF Tracked, Lasting
  <2>8. WalkInv'
    BY <1>1, <1>3, <1>4, <1>5, <2>6, <2>7, WalkStarts DEF Inv, TypeOK
  <2> QED
    BY <2>5, <2>8 DEF Inv
<1>6. CASE /\ objects' = InsertObject(objects, h, next.new)
           /\ mutex' = AfterInsertion(Tail(mutex.todo))
           /\ UNCHANGED <<frames, ret, deleted, leaks>>
  <2>1. objects' \in [Handles -> Record \cup {None}]
    BY <1>3, <1>6, InsertObjectType DEF Inv, TypeOK
  <2>2. mutex' \in Held \cup {None}
    BY <1>1, <1>2, <1>6, AfterInsertionType DEF Inv
  <2>3. TypeOK'
    BY <1>6, <2>1, <2>2 DEF Inv, TypeOK
  <2>4. mutex' # None => mutex'.stack = <<>> /\ mutex'.todo # <<>>
    BY <1>6 DEF AfterInsertion
  <2>5. WalkInv'
    BY <1>4, <1>6, <2>4 DEF WalkInv, StackIsFrames, OnlyRootTracked, Framed
  <2> QED
    BY <2>3, <2>5 DEF Inv
<1> QED
  BY <1>5, <1>6 DEF CreateNext

LEMMA CheckReleaseInv ==
    ASSUME Inv, NEW t \in Threads, NEW T \in ObjectTypes, NEW h \in Handles,
           CheckRelease(t, T, h)
    PROVE  Inv'
<1>0. Unlocked /\ UNCHANGED <<deleted, leaks>>
  BY DEF CheckRelease
<1>1. Error(T) \in Results /\ CL_SUCCESS \in Results
  BY DEF Error, Results
<1>2. CASE /\ \/ Return(t, Error(T)) \/ Return(t, CL_SUCCESS)
           /\ UNCHANGED <<objects, frames, mutex>>
  <2>1. ret' \in [Threads -> Results]
    BY <1>1, <1>2, ReturnType DEF Inv
  <2>2. TypeOK'
    BY <1>0, <1>2, <2>1 DEF Inv, TypeOK
  <2> QED
    BY <1>0, <1>2, <2>2, StaysUnlocked DEF Inv
<1>3. CASE Tracked(h) /\ ReleaseObject(t, h)
  <2>1. objects[h] \in Record
    BY <1>3 DEF Tracked, Inv, TypeOK
  <2>2. Error(objects[h].type) \in Results
    BY <2>1 DEF Error, Results, Record
  <2>3. ret' \in [Threads -> Results]
    BY <1>1, <1>3, <2>2, ReturnType DEF Inv, ReleaseObject
  <2>4. [objects[h] EXCEPT !.refcount = @ - 1] \in Record
    BY <2>1 DEF Record
  <2> DEFINE lowered == [objects EXCEPT ![h].refcount = @ - 1]
  <2>5. lowered \in [Handles -> Record \cup {None}]
    BY <2>4 DEF Inv, TypeOK
  <2>6. CASE objects' \in {objects, lowered} /\ UNCHANGED <<frames, mutex>>
    <3>1. TypeOK'
      BY <1>0, <2>3, <2>5, <2>6 DEF Inv, TypeOK
    <3> QED
      BY <1>0, <2>6, <3>1, StaysUnlocked DEF Inv
  <2>7. CASE /\ objects[h].num_children = 0
             /\ objects' = lowered
             /\ DeleteObjectRecord(t, h, <<>>)
    <3>1. <<>> \in Seq(Pending)
      OBVIOUS
    <3>2. /\ frames' \in [Handles -> Frame \cup {None}]
          /\ mutex' \in Held \cup {None}
      BY <1>3, <2>7, <3>1, DeleteObjectRecordType DEF Inv
    <3>3. TypeOK'
      BY <1>0, <2>3, <2>5, <2>7, <3>2 DEF Inv, TypeOK
    <3>4. \A g \in Handles : ~Framed(g)
      BY <1>0 DEF Inv, WalkInv, Unlocked
    <3>5. NewFrame(h) \in Frame
      BY <1>3, NewFrameType DEF Inv
    <3>6. objects'[h] = [objects[h] EXCEPT !.refcount = @ - 1]
      BY <2>7 DEF Inv, TypeOK
    <3>7. objects'[h].num_children = 0
      BY <2>1, <2>7, <3>6 DEF Record
    <3>8. Tracked(h)' /\ Lasting(h)'
      BY <2>4, <3>6, <3>7, NoneAssumption DEF Tracked, Lasting
    <3>9. WalkInv'
      BY <2>7, <3>1, <3>4, <3>5, <3>8, WalkStarts DEF Inv, TypeOK
    <3> QED
      BY <3>3, <3>9 DEF Inv
  <2> QED
    BY <1>3, <2>6, <2>7 DEF ReleaseObject
<1> QED
  BY <1>0, <1>2, <1>3 DEF CheckRelease, Matches

LEMMA CheckRetainInv ==
    ASSUME Inv, NEW t \in Threads, NEW T \in ObjectTypes, NEW h \in Handles,
           CheckRetain(t, T, h)
    PROVE  Inv'
<1>1. /\ Unlocked
      /\ UNCHANGED <<deleted, frames, mutex, leaks>>
  BY DEF CheckRetain
<1>2. Error(T) \in Results /\ CL_SUCCESS \in Results
  BY DEF Error, Results
<1>3. Tracked(h) => objects[h] \in Record /\ Error(objects[h].type) \in Results
  BY DEF Error, Results, Tracked, Record, Inv, TypeOK
<1>4. ret' \in [Threads -> Results]
  BY <1>2, <1>3, ReturnType DEF CheckRetain, Matches, Inv
<1>5. Tracked(h) => [objects[h] EXCEPT !.refcount = @ + 1] \in Record
  BY <1>3 DEF Record
<1>6. objects' \in [Handles -> Record \cup {None}]
  BY <1>5 DEF CheckRetain, Matches, Inv, TypeOK
<1>7. TypeOK'
  BY <1>1, <1>4, <1>6 DEF Inv, TypeOK
<1> QED
  BY <1>1, <1>7, StaysUnlocked DEF Inv

LEMMA ReportInv == Inv /\ Report => Inv'
<1> SUFFICES ASSUME Inv, Report PROVE Inv'
  OBVIOUS
<1>1. TypeOK'
  BY DEF Report, Inv, TypeOK
<1> QED
  BY <1>1, StaysUnlocked DEF Report, Inv

-----------------------------------------------------------------------------
(***************************************************************************)
(* Steps of a walk.                                                        *)
(***************************************************************************)

\* The innermost loop and the outermost one.
LEMMA WalkShape ==
    ASSUME Inv, Deleting
    PROVE  /\ mutex \in Held /\ mutex # None
           /\ mutex.stack \in Seq(Handles) /\ Len(mutex.stack) \in Nat \ {0}
           /\ mutex.stack[1] \in Handles /\ Tracked(mutex.stack[1])
           /\ Lasting(mutex.stack[1])
           /\ Top \in Handles /\ frames[Top] \in Frame
           /\ frames[Top].parents \in Seq(Handles)
           /\ frames[Top].next \in Nat \ {0}
<1>1. /\ mutex \in Held /\ mutex # None /\ mutex.stack # <<>>
      /\ mutex.stack \in Seq(Handles)
  BY HeldType DEF Deleting, Inv
<1>2. Len(mutex.stack) \in Nat \ {0} /\ DOMAIN mutex.stack = 1..Len(mutex.stack)
  BY <1>1
<1>3. Top \in Handles /\ mutex.stack[1] \in Handles
  BY <1>1, <1>2 DEF Top
<1>4. Framed(Top)
  BY <1>1, <1>2, <1>3 DEF Top, Inv, WalkInv, StackIsFrames
<1>5. frames[Top] \in Frame
  BY <1>3, <1>4 DEF Framed, Inv, TypeOK
<1>6. frames[Top].parents \in Seq(Handles) /\ frames[Top].next \in Nat \ {0}
  BY <1>5, ParentListsAssumption DEF Frame
<1>7. Tracked(mutex.stack[1]) /\ Lasting(mutex.stack[1])
  BY <1>1 DEF Inv, WalkInv, OnlyRootTracked
<1> QED
  BY <1>1, <1>2, <1>3, <1>5, <1>6, <1>7

\* Telling a parent never removes the record whose loop is the outermost: a
\* parent that dies is another one, and is not on the stack yet.
LEMMA NotifyInv == Inv /\ NotifyChildReleased => Inv'
<1> SUFFICES ASSUME Inv, NotifyChildReleased,
                    NEW top, top = Top,
                    NEW p, p = frames[top].parents[frames[top].next],
                    NEW r, r = mutex.stack[1],
                    NEW advanced, advanced = [frames EXCEPT ![top].next = @ + 1]
             PROVE  Inv'
  OBVIOUS
<1>1. Deleting /\ frames[top].next <= Len(frames[top].parents)
  BY DEF NotifyChildReleased, TopFrame
<1>2. /\ mutex \in Held /\ mutex # None
      /\ mutex.stack \in Seq(Handles) /\ Len(mutex.stack) \in Nat \ {0}
      /\ r \in Handles /\ Tracked(r) /\ Lasting(r)
      /\ top \in Handles /\ frames[top] \in Frame
      /\ frames[top].parents \in Seq(Handles) /\ frames[top].next \in Nat \ {0}
  BY <1>1, WalkShape
<1>3. p \in Handles /\ p \in Elements(frames[top].parents)
  BY <1>1, <1>2 DEF Elements
<1>4. /\ advanced \in [Handles -> Frame \cup {None}]
      /\ \A h \in Handles : advanced[h] # None <=> Framed(h)
      /\ \A h \in Handles : Framed(h) => advanced[h].parents = frames[h].parents
  <2>1. [frames[top] EXCEPT !.next = @ + 1] \in Frame
    BY <1>2 DEF Frame
  <2>2. [frames[top] EXCEPT !.next = @ + 1].parents = frames[top].parents
    BY <1>2 DEF Frame
  <2> QED
    BY <1>2, <2>1, <2>2, NoneAssumption DEF Inv, TypeOK, Framed
<1>5. /\ StackIsFrames /\ OnlyRootTracked
      /\ DOMAIN mutex.stack = 1..Len(mutex.stack) /\ mutex.stack # <<>>
  BY <1>2 DEF Inv, WalkInv
<1>6. UNCHANGED <<ret, leaks>>
  BY DEF NotifyChildReleased
<1>7. CASE ~Counts(p) /\ frames' = advanced /\ UNCHANGED <<objects, deleted, mutex>>
  <2>1. TypeOK'
    BY <1>4, <1>6, <1>7 DEF Inv, TypeOK
  <2>2. StackIsFrames'
    BY <1>4, <1>5, <1>7 DEF StackIsFrames, Framed
  <2>3. Lasting(r)'
    BY <1>2, <1>4, <1>7 DEF Lasting, Unnamed, Tracked, Framed
  <2>4. OnlyRootTracked'
    BY <1>2, <1>5, <1>7, <2>3 DEF OnlyRootTracked, Tracked
  <2> QED
    BY <1>2, <1>5, <1>7, <2>1, <2>2, <2>4 DEF Inv, WalkInv
<1>8. CASE /\ Counts(p)
           /\ objects' = [objects EXCEPT ![p].num_children = @ - 1]
           /\ frames' = advanced
           /\ UNCHANGED <<deleted, mutex>>
  <2>1. objects[p] \in Record
    BY <1>3, <1>8 DEF Counts, Tracked, Inv, TypeOK
  <2>2. /\ [objects[p] EXCEPT !.num_children = @ - 1] \in Record
        /\ objects'[p] = [objects[p] EXCEPT !.num_children = @ - 1]
    <3>1. [objects[p] EXCEPT !.num_children = @ - 1] \in Record
      BY <2>1, ChildLess
    <3>2. p \in Handles /\ objects \in [Handles -> Record \cup {None}]
      BY <1>3 DEF Inv, TypeOK
    <3> QED
      BY <1>8, <3>1, <3>2
  <2>3. /\ objects'[p].refcount = objects[p].refcount
        /\ objects'[p].parents = objects[p].parents
        /\ objects'[p].num_children = objects[p].num_children - 1
        /\ objects[p].num_children \in Int
    BY <2>1, <2>2 DEF Record
  <2>4. \A h \in Handles : h # p => objects'[h] = objects[h]
    BY <1>8 DEF Inv, TypeOK
  <2>5. \A h \in Handles : Tracked(h)' <=> Tracked(h)
    BY <1>8, <2>2, <2>4, NoneAssumption DEF Tracked, Counts
  <2>6. TypeOK'
    BY <1>4, <1>6, <1>8, <2>2, <2>4 DEF Inv, TypeOK
  <2>7. StackIsFrames'
    BY <1>4, <1>5, <1>8 DEF StackIsFrames, Framed
  <2>8. Unnamed(r) => Unnamed(r)'
    BY <1>4, <1>8, <2>3, <2>4, <2>5 DEF Unnamed, Framed
  <2>9. Lasting(r)'
    <3>1. CASE r = p
      BY <1>2, <2>3, <2>8, <3>1 DEF Lasting
    <3>2. CASE r # p
      BY <1>2, <2>4, <2>8, <3>2 DEF Lasting
    <3> QED
      BY <3>1, <3>2
  <2>10. OnlyRootTracked'
    BY <1>2, <1>5, <1>8, <2>5, <2>9 DEF OnlyRootTracked
  <2> QED
    BY <1>2, <1>5, <1>8, <2>6, <2>7, <2>10 DEF Inv, WalkInv
<1>9. CASE /\ Counts(p)
           /\ objects[p].refcount = 0 /\ objects[p].num_children = 1
           /\ objects' = [objects EXCEPT ![p] = None]
           /\ deleted' = [deleted EXCEPT ![p] = objects[p].type]
           /\ frames' = [advanced EXCEPT ![p] = NewFrame(p)]
           /\ mutex' = [mutex EXCEPT !.stack = Append(@, p)]
  <2>1. Tracked(p) /\ objects[p].type \in ObjectTypes /\ NewFrame(p) \in Frame
    BY <1>3, <1>9, NewFrameType DEF Counts, Tracked, Inv, TypeOK, Record
  <2>2. p # r
    <3>1. Unnamed(r) => r \notin Elements(frames[top].parents)
      BY <1>2, NoneAssumption DEF Unnamed, Framed
    <3> QED
      BY <1>3, <1>9, <1>2, <3>1 DEF Lasting
  <2>3. \A i \in DOMAIN mutex.stack : mutex.stack[i] # p
    BY <1>2, <1>5, <2>1, <2>2 DEF OnlyRootTracked
  <2>4. /\ mutex'.stack = Append(mutex.stack, p)
        /\ mutex' \in Held /\ mutex' # None
    <3>1. Append(mutex.stack, p) \in Seq(Handles)
      BY <1>2, <1>3
    <3>2. mutex' \in Held
      BY <1>2, <1>9, <3>1 DEF Held
    <3> QED
      BY <1>2, <1>9, <3>2, NoneAssumption DEF Held
  <2>5. /\ mutex'.stack \in Seq(Handles)
        /\ DOMAIN mutex'.stack = DOMAIN mutex.stack \cup {Len(mutex.stack) + 1}
        /\ \A i \in DOMAIN mutex.stack : mutex'.stack[i] = mutex.stack[i]
        /\ mutex'.stack[Len(mutex.stack) + 1] = p
        /\ mutex'.stack[1] = r
        /\ mutex'.stack # <<>>
    BY <1>2, <1>3, <1>5, <2>4
  <2>6. frames' \in [Handles -> Frame \cup {None}]
    BY <1>3, <1>4, <1>9, <2>1
  <2>7. \A h \in Handles : Framed(h)' <=> Framed(h) \/ h = p
    BY <1>3, <1>4, <1>9, <2>1, NoneAssumption DEF Framed
  <2>8. TypeOK'
    BY <1>3, <1>6, <1>9, <2>1, <2>4, <2>6 DEF Inv, TypeOK
  <2>9. StackIsFrames'
    <3>1. \A i, j \in DOMAIN mutex'.stack : mutex'.stack[i] = mutex'.stack[j] => i = j
      <4> SUFFICES ASSUME NEW i \in DOMAIN mutex'.stack, NEW j \in DOMAIN mutex'.stack,
                          mutex'.stack[i] = mutex'.stack[j]
                   PROVE  i = j
        OBVIOUS
      <4>1. CASE i \in DOMAIN mutex.stack /\ j \in DOMAIN mutex.stack
        BY <1>5, <2>5, <4>1 DEF StackIsFrames
      <4>2. CASE i = Len(mutex.stack) + 1 \/ j = Len(mutex.stack) + 1
        BY <1>2, <1>5, <2>3, <2>5, <4>2
      <4> QED
        BY <1>2, <1>5, <2>5, <4>1, <4>2
    <3>2. \A h \in Handles :
             Framed(h)' <=> \E i \in DOMAIN mutex'.stack : mutex'.stack[i] = h
      <4> SUFFICES ASSUME NEW h \in Handles
                   PROVE  Framed(h)' <=> \E i \in DOMAIN mutex'.stack : mutex'.stack[i] = h
        OBVIOUS
      <4>1. Framed(h) <=> \E i \in DOMAIN mutex.stack : mutex.stack[i] = h
        BY <1>5 DEF StackIsFrames
      <4>2. (\E i \in DOMAIN mutex'.stack : mutex'.stack[i] = h)
               <=> h = p \/ \E i \in DOMAIN mutex.stack : mutex.stack[i] = h
        BY <1>2, <1>5, <2>5
      <4> QED
        BY <2>7, <4>1, <4>2
    <3> QED
      BY <3>1, <3>2 DEF StackIsFrames
  <2>10. \A h \in Handles : /\ Tracked(h)' <=> Tracked(h) /\ h # p
                            /\ h # p => objects'[h] = objects[h]
    BY <1>3, <1>9 DEF Tracked, Inv, TypeOK
  <2>11. Unnamed(r) => Unnamed(r)'
    <3> SUFFICES ASSUME Unnamed(r), NEW c \in Handles
                 PROVE  /\ Tracked(c)' => r \notin Elements(objects'[c].parents)
                        /\ Framed(c)' => r \notin Elements(frames'[c].parents)
      BY DEF Unnamed
    <3>1. Tracked(c)' => r \notin Elements(objects'[c].parents)
      BY <2>10 DEF Unnamed
    <3>2. CASE c = p
      BY <1>3, <1>4, <1>9, <2>1, <3>1, <3>2 DEF Unnamed, NewFrame
    <3>3. CASE c # p
      BY <1>4, <1>9, <2>7, <3>1, <3>3 DEF Unnamed
    <3> QED
      BY <3>2, <3>3
  <2>12. Lasting(r)'
    BY <1>2, <2>2, <2>10, <2>11 DEF Lasting
  <2>13. OnlyRootTracked'
    <3>1. ASSUME NEW i \in DOMAIN mutex'.stack, i > 1
          PROVE  ~(mutex'.stack[i] \in Handles /\ objects'[mutex'.stack[i]] # None)
      <4>1. CASE i \in DOMAIN mutex.stack
        BY ZenonT(60), <1>2, <1>5, <2>5, <2>10, <3>1, <4>1 DEF OnlyRootTracked, Tracked
      <4>2. CASE i = Len(mutex.stack) + 1
        BY <1>3, <2>5, <2>10, <4>2 DEF Tracked
      <4> QED
        BY <2>5, <4>1, <4>2
    <3>2. Tracked(r)'
      BY <1>2, <2>2, <2>10
    <3> QED
      BY <2>5, <2>12, <3>1, <3>2 DEF OnlyRootTracked, Tracked
  <2> QED
    BY <2>4, <2>5, <2>8, <2>9, <2>13 DEF Inv, WalkInv
<1> QED
  BY <1>7, <1>8, <1>9 DEF NotifyChildReleased, TopFrame

\* The innermost loop is over: its frame goes with its place on the stack.
LEMMA ReturnToCallerInv == Inv /\ ReturnToCaller => Inv'
<1> SUFFICES ASSUME Inv, ReturnToCaller,
                    NEW n, n = Len(mutex.stack),
                    NEW top, top = Top,
                    NEW r, r = mutex.stack[1]
             PROVE  Inv'
  OBVIOUS
<1>1. Deleting /\ n > 1 /\ UNCHANGED <<objects, deleted, ret, leaks>>
  BY DEF ReturnToCaller
<1>2. /\ mutex \in Held /\ mutex # None
      /\ mutex.stack \in Seq(Handles) /\ n \in Nat \ {0}
      /\ Tracked(r) /\ Lasting(r)
      /\ top \in Handles /\ top = mutex.stack[n]
  BY <1>1, WalkShape DEF Top
<1>3. DOMAIN mutex.stack = 1..n /\ StackIsFrames /\ OnlyRootTracked
  BY <1>1, <1>2 DEF Inv, WalkInv
<1> DEFINE shorter == SubSeq(mutex.stack, 1, n - 1)
<1>4. /\ shorter \in Seq(Handles) /\ DOMAIN shorter = 1..(n - 1)
      /\ \A i \in 1..(n - 1) : shorter[i] = mutex.stack[i]
  BY <1>1, <1>2
<1>5. shorter # <<>> /\ shorter[1] = r
  <2>1. 1 \in 1..(n - 1)
    BY <1>1, <1>2
  <2>2. 1 \in DOMAIN shorter /\ shorter[1] = r
    BY <1>4, <2>1
  <2> HIDE DEF shorter
  <2> QED
    BY <2>2
<1>6. /\ mutex' = [mutex EXCEPT !.stack = shorter]
      /\ frames' = [frames EXCEPT ![top] = None]
  BY DEF ReturnToCaller
<1> HIDE DEF shorter
<1>7. /\ mutex' \in Held /\ mutex' # None /\ mutex'.stack = shorter
  <2>1. mutex' \in Held /\ mutex'.stack = shorter
    BY <1>2, <1>4, <1>6 DEF Held
  <2> QED
    BY <2>1, NoneAssumption
<1>8. TypeOK'
  BY <1>1, <1>2, <1>6, <1>7 DEF Inv, TypeOK
<1>9. \A h \in Handles : Framed(h)' <=> Framed(h) /\ h # top
  BY <1>2, <1>6 DEF Framed, Inv, TypeOK
<1>10. StackIsFrames'
  <2>1. \A i, j \in DOMAIN shorter : shorter[i] = shorter[j] => i = j
    BY <1>1, <1>2, <1>3, <1>4 DEF StackIsFrames
  <2>2. ASSUME NEW h \in Handles
        PROVE  Framed(h)' <=> \E i \in DOMAIN shorter : shorter[i] = h
    <3>1. ASSUME Framed(h)' PROVE \E i \in DOMAIN shorter : shorter[i] = h
      <4>1. PICK i \in 1..n : mutex.stack[i] = h
        BY <1>3, <1>9, <3>1 DEF StackIsFrames
      <4>2. i \in 1..(n - 1)
        BY <1>2, <1>9, <3>1, <4>1
      <4> QED
        BY <1>4, <4>1, <4>2
    <3>2. ASSUME NEW i \in DOMAIN shorter, shorter[i] = h PROVE Framed(h)'
      <4>1. i \in 1..n /\ i # n /\ mutex.stack[i] = h
        BY <1>2, <1>4, <3>2
      <4>2. h # top
        BY <1>2, <1>3, <4>1 DEF StackIsFrames
      <4> QED
        BY <1>3, <1>9, <4>1, <4>2 DEF StackIsFrames
    <3> QED
      BY <3>1, <3>2
  <2> QED
    BY <1>7, <2>1, <2>2 DEF StackIsFrames
<1>11. Lasting(r)'
  BY <1>1, <1>2, <1>6, <1>9 DEF Lasting, Unnamed, Tracked, Inv, TypeOK
<1>12. OnlyRootTracked'
  <2>1. \A i \in DOMAIN shorter : i > 1 => ~Tracked(shorter[i])
    BY <1>2, <1>3, <1>4 DEF OnlyRootTracked
  <2> QED
    BY <1>1, <1>2, <1>5, <1>7, <1>11, <2>1 DEF OnlyRootTracked, Tracked
<1> QED
  BY <1>5, <1>7, <1>8, <1>10, <1>12 DEF Inv, WalkInv

\* The outermost loop is over when it is the only one: no frame is left.
LEMMA FinishDeleteInv == Inv /\ FinishDelete => Inv'
<1> SUFFICES ASSUME Inv, FinishDelete,
                    NEW h, h = Top,
                    NEW erased, erased = [objects EXCEPT ![h] = None]
             PROVE  Inv'
  OBVIOUS
<1>1. /\ Deleting /\ Len(mutex.stack) = 1
      /\ deleted' = [deleted EXCEPT ![h] = objects[h].type]
      /\ frames' = [frames EXCEPT ![h] = None]
      /\ UNCHANGED <<ret, leaks>>
  BY DEF FinishDelete
<1>2. /\ mutex \in Held /\ mutex # None
      /\ mutex.stack \in Seq(Handles) /\ mutex.todo \in Seq(Pending)
      /\ h \in Handles /\ h = mutex.stack[1] /\ Tracked(h)
  BY <1>1, WalkShape, HeldType DEF Top, Inv
<1>3. objects[h].type \in ObjectTypes
  BY <1>2 DEF Tracked, Inv, TypeOK, Record
<1>4. erased \in [Handles -> Record \cup {None}]
  BY DEF Inv, TypeOK
<1>5. /\ deleted' \in [Handles -> ObjectTypes \cup {None}]
      /\ frames' \in [Handles -> Frame \cup {None}]
  BY <1>1, <1>3 DEF Inv, TypeOK
<1>6. \A g \in Handles : ~Framed(g)'
  <2>1. DOMAIN mutex.stack = {1}
    BY <1>1, <1>2
  <2>2. \A g \in Handles : Framed(g) => g = h
    BY <1>2, <2>1 DEF Inv, WalkInv, StackIsFrames
  <2> QED
    BY <1>1, <1>2, <2>2 DEF Framed, Inv, TypeOK
<1>7. CASE objects' = erased /\ mutex' = None
  <2>1. TypeOK'
    BY <1>1, <1>4, <1>5, <1>7 DEF Inv, TypeOK
  <2> QED
    BY <1>6, <1>7, <2>1 DEF Inv, WalkInv
<1>8. CASE /\ mutex.todo # <<>>
           /\ objects' = InsertObject(erased, h, Head(mutex.todo).new)
           /\ mutex' = AfterInsertion(Tail(mutex.todo))
  <2>1. Head(mutex.todo) \in Pending /\ Tail(mutex.todo) \in Seq(Pending)
    BY <1>2, <1>8
  <2>2. Head(mutex.todo).new \in NewObject
    BY <2>1 DEF Pending
  <2>3. objects' \in [Handles -> Record \cup {None}]
    BY <1>2, <1>4, <1>8, <2>2, InsertObjectType
  <2>4. mutex' \in Held \cup {None}
    BY <1>2, <1>8, <2>1, AfterInsertionType DEF Inv
  <2>5. TypeOK'
    BY <1>1, <1>5, <2>3, <2>4 DEF Inv, TypeOK
  <2>6. mutex' # None => mutex'.stack = <<>> /\ mutex'.todo # <<>>
    BY <1>8 DEF AfterInsertion
  <2>7. WalkInv'
    BY <1>6, <2>6 DEF WalkInv, StackIsFrames, OnlyRootTracked
  <2> QED
    BY <2>5, <2>7 DEF Inv
<1> QED
  BY <1>7, <1>8 DEF FinishDelete

-----------------------------------------------------------------------------
(***************************************************************************)
(* The theorems.                                                           *)
(***************************************************************************)

LEMMA InitInv == Init => Inv
<1> SUFFICES ASSUME Init PROVE Inv
  OBVIOUS
<1>1. TypeOK
  BY DEF Init, TypeOK, Results
<1>2. WalkInv
  BY DEF Init, WalkInv, Framed
<1> QED
  BY <1>1, <1>2 DEF Inv

LEMMA ContinueInv == Inv /\ Continue => Inv'
BY NotifyInv, ReturnToCallerInv, FinishDeleteInv, CreateNextInv DEF Continue

LEMMA QueryInv == ASSUME Inv, NEW t \in Threads, Query(t) PROVE Inv'
BY CheckExistsInv, CheckExistListInv, TypesAssumption DEF Query

LEMMA CountInv == ASSUME Inv, NEW t \in Threads, Count(t) PROVE Inv'
BY CheckReleaseInv, CheckRetainInv, TypesAssumption DEF Count

LEMMA StutterInv == Inv /\ UNCHANGED vars => Inv'
BY DEF vars, Inv, TypeOK, WalkInv, StackIsFrames, OnlyRootTracked, Lasting, Unnamed,
       Framed, Tracked

LEMMA CreateInv == ASSUME Inv, NEW t \in Threads, Create(t) PROVE Inv'
<1>1. CASE \E T \in CreatedTypes, hs \in HandleLists, ps \in ParentLists :
              CheckCreationList(t, T, hs, ps)
  BY <1>1, CheckCreationListInv, ParentListsAssumption, TypesAssumption
     DEF CreatedTypes, HandleLists
<1>2. CASE \E T \in Types \ {"MEM"}, h \in Handles, ps \in ParentLists, v \in Versions :
              NoDependents(h) /\ CheckAddOrExists(t, T, h, ps, v)
  BY <1>2, CheckAddOrExistsInv, TypesAssumption
<1>3. CASE \E T \in CreatedTypes, h \in Handles, p \in Handles :
              NoDependents(h) /\ <<p>> \in ParentLists /\ CheckCreateOrExists(t, T, h, p)
  BY <1>3, CheckCreateOrExistsInv, TypesAssumption DEF CreatedTypes
<1> QED
  BY <1>1, <1>2, <1>3 DEF Create

LEMMA NextInv == Inv /\ [Next]_vars => Inv'
BY ContinueInv, ReportInv, QueryInv, CountInv, CreateInv, StutterInv DEF Next

THEOREM TrackerInvariant == Spec => []Inv
<1> QED
  BY InitInv, NextInv, PTL DEF Spec

\* Whatever the calls, every part of the tracker's state keeps its type: no
\* record, loop, return value or pending creation is ever malformed.
THEOREM TrackerTypeCorrect == Spec => []TypeOK
<1>1. Inv => TypeOK
  BY DEF Inv
<1> QED
  BY <1>1, TrackerInvariant, PTL

\* The record whose deletion began stays in the map until its own loop ends,
\* however deep the recursion goes and whatever else it erases.
THEOREM TrackerIteratorValid == Spec => []IteratorStaysValid
<1>1. Inv => IteratorStaysValid
  BY DEF Inv, WalkInv, OnlyRootTracked, IteratorStaysValid, Deleting
<1> QED
  BY <1>1, TrackerInvariant, PTL
=============================================================================
