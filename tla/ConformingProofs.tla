-------------------------- MODULE ConformingProofs --------------------------
(***************************************************************************)
(* Behind a conforming driver the tracker is exact: num_children counts    *)
(* the edges, no record outlives its parents, none stays without a reason  *)
(* and none goes while there is one.  The four invariants support each     *)
(* other and are proved together, from the invariant of the walk.          *)
(***************************************************************************)
EXTENDS ConformingLifetime, ChildrenProofs

-----------------------------------------------------------------------------
(***************************************************************************)
(* The invariant.  What is true of one handle at any time, also in the     *)
(* middle of a walk; and what is pending is new, refers to parents in the  *)
(* map and never waits for a deletion.  The handles in Inert may have      *)
(* records that nothing keeps; this module has none, a layer records NULL. *)
(***************************************************************************)

NodeOK(h, Inert) ==
    /\ ~Tracked(h) => ChildEdges(h) = {}
    /\ Counts(h) => objects[h].num_children = Cardinality(ChildEdges(h))
    /\ Tracked(h) => objects[h].refcount >= 0
    /\ Counts(h) /\ ~Framed(h) =>
         objects[h].refcount > 0 \/ objects[h].num_children > 0 \/ h \in Inert
    /\ Tracked(h) /\ Framed(h) => objects[h].refcount = 0 /\ ChildEdges(h) = {}

GraphOK(Inert) == \A h \in Handles : NodeOK(h, Inert)

PendingFresh ==
    mutex # None =>
        /\ mutex.stack # <<>> => mutex.todo = <<>>
        /\ \A i \in DOMAIN mutex.todo :
             /\ ~Tracked(mutex.todo[i].handle)
             /\ mutex.todo[i].new.refcount = 1
             /\ mutex.todo[i].new.type \notin RootTypes
             /\ AllTracked(mutex.todo[i].new.parents)
        /\ \A i, j \in DOMAIN mutex.todo :
             mutex.todo[i].handle = mutex.todo[j].handle => i = j

ExactInv(Inert) == Inv /\ GraphOK(Inert) /\ PendingFresh

-----------------------------------------------------------------------------
(***************************************************************************)
(* Steps seen from one handle.                                             *)
(***************************************************************************)

LEMMA ChildEdgesFiniteToo == TypeOK => \A q : IsFiniteSet(ChildEdges(q))
BY ChildEdgesFinite

LEMMA FiniteAfter == TypeOK' => \A q : IsFiniteSet(ChildEdges(q)')
<1>1. TypeOK' => (\A q : IsFiniteSet(ChildEdges(q)))'
  BY ChildEdgesFiniteToo, PTL
<1> QED
  BY <1>1

LEMMA NodeKept ==
    ASSUME NEW Inert, NEW q, NodeOK(q, Inert), ChildEdges(q)' = ChildEdges(q),
           objects'[q] = objects[q], Framed(q)' <=> Framed(q)
    PROVE  NodeOK(q, Inert)'
BY DEF NodeOK, Counts, Tracked

LEMMA NotOccurring ==
    ASSUME NEW ps \in Seq(Handles), NEW q, q \notin Elements(ps)
    PROVE  Occurrences(ps, q) = 0
<1>1. {i \in DOMAIN ps : ps[i] = q} = {}
  BY DEF Elements
<1> QED
  BY <1>1, FS_EmptySet DEF Occurrences

LEMMA UntrackedNotNamed ==
    ASSUME NEW ps, AllTracked(ps), NEW q, ~Tracked(q)
    PROVE  q \notin Elements(ps)
BY DEF AllTracked, Elements

\* A new record below parents that are in the map.
LEMMA InsertExact ==
    ASSUME NEW Inert, Inv, GraphOK(Inert), TypeOK', NEW h \in Handles, NEW new \in NewObject,
           ~Tracked(h), \A g \in Handles : ~Framed(g), UNCHANGED frames,
           AllTracked(new.parents),
           new.refcount = 1 \/ new.type \in RootTypes \/ h \in Inert,
           objects' = InsertObject(objects, h, new)
    PROVE  GraphOK(Inert)' /\ \A g \in Handles : Tracked(g)' <=> Tracked(g) \/ g = h
<1> DEFINE ps == new.parents
<1>1. /\ TypeOK /\ objects \in [Handles -> Record \cup {None}] /\ objects[h] = None
      /\ \A g \in Handles : ~Framed(g)'
      /\ \A g \in Handles \ {h} : objects[g] = objects[g] /\ ~Framed(g)
  BY DEF Inv, TypeOK, Tracked, Framed
<1>2. Owed(h) = {}
  <2>1. ParentsOf(h) = <<>> /\ FirstOwed(h) = 1
    BY <1>1 DEF ParentsOf, FirstOwed, Framed
  <2> QED
    BY <2>1 DEF Owed
<1>3. ps \in Seq(Handles)
  BY ParentListsAssumption DEF NewObject
<1>4. \A q : Cardinality(ChildEdges(q)') = Cardinality(ChildEdges(q)) + Occurrences(ps, q)
  BY <1>1, <1>2, InsertEdges
<1>5. \A q \in Handles \ {h} :
        /\ Tracked(q)' <=> Tracked(q)
        /\ Tracked(q) =>
             /\ objects'[q].type = objects[q].type
             /\ objects'[q].refcount = objects[q].refcount
             /\ IsCounted(objects[q]) =>
                  objects'[q].num_children = objects[q].num_children + Occurrences(ps, q)
  BY <1>1, <1>2, InsertEdges
<1>6. /\ Tracked(h)'
      /\ objects'[h].type = new.type
      /\ objects'[h].refcount = new.refcount
      /\ IsCounted(objects'[h]) => objects'[h].num_children = Occurrences(ps, h)
  BY <1>1, <1>2, InsertEdges
<1>7. \A q : Occurrences(ps, q) \in Nat /\ IsFiniteSet(ChildEdges(q)')
  BY <1>3, OccurrencesType, FiniteAfter
<1>8. ASSUME NEW q \in Handles \ {h}
      PROVE  NodeOK(q, Inert)'
  <2>1. NodeOK(q, Inert) /\ ~Framed(q) /\ ~Framed(q)'
    BY <1>1 DEF GraphOK
  <2>2. CASE ~Tracked(q)
    <3>1. Cardinality(ChildEdges(q)') = 0
      <4>1. q \notin Elements(ps)
        BY <2>2, UntrackedNotNamed
      <4>2. Occurrences(ps, q) = 0
        BY <1>3, <4>1, NotOccurring
      <4>3. Cardinality(ChildEdges(q)) = 0
        BY <2>1, <2>2, FS_EmptySet DEF NodeOK
      <4> QED
        BY <1>4, <4>2, <4>3
    <3>2. ChildEdges(q)' = {}
      BY <1>7, <3>1, FS_EmptySet
    <3>3. ~Tracked(q)'
      BY <1>5, <2>2
    <3> QED
      BY <3>2, <3>3 DEF NodeOK, Counts
  <2>3. CASE Tracked(q)
    <3>1. objects[q] \in Record
      BY <1>1, <2>3 DEF Tracked
    <3>2. /\ Tracked(q)' /\ objects'[q].refcount = objects[q].refcount
          /\ Counts(q)' <=> Counts(q)
          /\ Counts(q) => objects'[q].num_children = objects[q].num_children + Occurrences(ps, q)
      BY <1>5, <2>3 DEF Counts, IsCounted
    <3>3. /\ objects[q].refcount >= 0
          /\ Counts(q) => /\ objects[q].num_children = Cardinality(ChildEdges(q))
                          /\ \/ objects[q].refcount > 0 \/ objects[q].num_children > 0
                             \/ q \in Inert
      BY <2>1, <2>3 DEF NodeOK
    <3>4. /\ objects[q].num_children \in Int /\ objects[q].refcount \in Int
          /\ Occurrences(ps, q) \in Nat
          /\ Cardinality(ChildEdges(q)') = Cardinality(ChildEdges(q)) + Occurrences(ps, q)
      BY <1>4, <1>7, <3>1 DEF Record
    <3>5. Counts(q)' => /\ objects'[q].num_children = Cardinality(ChildEdges(q)')
                        /\ \/ objects'[q].refcount > 0 \/ objects'[q].num_children > 0
                           \/ q \in Inert
      BY <3>2, <3>3, <3>4
    <3> QED
      BY <2>1, <3>2, <3>3, <3>5 DEF NodeOK
  <2> QED
    BY <2>2, <2>3
<1>9. NodeOK(h, Inert)'
  <2>1. Occurrences(ps, h) = 0
    BY <1>3, NotOccurring, UntrackedNotNamed
  <2>2. Cardinality(ChildEdges(h)') = 0
    <3>1. ChildEdges(h) = {}
      BY DEF GraphOK, NodeOK
    <3>2. Cardinality(ChildEdges(h)) = 0
      BY <3>1, FS_EmptySet
    <3> QED
      BY <1>4, <2>1, <3>2
  <2>3. objects'[h].refcount >= 0
    <3>1. new.refcount \in {0, 1}
      BY DEF NewObject
    <3> QED
      BY <1>6, <3>1
  <2>4. ASSUME Counts(h)'
        PROVE  /\ objects'[h].num_children = Cardinality(ChildEdges(h)')
               /\ objects'[h].refcount > 0 \/ h \in Inert
    <3>1. IsCounted(objects'[h]) /\ new.type \notin RootTypes
      BY <1>6, <2>4 DEF Counts, IsCounted
    <3> QED
      BY <1>6, <2>1, <2>2, <3>1
  <2> QED
    BY <1>1, <1>6, <2>3, <2>4 DEF NodeOK
<1> QED
  BY <1>5, <1>6, <1>8, <1>9 DEF GraphOK

-----------------------------------------------------------------------------
(***************************************************************************)
(* One lemma per action.                                                   *)
(***************************************************************************)

LEMMA SameFacts ==
    ASSUME UNCHANGED <<objects, frames>>
    PROVE  /\ \A q : ChildEdges(q)' = ChildEdges(q)
           /\ \A q : Framed(q)' <=> Framed(q)
           /\ \A q : Tracked(q)' <=> Tracked(q)
BY DEF ChildEdges, Edges, ParentOf, ParentsOf, FirstOwed, Framed, Tracked

LEMMA GraphUntouched ==
    ASSUME NEW Inert, GraphOK(Inert), UNCHANGED <<objects, frames>>
    PROVE  GraphOK(Inert)'
<1>1. ASSUME NEW q \in Handles
      PROVE  NodeOK(q, Inert)'
  <2>1. NodeOK(q, Inert)
    BY DEF GraphOK
  <2>2. ChildEdges(q)' = ChildEdges(q) /\ (Framed(q)' <=> Framed(q))
    BY SameFacts
  <2> QED
    BY <2>1, <2>2, NodeKept
<1> QED
  BY <1>1 DEF GraphOK

LEMMA IdleExact ==
    ASSUME NEW Inert, ExactInv(Inert), Inv', UNCHANGED <<objects, frames, mutex>>
    PROVE  ExactInv(Inert)'
<1>1. GraphOK(Inert)'
  BY GraphUntouched DEF ExactInv
<1>2. PendingFresh'
  BY DEF ExactInv, PendingFresh, AllTracked, Tracked
<1> QED
  BY <1>1, <1>2 DEF ExactInv

LEMMA CheckExistsExact ==
    ASSUME NEW Inert, ExactInv(Inert), NEW t \in Threads, NEW T \in ObjectTypes, NEW h,
           CheckExists(t, T, h)
    PROVE  ExactInv(Inert)'
BY CheckExistsInv, IdleExact DEF CheckExists, ExactInv

LEMMA CheckExistListExact ==
    ASSUME NEW Inert, ExactInv(Inert), NEW t \in Threads, NEW T \in ObjectTypes, NEW hs,
           CheckExistList(t, T, hs)
    PROVE  ExactInv(Inert)'
BY CheckExistListInv, IdleExact DEF CheckExistList, ExactInv

\* The count of one record changes outside a walk.  If it drops to zero the
\* record has a child left, or its deletion begins.
LEMMA RecountExact ==
    ASSUME NEW Inert, ExactInv(Inert), Inv', Unlocked,
           NEW h \in Handles, Counts(h), NEW n \in Nat, NEW t,
           objects' = [objects EXCEPT ![h] = [@ EXCEPT !.refcount = n]],
           \/ UNCHANGED <<frames, mutex>> /\ (n > 0 \/ objects[h].num_children # 0)
           \/ DeleteObjectRecord(t, h, <<>>) /\ n = 0 /\ objects[h].num_children = 0
    PROVE  ExactInv(Inert)'
<1>1. /\ TypeOK /\ objects[h] \in Record /\ Tracked(h)
      /\ \A g \in Handles : ~Framed(g)
  BY DEF ExactInv, Inv, WalkInv, TypeOK, Counts, Tracked, Unlocked
<1>2. SameRecords
  <2>1. n \in Int
    OBVIOUS
  <2> QED
    BY <1>1, <2>1, RecountedSame
<1>3. \A g \in Handles \ {h} : objects'[g] = objects[g] /\ ~Framed(g)'
  BY <1>1 DEF TypeOK, Framed, DeleteObjectRecord
<1>4. ASSUME NEW g \in Handles, Framed(g)'
      PROVE  Tracked(g) /\ frames'[g] = NewFrame(g)
  <2>1. g = h
    BY <1>3, <1>4
  <2>2. frames' # frames
    BY <1>1, <1>4 DEF Framed
  <2>3. frames' = [frames EXCEPT ![h] = NewFrame(h)]
    BY <2>2 DEF DeleteObjectRecord
  <2> QED
    BY <1>1, <2>1, <2>3 DEF TypeOK
<1>5. \A q : ChildEdges(q)' = ChildEdges(q)
  BY <1>1, <1>2, <1>4, EdgesOutsideWalk DEF SameRecords
<1>6. \A q \in Handles \ {h} : NodeOK(q, Inert)'
  BY <1>1, <1>3, <1>5, NodeKept DEF ExactInv, GraphOK
<1>7. /\ objects[h].num_children = Cardinality(ChildEdges(h))
      /\ Cardinality(ChildEdges(h)) \in Nat
      /\ Cardinality(ChildEdges(h)) = 0 => ChildEdges(h) = {}
  BY <1>1, ChildEdgesFinite, FS_EmptySet DEF ExactInv, GraphOK, NodeOK
<1>8. /\ objects'[h].refcount = n
      /\ objects'[h].num_children = objects[h].num_children
      /\ Tracked(h)'
  <2>1. objects'[h] = [objects[h] EXCEPT !.refcount = n]
    BY <1>1 DEF TypeOK
  <2>2. objects'[h].refcount = n
    BY <1>1, <2>1 DEF Record
  <2> QED
    BY <1>1, <1>2, <2>2 DEF SameRecords
<1>9. NodeOK(h, Inert)'
  <2>1. CASE UNCHANGED <<frames, mutex>> /\ (n > 0 \/ objects[h].num_children # 0)
    <3>1. ~Framed(h)'
      BY <1>1, <2>1 DEF Framed
    <3>2. objects'[h].refcount > 0 \/ objects'[h].num_children > 0
      BY <1>7, <1>8, <2>1
    <3>3. objects'[h].num_children = Cardinality(ChildEdges(h)')
      BY <1>5, <1>7, <1>8
    <3>4. objects'[h].refcount >= 0
      BY <1>8
    <3> QED
      BY <1>8, <3>1, <3>2, <3>3, <3>4 DEF NodeOK
  <2>2. CASE DeleteObjectRecord(t, h, <<>>) /\ n = 0 /\ objects[h].num_children = 0
    <3>1. NewFrame(h) # None
      BY <1>1, NewFrameType, NoneAssumption
    <3>2. Framed(h)'
      BY <1>1, <2>2, <3>1 DEF Framed, DeleteObjectRecord, TypeOK
    <3>3. ChildEdges(h)' = {} /\ Cardinality(ChildEdges(h)') = 0
      BY <1>5, <1>7, <2>2
    <3>4. objects'[h].refcount = 0 /\ objects'[h].num_children = 0
      BY <1>8, <2>2
    <3> QED
      BY <1>8, <3>2, <3>3, <3>4 DEF NodeOK
  <2> QED
    BY <2>1, <2>2
<1>10. PendingFresh'
  <2>1. mutex' # None => mutex'.todo = <<>>
    BY DEF DeleteObjectRecord, Unlocked
  <2> QED
    BY <2>1 DEF PendingFresh
<1> QED
  BY <1>6, <1>9, <1>10 DEF ExactInv, GraphOK

LEMMA CheckReleaseExact ==
    ASSUME NEW Inert, ExactInv(Inert), NEW t \in Threads, NEW T \in ObjectTypes, NEW h \in Handles,
           CheckRelease(t, T, h)
    PROVE  ExactInv(Inert)'
<1>1. Unlocked /\ Inv'
  BY CheckReleaseInv DEF CheckRelease, ExactInv
<1>2. CASE UNCHANGED <<objects, frames, mutex>>
  BY <1>1, <1>2, IdleExact
<1>3. CASE Counts(h) /\ ReleaseObject(t, h) /\ objects[h].refcount > 0
  <2>1. objects[h].refcount - 1 \in Nat /\ objects[h].refcount \in Int
    BY <1>3 DEF Counts, Tracked, ExactInv, Inv, TypeOK, Record
  <2>2. /\ objects' = [objects EXCEPT ![h] = [@ EXCEPT !.refcount = objects[h].refcount - 1]]
        /\ \/ /\ UNCHANGED <<frames, mutex>>
              /\ objects[h].refcount - 1 > 0 \/ objects[h].num_children # 0
           \/ /\ DeleteObjectRecord(t, h, <<>>)
              /\ objects[h].refcount - 1 = 0 /\ objects[h].num_children = 0
    BY <1>3, <2>1 DEF ReleaseObject
  <2> QED
    BY <1>1, <1>3, <2>1, <2>2, RecountExact
<1>4. CASE Counts(h) /\ ReleaseObject(t, h) /\ ~(objects[h].refcount > 0)
  <2>1. objects[h].refcount \in Int
    BY <1>4 DEF Counts, Tracked, ExactInv, Inv, TypeOK, Record
  <2> QED
    BY <1>2, <1>4, <2>1 DEF ReleaseObject
<1> QED
  BY <1>2, <1>3, <1>4 DEF CheckRelease, Matches, Counts

LEMMA CheckRetainExact ==
    ASSUME NEW Inert, ExactInv(Inert), NEW t \in Threads, NEW T \in ObjectTypes, NEW h \in Handles,
           CheckRetain(t, T, h)
    PROVE  ExactInv(Inert)'
<1>1. Unlocked /\ Inv' /\ UNCHANGED <<frames, mutex>>
  BY CheckRetainInv DEF CheckRetain, ExactInv
<1>2. CASE UNCHANGED objects
  BY <1>1, <1>2, IdleExact
<1>3. CASE Counts(h) /\ objects' = [objects EXCEPT ![h].refcount = @ + 1]
  <2>1. /\ objects[h].refcount \in Int /\ objects[h].refcount >= 0
    BY <1>3 DEF Counts, Tracked, ExactInv, Inv, TypeOK, Record, GraphOK, NodeOK
  <2>2. objects[h].refcount + 1 \in Nat /\ objects[h].refcount + 1 > 0
    BY <2>1
  <2> QED
    BY <1>1, <1>3, <2>2, RecountExact
<1> QED
  BY <1>2, <1>3 DEF CheckRetain, Matches, Counts

LEMMA ReportExact ==
    ASSUME NEW Inert, ExactInv(Inert), Report
    PROVE  ExactInv(Inert)'
<1>1. Inv' /\ mutex' = None /\ objects' = [h \in Handles |-> None]
  BY ReportInv DEF Report, Unlocked, ExactInv
<1>2. \A g \in Handles : ~Framed(g)' /\ ~Tracked(g)'
  BY <1>1 DEF Inv, WalkInv, Tracked
<1>3. \A q : ChildEdges(q)' = {}
  <2>1. \A c \in Handles : Owed(c)' = {}
    <3> SUFFICES ASSUME NEW c \in Handles PROVE Owed(c)' = {}
      OBVIOUS
    <3>1. ParentsOf(c)' = <<>> /\ FirstOwed(c)' = 1
      BY <1>2 DEF ParentsOf, FirstOwed, Framed, Tracked
    <3> QED
      BY <3>1 DEF Owed
  <2> QED
    BY <2>1, ChildEdgesAre
<1> QED
  BY <1>1, <1>2, <1>3 DEF ExactInv, GraphOK, NodeOK, Counts, PendingFresh

LEMMA CheckCreationListExact ==
    ASSUME NEW Inert, ExactInv(Inert), NEW t \in Threads, NEW T \in ObjectTypes \ RootTypes,
           NEW hs \in Seq(Handles), hs # <<>>, NEW ps \in ParentLists,
           Distinct(hs), \A i \in DOMAIN hs : ~Tracked(hs[i]), AllTracked(ps),
           CheckCreationList(t, T, hs, ps)
    PROVE  ExactInv(Inert)'
<1> DEFINE new == [type |-> T, refcount |-> 1, parents |-> ps,
                   reported |-> FALLBACK_VERSION]
           todo == [i \in DOMAIN hs |-> [handle |-> hs[i], new |-> new]]
<1>1. /\ Inv' /\ UNCHANGED <<objects, frames>>
      /\ mutex' = [owner |-> t, stack |-> <<>>, todo |-> todo]
  BY CheckCreationListInv DEF CheckCreationList, ExactInv
<1>2. GraphOK(Inert)'
  BY <1>1, GraphUntouched DEF ExactInv
<1>3. \A g : Tracked(g)' <=> Tracked(g)
  BY <1>1, SameFacts
<1>4. /\ DOMAIN todo = DOMAIN hs
      /\ \A i \in DOMAIN todo : /\ todo[i].handle = hs[i]
                                /\ todo[i].new.refcount = 1
                                /\ todo[i].new.type = T
                                /\ todo[i].new.parents = ps
  OBVIOUS
<1> HIDE DEF todo
<1>5. mutex'.todo = todo /\ mutex'.stack = <<>>
  BY <1>1
<1>6. AllTracked(ps)'
  BY <1>3 DEF AllTracked
<1>7. \A i \in DOMAIN todo :
        /\ ~Tracked(todo[i].handle)'
        /\ todo[i].new.refcount = 1
        /\ todo[i].new.type \notin RootTypes
        /\ AllTracked(todo[i].new.parents)'
  BY <1>3, <1>4, <1>6 DEF AllTracked
<1>8. \A i, j \in DOMAIN todo : todo[i].handle = todo[j].handle => i = j
  BY <1>4 DEF Distinct
<1>9. PendingFresh'
  BY <1>5, <1>7, <1>8 DEF PendingFresh, Tracked, AllTracked
<1> QED
  BY <1>1, <1>2, <1>9 DEF ExactInv

\* A record added by a query, outside a walk.
LEMMA AddedExact ==
    ASSUME NEW Inert, ExactInv(Inert), Inv', Unlocked, NEW h \in Handles, NEW new \in NewObject,
           ~Tracked(h), AllTracked(new.parents),
           new.refcount = 1 \/ new.type \in RootTypes \/ h \in Inert,
           objects' = InsertObject(objects, h, new), UNCHANGED <<frames, mutex>>
    PROVE  ExactInv(Inert)'
<1>1. \A g \in Handles : ~Framed(g)
  BY DEF ExactInv, Inv, WalkInv, Unlocked
<1>2. Inv /\ GraphOK(Inert) /\ TypeOK'
  BY DEF ExactInv, Inv
<1>3. GraphOK(Inert)'
  BY <1>1, <1>2, InsertExact
<1>4. PendingFresh'
  BY DEF PendingFresh, Unlocked
<1> QED
  BY <1>3, <1>4 DEF ExactInv

LEMMA CheckAddOrExistsExact ==
    ASSUME NEW Inert, ExactInv(Inert), NEW t \in Threads, NEW T \in ObjectTypes, NEW h \in Handles,
           NEW v \in Versions,
           (~Tracked(h) /\ (T \in RootTypes \/ h \in Inert)) \/ TrackedAs(T, h),
           CheckAddOrExists(t, T, h, <<>>, v)
    PROVE  ExactInv(Inert)'
<1> DEFINE new == [type |-> T, refcount |-> 0, parents |-> <<>>, reported |-> v]
<1>1. Unlocked
  BY DEF CheckAddOrExists
<1>2. Inv'
  <2>1. Tracked(h) /\ ~TrackedAs(T, h) => NoDependents(h)
    OBVIOUS
  <2> QED
    BY <2>1, CheckAddOrExistsInv, NoParentsAssumption DEF ExactInv
<1>3. CASE ~Tracked(h) /\ (T \in RootTypes \/ h \in Inert)
  <2>1. objects' = InsertObject(objects, h, new) /\ UNCHANGED <<frames, mutex>>
    BY <1>3 DEF CheckAddOrExists, AddOrReplace, TrackedAs
  <2>2. /\ new \in NewObject /\ AllTracked(new.parents)
        /\ new.type \in RootTypes \/ h \in Inert
    BY <1>3, NoParentsAssumption DEF NewObject, AllTracked
  <2> HIDE DEF new
  <2> QED
    BY <1>1, <1>2, <1>3, <2>1, <2>2, AddedExact
<1>4. CASE TrackedAs(T, h)
  <2>1. UNCHANGED <<objects, frames, mutex>>
    BY <1>4 DEF CheckAddOrExists, AddOrReplace, TrackedAs
  <2> QED
    BY <1>2, <2>1, IdleExact
<1> QED
  BY <1>3, <1>4

LEMMA CheckCreateOrExistsExact ==
    ASSUME NEW Inert, ExactInv(Inert), NEW t \in Threads, NEW T \in ObjectTypes, NEW h \in Handles,
           NEW p \in Handles, <<p>> \in ParentLists, T \notin RootTypes,
           (~Tracked(h) /\ Tracked(p)) \/ TrackedAs(T, h),
           CheckCreateOrExists(t, T, h, p)
    PROVE  ExactInv(Inert)'
<1> DEFINE new == [type |-> T, refcount |-> 1, parents |-> <<p>>,
                   reported |-> FALLBACK_VERSION]
<1>1. Unlocked
  BY DEF CheckCreateOrExists
<1>2. Inv'
  <2>1. Tracked(h) /\ ~TrackedAs(T, h) => NoDependents(h)
    OBVIOUS
  <2> QED
    BY <2>1, CheckCreateOrExistsInv DEF ExactInv
<1>3. CASE ~Tracked(h) /\ Tracked(p)
  <2>1. objects' = InsertObject(objects, h, new) /\ UNCHANGED <<frames, mutex>>
    BY <1>3 DEF CheckCreateOrExists, AddOrReplace, TrackedAs
  <2>2. new \in NewObject /\ AllTracked(new.parents) /\ new.refcount = 1
    BY <1>3, VersionsAssumption DEF NewObject, AllTracked
  <2> HIDE DEF new
  <2> QED
    BY <1>1, <1>2, <1>3, <2>1, <2>2, AddedExact
<1>4. CASE TrackedAs(T, h)
  <2> DEFINE n == objects[h].refcount + 1
  <2>1. /\ Counts(h) /\ UNCHANGED <<frames, mutex>>
        /\ objects' = [objects EXCEPT ![h] = [@ EXCEPT !.refcount = n]]
    BY <1>4 DEF CheckCreateOrExists, AddOrReplace, TrackedAs, Counts, IsCounted
  <2>2. objects[h].refcount \in Int /\ objects[h].refcount >= 0
    BY <2>1 DEF Counts, Tracked, ExactInv, Inv, TypeOK, Record, GraphOK, NodeOK
  <2>3. n \in Nat /\ n > 0
    BY <2>2
  <2> HIDE DEF n
  <2> QED
    BY <1>1, <1>2, <2>1, <2>3, RecountExact
<1> QED
  BY <1>3, <1>4

\* What is still pending after an insertion is still new.
LEMMA AfterInsertionFresh ==
    ASSUME PendingFresh, mutex # None, mutex.stack = <<>>,
           NEW todo \in Seq(Pending), todo = mutex.todo, todo # <<>>,
           mutex' = AfterInsertion(Tail(todo)),
           NEW h, h = todo[1].handle,
           \A g \in Handles : Tracked(g)' <=> Tracked(g) \/ g = h
    PROVE  PendingFresh'
<1>1. CASE mutex' = None
  BY <1>1 DEF PendingFresh
<1>2. CASE mutex' # None
  <2> DEFINE rest == Tail(todo)
  <2>1. mutex'.todo = rest /\ mutex'.stack = <<>>
    BY <1>2 DEF AfterInsertion
  <2>2. /\ 1 \in DOMAIN todo
        /\ \A i \in DOMAIN rest :
             /\ i + 1 \in DOMAIN todo /\ i + 1 # 1 /\ rest[i] = todo[i + 1]
    OBVIOUS
  <2>3. \A i, j \in DOMAIN rest : i + 1 = j + 1 => i = j
    OBVIOUS
  <2> HIDE DEF rest
  <2>4. \A g : Tracked(g)' <=> Tracked(g) \/ (g = h /\ g \in Handles)
    BY DEF Tracked
  <2>5. ASSUME NEW i \in DOMAIN rest
        PROVE  /\ ~Tracked(rest[i].handle)'
               /\ rest[i].new.refcount = 1
               /\ rest[i].new.type \notin RootTypes
               /\ AllTracked(rest[i].new.parents)'
    <3>1. /\ ~Tracked(todo[i + 1].handle)
          /\ todo[i + 1].new.refcount = 1
          /\ todo[i + 1].new.type \notin RootTypes
          /\ AllTracked(todo[i + 1].new.parents)
          /\ todo[i + 1].handle # h
      BY <2>2 DEF PendingFresh
    <3>2. ~Tracked(todo[i + 1].handle)' /\ AllTracked(todo[i + 1].new.parents)'
      BY <2>4, <3>1 DEF AllTracked
    <3> QED
      BY <2>2, <3>1, <3>2
  <2>6. \A i, j \in DOMAIN rest : rest[i].handle = rest[j].handle => i = j
    BY <2>2, <2>3 DEF PendingFresh
  <2> QED
    BY <2>1, <2>5, <2>6 DEF PendingFresh, AllTracked, Tracked
<1> QED
  BY <1>1, <1>2

LEMMA CreateNextExact ==
    ASSUME NEW Inert, ExactInv(Inert), CreateNext
    PROVE  ExactInv(Inert)'
<1> SUFFICES ASSUME NEW todo, todo = mutex.todo, NEW h, h = todo[1].handle,
                    NEW new, new = todo[1].new
             PROVE  ExactInv(Inert)'
  OBVIOUS
<1>1. /\ mutex # None /\ mutex.stack = <<>> /\ todo # <<>> /\ todo \in Seq(Pending)
      /\ Inv' /\ TypeOK' /\ \A g \in Handles : ~Framed(g)
  BY HeldType, CreateNextInv DEF CreateNext, ExactInv, Inv, WalkInv, StackIsFrames
<1>2. /\ Head(todo) = todo[1] /\ 1 \in DOMAIN todo /\ h \in Handles /\ new \in NewObject
  <2>1. Head(todo) = todo[1] /\ 1 \in DOMAIN todo /\ todo[1] \in Pending
    BY <1>1
  <2> QED
    BY <2>1 DEF Pending
<1>3. ~Tracked(h) /\ new.refcount = 1 /\ AllTracked(new.parents)
  BY <1>1, <1>2 DEF ExactInv, PendingFresh
<1>4. /\ objects' = InsertObject(objects, h, new)
      /\ mutex' = AfterInsertion(Tail(todo))
      /\ UNCHANGED frames
  BY <1>2, <1>3 DEF CreateNext, Retained
<1>5. GraphOK(Inert)' /\ \A g \in Handles : Tracked(g)' <=> Tracked(g) \/ g = h
  BY <1>1, <1>2, <1>3, <1>4, InsertExact DEF ExactInv
<1>6. PendingFresh'
  BY <1>1, <1>4, <1>5, AfterInsertionFresh DEF ExactInv
<1> QED
  BY <1>1, <1>5, <1>6 DEF ExactInv

\* Nothing waits for a walk behind this driver.
LEMMA NothingWaits ==
    ASSUME NEW Inert, ExactInv(Inert), Deleting
    PROVE  mutex # None /\ mutex.todo = <<>>
BY DEF ExactInv, PendingFresh, Deleting

LEMMA NotifyExact ==
    ASSUME NEW Inert, ExactInv(Inert), NotifyChildReleased
    PROVE  ExactInv(Inert)'
<1> SUFFICES ASSUME NEW top, top = Top, NEW n, n = frames[top].next,
                    NEW p, p = frames[top].parents[n],
                    NEW e, e = <<top, n>>
             PROVE  ExactInv(Inert)'
  OBVIOUS
<1>1. Inv /\ Inv' /\ TypeOK /\ GraphOK(Inert)
  BY NotifyInv DEF ExactInv, Inv
<1>2. /\ top \in Handles /\ p \in Handles
      /\ e \in ChildEdges(p)
      /\ ChildEdges(p)' = ChildEdges(p) \ {e}
      /\ \A q \in Handles \ {p} : /\ ChildEdges(q)' = ChildEdges(q)
                                  /\ objects'[q] = objects[q]
      /\ ~Counts(p) => objects' = objects
      /\ Counts(p) =>
           \/ /\ objects[p].refcount = 0 /\ objects[p].num_children = 1
              /\ objects'[p] = None
           \/ /\ ~(objects[p].refcount = 0 /\ objects[p].num_children = 1)
              /\ objects'[p] = [objects[p] EXCEPT !.num_children = @ - 1]
  BY <1>1, NotifyEdges
<1>3. Tracked(p) /\ ~Framed(p) /\ objects[p] \in Record
  BY <1>1, <1>2 DEF GraphOK, NodeOK, TypeOK, Tracked
<1>4. /\ Cardinality(ChildEdges(p)) \in Nat \ {0}
      /\ Cardinality(ChildEdges(p)') = Cardinality(ChildEdges(p)) - 1
      /\ Cardinality(ChildEdges(p)') = 0 => ChildEdges(p)' = {}
  <2>1. IsFiniteSet(ChildEdges(p)) /\ Cardinality(ChildEdges(p)) \in Nat
    BY <1>1, ChildEdgesFinite
  <2>2. /\ IsFiniteSet(ChildEdges(p) \ {e})
        /\ Cardinality(ChildEdges(p) \ {e}) = Cardinality(ChildEdges(p)) - 1
    BY <1>2, <2>1, FS_RemoveElement
  <2>3. Cardinality(ChildEdges(p) \ {e}) \in Nat
    BY <2>2, FS_CardinalityType
  <2>4. Cardinality(ChildEdges(p) \ {e}) = 0 => ChildEdges(p) \ {e} = {}
    BY <2>2, FS_EmptySet
  <2>5. ChildEdges(p)' = ChildEdges(p) \ {e}
    BY <1>2
  <2> QED
    BY <2>1, <2>2, <2>3, <2>4, <2>5
<1>5. /\ \A q \in Handles \ {p} : Framed(q)' <=> Framed(q)
      /\ (Counts(p) /\ objects[p].refcount = 0 /\ objects[p].num_children = 1) \/ ~Framed(p)'
  <2> DEFINE advanced == [frames EXCEPT ![top].next = @ + 1]
  <2>1. \/ frames' = advanced
        \/ /\ Counts(p) /\ objects[p].refcount = 0 /\ objects[p].num_children = 1
           /\ frames' = [advanced EXCEPT ![p] = NewFrame(p)]
    BY DEF NotifyChildReleased, TopFrame
  <2>2. /\ frames \in [Handles -> Frame \cup {None}]
        /\ frames[top] \in Frame /\ [frames[top] EXCEPT !.next = @ + 1] \in Frame
    <3>1. frames[top] \in Frame
      BY <1>1, WalkShape DEF NotifyChildReleased
    <3> QED
      BY <1>1, <3>1 DEF TypeOK, Frame
  <2>3. \A q \in Handles : advanced[q] # None <=> frames[q] # None
    BY <1>2, <2>2, NoneAssumption
  <2>4. advanced \in [Handles -> Frame \cup {None}]
    BY <2>2
  <2>5. p \in Handles /\ frames[p] = None
    BY <1>2, <1>3 DEF Framed
  <2> HIDE DEF advanced
  <2>6. CASE frames' = advanced
    BY <2>3, <2>5, <2>6 DEF Framed
  <2>7. CASE frames' = [advanced EXCEPT ![p] = NewFrame(p)]
    BY <2>1, <2>3, <2>4, <2>5, <2>7 DEF Framed
  <2> QED
    BY <2>1, <2>6, <2>7
<1>6. ASSUME NEW q \in Handles \ {p}
      PROVE  NodeOK(q, Inert)'
  <2>1. NodeOK(q, Inert)
    BY <1>1 DEF GraphOK
  <2> QED
    BY <1>2, <1>5, <2>1, NodeKept
<1>7. NodeOK(p, Inert)'
  <2>1. NodeOK(p, Inert) /\ objects[p].refcount \in Int /\ objects[p].num_children \in Int
    BY <1>1, <1>2, <1>3 DEF GraphOK, Record
  <2>2. objects[p].refcount >= 0
    BY <1>3, <2>1 DEF NodeOK
  <2>3. CASE ~Counts(p)
    <3>1. objects'[p] = objects[p] /\ ~Framed(p)'
      BY <1>2, <1>5, <2>3
    <3>2. Tracked(p)' /\ ~Counts(p)'
      BY <1>3, <2>3, <3>1 DEF Tracked, Counts
    <3> QED
      BY <2>2, <3>1, <3>2 DEF NodeOK
  <2>4. CASE Counts(p) /\ objects'[p] = None
    <3>1. ~Tracked(p)' /\ ~Counts(p)'
      BY <2>4 DEF Tracked, Counts
    <3>2. objects[p].num_children = Cardinality(ChildEdges(p))
      BY <2>1, <2>4 DEF NodeOK
    <3>3. objects[p].num_children = 1
      <4>1. objects'[p] = [objects[p] EXCEPT !.num_children = @ - 1] => objects'[p] \in Record
        BY <1>3, ChildLess
      <4> QED
        BY <1>2, <2>4, <4>1, NoneAssumption
    <3>4. ChildEdges(p)' = {}
      BY <1>4, <3>2, <3>3
    <3> QED
      BY <3>1, <3>4 DEF NodeOK
  <2>5. CASE /\ Counts(p) /\ ~(objects[p].refcount = 0 /\ objects[p].num_children = 1)
             /\ objects'[p] = [objects[p] EXCEPT !.num_children = @ - 1]
    <3>1. /\ objects'[p] \in Record
          /\ objects'[p].num_children = objects[p].num_children - 1
          /\ objects'[p].refcount = objects[p].refcount
          /\ objects[p].num_children \in Int
      BY <1>3, <2>5, ChildLess
    <3>2. Tracked(p)' /\ ~Framed(p)'
      BY <1>2, <1>5, <2>5, <3>1, NoneAssumption DEF Tracked
    <3>3. objects[p].num_children = Cardinality(ChildEdges(p))
      BY <2>1, <2>5 DEF NodeOK
    <3>4. /\ objects'[p].num_children = Cardinality(ChildEdges(p)')
          /\ objects'[p].refcount > 0 \/ objects'[p].num_children > 0
          /\ objects'[p].refcount >= 0
      <4>1. objects[p].refcount # 0 \/ objects[p].num_children # 1
        BY <2>5
      <4>2. /\ Cardinality(ChildEdges(p)) \in Nat \ {0}
            /\ Cardinality(ChildEdges(p)') = Cardinality(ChildEdges(p)) - 1
        BY <1>4
      <4> QED
        BY <2>1, <2>2, <3>1, <3>3, <4>1, <4>2
    <3> QED
      BY <3>2, <3>4 DEF NodeOK
  <2> QED
    BY <1>2, <2>3, <2>4, <2>5
<1>8. PendingFresh'
  <2>1. /\ mutex # None /\ mutex.todo = <<>> /\ mutex \in Held
    BY NothingWaits, HeldType DEF NotifyChildReleased, ExactInv, Inv
  <2>2. mutex' = mutex \/ mutex' = [mutex EXCEPT !.stack = Append(@, p)]
    BY DEF NotifyChildReleased, TopFrame
  <2>3. mutex'.todo = <<>>
    BY <2>1, <2>2 DEF Held
  <2> QED
    BY <2>3 DEF PendingFresh
<1> QED
  BY <1>1, <1>6, <1>7, <1>8 DEF ExactInv, GraphOK

LEMMA ReturnToCallerExact ==
    ASSUME NEW Inert, ExactInv(Inert), ReturnToCaller
    PROVE  ExactInv(Inert)'
<1> SUFFICES ASSUME NEW top, top = Top
             PROVE  ExactInv(Inert)'
  OBVIOUS
<1>1. /\ Inv /\ Inv' /\ GraphOK(Inert) /\ Deleting /\ objects' = objects
      /\ mutex' = [mutex EXCEPT !.stack = SubSeq(@, 1, Len(@) - 1)]
  BY ReturnToCallerInv DEF ExactInv, ReturnToCaller
<1>2. /\ mutex \in Held /\ top \in Handles /\ top = mutex.stack[Len(mutex.stack)]
      /\ Len(mutex.stack) > 1 /\ Len(mutex.stack) \in DOMAIN mutex.stack
  BY <1>1, WalkShape DEF Top, ReturnToCaller
<1>3. ~Tracked(top) /\ ~Tracked(top)'
  BY <1>1, <1>2 DEF Inv, WalkInv, OnlyRootTracked, Tracked, Deleting
<1>4. \A q : ChildEdges(q)' = ChildEdges(q)
  BY <1>1, ReturnEdges
<1>5. \A q \in Handles \ {top} : Framed(q)' <=> Framed(q)
  BY DEF ReturnToCaller, Framed, ExactInv, Inv, TypeOK
<1>6. ASSUME NEW q \in Handles PROVE NodeOK(q, Inert)'
  <2>1. NodeOK(q, Inert)
    BY <1>1 DEF GraphOK
  <2>2. CASE q = top
    BY <1>3, <1>4, <2>1, <2>2 DEF NodeOK, Counts
  <2>3. CASE q # top
    BY <1>1, <1>4, <1>5, <2>1, <2>3, NodeKept
  <2> QED
    BY <2>2, <2>3
<1>7. PendingFresh'
  <2>1. mutex'.todo = <<>>
    BY <1>1, <1>2, NothingWaits DEF Held
  <2> QED
    BY <2>1 DEF PendingFresh
<1> QED
  BY <1>1, <1>6, <1>7 DEF ExactInv, GraphOK

LEMMA FinishDeleteExact ==
    ASSUME NEW Inert, ExactInv(Inert), FinishDelete
    PROVE  ExactInv(Inert)'
<1> SUFFICES ASSUME NEW h, h = Top
             PROVE  ExactInv(Inert)'
  OBVIOUS
<1>1. Inv /\ Inv' /\ GraphOK(Inert) /\ mutex.todo = <<>>
  BY FinishDeleteInv, NothingWaits DEF ExactInv, FinishDelete
<1>2. objects' = [objects EXCEPT ![h] = None] /\ mutex' = None
  BY <1>1 DEF FinishDelete
<1>3. /\ h \in Handles /\ Tracked(h)
      /\ \A g \in Handles : Framed(g) <=> g = h
      /\ \A g \in Handles : ~Framed(g)'
  BY <1>1, FinishShape
<1>4. /\ \A q : ChildEdges(q)' = ChildEdges(q)
      /\ objects'[h] = None
      /\ \A q \in Handles \ {h} : objects'[q] = objects[q]
  BY <1>1, <1>2, EraseEdges
<1>5. ASSUME NEW q \in Handles PROVE NodeOK(q, Inert)'
  <2>1. NodeOK(q, Inert)
    BY <1>1 DEF GraphOK
  <2>2. CASE q = h
    <3>1. ChildEdges(h)' = {}
      BY <1>3, <1>4, <2>1, <2>2 DEF NodeOK
    <3>2. ~Tracked(h)'
      BY <1>4 DEF Tracked
    <3> QED
      BY <2>2, <3>1, <3>2 DEF NodeOK, Counts
  <2>3. CASE q # h
    BY <1>3, <1>4, <2>1, <2>3, NodeKept
  <2> QED
    BY <2>2, <2>3
<1>6. PendingFresh'
  BY <1>2 DEF PendingFresh
<1> QED
  BY <1>1, <1>5, <1>6 DEF ExactInv, GraphOK

-----------------------------------------------------------------------------
(***************************************************************************)
(* Every step keeps the invariant.                                         *)
(***************************************************************************)

LEMMA InitExact == ASSUME NEW Inert, Init PROVE ExactInv(Inert)
<1>1. \A g \in Handles : ~Framed(g) /\ ~Tracked(g)
  BY DEF Init, Framed, Tracked
<1>2. \A q : ChildEdges(q) = {}
  <2>1. \A c \in Handles : Owed(c) = {}
    <3> SUFFICES ASSUME NEW c \in Handles PROVE Owed(c) = {}
      OBVIOUS
    <3>1. ParentsOf(c) = <<>> /\ FirstOwed(c) = 1
      BY <1>1 DEF ParentsOf, FirstOwed, Framed, Tracked
    <3> QED
      BY <3>1 DEF Owed
  <2> QED
    BY <2>1, ChildEdgesAre
<1> QED
  BY <1>1, <1>2, InitInv DEF Init, ExactInv, GraphOK, NodeOK, Counts, PendingFresh

LEMMA ConformingCreateExact ==
    ASSUME NEW Inert, ExactInv(Inert), NEW t \in Threads, ConformingCreate(t)
    PROVE  ExactInv(Inert)'
<1>1. CASE \E T \in CreatedTypes, hs \in HandleLists, ps \in ParentLists :
              /\ Distinct(hs)
              /\ \A i \in DOMAIN hs : ~Tracked(hs[i])
              /\ AllTracked(ps)
              /\ CheckCreationList(t, T, hs, ps)
  BY <1>1, CheckCreationListExact, ParentListsAssumption, TypesAssumption
     DEF CreatedTypes, HandleLists
<1>2. CASE \E T \in Types \cap RootTypes, h \in Handles, v \in Versions :
              ~Tracked(h) /\ CheckAddOrExists(t, T, h, <<>>, v)
  BY <1>2, CheckAddOrExistsExact, TypesAssumption
<1>3. CASE \E T \in Types, h \in Handles :
              TrackedAs(T, h) /\ CheckAddOrExists(t, T, h, <<>>, FALLBACK_VERSION)
  BY <1>3, CheckAddOrExistsExact, TypesAssumption, VersionsAssumption
<1>4. CASE \E T \in CreatedTypes, h \in Handles, p \in Handles :
              /\ <<p>> \in ParentLists
              /\ (~Tracked(h) /\ Tracked(p)) \/ TrackedAs(T, h)
              /\ CheckCreateOrExists(t, T, h, p)
  BY <1>4, CheckCreateOrExistsExact, TypesAssumption DEF CreatedTypes
<1> QED
  BY <1>1, <1>2, <1>3, <1>4 DEF ConformingCreate

LEMMA NextExact ==
    ASSUME NEW Inert, ExactInv(Inert), [ConformingNext]_vars
    PROVE  ExactInv(Inert)'
<1>1. CASE Continue
  BY <1>1, NotifyExact, ReturnToCallerExact, FinishDeleteExact, CreateNextExact DEF Continue
<1>2. CASE Report
  BY <1>2, ReportExact
<1>3. ASSUME NEW t \in Threads, Query(t) PROVE ExactInv(Inert)'
  BY <1>3, CheckExistsExact, CheckExistListExact, TypesAssumption DEF Query
<1>4. ASSUME NEW t \in Threads, Count(t) PROVE ExactInv(Inert)'
  BY <1>4, CheckReleaseExact, CheckRetainExact, TypesAssumption DEF Count
<1>5. ASSUME NEW t \in Threads, ConformingCreate(t) PROVE ExactInv(Inert)'
  BY <1>5, ConformingCreateExact
<1>6. CASE UNCHANGED vars
  BY <1>6, StutterInv, IdleExact DEF vars, ExactInv
<1> QED
  BY <1>1, <1>2, <1>3, <1>4, <1>5, <1>6 DEF ConformingNext

-----------------------------------------------------------------------------
(***************************************************************************)
(* What a step can do, whatever action it is: nothing a reader of the map  *)
(* sees, or one of six things to one object.  The action properties and    *)
(* the refinement are read off these.                                      *)
(***************************************************************************)

SameRecord(g) ==
    /\ Tracked(g)' <=> Tracked(g)
    /\ Tracked(g) => /\ objects'[g].type = objects[g].type
                     /\ objects'[g].version = objects[g].version
                     /\ objects'[g].refcount = objects[g].refcount
                     /\ objects'[g].parents = objects[g].parents

Unaffected(g) == SameRecord(g) /\ (Framed(g)' <=> Framed(g))

Quiet == \A g \in Handles : SameRecord(g) /\ (InLife(g)' <=> InLife(g))

OnlyAffects(h) == \A g \in Handles \ {h} : Unaffected(g)

NoWalk == \A g \in Handles : ~Framed(g)

Recounted(h, n) ==
    /\ Counts(h) /\ Counts(h)'
    /\ objects'[h].type = objects[h].type
    /\ objects'[h].version = objects[h].version
    /\ objects'[h].parents = objects[h].parents
    /\ objects'[h].refcount = n

\* One reference more, for an object that is referenced or that a child keeps.
Raised(h) ==
    /\ NoWalk /\ OnlyAffects(h) /\ ~Framed(h)'
    /\ Recounted(h, objects[h].refcount + 1)
    /\ \/ objects[h].refcount > 0
       \/ objects[h].num_children > 0 /\ objects[h].version > 12

\* One reference less; with the last of them goes an object without children.
Lowered(h) ==
    /\ NoWalk /\ OnlyAffects(h)
    /\ Recounted(h, objects[h].refcount - 1)
    /\ objects[h].refcount > 0
    /\ \/ /\ objects[h].refcount > 1 \/ objects[h].num_children # 0
          /\ ~Framed(h)'
       \/ /\ objects[h].refcount = 1 /\ objects[h].num_children = 0
          /\ Framed(h)'

Added(h) ==
    /\ NoWalk /\ OnlyAffects(h) /\ ~Framed(h)'
    /\ ~Tracked(h) /\ Tracked(h)'
    /\ AllTracked(objects'[h].parents)
    /\ IsCounted(objects'[h]) => objects'[h].refcount = 1
    /\ ~IsCounted(objects'[h]) => objects'[h].parents = <<>>

\* The last child of an object without references is gone, and it with it.
Reaped(h) ==
    /\ OnlyAffects(h)
    /\ InLife(h) /\ ~Tracked(h)'
    /\ objects[h].refcount = 0
    /\ \A c \in Handles : InLife(c) => h \notin Elements(objects[c].parents)

\* The end of the outermost loop.
Erased(h) ==
    /\ OnlyAffects(h)
    /\ Tracked(h) /\ Framed(h) /\ ~Tracked(h)'
    /\ objects[h].refcount = 0
    /\ \A c \in Handles : InLife(c) => h \notin Elements(objects[c].parents)

Emptied == leaks' # leaks /\ \A g \in Handles : ~Tracked(g)'

Effect ==
    \/ Quiet
    \/ \E h \in Handles : Raised(h) \/ Lowered(h) \/ Added(h) \/ Reaped(h) \/ Erased(h)
    \/ Emptied

LEMMA UnaffectedLife ==
    ASSUME NEW g, Unaffected(g)
    PROVE  /\ Counts(g)' <=> Counts(g)
           /\ InLife(g)' <=> InLife(g)
BY DEF Unaffected, SameRecord, Counts, IsCounted, InLife, Framed

LEMMA IdleQuiet ==
    ASSUME UNCHANGED <<objects, frames>>
    PROVE  Effect
<1>1. \A g \in Handles : Unaffected(g)
  BY DEF Unaffected, SameRecord, Tracked, Framed
<1> QED
  BY <1>1, UnaffectedLife DEF Unaffected, Quiet, Effect

LEMMA InsertAdds ==
    ASSUME TypeOK, NEW h \in Handles, NEW new \in NewObject,
           ~Tracked(h), NoWalk, UNCHANGED frames, AllTracked(new.parents),
           IF new.type \in RootTypes THEN new.parents = <<>> ELSE new.refcount = 1,
           objects' = InsertObject(objects, h, new)
    PROVE  Added(h)
<1>1. /\ objects \in [Handles -> Record \cup {None}] /\ objects[h] = None
      /\ \A g \in Handles : ~Framed(g)' /\ ~Framed(g)
      /\ \A g \in Handles \ {h} : objects[g] = objects[g] /\ ~Framed(g)
  BY DEF NoWalk, TypeOK, Tracked, Framed
<1>2. Owed(h) = {}
  <2>1. ParentsOf(h) = <<>> /\ FirstOwed(h) = 1
    BY <1>1 DEF ParentsOf, FirstOwed, Framed
  <2> QED
    BY <2>1 DEF Owed
<1>3. \A g \in Handles \ {h} : SameRecord(g)
  BY <1>1, <1>2, InsertEdges DEF SameRecord
<1>4. /\ Tracked(h)'
      /\ objects'[h].type = new.type
      /\ objects'[h].refcount = new.refcount
      /\ objects'[h].parents = new.parents
  BY <1>1, <1>2, InsertEdges
<1> QED
  BY <1>1, <1>3, <1>4 DEF Added, OnlyAffects, Unaffected, IsCounted

LEMMA RecountEffect ==
    ASSUME TypeOK, NoWalk, NEW h \in Handles, Counts(h), NEW n \in Int,
           objects' = [objects EXCEPT ![h] = [@ EXCEPT !.refcount = n]]
    PROVE  /\ Recounted(h, n)
           /\ \A g \in Handles \ {h} : SameRecord(g)
<1>1. objects[h] \in Record /\ objects[h] # None
  BY DEF TypeOK, Counts, Tracked
<1>2. /\ objects'[h] = [objects[h] EXCEPT !.refcount = n]
      /\ \A g \in Handles \ {h} : objects'[g] = objects[g]
  BY DEF TypeOK
<1>3. objects'[h] \in Record
  BY <1>1, <1>2 DEF Record
<1>4. /\ objects'[h].type = objects[h].type
      /\ objects'[h].version = objects[h].version
      /\ objects'[h].parents = objects[h].parents
      /\ objects'[h].refcount = n
  BY <1>1, <1>2 DEF Record
<1> QED
  BY <1>2, <1>3, <1>4, NoneAssumption
     DEF Recounted, SameRecord, Counts, IsCounted, Tracked

LEMMA NoWalkFree ==
    ASSUME Inv, Unlocked
    PROVE  TypeOK /\ NoWalk
BY DEF Inv, WalkInv, Unlocked, NoWalk

LEMMA CheckReleaseEffect ==
    ASSUME NEW Inert, ExactInv(Inert), NEW t \in Threads, NEW T \in ObjectTypes, NEW h \in Handles,
           CheckRelease(t, T, h)
    PROVE  Effect
<1>1. TypeOK /\ NoWalk
  BY NoWalkFree DEF CheckRelease, ExactInv
<1>2. CASE UNCHANGED <<objects, frames, mutex>>
  BY <1>2, IdleQuiet
<1>3. CASE Counts(h) /\ ReleaseObject(t, h) /\ ~UNCHANGED <<objects, frames, mutex>>
  <2>1. objects[h].refcount \in Int /\ objects[h].refcount - 1 \in Int
    BY <1>1, <1>3 DEF Counts, Tracked, TypeOK, Record
  <2>2. /\ objects[h].refcount > 0
        /\ objects' = [objects EXCEPT ![h] = [@ EXCEPT !.refcount = objects[h].refcount - 1]]
        /\ \/ /\ UNCHANGED frames
              /\ objects[h].refcount > 1 \/ objects[h].num_children # 0
           \/ /\ frames' = [frames EXCEPT ![h] = NewFrame(h)]
              /\ objects[h].refcount = 1 /\ objects[h].num_children = 0
    BY <1>3, <2>1 DEF ReleaseObject, DeleteObjectRecord
  <2>3. /\ Recounted(h, objects[h].refcount - 1)
        /\ \A g \in Handles \ {h} : SameRecord(g)
    BY <1>1, <1>3, <2>1, <2>2, RecountEffect
  <2>4. \A g \in Handles \ {h} : Framed(g)' <=> Framed(g)
    BY <1>1, <2>2 DEF TypeOK, Framed
  <2>5. CASE /\ UNCHANGED frames
             /\ objects[h].refcount > 1 \/ objects[h].num_children # 0
    <3>1. ~Framed(h)'
      BY <1>1, <2>5 DEF NoWalk, Framed
    <3> QED
      BY <1>1, <2>2, <2>3, <2>4, <2>5, <3>1
         DEF Lowered, OnlyAffects, Unaffected, Effect
  <2>6. CASE /\ frames' = [frames EXCEPT ![h] = NewFrame(h)]
             /\ objects[h].refcount = 1 /\ objects[h].num_children = 0
    <3>1. Framed(h)'
      <4>1. NewFrame(h) # None
        BY <1>1, <1>3, NewFrameType, NoneAssumption DEF Counts, Tracked
      <4> QED
        BY <1>1, <2>6, <4>1 DEF TypeOK, Framed
    <3> QED
      BY <1>1, <2>2, <2>3, <2>4, <2>6, <3>1
         DEF Lowered, OnlyAffects, Unaffected, Effect
  <2> QED
    BY <2>2, <2>5, <2>6
<1> QED
  BY <1>2, <1>3 DEF CheckRelease, Matches, Counts

LEMMA RaisedEffect ==
    ASSUME TypeOK, NoWalk, NEW h \in Handles, Counts(h), UNCHANGED frames,
           objects' = [objects EXCEPT ![h] = [@ EXCEPT !.refcount = objects[h].refcount + 1]],
           \/ objects[h].refcount > 0
           \/ objects[h].num_children > 0 /\ objects[h].version > 12
    PROVE  Effect
<1>1. objects[h].refcount + 1 \in Int
  BY DEF Counts, Tracked, TypeOK, Record
<1>2. /\ Recounted(h, objects[h].refcount + 1)
      /\ \A g \in Handles \ {h} : SameRecord(g)
  BY <1>1, RecountEffect
<1>3. \A g \in Handles : Framed(g)' <=> Framed(g)
  BY DEF Framed
<1> QED
  BY <1>2, <1>3 DEF Raised, OnlyAffects, Unaffected, NoWalk, Effect

LEMMA CheckRetainEffect ==
    ASSUME NEW Inert, ExactInv(Inert), NEW t \in Threads, NEW T \in ObjectTypes, NEW h \in Handles,
           CheckRetain(t, T, h)
    PROVE  Effect
<1>1. TypeOK /\ NoWalk /\ UNCHANGED frames
  BY NoWalkFree DEF CheckRetain, ExactInv
<1>2. CASE UNCHANGED objects
  BY <1>1, <1>2, IdleQuiet
<1>3. CASE Counts(h) /\ Usable(objects[h], TRUE) /\ objects' = [objects EXCEPT ![h].refcount = @ + 1]
  <2>1. objects[h].version \in Nat
    BY <1>1, <1>3, VersionsAssumption DEF Counts, Tracked, TypeOK, Record
  <2>2. \/ objects[h].refcount > 0
        \/ objects[h].num_children > 0 /\ objects[h].version > 12
    BY <1>3, <2>1 DEF Usable, CanUseInaccessible, Counts
  <2> QED
    BY <1>1, <1>3, <2>2, RaisedEffect
<1> QED
  BY <1>2, <1>3 DEF CheckRetain, Matches, Counts

LEMMA CreateEffect ==
    ASSUME NEW Inert, ExactInv(Inert), NEW t \in Threads, ConformingCreate(t)
    PROVE  Effect
<1>1. ASSUME NEW T \in CreatedTypes, NEW hs \in HandleLists, NEW ps \in ParentLists,
             CheckCreationList(t, T, hs, ps)
      PROVE  Effect
  BY <1>1, IdleQuiet DEF CheckCreationList
<1>2. ASSUME NEW T \in Types \cap RootTypes, NEW h \in Handles, NEW v \in Versions,
             ~Tracked(h), CheckAddOrExists(t, T, h, <<>>, v)
      PROVE  Effect
  <2> DEFINE new == [type |-> T, refcount |-> 0, parents |-> <<>>, reported |-> v]
  <2>1. /\ TypeOK /\ NoWalk
        /\ objects' = InsertObject(objects, h, new) /\ UNCHANGED frames
    BY <1>2, NoWalkFree DEF CheckAddOrExists, AddOrReplace, TrackedAs, ExactInv
  <2>2. /\ new \in NewObject /\ AllTracked(new.parents)
        /\ IF new.type \in RootTypes THEN new.parents = <<>> ELSE new.refcount = 1
    BY NoParentsAssumption, TypesAssumption DEF NewObject, AllTracked
  <2> HIDE DEF new
  <2> QED
    BY <1>2, <2>1, <2>2, InsertAdds DEF Effect
<1>3. ASSUME NEW T \in Types, NEW h \in Handles, TrackedAs(T, h),
             CheckAddOrExists(t, T, h, <<>>, FALLBACK_VERSION)
      PROVE  Effect
  BY <1>3, IdleQuiet DEF CheckAddOrExists, AddOrReplace, TrackedAs
<1>4. ASSUME NEW T \in CreatedTypes, NEW h \in Handles, NEW p \in Handles,
             <<p>> \in ParentLists, ~Tracked(h) /\ Tracked(p),
             CheckCreateOrExists(t, T, h, p)
      PROVE  Effect
  <2> DEFINE new == [type |-> T, refcount |-> 1, parents |-> <<p>>,
                     reported |-> FALLBACK_VERSION]
  <2>1. /\ TypeOK /\ NoWalk
        /\ objects' = InsertObject(objects, h, new) /\ UNCHANGED frames
    BY <1>4, NoWalkFree DEF CheckCreateOrExists, AddOrReplace, TrackedAs, ExactInv
  <2>2. /\ new \in NewObject /\ AllTracked(new.parents)
        /\ IF new.type \in RootTypes THEN new.parents = <<>> ELSE new.refcount = 1
    BY <1>4, VersionsAssumption, TypesAssumption DEF NewObject, AllTracked, CreatedTypes
  <2> HIDE DEF new
  <2> QED
    BY <1>4, <2>1, <2>2, InsertAdds DEF Effect
<1>5. ASSUME NEW T \in CreatedTypes, NEW h \in Handles, NEW p \in Handles,
             TrackedAs(T, h), Retained(h), CheckCreateOrExists(t, T, h, p)
      PROVE  Effect
  <2>1. /\ TypeOK /\ NoWalk
        /\ Counts(h) /\ objects[h].refcount > 0 /\ UNCHANGED frames
        /\ objects' = [objects EXCEPT ![h] = [@ EXCEPT !.refcount = objects[h].refcount + 1]]
    BY <1>5, NoWalkFree
       DEF CheckCreateOrExists, AddOrReplace, TrackedAs, ExactInv, Counts, IsCounted,
           Retained, CreatedTypes
  <2> QED
    BY <2>1, RaisedEffect
<1> QED
  BY <1>1, <1>2, <1>3, <1>4, <1>5 DEF ConformingCreate

LEMMA CreateNextEffect ==
    ASSUME NEW Inert, ExactInv(Inert), CreateNext
    PROVE  Effect
<1> SUFFICES ASSUME NEW todo, todo = mutex.todo, NEW h, h = todo[1].handle,
                    NEW new, new = todo[1].new
             PROVE  Effect
  OBVIOUS
<1>1. /\ mutex # None /\ mutex.stack = <<>> /\ todo # <<>> /\ todo \in Seq(Pending)
      /\ TypeOK /\ NoWalk
  BY HeldType DEF CreateNext, ExactInv, Inv, WalkInv, StackIsFrames, NoWalk
<1>2. /\ Head(todo) = todo[1] /\ 1 \in DOMAIN todo /\ h \in Handles /\ new \in NewObject
  <2>1. Head(todo) = todo[1] /\ 1 \in DOMAIN todo /\ todo[1] \in Pending
    BY <1>1
  <2> QED
    BY <2>1 DEF Pending
<1>3. /\ ~Tracked(h) /\ new.refcount = 1 /\ new.type \notin RootTypes
      /\ AllTracked(new.parents)
  BY <1>1, <1>2 DEF ExactInv, PendingFresh
<1>4. objects' = InsertObject(objects, h, new) /\ UNCHANGED frames
  BY <1>2, <1>3 DEF CreateNext, Retained
<1> QED
  BY <1>1, <1>2, <1>3, <1>4, InsertAdds DEF Effect

LEMMA NotifyEffect ==
    ASSUME NEW Inert, ExactInv(Inert), NotifyChildReleased
    PROVE  Effect
<1> SUFFICES ASSUME NEW top, top = Top, NEW n, n = frames[top].next,
                    NEW p, p = frames[top].parents[n],
                    NEW e, e = <<top, n>>
             PROVE  Effect
  OBVIOUS
<1>1. Inv /\ TypeOK /\ GraphOK(Inert) /\ Deleting
  BY DEF ExactInv, Inv, NotifyChildReleased
<1>2. /\ top \in Handles /\ p \in Handles
      /\ e \in ChildEdges(p)
      /\ \A q \in Handles \ {p} : objects'[q] = objects[q]
      /\ ~Counts(p) => objects' = objects
      /\ Counts(p) =>
           \/ /\ objects[p].refcount = 0 /\ objects[p].num_children = 1
              /\ objects'[p] = None
           \/ /\ ~(objects[p].refcount = 0 /\ objects[p].num_children = 1)
              /\ objects'[p] = [objects[p] EXCEPT !.num_children = @ - 1]
  BY <1>1, NotifyEdges
<1>3. /\ Tracked(p) /\ ~Framed(p) /\ objects[p] \in Record /\ objects[p] # None
      /\ frames[top] \in Frame /\ Framed(top)
  BY <1>1, <1>2, WalkShape, NoneAssumption DEF GraphOK, NodeOK, TypeOK, Tracked, Framed
<1>4. /\ \A q \in Handles \ {p} : Framed(q)' <=> Framed(q)
      /\ (Counts(p) /\ objects[p].refcount = 0 /\ objects[p].num_children = 1) \/ ~Framed(p)'
  <2> DEFINE advanced == [frames EXCEPT ![top].next = @ + 1]
  <2>1. \/ frames' = advanced
        \/ /\ Counts(p) /\ objects[p].refcount = 0 /\ objects[p].num_children = 1
           /\ frames' = [advanced EXCEPT ![p] = NewFrame(p)]
    BY DEF NotifyChildReleased, TopFrame
  <2>2. /\ frames \in [Handles -> Frame \cup {None}]
        /\ [frames[top] EXCEPT !.next = @ + 1] \in Frame
    BY <1>1, <1>3 DEF TypeOK, Frame
  <2>3. \A q \in Handles : advanced[q] # None <=> frames[q] # None
    BY <1>2, <1>3, <2>2, NoneAssumption DEF Framed
  <2>4. advanced \in [Handles -> Frame \cup {None}]
    BY <2>2
  <2>5. p \in Handles /\ frames[p] = None
    BY <1>2, <1>3 DEF Framed
  <2> HIDE DEF advanced
  <2>6. CASE frames' = advanced
    BY <2>3, <2>5, <2>6 DEF Framed
  <2>7. CASE frames' = [advanced EXCEPT ![p] = NewFrame(p)]
    BY <2>1, <2>3, <2>4, <2>5, <2>7 DEF Framed
  <2> QED
    BY <2>1, <2>6, <2>7
<1>5. OnlyAffects(p)
  BY <1>2, <1>4 DEF OnlyAffects, Unaffected, SameRecord, Tracked
<1>6. CASE Counts(p) /\ objects'[p] = None
  <2>1. objects[p].refcount = 0 /\ objects[p].num_children = 1
    <3>1. objects'[p] = [objects[p] EXCEPT !.num_children = @ - 1] => objects'[p] \in Record
      BY <1>3, ChildLess
    <3> QED
      BY <1>2, <1>6, <3>1, NoneAssumption
  <2>2. ChildEdges(p) \ {e} = {}
    <3>1. Cardinality(ChildEdges(p)) = 1
      BY <1>1, <1>2, <1>6, <2>1 DEF GraphOK, NodeOK
    <3>2. IsFiniteSet(ChildEdges(p))
      BY <1>1, ChildEdgesFinite
    <3>3. IsFiniteSet(ChildEdges(p) \ {e}) /\ Cardinality(ChildEdges(p) \ {e}) = 1 - 1
      BY <1>2, <3>1, <3>2, FS_RemoveElement
    <3> QED
      BY <3>3, FS_EmptySet
  <2>3. ASSUME NEW c \in Handles, InLife(c), p \in Elements(objects[c].parents)
        PROVE  FALSE
    <3>1. PICK i \in DOMAIN objects[c].parents : objects[c].parents[i] = p
      BY <2>3 DEF Elements
    <3>2. ParentsOf(c) = objects[c].parents /\ FirstOwed(c) = 1
      BY <2>3 DEF InLife, Counts, Tracked, ParentsOf, FirstOwed
    <3>3. i \in Owed(c)
      BY <1>1, <3>1, <3>2, ParentsOfType DEF Owed
    <3>4. <<c, i>> \in ChildEdges(p)
      BY <3>1, <3>2, <3>3, ChildEdgesAre
    <3>5. c = top
      BY <2>2, <3>4
    <3> QED
      BY <1>3, <2>3, <3>5 DEF InLife, Framed
  <2>4. ~Tracked(p)' /\ InLife(p)
    BY <1>3, <1>6 DEF Tracked, InLife, Framed
  <2> QED
    BY <1>2, <1>5, <2>1, <2>3, <2>4 DEF Reaped, Effect
<1>7. CASE ~(Counts(p) /\ objects'[p] = None)
  <2>1. SameRecord(p)
    <3>1. CASE ~Counts(p)
      BY <1>2, <3>1 DEF SameRecord, Tracked
    <3>2. CASE objects'[p] = [objects[p] EXCEPT !.num_children = @ - 1]
      <4>1. /\ objects'[p] \in Record
            /\ objects'[p].type = objects[p].type
            /\ objects'[p].version = objects[p].version
            /\ objects'[p].refcount = objects[p].refcount
            /\ objects'[p].parents = objects[p].parents
        BY <1>3, <3>2, ChildLess
      <4> QED
        BY <1>2, <1>3, <4>1, NoneAssumption DEF SameRecord, Tracked
    <3> QED
      BY <1>2, <1>7, <3>1, <3>2
  <2>2. Counts(p) => ~(objects[p].refcount = 0 /\ objects[p].num_children = 1)
    BY <1>2, <1>7
  <2>3. Unaffected(p)
    BY <1>3, <1>4, <2>1, <2>2 DEF Unaffected
  <2>4. \A q \in Handles : Unaffected(q)
    BY <1>5, <2>3 DEF OnlyAffects
  <2> QED
    BY <2>4, UnaffectedLife DEF Unaffected, Quiet, Effect
<1> QED
  BY <1>6, <1>7

LEMMA ReturnToCallerEffect ==
    ASSUME NEW Inert, ExactInv(Inert), ReturnToCaller
    PROVE  Effect
<1> SUFFICES ASSUME NEW top, top = Top
             PROVE  Effect
  OBVIOUS
<1>1. Inv /\ TypeOK /\ Deleting /\ objects' = objects /\ Len(mutex.stack) > 1
  BY DEF ExactInv, Inv, ReturnToCaller
<1>2. ~Tracked(top)
  <2>1. top = mutex.stack[Len(mutex.stack)] /\ Len(mutex.stack) \in DOMAIN mutex.stack
    BY <1>1, WalkShape DEF Top
  <2> QED
    BY <1>1, <2>1 DEF Inv, WalkInv, OnlyRootTracked, Deleting
<1>3. \A g : SameRecord(g)
  BY <1>1 DEF SameRecord, Tracked
<1>4. ASSUME NEW g \in Handles
      PROVE  InLife(g)' <=> InLife(g)
  <2>1. Counts(g)' <=> Counts(g)
    BY <1>1 DEF Counts, Tracked
  <2>2. CASE g = top
    BY <1>2, <2>1, <2>2 DEF InLife, Counts
  <2>3. CASE g # top
    <3>1. frames'[g] = frames[g]
      BY <1>1, <2>3 DEF ReturnToCaller, TypeOK
    <3> QED
      BY <2>1, <3>1 DEF InLife
  <2> QED
    BY <2>2, <2>3
<1> QED
  BY <1>3, <1>4 DEF Quiet, Effect

LEMMA EdgelessIsUnnamed ==
    ASSUME TypeOK, NEW h \in Handles, ChildEdges(h) = {}
    PROVE  \A c \in Handles : InLife(c) => h \notin Elements(objects[c].parents)
<1> SUFFICES ASSUME NEW c \in Handles, InLife(c), h \in Elements(objects[c].parents)
             PROVE  FALSE
  OBVIOUS
<1>1. PICK i \in DOMAIN objects[c].parents : objects[c].parents[i] = h
  BY DEF Elements
<1>2. ParentsOf(c) = objects[c].parents /\ FirstOwed(c) = 1
  BY DEF InLife, Counts, Tracked, ParentsOf, FirstOwed
<1>3. i \in Owed(c)
  BY <1>1, <1>2, ParentsOfType DEF Owed
<1>4. <<c, i>> \in ChildEdges(h)
  BY <1>1, <1>2, <1>3, ChildEdgesAre
<1> QED
  BY <1>4

LEMMA FinishDeleteEffect ==
    ASSUME NEW Inert, ExactInv(Inert), FinishDelete
    PROVE  Effect
<1> SUFFICES ASSUME NEW h, h = Top
             PROVE  Effect
  OBVIOUS
<1>1. Inv /\ GraphOK(Inert) /\ mutex.todo = <<>>
  BY NothingWaits DEF ExactInv, FinishDelete
<1>2. objects' = [objects EXCEPT ![h] = None]
  BY <1>1 DEF FinishDelete
<1>3. /\ h \in Handles /\ Tracked(h)
      /\ \A g \in Handles : Framed(g) <=> g = h
      /\ \A g \in Handles : ~Framed(g)'
  BY <1>1, FinishShape
<1>4. /\ objects'[h] = None
      /\ \A q \in Handles \ {h} : objects'[q] = objects[q]
  BY <1>1, <1>2, EraseEdges
<1>5. /\ objects[h].refcount = 0
      /\ \A c \in Handles : InLife(c) => h \notin Elements(objects[c].parents)
  <2>1. objects[h].refcount = 0 /\ ChildEdges(h) = {}
    BY <1>1, <1>3 DEF GraphOK, NodeOK
  <2> QED
    BY <1>1, <1>3, <2>1, EdgelessIsUnnamed DEF Inv
<1>6. OnlyAffects(h)
  BY <1>3, <1>4 DEF OnlyAffects, Unaffected, SameRecord, Tracked
<1> QED
  BY <1>3, <1>4, <1>5, <1>6 DEF Erased, Effect, Tracked

LEMMA ReportEffect ==
    ASSUME NEW Inert, ExactInv(Inert), Report
    PROVE  Effect
<1>1. leaks' # leaks
  BY NoneAssumption DEF Report
<1>2. \A g \in Handles : ~Tracked(g)'
  BY DEF Report, Tracked
<1> QED
  BY <1>1, <1>2 DEF Emptied, Effect

LEMMA StepEffect == ExactInv({}) /\ [ConformingNext]_vars => Effect
<1> SUFFICES ASSUME ExactInv({}), [ConformingNext]_vars PROVE Effect
  OBVIOUS
<1>1. CASE Continue
  BY <1>1, NotifyEffect, ReturnToCallerEffect, FinishDeleteEffect, CreateNextEffect
     DEF Continue
<1>2. CASE Report
  BY <1>2, ReportEffect
<1>3. ASSUME NEW t \in Threads, Query(t) PROVE Effect
  <2>1. UNCHANGED <<objects, frames>>
    BY <1>3 DEF Query, CheckExists, CheckExistList
  <2> QED
    BY <2>1, IdleQuiet
<1>4. ASSUME NEW t \in Threads, Count(t) PROVE Effect
  BY <1>4, CheckReleaseEffect, CheckRetainEffect, TypesAssumption DEF Count
<1>5. ASSUME NEW t \in Threads, ConformingCreate(t) PROVE Effect
  BY <1>5, CreateEffect
<1>6. CASE UNCHANGED vars
  BY <1>6, IdleQuiet DEF vars
<1> QED
  BY <1>1, <1>2, <1>3, <1>4, <1>5, <1>6 DEF ConformingNext

-----------------------------------------------------------------------------
(***************************************************************************)
(* The invariant implies what the runs check.                              *)
(***************************************************************************)

LEMMA ExactCounts == ExactInv({}) => ChildrenCounted
BY DEF ExactInv, GraphOK, NodeOK, ChildrenCounted

LEMMA ExactParents == ExactInv({}) => ParentsOutlive
<1> SUFFICES ASSUME ExactInv({}), NEW e \in Edges
             PROVE  Tracked(ParentOf(e))
  BY DEF ParentsOutlive
<1>1. PICK c \in Handles : e \in {<<c, i>> : i \in Owed(c)}
  BY DEF Edges, Owed
<1>2. PICK i \in Owed(c) : e = <<c, i>>
  BY <1>1
<1>3. ParentsOf(c) \in Seq(Handles) /\ i \in DOMAIN ParentsOf(c)
  BY ParentsOfType DEF ExactInv, Inv
<1>4. ParentOf(e) = ParentsOf(c)[i] /\ ParentOf(e) \in Handles
  BY <1>2, <1>3 DEF ParentOf
<1>5. e \in ChildEdges(ParentOf(e))
  BY DEF ChildEdges
<1> QED
  BY <1>4, <1>5 DEF ExactInv, GraphOK, NodeOK

LEMMA ExactReason == ExactInv({}) => KeptForAReason
BY DEF ExactInv, GraphOK, NodeOK, KeptForAReason, Framed

LEMMA ExactDeletion == ExactInv({}) => DeletionIsFinal
BY DEF ExactInv, GraphOK, NodeOK, DeletionIsFinal, Framed

LEMMA UnnamedWhenForgotten ==
    ASSUME NEW Inert, ExactInv(Inert)
    PROVE  \A h \in Handles : ~Tracked(h) =>
              \A c \in Handles : InLife(c) => h \notin Elements(objects[c].parents)
BY EdgelessIsUnnamed DEF ExactInv, Inv, GraphOK, NodeOK

LEMMA ForgottenIsUnnamed ==
    ExactInv({}) => \A h \in Handles : ~Tracked(h) =>
                    \A c \in Handles : InLife(c) => h \notin Elements(objects[c].parents)
BY UnnamedWhenForgotten

\* Whatever the step, a record that leaves the map while the application runs
\* had no reference left.
LEMMA ForgottenHasNoReference ==
    ASSUME Effect, NEW h \in Handles, Tracked(h), ~Tracked(h)', UNCHANGED leaks
    PROVE  objects[h].refcount = 0
<1>1. CASE Quiet
  BY <1>1 DEF Quiet, SameRecord
<1>2. ASSUME NEW g \in Handles, Raised(g) \/ Lowered(g) \/ Added(g)
      PROVE  FALSE
  BY <1>2 DEF Raised, Lowered, Added, Recounted, OnlyAffects, Unaffected, SameRecord, Counts
<1>3. ASSUME NEW g \in Handles, Reaped(g) \/ Erased(g)
      PROVE  objects[h].refcount = 0
  BY <1>3 DEF Reaped, Erased, OnlyAffects, Unaffected, SameRecord
<1> QED
  BY <1>1, <1>2, <1>3 DEF Effect, Emptied

LEMMA RisingWasAllowed ==
    ASSUME ExactInv({}), Effect, NEW h \in Handles, Counts(h), Counts(h)',
           objects[h].refcount = 0, objects'[h].refcount > 0
    PROVE  objects[h].version > 12 /\ ChildEdges(h) # {}
<1>1. ASSUME NEW g \in Handles \ {h}, OnlyAffects(g)
      PROVE  FALSE
  BY <1>1 DEF OnlyAffects, Unaffected, SameRecord, Counts
<1>2. Raised(h)
  <2>1. ~Quiet
    BY DEF Quiet, SameRecord, Counts
  <2>2. ~Lowered(h)
    BY DEF Lowered
  <2>3. ~Added(h) /\ ~Reaped(h) /\ ~Erased(h) /\ ~Emptied
    BY DEF Added, Reaped, Erased, Emptied, Counts
  <2>4. \A g \in Handles \ {h} : ~(Raised(g) \/ Lowered(g) \/ Added(g) \/ Reaped(g) \/ Erased(g))
    BY <1>1 DEF Raised, Lowered, Added, Reaped, Erased
  <2> QED
    BY <2>1, <2>2, <2>3, <2>4 DEF Effect
<1>3. objects[h].num_children > 0 /\ objects[h].version > 12
  BY <1>2 DEF Raised
<1>4. objects[h].num_children = Cardinality(ChildEdges(h))
  BY DEF ExactInv, GraphOK, NodeOK
<1>5. ChildEdges(h) = {} => Cardinality(ChildEdges(h)) = 0
  BY FS_EmptySet
<1> QED
  BY <1>3, <1>4, <1>5

-----------------------------------------------------------------------------
(***************************************************************************)
(* The theorems.                                                           *)
(***************************************************************************)

\* The inductive invariant: the walk is sound, every node of the object graph
\* agrees with its edges, and pending insertions are new.
THEOREM ConformingInvariant == ConformingSpec => []ExactInv({})
<1>1. Init => ExactInv({})
  BY InitExact
<1>2. ExactInv({}) /\ [ConformingNext]_vars => ExactInv({})'
  BY NextExact
<1> QED
  BY <1>1, <1>2, PTL DEF ConformingSpec

\* The counter kept by hand in reference_parent and notify_child_released is
\* the number of vector elements that name the record, at every moment of
\* every walk.
THEOREM ConformingChildrenCounted == ConformingSpec => []ChildrenCounted
BY ConformingInvariant, ExactCounts, PTL

\* find_object_handle on a parent never misses: no record outlives one of its
\* parents.
THEOREM ConformingParentsOutlive == ConformingSpec => []ParentsOutlive
BY ConformingInvariant, ExactParents, PTL

\* When the mutex is free the map holds no counted record without a reference
\* and without a child.
THEOREM ConformingKeptForAReason == ConformingSpec => []KeptForAReason
BY ConformingInvariant, ExactReason, PTL

\* A record whose deletion has begun has neither reference nor child.
THEOREM ConformingDeletionIsFinal == ConformingSpec => []DeletionIsFinal
BY ConformingInvariant, ExactDeletion, PTL

\* While the application runs, check_release and the walk forget a counted
\* record only after its last reference and its last child.
THEOREM ConformingForgottenOnlyWhenDead == ConformingSpec => ForgottenOnlyWhenDead
<1> DEFINE Step == \A h \in Handles :
                      Counts(h) /\ objects'[h] = None /\ leaks' = leaks =>
                         /\ objects[h].refcount = 0
                         /\ \A c \in Handles : InLife(c)' =>
                                 h \notin Elements(objects'[c].parents)
           NoChildLeft == \A h \in Handles : ~Tracked(h) =>
                         \A c \in Handles : InLife(c) => h \notin Elements(objects[c].parents)
<1>1. ExactInv({})' => NoChildLeft'
  BY ForgottenIsUnnamed, PTL
<1>2. ASSUME ExactInv({}), ExactInv({})', [ConformingNext]_vars
      PROVE  Step
  <2>1. Effect
    BY <1>2, StepEffect
  <2>2. ASSUME NEW h \in Handles, Counts(h), objects'[h] = None, leaks' = leaks
        PROVE  /\ objects[h].refcount = 0
               /\ \A c \in Handles : InLife(c)' => h \notin Elements(objects'[c].parents)
    <3>1. Tracked(h) /\ ~Tracked(h)'
      BY <2>2 DEF Counts, Tracked
    <3>2. objects[h].refcount = 0
      BY <2>1, <2>2, <3>1, ForgottenHasNoReference
    <3>3. \A c \in Handles : InLife(c)' => h \notin Elements(objects'[c].parents)
      BY <1>1, <1>2, <3>1
    <3> QED
      BY <3>2, <3>3
  <2> QED
    BY <2>2
<1>3. ExactInv({}) /\ ExactInv({})' /\ [ConformingNext]_vars => [Step]_vars
  BY <1>2
<1>4. ConformingSpec => [][Step]_vars
  BY ConformingInvariant, <1>3, PTL DEF ConformingSpec
<1> QED
  BY <1>4 DEF ForgottenOnlyWhenDead

\* check_retain brings a count back from zero only for a record that has a
\* child, on a platform after OpenCL 1.2; nothing else does.
THEOREM ConformingNoResurrection == ConformingSpec => NoResurrectionBefore20
<1> DEFINE Step == \A h \in Handles :
                      Counts(h) /\ Counts(h)' /\ objects[h].refcount = 0 /\ objects'[h].refcount > 0 =>
                         /\ objects[h].version > 12
                         /\ ChildEdges(h) # {}
<1>1. ExactInv({}) /\ [ConformingNext]_vars => [Step]_vars
  BY StepEffect, RisingWasAllowed
<1>2. ConformingSpec => [][Step]_vars
  BY ConformingInvariant, <1>1, PTL DEF ConformingSpec
<1> QED
  BY <1>2 DEF NoResurrectionBefore20
=============================================================================
