--------------------------- MODULE ChildrenProofs ---------------------------
(***************************************************************************)
(* The counter num_children against the parents vectors it counts: how a   *)
(* step changes the edges of the object graph, and the theorem that no     *)
(* sequence of calls, whatever handles the driver reuses, makes a record   *)
(* kept by fewer children than name it.                                    *)
(***************************************************************************)
EXTENDS ObjectLifetimeProofs

\* The positions of the vector of c that have not been notified yet.
Owed(c) == FirstOwed(c)..Len(ParentsOf(c))

SameOwed(c) ==
    /\ Owed(c)' = Owed(c)
    /\ \A i \in Owed(c) : ParentsOf(c)'[i] = ParentsOf(c)[i]

-----------------------------------------------------------------------------
(***************************************************************************)
(* Edges and their number.                                                 *)
(***************************************************************************)

LEMMA ChildEdgesAre ==
    ASSUME NEW q
    PROVE  /\ \A e : e \in ChildEdges(q) <=>
                        \E c \in Handles : \E i \in Owed(c) :
                            e = <<c, i>> /\ ParentsOf(c)[i] = q
           /\ \A e : e \in ChildEdges(q)' <=>
                        \E c \in Handles : \E i \in Owed(c)' :
                            e = <<c, i>> /\ ParentsOf(c)'[i] = q
<1>1. ASSUME NEW e
      PROVE  e \in ChildEdges(q) <=> \E c \in Handles : \E i \in Owed(c) :
                                        e = <<c, i>> /\ ParentsOf(c)[i] = q
  BY DEF ChildEdges, Edges, ParentOf, Owed
<1>2. ASSUME NEW e
      PROVE  e \in ChildEdges(q)' <=> \E c \in Handles : \E i \in Owed(c)' :
                                         e = <<c, i>> /\ ParentsOf(c)'[i] = q
  BY DEF ChildEdges, Edges, ParentOf, Owed
<1> QED
  BY <1>1, <1>2

LEMMA ParentsOfType ==
    ASSUME TypeOK, NEW c \in Handles
    PROVE  /\ ParentsOf(c) \in Seq(Handles)
           /\ FirstOwed(c) \in Nat \ {0}
           /\ Owed(c) \subseteq DOMAIN ParentsOf(c)
<1>1. frames[c] # None => frames[c].parents \in Seq(Handles) /\ frames[c].next \in Nat \ {0}
  BY ParentListsAssumption DEF TypeOK, Frame
<1>2. objects[c] # None => objects[c].parents \in Seq(Handles)
  BY ParentListsAssumption DEF TypeOK, Record
<1>3. ParentsOf(c) \in Seq(Handles) /\ FirstOwed(c) \in Nat \ {0}
  BY <1>1, <1>2 DEF ParentsOf, FirstOwed
<1> QED
  BY <1>3 DEF Owed

LEMMA ChildEdgesFinite ==
    ASSUME TypeOK, NEW q
    PROVE  IsFiniteSet(ChildEdges(q)) /\ Cardinality(ChildEdges(q)) \in Nat
<1> DEFINE edgesOf == [c \in Handles |-> {<<c, i>> : i \in Owed(c)}]
           all == {edgesOf[c] : c \in Handles}
<1>1. ASSUME NEW c \in Handles
      PROVE  IsFiniteSet(edgesOf[c])
  <2> DEFINE f == [i \in Owed(c) |-> <<c, i>>]
  <2>1. IsFiniteSet(Owed(c))
    BY ParentsOfType, FS_Interval DEF Owed
  <2>2. f \in Surjection(Owed(c), edgesOf[c])
    BY DEF Surjection
  <2> QED
    BY <2>1, <2>2, FS_Surjection
<1>2. IsFiniteSet(all)
  <2>1. edgesOf \in Surjection(Handles, all)
    BY DEF Surjection
  <2> QED
    BY <2>1, FS_Surjection, HandlesAssumption
<1>3. IsFiniteSet(UNION all)
  BY <1>1, <1>2, FS_UNION
<1>4. ChildEdges(q) \subseteq UNION all
  BY ChildEdgesAre
<1> HIDE DEF all
<1> QED
  BY <1>3, <1>4, FS_Subset, FS_CardinalityType

\* A step that leaves what is owed as it was leaves the edges as they were.
LEMMA EdgesKept ==
    ASSUME \A c \in Handles : SameOwed(c), NEW q
    PROVE  ChildEdges(q)' = ChildEdges(q)
<1>1. ASSUME NEW e
      PROVE  e \in ChildEdges(q)' <=> e \in ChildEdges(q)
  BY ChildEdgesAre DEF SameOwed
<1> QED
  BY <1>1

\* A notification removes one edge.
LEMMA EdgeTold ==
    ASSUME NEW top \in Handles, NEW n \in Owed(top), NEW q,
           \A c \in Handles \ {top} : SameOwed(c),
           Owed(top)' = Owed(top) \ {n},
           \A i \in Owed(top)' : ParentsOf(top)'[i] = ParentsOf(top)[i]
    PROVE  ChildEdges(q)' = ChildEdges(q) \ {<<top, n>>}
<1>1. ASSUME NEW e
      PROVE  e \in ChildEdges(q)' <=> e \in ChildEdges(q) /\ e # <<top, n>>
  <2>1. ASSUME NEW c \in Handles, NEW i
        PROVE  (i \in Owed(c)' /\ ParentsOf(c)'[i] = q) <=>
                  (i \in Owed(c) /\ ParentsOf(c)[i] = q /\ <<c, i>> # <<top, n>>)
    <3>1. CASE c = top
      BY <3>1
    <3>2. CASE c # top
      BY <3>2 DEF SameOwed
    <3> QED
      BY <3>1, <3>2
  <2> QED
    BY <2>1, ChildEdgesAre
<1> QED
  BY <1>1

\* An insertion adds one edge for every element of the parents vector.
LEMMA EdgesAdded ==
    ASSUME TypeOK, NEW h \in Handles, NEW ps \in Seq(Handles), NEW q,
           \A c \in Handles \ {h} : SameOwed(c),
           Owed(h) = {}, Owed(h)' = DOMAIN ps, ParentsOf(h)' = ps
    PROVE  Cardinality(ChildEdges(q)') = Cardinality(ChildEdges(q)) + Occurrences(ps, q)
<1> DEFINE at == {i \in DOMAIN ps : ps[i] = q}
           added == {<<h, i>> : i \in at}
           f == [i \in at |-> <<h, i>>]
<1>1. ChildEdges(q)' = ChildEdges(q) \cup added
  <2>1. ASSUME NEW e
        PROVE  e \in ChildEdges(q)' <=> e \in ChildEdges(q) \/ e \in added
    <3>1. ASSUME NEW c \in Handles \ {h}, NEW i
          PROVE  (i \in Owed(c)' /\ ParentsOf(c)'[i] = q) <=>
                    (i \in Owed(c) /\ ParentsOf(c)[i] = q)
      BY <3>1 DEF SameOwed
    <3> QED
      BY <3>1, ChildEdgesAre
  <2> QED
    BY <2>1
<1>2. ChildEdges(q) \cap added = {}
  BY ChildEdgesAre
<1>3. IsFiniteSet(at)
  <2>1. IsFiniteSet(DOMAIN ps)
    BY FS_Interval
  <2> QED
    BY <2>1, FS_Subset
<1>4. ExistsBijection(at, added)
  <2>1. f \in Bijection(at, added)
    BY DEF Bijection, Injection, IsInjective, Surjection
  <2> QED
    BY <2>1 DEF ExistsBijection
<1>5. IsFiniteSet(added) /\ Cardinality(added) = Occurrences(ps, q)
  BY <1>3, <1>4, FS_Bijection DEF Occurrences
<1>6. IsFiniteSet(ChildEdges(q)) /\ Cardinality(ChildEdges(q)) \in Nat
  BY ChildEdgesFinite
<1>7. Cardinality(added) \in Nat
  BY <1>5, FS_CardinalityType
<1> HIDE DEF added
<1>8. Cardinality(ChildEdges(q) \cup added) =
         Cardinality(ChildEdges(q)) + Cardinality(added) - Cardinality({})
  BY <1>2, <1>5, <1>6, FS_Union
<1> QED
  BY <1>1, <1>5, <1>6, <1>7, <1>8, FS_EmptySet

LEMMA ReferencedRecord ==
    ASSUME NEW objs \in [Handles -> Record \cup {None}], NEW ps \in ParentLists,
           NEW p \in Handles, NEW after, after = ReferenceParents(objs, ps)[p]
    PROVE  /\ objs[p] = None => after = None
           /\ objs[p] # None =>
                /\ after \in Record
                /\ after.type = objs[p].type
                /\ after.version = objs[p].version
                /\ after.refcount = objs[p].refcount
                /\ after.parents = objs[p].parents
                /\ ~IsCounted(objs[p]) => after = objs[p]
                /\ IsCounted(objs[p]) =>
                     after.num_children = objs[p].num_children + Occurrences(ps, p)
<1>1. Occurrences(ps, p) \in Nat
  BY OccurrencesType, ParentListsAssumption
<1>2. after = IF objs[p] = None THEN None
              ELSE IF IsCounted(objs[p])
                   THEN [objs[p] EXCEPT !.num_children = @ + Occurrences(ps, p)]
                   ELSE objs[p]
  BY DEF ReferenceParents
<1>3. objs[p] # None => objs[p] \in Record
  OBVIOUS
<1> QED
  BY <1>1, <1>2, <1>3 DEF Record

LEMMA InsertedParents ==
    ASSUME NEW base \in [Handles -> Record \cup {None}], NEW h \in Handles,
           NEW new \in NewObject, base[h] = None
    PROVE  InsertObject(base, h, new)[h].parents = new.parents
<1> DEFINE rec == NewRecord(base, new)
           inserted == [base EXCEPT ![h] = rec]
<1>1. rec \in Record /\ rec # None /\ rec.parents = new.parents
  BY NewRecordType, NoneAssumption DEF NewRecord
<1> HIDE DEF rec
<1>2. /\ inserted \in [Handles -> Record \cup {None}] /\ inserted[h] = rec
      /\ new.parents \in ParentLists
  BY <1>1 DEF NewObject
<1>3. InsertObject(base, h, new) = ReferenceParents(inserted, new.parents)
  BY <1>1, <1>2 DEF InsertObject, rec
<1> HIDE DEF inserted
<1> QED
  BY <1>1, <1>2, <1>3, ReferencedRecord

\* What an insertion at a handle without a record does to the edges and to the
\* records; `base` is the map without the record that was deleted, if any.
LEMMA InsertEdges ==
    ASSUME TypeOK, NEW h \in Handles, NEW new \in NewObject,
           NEW base \in [Handles -> Record \cup {None}],
           \A g \in Handles \ {h} : base[g] = objects[g] /\ ~Framed(g),
           base[h] = None, Owed(h) = {},
           objects' = InsertObject(base, h, new),
           \A g \in Handles : ~Framed(g)'
    PROVE  /\ \A q : Cardinality(ChildEdges(q)') =
                        Cardinality(ChildEdges(q)) + Occurrences(new.parents, q)
           /\ \A q \in Handles \ {h} :
                /\ Tracked(q)' <=> Tracked(q)
                /\ Tracked(q) =>
                     /\ objects'[q].type = objects[q].type
                     /\ objects'[q].version = objects[q].version
                     /\ objects'[q].refcount = objects[q].refcount
                     /\ objects'[q].parents = objects[q].parents
                     /\ IsCounted(objects[q]) =>
                          objects'[q].num_children =
                             objects[q].num_children + Occurrences(new.parents, q)
           /\ Tracked(h)'
           /\ objects'[h].type = new.type
           /\ objects'[h].refcount = new.refcount
           /\ objects'[h].parents = new.parents
           /\ IsCounted(objects'[h]) =>
                objects'[h].num_children = Occurrences(new.parents, h)
<1> DEFINE rec == NewRecord(base, new)
           inserted == [base EXCEPT ![h] = rec]
           ps == new.parents
<1>1. rec \in Record /\ rec # None
  BY NewRecordType, NoneAssumption
<1>2. /\ rec.type = new.type /\ rec.refcount = new.refcount
      /\ rec.parents = ps /\ rec.num_children = 0
  BY DEF NewRecord
<1>3. ps \in ParentLists /\ ps \in Seq(Handles)
  BY ParentListsAssumption DEF NewObject
<1>4. /\ inserted \in [Handles -> Record \cup {None}]
      /\ inserted[h] = rec
      /\ \A q \in Handles \ {h} : inserted[q] = objects[q]
  BY <1>1
<1> HIDE DEF rec
<1>5. objects' = ReferenceParents(inserted, ps)
  BY <1>2, <1>4 DEF InsertObject, rec
<1> HIDE DEF inserted
<1>6. ASSUME NEW q \in Handles \ {h}
      PROVE  /\ Tracked(q)' <=> Tracked(q)
             /\ Tracked(q) =>
                  /\ objects'[q].type = objects[q].type
                  /\ objects'[q].version = objects[q].version
                  /\ objects'[q].refcount = objects[q].refcount
                  /\ objects'[q].parents = objects[q].parents
                  /\ IsCounted(objects[q]) =>
                       objects'[q].num_children =
                          objects[q].num_children + Occurrences(ps, q)
  <2>1. /\ inserted[q] = objects[q]
        /\ objects'[q] = ReferenceParents(inserted, ps)[q]
    BY <1>4, <1>5
  <2>2. CASE inserted[q] = None
    <3>1. objects'[q] = None
      BY <1>3, <1>4, <2>1, <2>2, ReferencedRecord
    <3> QED
      BY <2>1, <2>2, <3>1 DEF Tracked
  <2>3. CASE inserted[q] # None
    <3>1. /\ objects'[q] \in Record
          /\ objects'[q].type = inserted[q].type
          /\ objects'[q].version = inserted[q].version
          /\ objects'[q].refcount = inserted[q].refcount
          /\ objects'[q].parents = inserted[q].parents
          /\ IsCounted(inserted[q]) =>
               objects'[q].num_children = inserted[q].num_children + Occurrences(ps, q)
      BY <1>3, <1>4, <2>1, <2>3, ReferencedRecord
    <3> QED
      BY <2>1, <2>3, <3>1, NoneAssumption DEF Tracked
  <2> QED
    BY <2>2, <2>3
<1>7. /\ Tracked(h)'
      /\ objects'[h].type = new.type
      /\ objects'[h].refcount = new.refcount
      /\ objects'[h].parents = ps
      /\ IsCounted(objects'[h]) => objects'[h].num_children = Occurrences(ps, h)
  <2>1. /\ objects'[h] \in Record
        /\ objects'[h].type = rec.type
        /\ objects'[h].refcount = rec.refcount
        /\ objects'[h].parents = rec.parents
        /\ IsCounted(rec) => objects'[h].num_children = rec.num_children + Occurrences(ps, h)
    BY <1>1, <1>3, <1>4, <1>5, ReferencedRecord
  <2>2. Occurrences(ps, h) \in Nat
    BY <1>3, OccurrencesType
  <2> QED
    BY <1>2, <2>1, <2>2, NoneAssumption DEF Tracked, IsCounted
<1>8. \A c \in Handles \ {h} : SameOwed(c)
  BY <1>6 DEF SameOwed, Owed, FirstOwed, ParentsOf, Framed, Tracked
<1>9. ParentsOf(h)' = ps /\ Owed(h)' = DOMAIN ps
  <2>1. ParentsOf(h)' = ps /\ FirstOwed(h)' = 1
    BY <1>7 DEF FirstOwed, ParentsOf, Framed, Tracked
  <2> QED
    BY <1>3, <2>1 DEF Owed
<1>10. \A q : Cardinality(ChildEdges(q)') = Cardinality(ChildEdges(q)) + Occurrences(ps, q)
  BY <1>3, <1>8, <1>9, EdgesAdded
<1> QED
  BY <1>6, <1>7, <1>10

\* Outside a walk, a step that keeps every parents vector keeps the edges,
\* also when it begins the deletion of a record.
LEMMA EdgesOutsideWalk ==
    ASSUME \A g \in Handles : ~Framed(g),
           \A g \in Handles : Tracked(g)' <=> Tracked(g),
           \A g \in Handles : Tracked(g) => objects'[g].parents = objects[g].parents,
           \A g \in Handles : Framed(g)' => Tracked(g) /\ frames'[g] = NewFrame(g)
    PROVE  \A q : ChildEdges(q)' = ChildEdges(q)
<1>1. ASSUME NEW c \in Handles
      PROVE  ParentsOf(c)' = ParentsOf(c) /\ FirstOwed(c)' = FirstOwed(c)
  <2>1. CASE Framed(c)'
    <3>1. /\ objects[c] # None /\ frames[c] = None
          /\ frames'[c] # None /\ frames'[c] = NewFrame(c)
      BY <2>1 DEF Framed, Tracked
    <3>2. frames'[c].parents = objects[c].parents /\ frames'[c].next = 1
      BY <3>1 DEF NewFrame
    <3> QED
      BY <3>1, <3>2 DEF ParentsOf, FirstOwed
  <2>2. CASE ~Framed(c)'
    BY <2>2 DEF ParentsOf, FirstOwed, Framed, Tracked
  <2> QED
    BY <2>1, <2>2
<1>2. \A c \in Handles : SameOwed(c)
  BY <1>1 DEF SameOwed, Owed
<1> QED
  BY <1>2, EdgesKept

\* What a notification does: one edge goes, and only the parent's record may
\* change.  A parent that dies has no loop of its own yet.
LEMMA NotifyEdges ==
    ASSUME Inv, NotifyChildReleased,
           NEW top, top = Top, NEW n, n = frames[top].next,
           NEW p, p = frames[top].parents[n]
    PROVE  /\ top \in Handles /\ p \in Handles
           /\ <<top, n>> \in ChildEdges(p)
           /\ \A q : ChildEdges(q)' = ChildEdges(q) \ {<<top, n>>}
           /\ \A q \in Handles \ {p} : /\ ChildEdges(q)' = ChildEdges(q)
                                       /\ objects'[q] = objects[q]
           /\ ~Counts(p) => objects' = objects
           /\ Counts(p) =>
                \/ /\ objects[p].refcount = 0 /\ objects[p].num_children = 1
                   /\ objects'[p] = None
                \/ /\ ~(objects[p].refcount = 0 /\ objects[p].num_children = 1)
                   /\ objects'[p] = [objects[p] EXCEPT !.num_children = @ - 1]
<1> DEFINE advanced == [frames EXCEPT ![top].next = @ + 1]
           dies == objects[p].refcount = 0 /\ objects[p].num_children = 1
<1>1. Deleting /\ n <= Len(frames[top].parents)
  BY DEF NotifyChildReleased, TopFrame
<1>2. /\ mutex # None /\ mutex.stack # <<>> /\ mutex.stack \in Seq(Handles)
      /\ mutex.stack[1] \in Handles /\ Lasting(mutex.stack[1])
      /\ top \in Handles /\ frames[top] \in Frame /\ frames[top] # None
      /\ frames[top].parents \in Seq(Handles) /\ n \in Nat \ {0}
  BY <1>1, WalkShape, NoneAssumption
<1>3. p \in Handles /\ p \in Elements(frames[top].parents)
  BY <1>1, <1>2 DEF Elements
<1>4. \/ ~Counts(p) /\ frames' = advanced /\ objects' = objects
      \/ /\ Counts(p) /\ ~dies /\ frames' = advanced
         /\ objects' = [objects EXCEPT ![p].num_children = @ - 1]
      \/ /\ Counts(p) /\ dies
         /\ objects' = [objects EXCEPT ![p] = None]
         /\ frames' = [advanced EXCEPT ![p] = NewFrame(p)]
  BY DEF NotifyChildReleased, TopFrame
<1>5. /\ advanced[top].parents = frames[top].parents
      /\ advanced[top].next = n + 1
      /\ advanced[top] # None
      /\ \A c \in Handles \ {top} : advanced[c] = frames[c]
  <2>1. [frames[top] EXCEPT !.next = @ + 1] \in Frame
    BY <1>2 DEF Frame
  <2> QED
    BY <1>2, <2>1, NoneAssumption DEF Inv, TypeOK, Frame
<1>6. Counts(p) /\ dies => ~Framed(p)
  <2> SUFFICES ASSUME Counts(p), dies, Framed(p)
               PROVE  FALSE
    OBVIOUS
  <2>1. PICK i \in DOMAIN mutex.stack : mutex.stack[i] = p
    BY <1>2, <1>3 DEF Inv, WalkInv, StackIsFrames
  <2>2. i = 1
    BY <1>2, <2>1 DEF Inv, WalkInv, OnlyRootTracked, Counts
  <2>3. Unnamed(p)
    BY <1>2, <2>1, <2>2 DEF Lasting
  <2> QED
    BY <1>2, <1>3, <2>3 DEF Unnamed, Framed
<1> HIDE DEF advanced
<1>7. /\ objects \in [Handles -> Record \cup {None}]
      /\ frames \in [Handles -> Frame \cup {None}]
      /\ advanced \in [Handles -> Frame \cup {None}]
  <2>1. [frames[top] EXCEPT !.next = @ + 1] \in Frame
    BY <1>2 DEF Frame
  <2> QED
    BY <1>2, <2>1 DEF Inv, TypeOK, advanced
<1>8. Counts(p) => objects[p] \in Record /\ objects[p] # None
  BY <1>7 DEF Counts, Tracked
<1>9. \A q \in Handles \ {p} : objects'[q] = objects[q]
  BY <1>4, <1>7
<1>10. Counts(p) /\ ~dies =>
         /\ objects'[p] = [objects[p] EXCEPT !.num_children = @ - 1]
         /\ objects'[p] \in Record
         /\ objects'[p].parents = objects[p].parents
  <2> SUFFICES ASSUME Counts(p), ~dies
               PROVE  /\ objects'[p] = [objects[p] EXCEPT !.num_children = @ - 1]
                      /\ objects'[p] \in Record
                      /\ objects'[p].parents = objects[p].parents
    OBVIOUS
  <2>1. objects' = [objects EXCEPT ![p].num_children = @ - 1]
    BY <1>4
  <2>2. objects'[p] = [objects[p] EXCEPT !.num_children = @ - 1]
    BY <1>3, <1>7, <2>1
  <2> QED
    BY <1>8, <2>2, ChildLess
<1>11. \A c \in Handles \ {top} : ParentsOf(c)' = ParentsOf(c) /\ FirstOwed(c)' = FirstOwed(c)
  <2> SUFFICES ASSUME NEW c \in Handles \ {top}
               PROVE  ParentsOf(c)' = ParentsOf(c) /\ FirstOwed(c)' = FirstOwed(c)
    OBVIOUS
  <2>1. CASE c # p \/ ~Counts(p)
    <3>1. objects'[c] = objects[c] /\ frames'[c] = frames[c]
      BY <1>3, <1>4, <1>5, <1>7, <2>1
    <3> QED
      BY <3>1 DEF ParentsOf, FirstOwed
  <2>2. CASE c = p /\ Counts(p) /\ ~dies
    <3>1. frames' = advanced
      BY <1>4, <2>2
    <3>2. frames'[c] = frames[c]
      BY <1>5, <3>1
    <3>3. objects[c] # None
      BY <1>8, <2>2
    <3>4. objects'[c] \in Record /\ objects'[c].parents = objects[c].parents
      BY <1>10, <2>2
    <3>5. objects'[c] # None
      BY <3>4, NoneAssumption
    <3> QED
      BY <3>2, <3>3, <3>4, <3>5 DEF ParentsOf, FirstOwed
  <2>3. CASE c = p /\ Counts(p) /\ dies
    <3>1. frames'[c] = NewFrame(c)
      BY <1>4, <1>7, <2>3
    <3>2. NewFrame(c) # None
      BY <1>8, <2>3, NewFrameType, NoneAssumption DEF Counts, Inv
    <3>3. frames[c] = None /\ objects[c] # None
      BY <1>6, <1>8, <2>3 DEF Framed
    <3> QED
      BY <3>1, <3>2, <3>3 DEF ParentsOf, FirstOwed, NewFrame
  <2> QED
    BY <2>1, <2>2, <2>3
<1>12. \A c \in Handles \ {top} : SameOwed(c)
  BY <1>11 DEF SameOwed, Owed
<1>13. ParentsOf(top) = frames[top].parents /\ FirstOwed(top) = n
  BY <1>2 DEF ParentsOf, FirstOwed
<1>14. ParentsOf(top)' = frames[top].parents /\ FirstOwed(top)' = n + 1
  <2>1. Counts(p) /\ dies => p # top
    BY <1>2, <1>6 DEF Framed
  <2>2. frames'[top] = advanced[top]
    BY <1>2, <1>4, <1>7, <2>1
  <2> QED
    BY <1>5, <2>2 DEF ParentsOf, FirstOwed
<1>15. n \in Owed(top) /\ Owed(top)' = Owed(top) \ {n}
  BY <1>1, <1>2, <1>13, <1>14 DEF Owed
<1>16. \A q : ChildEdges(q)' = ChildEdges(q) \ {<<top, n>>}
  BY <1>2, <1>12, <1>13, <1>14, <1>15, EdgeTold
<1>17. \A q : <<top, n>> \in ChildEdges(q) <=> q = p
  BY <1>2, <1>13, <1>15, ChildEdgesAre
<1>18. \A q \in Handles \ {p} : ChildEdges(q)' = ChildEdges(q)
  BY <1>16, <1>17
<1>19. Counts(p) /\ dies => objects'[p] = None
  BY <1>3, <1>4, <1>7
<1>20. ~Counts(p) => objects' = objects
  BY <1>4
<1> QED
  BY <1>2, <1>3, <1>9, <1>10, <1>16, <1>17, <1>18, <1>19, <1>20

\* A loop that ends has no edge left.
LEMMA ReturnEdges ==
    ASSUME Inv, ReturnToCaller
    PROVE  \A q : ChildEdges(q)' = ChildEdges(q)
<1> SUFFICES ASSUME NEW top, top = Top
             PROVE  \A q : ChildEdges(q)' = ChildEdges(q)
  OBVIOUS
<1>1. /\ Deleting /\ frames[top].next > Len(frames[top].parents)
      /\ Len(mutex.stack) > 1
      /\ frames' = [frames EXCEPT ![top] = None] /\ objects' = objects
  BY DEF ReturnToCaller, TopFrame
<1>2. /\ mutex # None /\ mutex.stack \in Seq(Handles)
      /\ top \in Handles /\ frames[top] \in Frame /\ frames[top] # None
      /\ frames[top].parents \in Seq(Handles) /\ frames[top].next \in Nat \ {0}
      /\ top = mutex.stack[Len(mutex.stack)] /\ Len(mutex.stack) \in DOMAIN mutex.stack
  BY <1>1, WalkShape, NoneAssumption DEF Top
<1>3. objects[top] = None
  BY <1>1, <1>2 DEF Inv, WalkInv, OnlyRootTracked, Tracked
<1>4. frames'[top] = None /\ \A c \in Handles \ {top} : frames'[c] = frames[c]
  BY <1>1, <1>2 DEF Inv, TypeOK
<1>5. Owed(top) = {}
  BY <1>1, <1>2 DEF Owed, ParentsOf, FirstOwed
<1>6. Owed(top)' = {}
  <2>1. ParentsOf(top)' = <<>> /\ FirstOwed(top)' = 1
    BY <1>1, <1>3, <1>4 DEF ParentsOf, FirstOwed
  <2> QED
    BY <2>1 DEF Owed
<1>7. \A c \in Handles \ {top} : SameOwed(c)
  BY <1>1, <1>4 DEF SameOwed, Owed, ParentsOf, FirstOwed
<1>8. \A c \in Handles : SameOwed(c)
  BY <1>5, <1>6, <1>7 DEF SameOwed
<1> QED
  BY <1>8, EdgesKept

\* The outermost loop: its record is the only one with a loop, all its parents
\* have been told, and after the step there is no loop.
LEMMA FinishShape ==
    ASSUME Inv, FinishDelete, NEW h, h = Top
    PROVE  /\ h \in Handles /\ Tracked(h) /\ h = mutex.stack[1]
           /\ mutex # None /\ mutex.stack # <<>> /\ mutex.todo \in Seq(Pending)
           /\ Owed(h) = {}
           /\ \A g \in Handles : Framed(g) <=> g = h
           /\ \A g \in Handles : ~Framed(g)'
<1>1. /\ Deleting /\ Len(mutex.stack) = 1
      /\ frames[h].next > Len(frames[h].parents)
      /\ frames' = [frames EXCEPT ![h] = None]
  BY DEF FinishDelete, TopFrame
<1>2. /\ mutex # None /\ mutex.stack \in Seq(Handles) /\ mutex.todo \in Seq(Pending)
      /\ h \in Handles /\ h = mutex.stack[1] /\ Tracked(h)
      /\ frames[h] \in Frame /\ frames[h] # None
      /\ frames[h].parents \in Seq(Handles) /\ frames[h].next \in Nat \ {0}
  BY <1>1, WalkShape, HeldType, NoneAssumption DEF Top, Inv
<1>3. Owed(h) = {}
  BY <1>1, <1>2 DEF Owed, ParentsOf, FirstOwed
<1>4. \A g \in Handles : Framed(g) <=> g = h
  <2>1. DOMAIN mutex.stack = {1}
    BY <1>1, <1>2
  <2> QED
    BY <1>2, <2>1 DEF Inv, WalkInv, StackIsFrames
<1>5. \A g \in Handles : ~Framed(g)'
  BY <1>1, <1>2, <1>4 DEF Framed, Inv, TypeOK
<1> QED
  BY <1>1, <1>2, <1>3, <1>4, <1>5 DEF Deleting

LEMMA EraseEdges ==
    ASSUME Inv, FinishDelete, NEW h, h = Top,
           objects' = [objects EXCEPT ![h] = None]
    PROVE  /\ \A q : ChildEdges(q)' = ChildEdges(q)
           /\ objects'[h] = None
           /\ \A q \in Handles \ {h} : objects'[q] = objects[q]
<1>1. /\ h \in Handles /\ Owed(h) = {}
      /\ \A g \in Handles : Framed(g) <=> g = h
      /\ \A g \in Handles : ~Framed(g)'
  BY FinishShape
<1>2. objects'[h] = None /\ \A q \in Handles \ {h} : objects'[q] = objects[q]
  BY <1>1 DEF Inv, TypeOK
<1>3. Owed(h)' = {}
  <2>1. ParentsOf(h)' = <<>> /\ FirstOwed(h)' = 1
    BY <1>1, <1>2 DEF ParentsOf, FirstOwed, Framed
  <2> QED
    BY <2>1 DEF Owed
<1>4. \A c \in Handles \ {h} : SameOwed(c)
  BY <1>1, <1>2 DEF SameOwed, Owed, ParentsOf, FirstOwed, Framed
<1>5. \A c \in Handles : SameOwed(c)
  BY <1>1, <1>3, <1>4 DEF SameOwed
<1> QED
  BY <1>2, <1>5, EdgesKept

-----------------------------------------------------------------------------
(***************************************************************************)
(* The invariant of the open tracker.  A handle that waits to be inserted  *)
(* is in no parents vector, so its new record may start without children;  *)
(* a deletion with insertions to follow is that of the first of them.      *)
(***************************************************************************)

PendingUnnamed ==
    mutex # None =>
        \A i, j \in DOMAIN mutex.todo :
            /\ Unnamed(mutex.todo[i].handle)
            /\ mutex.todo[i].handle \notin Elements(mutex.todo[j].new.parents)

ReplacedIsNext ==
    mutex # None /\ mutex.stack # <<>> /\ mutex.todo # <<>> =>
        mutex.stack[1] = Head(mutex.todo).handle

CoverInv == Inv /\ ChildrenCovered /\ PendingUnnamed /\ ReplacedIsNext

\* A step that keeps of every record what the edges depend on.
SameRecords ==
    \A g \in Handles :
        /\ Tracked(g)' <=> Tracked(g)
        /\ Tracked(g) => /\ objects'[g].type = objects[g].type
                         /\ objects'[g].parents = objects[g].parents
                         /\ objects'[g].num_children = objects[g].num_children

LEMMA NewFrameIs ==
    \A h : NewFrame(h).parents = objects[h].parents /\ NewFrame(h).next = 1
BY DEF NewFrame

LEMMA UnnamedHasNoEdge ==
    ASSUME TypeOK, NEW h \in Handles, Unnamed(h)
    PROVE  ChildEdges(h) = {}
<1> SUFFICES ASSUME NEW e \in ChildEdges(h) PROVE FALSE
  OBVIOUS
<1>1. PICK c \in Handles : \E i \in Owed(c) : ParentsOf(c)[i] = h
  BY ChildEdgesAre
<1>2. PICK i \in Owed(c) : ParentsOf(c)[i] = h
  BY <1>1
<1>3. i \in DOMAIN ParentsOf(c)
  BY ParentsOfType
<1>4. h \in Elements(ParentsOf(c))
  BY <1>2, <1>3 DEF Elements
<1>5. CASE frames[c] # None
  BY <1>4, <1>5 DEF Unnamed, Framed, ParentsOf
<1>6. CASE frames[c] = None /\ objects[c] # None
  BY <1>4, <1>6 DEF Unnamed, Tracked, ParentsOf
<1>7. CASE frames[c] = None /\ objects[c] = None
  BY <1>3, <1>7 DEF ParentsOf
<1> QED
  BY <1>5, <1>6, <1>7

LEMMA UnnamedKept ==
    ASSUME NEW g, Unnamed(g),
           \A c \in Handles :
              /\ Tracked(c)' =>
                   \/ Tracked(c) /\ objects'[c].parents = objects[c].parents
                   \/ g \notin Elements(objects'[c].parents)
              /\ Framed(c)' =>
                   \/ Framed(c) /\ frames'[c].parents = frames[c].parents
                   \/ Tracked(c) /\ frames'[c].parents = objects[c].parents
    PROVE  Unnamed(g)'
BY DEF Unnamed

LEMMA CoveredKept ==
    ASSUME ChildrenCovered, \A q : ChildEdges(q)' = ChildEdges(q),
           \A q \in Handles : Counts(q)' =>
                Counts(q) /\ objects'[q].num_children = objects[q].num_children
    PROVE  ChildrenCovered'
BY DEF ChildrenCovered

LEMMA InsertCovered ==
    ASSUME TypeOK, ChildrenCovered, NEW h \in Handles, NEW new \in NewObject,
           NEW base \in [Handles -> Record \cup {None}],
           \A g \in Handles \ {h} : base[g] = objects[g] /\ ~Framed(g),
           base[h] = None, Owed(h) = {}, ChildEdges(h) = {},
           objects' = InsertObject(base, h, new),
           \A g \in Handles : ~Framed(g)'
    PROVE  ChildrenCovered'
<1> SUFFICES ASSUME NEW p \in Handles, Counts(p)'
             PROVE  objects'[p].num_children >= Cardinality(ChildEdges(p)')
  BY DEF ChildrenCovered
<1>1. Cardinality(ChildEdges(p)') = Cardinality(ChildEdges(p)) + Occurrences(new.parents, p)
  BY InsertEdges
<1>2. Cardinality(ChildEdges(p)) \in Nat
  BY ChildEdgesFinite
<1>3. Occurrences(new.parents, p) \in Nat
  BY OccurrencesType, ParentListsAssumption DEF NewObject
<1>4. CASE p = h
  <2>1. objects'[p].num_children = Occurrences(new.parents, p)
    BY <1>4, InsertEdges DEF Counts
  <2>2. Cardinality(ChildEdges(p)) = 0
    BY <1>4, FS_EmptySet
  <2> QED
    BY <1>1, <1>3, <2>1, <2>2
<1>5. CASE p # h
  <2>1. /\ Tracked(p) /\ objects'[p].type = objects[p].type
        /\ IsCounted(objects[p]) =>
             objects'[p].num_children = objects[p].num_children + Occurrences(new.parents, p)
    BY <1>5, InsertEdges DEF Counts
  <2>2. Counts(p)
    BY <2>1 DEF Counts, IsCounted
  <2>3. objects[p].num_children \in Int
    BY <2>1 DEF TypeOK, Tracked, Record
  <2>4. objects[p].num_children >= Cardinality(ChildEdges(p))
    BY <2>2 DEF ChildrenCovered
  <2>5. objects'[p].num_children = objects[p].num_children + Occurrences(new.parents, p)
    BY <2>1, <2>2 DEF Counts
  <2> QED
    BY <1>1, <1>2, <1>3, <2>3, <2>4, <2>5
<1> QED
  BY <1>4, <1>5

\* An insertion under a handle that still has a record adds references to its
\* parents and no edge.
LEMMA ReinsertCovered ==
    ASSUME TypeOK, ChildrenCovered, NEW h \in Handles, objects[h] # None, NEW new,
           objects' = InsertObject(objects, h, new),
           \A g \in Handles : ~Framed(g), UNCHANGED frames
    PROVE  /\ ChildrenCovered'
           /\ \A g \in Handles : /\ Tracked(g)' <=> Tracked(g)
                                 /\ Tracked(g) => objects'[g].parents = objects[g].parents
<1> DEFINE ps == objects[h].parents
<1>1. objects' = ReferenceParents(objects, ps)
  BY DEF InsertObject
<1>2. ps \in ParentLists
  BY DEF TypeOK, Record
<1>3. \A p \in Handles : Occurrences(ps, p) \in Nat
  BY <1>2, OccurrencesType, ParentListsAssumption
<1>4. ASSUME NEW p \in Handles
      PROVE  /\ Tracked(p)' <=> Tracked(p)
             /\ Tracked(p) =>
                  /\ objects'[p].type = objects[p].type
                  /\ objects'[p].parents = objects[p].parents
                  /\ objects'[p].num_children \in Int
                  /\ Counts(p) => objects'[p].num_children >= objects[p].num_children
  <2>1. CASE objects[p] = None
    <3>1. objects'[p] = None
      BY <1>1, <1>2, <2>1, ReferencedRecord DEF TypeOK
    <3> QED
      BY <2>1, <3>1 DEF Tracked
  <2>2. CASE objects[p] # None
    <3>1. /\ objects'[p] \in Record
          /\ objects'[p].type = objects[p].type
          /\ objects'[p].parents = objects[p].parents
          /\ IsCounted(objects[p]) =>
               objects'[p].num_children = objects[p].num_children + Occurrences(ps, p)
      BY <1>1, <1>2, <2>2, ReferencedRecord DEF TypeOK
    <3>2. objects[p].num_children \in Int
      BY <2>2 DEF TypeOK, Record
    <3>3. Counts(p) => objects'[p].num_children >= objects[p].num_children
      BY <1>3, <3>1, <3>2 DEF Counts
    <3>4. objects'[p].num_children \in Int
      BY <3>1 DEF Record
    <3> QED
      BY <2>2, <3>1, <3>3, <3>4, NoneAssumption DEF Tracked
  <2> QED
    BY <2>1, <2>2
<1>5. \A q : ChildEdges(q)' = ChildEdges(q)
  BY <1>4, EdgesOutsideWalk DEF Framed
<1>6. ASSUME NEW p \in Handles, Counts(p)'
      PROVE  objects'[p].num_children >= Cardinality(ChildEdges(p)')
  <2>1. Counts(p) /\ objects'[p].num_children >= objects[p].num_children
    BY <1>4, <1>6 DEF Counts, IsCounted
  <2>2. objects[p].num_children \in Int /\ objects'[p].num_children \in Int
    BY <1>4, <2>1 DEF Counts, Tracked, TypeOK, Record
  <2>3. objects[p].num_children >= Cardinality(ChildEdges(p))
    BY <2>1 DEF ChildrenCovered
  <2>4. Cardinality(ChildEdges(p)) \in Nat
    BY ChildEdgesFinite
  <2> QED
    BY <1>5, <2>1, <2>2, <2>3, <2>4
<1> QED
  BY <1>4, <1>6 DEF ChildrenCovered

-----------------------------------------------------------------------------
(***************************************************************************)
(* One lemma per action.                                                   *)
(***************************************************************************)

\* Queries and counts: no edge changes, a deletion may begin.
LEMMA OutsideWalkCover ==
    ASSUME CoverInv, Inv', Unlocked, SameRecords, NEW t, NEW h \in Handles,
           \/ UNCHANGED <<frames, mutex>>
           \/ Tracked(h) /\ DeleteObjectRecord(t, h, <<>>)
    PROVE  CoverInv'
<1>1. \A g \in Handles : ~Framed(g)
  BY DEF CoverInv, Inv, WalkInv, Unlocked
<1>2. \A g \in Handles : Framed(g)' => Tracked(g) /\ frames'[g] = NewFrame(g)
  BY <1>1 DEF DeleteObjectRecord, Framed, CoverInv, Inv, TypeOK
<1>3. \A q : ChildEdges(q)' = ChildEdges(q)
  BY <1>1, <1>2, EdgesOutsideWalk DEF SameRecords
<1>4. ChildrenCovered'
  <2>1. \A q \in Handles : Counts(q)' =>
            Counts(q) /\ objects'[q].num_children = objects[q].num_children
    BY DEF SameRecords, Counts, IsCounted
  <2> QED
    BY <1>3, <2>1, CoveredKept DEF CoverInv
<1>5. mutex' # None => mutex'.todo = <<>>
  BY DEF DeleteObjectRecord, Unlocked
<1> QED
  BY <1>4, <1>5 DEF CoverInv, PendingUnnamed, ReplacedIsNext

LEMMA SameObjects == UNCHANGED objects => SameRecords
BY DEF SameRecords, Tracked

LEMMA CheckExistsCover ==
    ASSUME CoverInv, NEW t \in Threads, NEW T \in ObjectTypes, NEW h,
           CheckExists(t, T, h)
    PROVE  CoverInv'
<1>1. Unlocked /\ UNCHANGED <<objects, frames, mutex>> /\ Inv'
  BY CheckExistsInv DEF CheckExists, CoverInv
<1> QED
  BY <1>1 DEF CoverInv, ChildrenCovered, PendingUnnamed, ReplacedIsNext, Counts, Tracked,
              ChildEdges, Edges, ParentOf, ParentsOf, FirstOwed, Unlocked

LEMMA CheckExistListCover ==
    ASSUME CoverInv, NEW t \in Threads, NEW T \in ObjectTypes, NEW hs,
           CheckExistList(t, T, hs)
    PROVE  CoverInv'
<1>1. Unlocked /\ UNCHANGED <<objects, frames, mutex>> /\ Inv'
  BY CheckExistListInv DEF CheckExistList, CoverInv
<1> QED
  BY <1>1 DEF CoverInv, ChildrenCovered, PendingUnnamed, ReplacedIsNext, Counts, Tracked,
              ChildEdges, Edges, ParentOf, ParentsOf, FirstOwed, Unlocked

\* A count of references does not touch what the edges depend on.
LEMMA RecountedSame ==
    ASSUME TypeOK, NEW h \in Handles, Tracked(h), NEW n \in Int,
           objects' = [objects EXCEPT ![h] = [@ EXCEPT !.refcount = n]]
    PROVE  SameRecords
<1>1. objects[h] \in Record
  BY DEF TypeOK, Tracked
<1>2. [objects[h] EXCEPT !.refcount = n] \in Record
  BY <1>1 DEF Record
<1>3. /\ objects'[h] = [objects[h] EXCEPT !.refcount = n]
      /\ \A g \in Handles \ {h} : objects'[g] = objects[g]
  BY DEF TypeOK
<1>4. /\ objects'[h] # None
      /\ objects'[h].type = objects[h].type
      /\ objects'[h].parents = objects[h].parents
      /\ objects'[h].num_children = objects[h].num_children
  BY <1>1, <1>2, <1>3, NoneAssumption DEF Record
<1> QED
  BY <1>3, <1>4 DEF SameRecords, Tracked

LEMMA CheckReleaseCover ==
    ASSUME CoverInv, NEW t \in Threads, NEW T \in ObjectTypes, NEW h \in Handles,
           CheckRelease(t, T, h)
    PROVE  CoverInv'
<1>1. Unlocked /\ Inv'
  BY CheckReleaseInv DEF CheckRelease, CoverInv
<1>2. CASE UNCHANGED <<objects, frames, mutex>>
  BY <1>1, <1>2, SameObjects, OutsideWalkCover
<1>3. CASE Tracked(h) /\ ReleaseObject(t, h)
  <2>1. objects[h].refcount - 1 \in Int
    BY <1>3 DEF Tracked, CoverInv, Inv, TypeOK, Record
  <2>2. objects' = objects \/ objects' = [objects EXCEPT ![h] = [@ EXCEPT !.refcount = objects[h].refcount - 1]]
    BY <1>3 DEF ReleaseObject
  <2>3. SameRecords
    BY <1>3, <2>1, <2>2, SameObjects, RecountedSame DEF CoverInv, Inv
  <2>4. UNCHANGED <<frames, mutex>> \/ DeleteObjectRecord(t, h, <<>>)
    BY <1>3 DEF ReleaseObject
  <2> QED
    BY <1>1, <1>3, <2>3, <2>4, OutsideWalkCover
<1> QED
  BY <1>2, <1>3 DEF CheckRelease, Matches

LEMMA CheckRetainCover ==
    ASSUME CoverInv, NEW t \in Threads, NEW T \in ObjectTypes, NEW h \in Handles,
           CheckRetain(t, T, h)
    PROVE  CoverInv'
<1>1. Unlocked /\ Inv' /\ UNCHANGED <<frames, mutex>>
  BY CheckRetainInv DEF CheckRetain, CoverInv
<1>2. CASE UNCHANGED objects
  BY <1>1, <1>2, SameObjects, OutsideWalkCover
<1>3. CASE Tracked(h) /\ objects' = [objects EXCEPT ![h].refcount = @ + 1]
  <2>1. objects[h].refcount + 1 \in Int
    BY <1>3 DEF Tracked, CoverInv, Inv, TypeOK, Record
  <2>2. SameRecords
    BY <1>3, <2>1, RecountedSame DEF CoverInv, Inv
  <2> QED
    BY <1>1, <2>2, OutsideWalkCover
<1> QED
  BY <1>2, <1>3 DEF CheckRetain, Matches

LEMMA ReportCover ==
    ASSUME CoverInv, Report
    PROVE  CoverInv'
<1>1. Inv' /\ mutex' = None
  BY ReportInv DEF Report, Unlocked, CoverInv
<1>2. \A p \in Handles : ~Counts(p)'
  BY DEF Report, Counts, Tracked
<1> QED
  BY <1>1, <1>2 DEF CoverInv, ChildrenCovered, PendingUnnamed, ReplacedIsNext

LEMMA NoDependentsUnnamed ==
    ASSUME Inv, Unlocked, NEW h \in Handles, NoDependents(h)
    PROVE  Unnamed(h)
BY DEF Inv, WalkInv, Unlocked, NoDependents, Unnamed

LEMMA CheckCreationListCover ==
    ASSUME CoverInv, NEW t \in Threads, NEW T \in ObjectTypes,
           NEW hs \in Seq(Handles), hs # <<>>, NEW ps \in ParentLists,
           \A h \in Elements(hs) : NoDependents(h) /\ h \notin Elements(ps),
           CheckCreationList(t, T, hs, ps)
    PROVE  CoverInv'
<1> DEFINE new == [type |-> T, refcount |-> 1, parents |-> ps,
                   reported |-> FALLBACK_VERSION]
           todo == [i \in DOMAIN hs |-> [handle |-> hs[i], new |-> new]]
<1>1. /\ Inv' /\ Unlocked /\ UNCHANGED <<objects, frames>>
      /\ mutex' = [owner |-> t, stack |-> <<>>, todo |-> todo]
  BY CheckCreationListInv DEF CheckCreationList, CoverInv
<1>2. \A i \in DOMAIN hs : hs[i] \in Handles /\ hs[i] \in Elements(hs)
  BY DEF Elements
<1>3. \A i \in DOMAIN hs : Unnamed(hs[i])
  BY <1>1, <1>2, NoDependentsUnnamed DEF CoverInv
<1>4. ASSUME NEW i \in DOMAIN todo, NEW j \in DOMAIN todo
      PROVE  /\ Unnamed(todo[i].handle)'
             /\ todo[i].handle \notin Elements(todo[j].new.parents)
  BY <1>1, <1>2, <1>3 DEF Unnamed, Tracked, Framed
<1> HIDE DEF todo
<1>5. mutex'.todo = todo /\ mutex'.stack = <<>>
  BY <1>1
<1>6. PendingUnnamed'
  BY <1>4, <1>5 DEF PendingUnnamed
<1>7. ChildrenCovered'
  BY <1>1 DEF CoverInv, ChildrenCovered, Counts, Tracked, ChildEdges, Edges, ParentOf,
              ParentsOf, FirstOwed
<1> QED
  BY <1>1, <1>5, <1>6, <1>7 DEF CoverInv, ReplacedIsNext

LEMMA AddOrReplaceCover ==
    ASSUME CoverInv, Unlocked, NEW t \in Threads, NEW h \in Handles, NEW new \in NewObject,
           NoDependents(h), h \notin Elements(new.parents),
           AddOrReplace(t, h, new), UNCHANGED <<deleted, leaks>>
    PROVE  CoverInv'
<1>1. Inv'
  BY AddOrReplaceInv DEF CoverInv
<1>2. Unnamed(h) /\ ChildEdges(h) = {} /\ \A g \in Handles : ~Framed(g)
  BY NoDependentsUnnamed, UnnamedHasNoEdge DEF CoverInv, Inv, WalkInv, Unlocked
<1>3. CASE ~Tracked(h) /\ objects' = InsertObject(objects, h, new) /\ UNCHANGED <<frames, mutex>>
  <2>1. Owed(h) = {}
    <3>1. ParentsOf(h) = <<>> /\ FirstOwed(h) = 1
      BY <1>2, <1>3 DEF ParentsOf, FirstOwed, Framed, Tracked
    <3> QED
      BY <3>1 DEF Owed
  <2>2. /\ objects \in [Handles -> Record \cup {None}]
        /\ objects[h] = None
        /\ \A g \in Handles : ~Framed(g)'
    BY <1>2, <1>3 DEF CoverInv, Inv, TypeOK, Tracked, Framed
  <2>3. ChildrenCovered'
    BY <1>2, <1>3, <2>1, <2>2, InsertCovered DEF CoverInv, Inv
  <2> QED
    BY <1>1, <1>3, <2>3 DEF CoverInv, PendingUnnamed, ReplacedIsNext, Unlocked
<1>4. CASE /\ Tracked(h) /\ UNCHANGED objects
           /\ DeleteObjectRecord(t, h, <<[handle |-> h, new |-> new]>>)
  <2> DEFINE todo == <<[handle |-> h, new |-> new]>>
  <2>1. /\ frames' = [frames EXCEPT ![h] = NewFrame(h)]
        /\ mutex' = [owner |-> t, stack |-> <<h>>, todo |-> todo]
    BY <1>4 DEF DeleteObjectRecord
  <2>2. \A g \in Handles : Framed(g)' => Tracked(g) /\ frames'[g] = NewFrame(g)
    BY <1>2, <1>4, <2>1 DEF Framed, CoverInv, Inv, TypeOK
  <2>3. \A q : ChildEdges(q)' = ChildEdges(q)
    BY <1>2, <1>4, <2>2, EdgesOutsideWalk DEF Tracked
  <2>4. ChildrenCovered'
    BY <1>4, <2>3, CoveredKept DEF CoverInv, Counts, Tracked
  <2>5. Unnamed(h)'
    <3>1. \A c \in Handles : Framed(c)' =>
             Tracked(c) /\ frames'[c].parents = objects[c].parents
      BY <2>2, NewFrameIs
    <3>2. \A c \in Handles : Tracked(c)' =>
             Tracked(c) /\ objects'[c].parents = objects[c].parents
      BY <1>4 DEF Tracked
    <3> QED
      BY <1>2, <3>1, <3>2, UnnamedKept
  <2>6. DOMAIN todo = {1} /\ todo[1].handle = h /\ todo[1].new = new /\ Head(todo) = todo[1]
    OBVIOUS
  <2>7. mutex'.todo = todo /\ mutex'.stack = <<h>> /\ mutex'.stack[1] = h
    BY <2>1
  <2> HIDE DEF todo
  <2>8. PendingUnnamed' /\ ReplacedIsNext'
    BY <2>5, <2>6, <2>7 DEF PendingUnnamed, ReplacedIsNext
  <2> QED
    BY <1>1, <2>4, <2>8 DEF CoverInv
<1> QED
  BY <1>3, <1>4 DEF AddOrReplace

LEMMA CheckAddOrExistsCover ==
    ASSUME CoverInv, NEW t \in Threads, NEW T \in ObjectTypes, NEW h \in Handles,
           NEW ps \in ParentLists, NEW v \in Versions,
           NoDependents(h), h \notin Elements(ps),
           CheckAddOrExists(t, T, h, ps, v)
    PROVE  CoverInv'
<1> DEFINE new == [type |-> T, refcount |-> 0, parents |-> ps, reported |-> v]
<1>1. Unlocked /\ UNCHANGED <<deleted, leaks>> /\ Inv'
  BY CheckAddOrExistsInv DEF CheckAddOrExists, CoverInv
<1>2. CASE AddOrReplace(t, h, new)
  <2>1. new \in NewObject /\ new.parents = ps
    BY DEF NewObject
  <2> QED
    BY <1>1, <1>2, <2>1, AddOrReplaceCover
<1>3. CASE UNCHANGED <<objects, frames, mutex>>
  BY <1>1, <1>3, SameObjects, OutsideWalkCover
<1> QED
  BY <1>2, <1>3 DEF CheckAddOrExists

LEMMA CheckCreateOrExistsCover ==
    ASSUME CoverInv, NEW t \in Threads, NEW T \in ObjectTypes, NEW h \in Handles,
           NEW p \in Handles, <<p>> \in ParentLists,
           NoDependents(h), p # h,
           CheckCreateOrExists(t, T, h, p)
    PROVE  CoverInv'
<1> DEFINE new == [type |-> T, refcount |-> 1, parents |-> <<p>>,
                   reported |-> FALLBACK_VERSION]
<1>1. Unlocked /\ UNCHANGED <<deleted, leaks>> /\ Inv'
  BY CheckCreateOrExistsInv DEF CheckCreateOrExists, CoverInv
<1>2. CASE AddOrReplace(t, h, new)
  <2>1. new \in NewObject /\ new.parents = <<p>>
    BY VersionsAssumption DEF NewObject
  <2>2. h \notin Elements(new.parents)
    BY <2>1 DEF Elements
  <2> QED
    BY <1>1, <1>2, <2>1, <2>2, AddOrReplaceCover
<1>3. CASE /\ TrackedAs(T, h)
           /\ objects' = [objects EXCEPT ![h].refcount = @ + 1]
           /\ UNCHANGED <<frames, mutex>>
  <2>1. objects[h].refcount + 1 \in Int
    BY <1>3 DEF TrackedAs, Tracked, CoverInv, Inv, TypeOK, Record
  <2>2. Tracked(h) /\ objects' = [objects EXCEPT ![h] = [@ EXCEPT !.refcount = objects[h].refcount + 1]]
    BY <1>3 DEF TrackedAs
  <2>3. SameRecords
    BY <2>1, <2>2, RecountedSame DEF CoverInv, Inv
  <2> QED
    BY <1>1, <1>3, <2>3, OutsideWalkCover
<1> QED
  BY <1>2, <1>3 DEF CheckCreateOrExists

\* What remains to be inserted stays unnamed.
LEMMA AfterInsertionCover ==
    ASSUME CoverInv, Inv', ChildrenCovered', mutex # None,
           mutex.todo # <<>>, mutex.todo \in Seq(Pending),
           mutex' = AfterInsertion(Tail(mutex.todo)),
           \A g : Unnamed(g) /\ g \notin Elements(Head(mutex.todo).new.parents)
                    => Unnamed(g)'
    PROVE  CoverInv'
<1>1. CASE mutex' = None
  BY <1>1 DEF CoverInv, PendingUnnamed, ReplacedIsNext
<1>2. CASE mutex' # None
  <2> SUFFICES ASSUME NEW todo, todo = mutex.todo, NEW rest, rest = Tail(todo)
               PROVE  CoverInv'
    OBVIOUS
  <2>1. mutex'.todo = rest /\ mutex'.stack = <<>>
    BY <1>2 DEF AfterInsertion
  <2>2. /\ Head(todo) = todo[1] /\ 1 \in DOMAIN todo
        /\ \A i \in DOMAIN rest : i + 1 \in DOMAIN todo /\ rest[i] = todo[i + 1]
    OBVIOUS
  <2>3. ASSUME NEW i \in DOMAIN rest, NEW j \in DOMAIN rest
        PROVE  /\ Unnamed(rest[i].handle)'
               /\ rest[i].handle \notin Elements(rest[j].new.parents)
    <3>1. /\ rest[i] = todo[i + 1] /\ i + 1 \in DOMAIN todo
          /\ rest[j] = todo[j + 1] /\ j + 1 \in DOMAIN todo
      BY <2>2
    <3>2. /\ Unnamed(todo[i + 1].handle)
          /\ todo[i + 1].handle \notin Elements(todo[1].new.parents)
          /\ todo[i + 1].handle \notin Elements(todo[j + 1].new.parents)
      BY <2>2, <3>1 DEF CoverInv, PendingUnnamed
    <3>3. Unnamed(todo[i + 1].handle)'
      BY <2>2, <3>2
    <3> QED
      BY <3>1, <3>2, <3>3
  <2>4. PendingUnnamed'
    BY <2>1, <2>3 DEF PendingUnnamed
  <2> QED
    BY <2>1, <2>4 DEF CoverInv, ReplacedIsNext
<1> QED
  BY <1>1, <1>2

LEMMA CreateNextCover ==
    ASSUME CoverInv, CreateNext
    PROVE  CoverInv'
<1> SUFFICES ASSUME NEW next, next = Head(mutex.todo),
                    NEW h, h = next.handle,
                    NEW t, t = mutex.owner
             PROVE  CoverInv'
  OBVIOUS
<1>1. /\ mutex # None /\ mutex.stack = <<>> /\ mutex.todo # <<>>
      /\ mutex.todo \in Seq(Pending)
      /\ Inv' /\ \A g \in Handles : ~Framed(g)
  BY HeldType, CreateNextInv DEF CreateNext, CoverInv, Inv, WalkInv, StackIsFrames
<1>2. /\ next = mutex.todo[1] /\ 1 \in DOMAIN mutex.todo
      /\ h \in Handles /\ next.new \in NewObject
  <2>1. next = mutex.todo[1] /\ 1 \in DOMAIN mutex.todo /\ next \in Pending
    BY <1>1
  <2> QED
    BY <2>1 DEF Pending
<1>3. Unnamed(h) /\ ChildEdges(h) = {}
  BY <1>1, <1>2, UnnamedHasNoEdge DEF CoverInv, Inv, PendingUnnamed
<1>4. CASE /\ Retained(h) /\ UNCHANGED objects
           /\ DeleteObjectRecord(t, h, mutex.todo)
  <2>1. /\ frames' = [frames EXCEPT ![h] = NewFrame(h)]
        /\ mutex'.stack = <<h>> /\ mutex'.todo = mutex.todo
    BY <1>4 DEF DeleteObjectRecord
  <2>2. \A g \in Handles : Framed(g)' => Tracked(g) /\ frames'[g] = NewFrame(g)
    BY <1>1, <1>2, <1>4, <2>1 DEF Framed, Retained, CoverInv, Inv, TypeOK
  <2>3. \A q : ChildEdges(q)' = ChildEdges(q)
    BY <1>1, <1>4, <2>2, EdgesOutsideWalk DEF Tracked
  <2>4. ChildrenCovered'
    BY <1>4, <2>3, CoveredKept DEF CoverInv, Counts, Tracked
  <2>5. \A c \in Handles :
          /\ Framed(c)' => Tracked(c) /\ frames'[c].parents = objects[c].parents
          /\ Tracked(c)' => Tracked(c) /\ objects'[c].parents = objects[c].parents
    BY <1>4, <2>2, NewFrameIs DEF Tracked
  <2>6. \A g : Unnamed(g) => Unnamed(g)'
    BY <2>5, UnnamedKept
  <2>7. PendingUnnamed'
    BY <1>1, <2>1, <2>6 DEF CoverInv, PendingUnnamed
  <2>8. ReplacedIsNext'
    BY <2>1 DEF ReplacedIsNext
  <2> QED
    BY <1>1, <2>4, <2>7, <2>8 DEF CoverInv
<1>5. CASE /\ objects' = InsertObject(objects, h, next.new)
           /\ mutex' = AfterInsertion(Tail(mutex.todo))
           /\ UNCHANGED frames
  <2>1. CASE objects[h] # None
    <3>1. /\ ChildrenCovered'
          /\ \A g \in Handles : /\ Tracked(g)' <=> Tracked(g)
                                /\ Tracked(g) => objects'[g].parents = objects[g].parents
      BY <1>1, <1>2, <1>5, <2>1, ReinsertCovered DEF CoverInv, Inv
    <3>2. \A g : Unnamed(g) => Unnamed(g)'
      BY <1>1, <1>5, <3>1, UnnamedKept DEF Framed
    <3> QED
      BY <1>1, <1>2, <1>5, <3>1, <3>2, AfterInsertionCover
  <2>2. CASE objects[h] = None
    <3>1. Owed(h) = {}
      <4>1. ParentsOf(h) = <<>> /\ FirstOwed(h) = 1
        BY <1>1, <1>2, <2>2 DEF ParentsOf, FirstOwed, Framed
      <4> QED
        BY <4>1 DEF Owed
    <3>2. /\ objects \in [Handles -> Record \cup {None}]
          /\ \A g \in Handles : ~Framed(g)'
      BY <1>1, <1>5 DEF CoverInv, Inv, TypeOK, Framed
    <3>3. ChildrenCovered'
      BY <1>1, <1>2, <1>3, <1>5, <2>2, <3>1, <3>2, InsertCovered DEF CoverInv, Inv
    <3>4. /\ objects'[h].parents = next.new.parents
          /\ \A g \in Handles \ {h} :
               Tracked(g)' => Tracked(g) /\ objects'[g].parents = objects[g].parents
      BY <1>1, <1>2, <1>5, <2>2, <3>1, <3>2, InsertEdges DEF CoverInv, Inv
    <3>5. \A g : Unnamed(g) /\ g \notin Elements(next.new.parents) => Unnamed(g)'
      BY <3>2, <3>4, UnnamedKept
    <3> QED
      BY <1>1, <1>2, <1>5, <3>3, <3>5, AfterInsertionCover
  <2> QED
    BY <2>1, <2>2
<1> QED
  BY <1>4, <1>5 DEF CreateNext

\* During a walk the pending insertions and the outermost record stay.
LEMMA WalkPending ==
    ASSUME CoverInv, mutex # None, mutex' # None,
           mutex'.todo = mutex.todo,
           mutex.stack # <<>>, mutex'.stack[1] = mutex.stack[1],
           \A g : Unnamed(g) => Unnamed(g)'
    PROVE  PendingUnnamed' /\ ReplacedIsNext'
BY DEF CoverInv, PendingUnnamed, ReplacedIsNext

LEMMA NotifyCover ==
    ASSUME CoverInv, NotifyChildReleased
    PROVE  CoverInv'
<1> SUFFICES ASSUME NEW top, top = Top, NEW n, n = frames[top].next,
                    NEW p, p = frames[top].parents[n],
                    NEW e, e = <<top, n>>
             PROVE  CoverInv'
  OBVIOUS
<1>1. Inv /\ Inv' /\ TypeOK
  BY NotifyInv DEF CoverInv, Inv
<1>2. /\ top \in Handles /\ p \in Handles
      /\ e \in ChildEdges(p)
      /\ ChildEdges(p)' = ChildEdges(p) \ {e}
      /\ \A q \in Handles \ {p} : /\ ChildEdges(q)' = ChildEdges(q)
                                  /\ objects'[q] = objects[q]
      /\ ~Counts(p) => objects' = objects
      /\ Counts(p) =>
           \/ objects'[p] = None
           \/ objects'[p] = [objects[p] EXCEPT !.num_children = @ - 1]
  BY <1>1, NotifyEdges
<1>3. ASSUME NEW q \in Handles, Counts(q)'
      PROVE  objects'[q].num_children >= Cardinality(ChildEdges(q)')
  <2>1. CASE q # p
    <3>1. Counts(q) /\ ChildEdges(q)' = ChildEdges(q) /\ objects'[q] = objects[q]
      BY <1>2, <1>3, <2>1 DEF Counts, Tracked
    <3> QED
      BY <3>1 DEF CoverInv, ChildrenCovered
  <2>2. CASE q = p
    <3>1. Counts(p)
      BY <1>2, <1>3, <2>2 DEF Counts, Tracked
    <3>2. objects'[p] = [objects[p] EXCEPT !.num_children = @ - 1]
      BY <1>2, <1>3, <2>2, <3>1 DEF Counts, Tracked
    <3>3. objects[p] \in Record
      BY <1>1, <1>2, <3>1 DEF TypeOK, Counts, Tracked
    <3>4. /\ objects[p].num_children \in Int
          /\ objects'[p].num_children = objects[p].num_children - 1
      BY <3>2, <3>3 DEF Record
    <3>5. objects[p].num_children >= Cardinality(ChildEdges(p))
      BY <1>2, <3>1 DEF CoverInv, ChildrenCovered
    <3>6. /\ Cardinality(ChildEdges(p)) \in Nat
          /\ Cardinality(ChildEdges(p)') = Cardinality(ChildEdges(p)) - 1
      <4>1. IsFiniteSet(ChildEdges(p)) /\ Cardinality(ChildEdges(p)) \in Nat
        BY <1>1, ChildEdgesFinite
      <4>2. Cardinality(ChildEdges(p) \ {e}) = Cardinality(ChildEdges(p)) - 1
        BY <1>2, <4>1, FS_RemoveElement
      <4> QED
        BY <1>2, <4>1, <4>2
    <3> QED
      BY <2>2, <3>4, <3>5, <3>6
  <2> QED
    BY <2>1, <2>2
<1>4. \A g : Unnamed(g) => Unnamed(g)'
  <2>1. \A c \in Handles : Tracked(c)' =>
          Tracked(c) /\ objects'[c].parents = objects[c].parents
    <3> SUFFICES ASSUME NEW c \in Handles, Tracked(c)'
                 PROVE  Tracked(c) /\ objects'[c].parents = objects[c].parents
      OBVIOUS
    <3>1. CASE c # p \/ ~Counts(p)
      BY <1>2, <3>1 DEF Tracked
    <3>2. CASE c = p /\ Counts(p)
      <4>1. objects'[p] = [objects[p] EXCEPT !.num_children = @ - 1]
        BY <1>2, <3>2 DEF Tracked
      <4>2. objects[p] \in Record
        BY <1>1, <1>2, <3>2 DEF TypeOK, Counts, Tracked
      <4> QED
        BY <3>2, <4>1, <4>2 DEF Counts, Record
    <3> QED
      BY <3>1, <3>2
  <2>2. \A c \in Handles : Framed(c)' =>
          \/ Framed(c) /\ frames'[c].parents = frames[c].parents
          \/ Tracked(c) /\ frames'[c].parents = objects[c].parents
    <3> SUFFICES ASSUME NEW c \in Handles, Framed(c)'
                 PROVE  \/ Framed(c) /\ frames'[c].parents = frames[c].parents
                        \/ Tracked(c) /\ frames'[c].parents = objects[c].parents
      OBVIOUS
    <3> DEFINE advanced == [frames EXCEPT ![top].next = @ + 1]
    <3>1. \/ frames' = advanced
          \/ Counts(p) /\ frames' = [advanced EXCEPT ![p] = NewFrame(p)]
      BY DEF NotifyChildReleased, TopFrame
    <3>2. frames[top] \in Frame /\ frames \in [Handles -> Frame \cup {None}]
      BY <1>1, WalkShape DEF NotifyChildReleased, TypeOK
    <3>3. advanced \in [Handles -> Frame \cup {None}]
      <4>1. [frames[top] EXCEPT !.next = @ + 1] \in Frame
        BY <3>2 DEF Frame
      <4> QED
        BY <3>2, <4>1
    <3>4. advanced[c] # None => Framed(c) /\ advanced[c].parents = frames[c].parents
      <4>1. [frames[top] EXCEPT !.next = @ + 1].parents = frames[top].parents
        BY <3>2 DEF Frame
      <4> QED
        BY <1>2, <3>2, <4>1, NoneAssumption DEF Framed
    <3> HIDE DEF advanced
    <3>5. CASE frames'[c] = advanced[c]
      BY <3>4, <3>5 DEF Framed
    <3>6. CASE Counts(p) /\ c = p /\ frames'[c] = NewFrame(c)
      BY <3>6, NewFrameIs DEF Counts
    <3> QED
      BY <3>1, <3>3, <3>5, <3>6
  <2> QED
    BY <2>1, <2>2, UnnamedKept
<1>5. PendingUnnamed' /\ ReplacedIsNext'
  <2>1. /\ mutex # None /\ mutex \in Held /\ mutex.stack # <<>>
        /\ mutex.stack \in Seq(Handles)
    BY <1>1, WalkShape DEF NotifyChildReleased, Deleting
  <2>2. mutex' = mutex \/ mutex' = [mutex EXCEPT !.stack = Append(@, p)]
    BY DEF NotifyChildReleased, TopFrame
  <2>3. /\ Append(mutex.stack, p) \in Seq(Handles)
        /\ Append(mutex.stack, p)[1] = mutex.stack[1]
    BY <1>2, <2>1
  <2>4. mutex' \in Held /\ mutex'.todo = mutex.todo /\ mutex'.stack[1] = mutex.stack[1]
    BY <2>1, <2>2, <2>3 DEF Held
  <2> QED
    BY <1>4, <2>1, <2>4, WalkPending, NoneAssumption
<1> QED
  BY <1>1, <1>3, <1>5 DEF CoverInv, ChildrenCovered

LEMMA ReturnToCallerCover ==
    ASSUME CoverInv, ReturnToCaller
    PROVE  CoverInv'
<1>1. Inv /\ Inv' /\ Deleting
  BY ReturnToCallerInv DEF CoverInv, ReturnToCaller
<1>2. ChildrenCovered'
  BY <1>1, ReturnEdges, CoveredKept DEF ReturnToCaller, Counts, Tracked, CoverInv
<1>3. \A c \in Handles : Framed(c)' => Framed(c) /\ frames'[c] = frames[c]
  BY <1>1 DEF ReturnToCaller, Framed, Inv, TypeOK
<1>4. \A g : Unnamed(g) => Unnamed(g)'
  BY <1>3, UnnamedKept DEF ReturnToCaller, Tracked
<1>5. /\ mutex \in Held /\ mutex # None /\ mutex.stack # <<>>
      /\ mutex.stack \in Seq(Handles) /\ Len(mutex.stack) > 1
  BY <1>1, WalkShape DEF ReturnToCaller, Deleting
<1>6. mutex' = [mutex EXCEPT !.stack = SubSeq(@, 1, Len(@) - 1)]
  BY DEF ReturnToCaller
<1>7. mutex' \in Held /\ mutex'.todo = mutex.todo /\ mutex'.stack[1] = mutex.stack[1]
  <2> DEFINE shorter == SubSeq(mutex.stack, 1, Len(mutex.stack) - 1)
  <2>1. shorter \in Seq(Handles) /\ shorter[1] = mutex.stack[1]
    BY <1>5
  <2>2. mutex' = [mutex EXCEPT !.stack = shorter]
    BY <1>6
  <2> HIDE DEF shorter
  <2> QED
    BY <1>5, <2>1, <2>2 DEF Held
<1>8. PendingUnnamed' /\ ReplacedIsNext'
  BY <1>4, <1>5, <1>7, WalkPending, NoneAssumption
<1> QED
  BY <1>1, <1>2, <1>8 DEF CoverInv

LEMMA FinishDeleteCover ==
    ASSUME CoverInv, FinishDelete
    PROVE  CoverInv'
<1> SUFFICES ASSUME NEW h, h = Top,
                    NEW erased, erased = [objects EXCEPT ![h] = None]
             PROVE  CoverInv'
  OBVIOUS
<1>1. Inv /\ Inv' /\ TypeOK
  BY FinishDeleteInv DEF CoverInv, Inv
<1>2. /\ h \in Handles /\ h = mutex.stack[1] /\ Tracked(h)
      /\ mutex # None /\ mutex.stack # <<>> /\ mutex.todo \in Seq(Pending)
      /\ Owed(h) = {}
      /\ \A g \in Handles : Framed(g) <=> g = h
      /\ \A g \in Handles : ~Framed(g)'
  BY <1>1, FinishShape
<1>3. CASE objects' = erased /\ mutex' = None
  <2>1. /\ \A q : ChildEdges(q)' = ChildEdges(q)
        /\ objects'[h] = None
        /\ \A q \in Handles \ {h} : objects'[q] = objects[q]
    BY <1>1, <1>3, EraseEdges
  <2>2. ChildrenCovered'
    BY <2>1, CoveredKept DEF CoverInv, Counts, Tracked
  <2> QED
    BY <1>1, <1>3, <2>2 DEF CoverInv, PendingUnnamed, ReplacedIsNext
<1>4. CASE /\ mutex.todo # <<>>
           /\ objects' = InsertObject(erased, h, Head(mutex.todo).new)
           /\ mutex' = AfterInsertion(Tail(mutex.todo))
  <2> SUFFICES ASSUME NEW new, new = Head(mutex.todo).new
               PROVE  CoverInv'
    OBVIOUS
  <2>1. Head(mutex.todo) = mutex.todo[1] /\ 1 \in DOMAIN mutex.todo /\ Head(mutex.todo) \in Pending
    BY <1>2, <1>4
  <2>2. new \in NewObject /\ h = mutex.todo[1].handle
    BY <1>2, <1>4, <2>1 DEF Pending, CoverInv, ReplacedIsNext
  <2>3. Unnamed(h) /\ ChildEdges(h) = {}
    BY <1>1, <1>2, <2>1, <2>2, UnnamedHasNoEdge DEF CoverInv, PendingUnnamed
  <2>4. /\ erased \in [Handles -> Record \cup {None}] /\ erased[h] = None
        /\ \A g \in Handles \ {h} : erased[g] = objects[g] /\ ~Framed(g)
    BY <1>1, <1>2 DEF TypeOK
  <2>5. ChildrenCovered'
    BY <1>1, <1>2, <1>4, <2>2, <2>3, <2>4, InsertCovered DEF CoverInv
  <2>6. /\ objects'[h].parents = new.parents
        /\ \A g \in Handles \ {h} :
             /\ Tracked(g)' <=> Tracked(g)
             /\ Tracked(g) => objects'[g].parents = objects[g].parents
    <3>1. objects' = InsertObject(erased, h, new)
      BY <1>4
    <3>2. objects'[h].parents = new.parents
      BY ZenonT(60), <1>2, <2>2, <2>4, <3>1, InsertedParents
    <3>3. \A g \in Handles \ {h} :
            /\ Tracked(g)' <=> Tracked(g)
            /\ Tracked(g) => objects'[g].parents = objects[g].parents
      BY ZenonT(60), <1>1, <1>2, <2>2, <2>4, <3>1, InsertEdges
    <3> QED
      BY <3>2, <3>3
  <2>7. \A g : Unnamed(g) /\ g \notin Elements(new.parents) => Unnamed(g)'
    BY <1>2, <2>6, UnnamedKept
  <2> QED
    BY <1>1, <1>2, <1>4, <2>5, <2>7, AfterInsertionCover
<1> QED
  BY <1>3, <1>4 DEF FinishDelete

-----------------------------------------------------------------------------
(***************************************************************************)
(* The theorem.                                                            *)
(***************************************************************************)

LEMMA InitCover == Init => CoverInv
<1> SUFFICES ASSUME Init PROVE CoverInv
  OBVIOUS
<1>1. \A p \in Handles : ~Counts(p)
  BY DEF Init, Counts, Tracked
<1> QED
  BY <1>1, InitInv DEF Init, CoverInv, ChildrenCovered, PendingUnnamed, ReplacedIsNext

LEMMA StutterCover == CoverInv /\ UNCHANGED vars => CoverInv'
BY StutterInv DEF vars, CoverInv, ChildrenCovered, PendingUnnamed, ReplacedIsNext, Unnamed,
       Framed, Counts, Tracked, ChildEdges, Edges, ParentOf, ParentsOf, FirstOwed

LEMMA CreateCover == ASSUME CoverInv, NEW t \in Threads, Create(t) PROVE CoverInv'
<1>1. CASE \E T \in CreatedTypes, hs \in HandleLists, ps \in ParentLists :
              /\ \A h \in Elements(hs) : NoDependents(h) /\ h \notin Elements(ps)
              /\ CheckCreationList(t, T, hs, ps)
  BY <1>1, CheckCreationListCover, ParentListsAssumption, TypesAssumption
     DEF CreatedTypes, HandleLists
<1>2. CASE \E T \in Types \ {"MEM"}, h \in Handles, ps \in ParentLists, v \in Versions :
              /\ NoDependents(h) /\ h \notin Elements(ps)
              /\ CheckAddOrExists(t, T, h, ps, v)
  BY <1>2, CheckAddOrExistsCover, TypesAssumption
<1>3. CASE \E T \in CreatedTypes, h \in Handles, p \in Handles :
              /\ NoDependents(h) /\ p # h /\ <<p>> \in ParentLists
              /\ CheckCreateOrExists(t, T, h, p)
  BY <1>3, CheckCreateOrExistsCover, TypesAssumption DEF CreatedTypes
<1> QED
  BY <1>1, <1>2, <1>3 DEF Create

LEMMA NextCover == CoverInv /\ [Next]_vars => CoverInv'
<1> SUFFICES ASSUME CoverInv, [Next]_vars PROVE CoverInv'
  OBVIOUS
<1>1. CASE Continue
  BY <1>1, NotifyCover, ReturnToCallerCover, FinishDeleteCover, CreateNextCover DEF Continue
<1>2. CASE Report
  BY <1>2, ReportCover
<1>3. ASSUME NEW t \in Threads, Query(t) PROVE CoverInv'
  BY <1>3, CheckExistsCover, CheckExistListCover, TypesAssumption DEF Query
<1>4. ASSUME NEW t \in Threads, Count(t) PROVE CoverInv'
  BY <1>4, CheckReleaseCover, CheckRetainCover, TypesAssumption DEF Count
<1>5. ASSUME NEW t \in Threads, Create(t) PROVE CoverInv'
  BY <1>5, CreateCover
<1>6. CASE UNCHANGED vars
  BY <1>6, StutterCover
<1> QED
  BY <1>1, <1>2, <1>3, <1>4, <1>5, <1>6 DEF Next

\* Whatever handles the driver reuses and whatever the application names, the
\* counter of a record covers all the children that name it: the tracker never
\* deletes a record that a child it knows of still has as a parent.
THEOREM TrackerChildrenCovered == Spec => []ChildrenCovered
<1>1. CoverInv => ChildrenCovered
  BY DEF CoverInv
<1> QED
  BY <1>1, InitCover, NextCover, PTL DEF Spec
=============================================================================
