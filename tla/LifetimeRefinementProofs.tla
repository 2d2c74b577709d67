---------------------- MODULE LifetimeRefinementProofs ----------------------
(***************************************************************************)
(* The tracker implements LifetimeSpec, step by step: what the application *)
(* sees of it is a set of objects that are known while they are referenced *)
(* or have a known child.  Each effect a step of the tracker can have is a *)
(* step of the abstract specification or a stutter.                        *)
(***************************************************************************)
EXTENDS ConformingProofs

\* The values of the abstract variables.
Refs == [h \in Handles |-> IF InLife(h) THEN objects[h].refcount ELSE None]

Ups == [h \in Handles |->
          IF InLife(h) THEN {p \in Elements(objects[h].parents) : Counts(p)} ELSE {}]

\* Platforms and devices are nobody's children.
RootsAlone ==
    \A h \in Handles : Tracked(h) /\ ~Counts(h) => objects[h].parents = <<>>

LEMMA RootsStayAlone == RootsAlone /\ Effect => RootsAlone'
<1> SUFFICES ASSUME RootsAlone, Effect, NEW g \in Handles, Tracked(g)', ~Counts(g)'
             PROVE  objects'[g].parents = <<>>
  BY DEF RootsAlone
<1>1. CASE SameRecord(g)
  BY <1>1 DEF SameRecord, RootsAlone, Counts, IsCounted
<1>2. CASE Added(g)
  BY <1>2 DEF Added, Counts
<1>3. CASE ~SameRecord(g) /\ ~Added(g)
  <2>1. ~Quiet /\ ~Emptied
    BY <1>3 DEF Quiet, Emptied
  <2>2. \A h \in Handles \ {g} : ~OnlyAffects(h)
    BY <1>3 DEF OnlyAffects, Unaffected
  <2>3. \A h \in Handles \ {g} :
          ~(Raised(h) \/ Lowered(h) \/ Added(h) \/ Reaped(h) \/ Erased(h))
    BY <2>2 DEF Raised, Lowered, Added, Reaped, Erased
  <2>4. ~Raised(g) /\ ~Lowered(g)
    BY DEF Raised, Lowered, Recounted
  <2>5. ~Reaped(g) /\ ~Erased(g)
    BY DEF Reaped, Erased
  <2> QED
    BY <1>3, <2>1, <2>3, <2>4, <2>5 DEF Effect
<1> QED
  BY <1>1, <1>2, <1>3

-----------------------------------------------------------------------------
(***************************************************************************)
(* The abstract variables.                                                 *)
(***************************************************************************)

LEMMA RefsAre ==
    ASSUME TypeOK, NEW h \in Handles
    PROVE  /\ Refs[h] = IF InLife(h) THEN objects[h].refcount ELSE None
           /\ Refs[h] # None <=> InLife(h)
           /\ InLife(h) => Refs[h] \in Int
BY NoneAssumption DEF Refs, InLife, Counts, Tracked, TypeOK, Record

\* An object whose record a step leaves alone keeps its abstract state, when
\* none of its parents changes sides.
LEMMA AbstractKept ==
    ASSUME NEW c \in Handles, SameRecord(c), InLife(c)' <=> InLife(c),
           InLife(c) => \A p \in Elements(objects[c].parents) : Counts(p)' <=> Counts(p)
    PROVE  Refs'[c] = Refs[c] /\ Ups'[c] = Ups[c]
<1>1. CASE ~InLife(c)
  BY <1>1 DEF Refs, Ups
<1>2. CASE InLife(c)
  <2>1. /\ objects'[c].refcount = objects[c].refcount
        /\ objects'[c].parents = objects[c].parents
    BY <1>2 DEF SameRecord, InLife, Counts
  <2>2. Refs'[c] = Refs[c]
    BY <1>2, <2>1 DEF Refs
  <2>3. /\ Ups'[c] = {p \in Elements(objects'[c].parents) : Counts(p)'}
        /\ Ups[c] = {p \in Elements(objects[c].parents) : Counts(p)}
    BY <1>2 DEF Ups
  <2> QED
    BY <1>2, <2>1, <2>2, <2>3
<1> QED
  BY <1>1, <1>2

\* A step about one object leaves the others as they are, if the object is
\* nobody's parent or is counted before and after.
LEMMA OthersKept ==
    ASSUME NEW h \in Handles, OnlyAffects(h),
           \/ Counts(h)' <=> Counts(h)
           \/ \A c \in Handles : InLife(c) => h \notin Elements(objects[c].parents)
    PROVE  \A c \in Handles \ {h} : Refs'[c] = Refs[c] /\ Ups'[c] = Ups[c]
<1> SUFFICES ASSUME NEW c \in Handles \ {h}
             PROVE  Refs'[c] = Refs[c] /\ Ups'[c] = Ups[c]
  OBVIOUS
<1>1. SameRecord(c) /\ (InLife(c)' <=> InLife(c))
  BY UnaffectedLife DEF OnlyAffects, Unaffected
<1>2. \A p \in Handles \ {h} : Counts(p)' <=> Counts(p)
  BY UnaffectedLife DEF OnlyAffects
<1>3. \A p : p \notin Handles => ~Counts(p)' /\ ~Counts(p)
  BY DEF Counts, Tracked
<1>4. InLife(c) => \A p \in Elements(objects[c].parents) : Counts(p)' <=> Counts(p)
  BY <1>2, <1>3
<1> QED
  BY <1>1, <1>4, AbstractKept

LEMMA AbstractShape ==
    /\ Refs = [h \in Handles |-> Refs[h]] /\ Refs' = [h \in Handles |-> Refs'[h]]
    /\ Ups = [h \in Handles |-> Ups[h]] /\ Ups' = [h \in Handles |-> Ups'[h]]
BY DEF Refs, Ups

\* The counter of children says whether a known object names the record.
LEMMA ChildIsKnown ==
    ASSUME ExactInv({}), RootsAlone, NoWalk, NEW h \in Handles, Counts(h)
    PROVE  /\ objects[h].num_children \in Nat
           /\ objects[h].num_children # 0 <=> \E c \in Handles : InLife(c) /\ h \in Ups[c]
<1>1. TypeOK /\ objects[h].num_children = Cardinality(ChildEdges(h))
  BY DEF ExactInv, Inv, GraphOK, NodeOK
<1>2. /\ IsFiniteSet(ChildEdges(h)) /\ Cardinality(ChildEdges(h)) \in Nat
      /\ Cardinality(ChildEdges(h)) = 0 <=> ChildEdges(h) = {}
  BY <1>1, ChildEdgesFinite, FS_EmptySet
<1>3. ASSUME ChildEdges(h) # {}
      PROVE  \E c \in Handles : InLife(c) /\ h \in Ups[c]
  <2>1. PICK c \in Handles : \E i \in Owed(c) : ParentsOf(c)[i] = h
    BY <1>3, ChildEdgesAre
  <2>2. PICK i \in Owed(c) : ParentsOf(c)[i] = h
    BY <2>1
  <2>3. frames[c] = None
    BY DEF NoWalk, Framed
  <2>4. i \in DOMAIN ParentsOf(c)
    BY <1>1, ParentsOfType
  <2>5. objects[c] # None /\ ParentsOf(c) = objects[c].parents
    BY <2>3, <2>4 DEF ParentsOf
  <2>6. Counts(c)
    BY <2>4, <2>5 DEF RootsAlone, Tracked
  <2>7. h \in Elements(objects[c].parents)
    BY <2>2, <2>4, <2>5 DEF Elements
  <2> QED
    BY <2>3, <2>6, <2>7 DEF InLife, Ups
<1>4. ASSUME ChildEdges(h) = {}, NEW c \in Handles, InLife(c), h \in Ups[c]
      PROVE  FALSE
  BY <1>1, <1>4, EdgelessIsUnnamed DEF Ups
<1> QED
  BY <1>1, <1>2, <1>3, <1>4

-----------------------------------------------------------------------------
(***************************************************************************)
(* The effects, one by one.                                                *)
(***************************************************************************)

AbstractStutter == Refs' = Refs /\ Ups' = Ups

LEMMA KnownIs ==
    ASSUME TypeOK, NEW h \in Handles
    PROVE  /\ Promise!Known(h) <=> InLife(h)
           /\ Promise!HasChild(h) <=> \E c \in Handles : InLife(c) /\ h \in Ups[c]
<1>1. \A g \in Handles : Promise!Known(g) <=> InLife(g)
  BY RefsAre DEF Promise!Known, Refs
<1>2. Promise!HasChild(h) <=> \E c \in Handles : Promise!Known(c) /\ h \in Ups[c]
  BY DEF Promise!HasChild, Ups
<1> QED
  BY <1>1, <1>2

LEMMA QuietStutters == ASSUME Quiet PROVE AbstractStutter
<1>1. \A p : Counts(p)' <=> Counts(p)
  BY DEF Quiet, SameRecord, Counts, IsCounted, Tracked
<1>2. \A c \in Handles : Refs'[c] = Refs[c] /\ Ups'[c] = Ups[c]
  BY <1>1, AbstractKept DEF Quiet
<1> QED
  BY <1>2, AbstractShape DEF AbstractStutter

LEMMA ErasedStutters ==
    ASSUME NEW h \in Handles, Erased(h)
    PROVE  AbstractStutter
<1>1. \A c \in Handles \ {h} : Refs'[c] = Refs[c] /\ Ups'[c] = Ups[c]
  BY OthersKept DEF Erased
<1>2. ~InLife(h) /\ ~InLife(h)'
  BY DEF Erased, InLife, Framed, Counts
<1>3. Refs'[h] = Refs[h] /\ Ups'[h] = Ups[h]
  BY <1>2 DEF Refs, Ups
<1> QED
  BY <1>1, <1>3, AbstractShape DEF AbstractStutter

LEMMA RaisedReferences ==
    ASSUME ExactInv({}), RootsAlone, NEW h \in Handles, Raised(h)
    PROVE  Promise!Reference(h)
<1>1. TypeOK /\ InLife(h) /\ InLife(h)' /\ Counts(h) /\ Counts(h)'
  BY DEF ExactInv, Inv, Raised, Recounted, NoWalk, InLife, Framed
<1>2. Refs[h] = objects[h].refcount /\ Refs'[h] = objects[h].refcount + 1
  BY <1>1 DEF Refs, Raised, Recounted
<1>3. Promise!Known(h) /\ ~Promise!Dead(h)
  <2>1. Refs[h] = 0 => Promise!HasChild(h)
    BY <1>1, <1>2, KnownIs, ChildIsKnown DEF Raised
  <2> QED
    BY <1>1, <2>1, KnownIs DEF Promise!Dead, Refs
<1>4. \A c \in Handles \ {h} : Refs'[c] = Refs[c] /\ Ups'[c] = Ups[c]
  BY <1>1, OthersKept DEF Raised
<1>5. Ups'[h] = Ups[h]
  <2>1. \A p : Counts(p)' <=> Counts(p)
    BY <1>1, UnaffectedLife DEF Raised, OnlyAffects, Counts, Tracked
  <2> QED
    BY <1>1, <2>1 DEF Ups, Raised, Recounted
<1>6. Refs' = [Refs EXCEPT ![h] = @ + 1] /\ Ups' = Ups
  BY <1>2, <1>4, <1>5, AbstractShape
<1> QED
  BY <1>3, <1>6 DEF Promise!Reference, Refs, Ups

LEMMA LoweredUnreferences ==
    ASSUME ExactInv({}), RootsAlone, NEW h \in Handles, Lowered(h)
    PROVE  Promise!Unreference(h)
<1>1. TypeOK /\ InLife(h) /\ Counts(h) /\ Counts(h)'
  BY DEF ExactInv, Inv, Lowered, Recounted, NoWalk, InLife, Framed
<1>2. Refs[h] = objects[h].refcount /\ Promise!Known(h)
  BY <1>1, KnownIs DEF Refs
<1>3. objects[h].num_children # 0 <=> Promise!HasChild(h)
  BY <1>1, KnownIs, ChildIsKnown DEF Lowered
<1>4. \A c \in Handles \ {h} : Refs'[c] = Refs[c] /\ Ups'[c] = Ups[c]
  BY <1>1, OthersKept DEF Lowered
<1>5. CASE /\ objects[h].refcount > 1 \/ objects[h].num_children # 0
           /\ ~Framed(h)'
  <2>1. InLife(h)'
    BY <1>1, <1>5 DEF InLife, Framed
  <2>2. Refs'[h] = objects[h].refcount - 1
    BY <2>1 DEF Refs, Lowered, Recounted
  <2>3. Ups'[h] = Ups[h]
    <3>1. \A p : Counts(p)' <=> Counts(p)
      BY <1>1, UnaffectedLife DEF Lowered, OnlyAffects, Counts, Tracked
    <3> QED
      BY <1>1, <2>1, <3>1 DEF Ups, Lowered, Recounted
  <2>4. Refs' = [Refs EXCEPT ![h] = @ - 1] /\ Ups' = Ups
    BY <1>2, <1>4, <2>2, <2>3, AbstractShape
  <2>5. Refs[h] > 0 /\ (Refs[h] > 1 \/ Promise!HasChild(h))
    BY <1>2, <1>3, <1>5 DEF Lowered
  <2> QED
    BY <1>2, <2>4, <2>5 DEF Promise!Unreference, Refs, Ups
<1>6. CASE /\ objects[h].refcount = 1 /\ objects[h].num_children = 0
           /\ Framed(h)'
  <2>1. ~InLife(h)'
    BY <1>6 DEF InLife, Framed
  <2>2. Refs' = [Refs EXCEPT ![h] = None] /\ Ups' = [Ups EXCEPT ![h] = {}]
    <3>1. Refs'[h] = None /\ Ups'[h] = {}
      BY <2>1 DEF Refs, Ups
    <3> QED
      BY <1>4, <3>1, AbstractShape
  <2>3. Refs[h] = 1 /\ ~Promise!HasChild(h)
    BY <1>2, <1>3, <1>6
  <2> QED
    BY <1>2, <2>2, <2>3 DEF Promise!Unreference, Promise!Forget, Refs, Ups
<1> QED
  BY <1>5, <1>6 DEF Lowered

LEMMA ReapedReaps ==
    ASSUME ExactInv({}), NEW h \in Handles, Reaped(h)
    PROVE  Promise!Reap(h)
<1>1. TypeOK /\ InLife(h) /\ ~InLife(h)'
  BY DEF ExactInv, Inv, Reaped, InLife, Counts
<1>2. Refs[h] = 0 /\ Promise!Known(h)
  BY <1>1, KnownIs DEF Refs, Reaped
<1>3. ~Promise!HasChild(h)
  BY <1>1, KnownIs DEF Ups, Reaped
<1>4. Refs' = [Refs EXCEPT ![h] = None] /\ Ups' = [Ups EXCEPT ![h] = {}]
  <2>1. \A c \in Handles \ {h} : Refs'[c] = Refs[c] /\ Ups'[c] = Ups[c]
    BY OthersKept DEF Reaped
  <2>2. Refs'[h] = None /\ Ups'[h] = {}
    BY <1>1 DEF Refs, Ups
  <2> QED
    BY <2>1, <2>2, AbstractShape
<1> QED
  BY <1>2, <1>3, <1>4 DEF Promise!Reap, Promise!Dead, Promise!Forget, Refs, Ups

LEMMA AddedRegisters ==
    ASSUME ExactInv({}), TypeOK', NEW h \in Handles, Added(h)
    PROVE  AbstractStutter \/ \E parents \in SUBSET Handles : Promise!Register(h, parents)
<1>1. /\ TypeOK /\ ~InLife(h)
      /\ \A c \in Handles : InLife(c) => h \notin Elements(objects[c].parents)
  BY ForgottenIsUnnamed DEF ExactInv, Inv, Added, InLife, Counts
<1>2. \A c \in Handles \ {h} : Refs'[c] = Refs[c] /\ Ups'[c] = Ups[c]
  BY <1>1, OthersKept DEF Added
<1>3. CASE ~IsCounted(objects'[h])
  <2>1. ~InLife(h)'
    BY <1>3 DEF InLife, Counts, IsCounted
  <2>2. Refs'[h] = Refs[h] /\ Ups'[h] = Ups[h]
    BY <1>1, <2>1 DEF Refs, Ups
  <2> QED
    BY <1>2, <2>2, AbstractShape DEF AbstractStutter
<1>4. CASE IsCounted(objects'[h])
  <2> SUFFICES ASSUME NEW parents,
                      parents = {p \in Elements(objects'[h].parents) : Counts(p)'}
               PROVE  \E ps \in SUBSET Handles : Promise!Register(h, ps)
    OBVIOUS
  <2>1. InLife(h)' /\ objects'[h].refcount = 1
    BY <1>4 DEF Added, InLife, Counts, IsCounted, Framed
  <2>2. Refs'[h] = 1 /\ Ups'[h] = parents
    BY <2>1 DEF Refs, Ups
  <2>3. parents \in SUBSET Handles
    BY DEF Counts, Tracked
  <2>4. ASSUME NEW p \in parents
        PROVE  Promise!Known(p)
    <3>1. Tracked(p) /\ p # h
      BY DEF Added, AllTracked, Elements
    <3>2. Counts(p)
      BY <2>3, <3>1, UnaffectedLife DEF Added, OnlyAffects
    <3>3. InLife(p)
      BY <2>3, <3>2 DEF InLife, Added, NoWalk, Framed
    <3> QED
      BY <1>1, <2>3, <3>3, KnownIs
  <2>5. Refs' = [Refs EXCEPT ![h] = 1] /\ Ups' = [Ups EXCEPT ![h] = parents]
    BY <1>2, <2>2, AbstractShape
  <2>6. ~Promise!Known(h)
    BY <1>1, KnownIs
  <2>7. Promise!Register(h, parents)
    BY <2>4, <2>5, <2>6 DEF Promise!Register, Refs, Ups
  <2> QED
    BY <2>3, <2>7
<1> QED
  BY <1>3, <1>4

LEMMA EmptiedForgetsAll == ASSUME Emptied PROVE Promise!ForgetAll
<1>1. \A g \in Handles : ~InLife(g)'
  BY DEF Emptied, InLife, Counts
<1> QED
  BY <1>1 DEF Promise!ForgetAll

-----------------------------------------------------------------------------
(***************************************************************************)
(* The refinement.                                                         *)
(***************************************************************************)

LEMMA InitMaps == Init => Promise!LifeInit /\ RootsAlone
<1> SUFFICES ASSUME Init PROVE Promise!LifeInit /\ RootsAlone
  OBVIOUS
<1>1. \A h \in Handles : ~Tracked(h) /\ ~InLife(h)
  BY DEF Init, Tracked, InLife, Counts
<1> QED
  BY <1>1 DEF Promise!LifeInit, RootsAlone

LEMMA StepMaps ==
    ASSUME ExactInv({}), ExactInv({})', RootsAlone, [ConformingNext]_vars
    PROVE  [Promise!LifeNext]_(Promise!lifeVars)
<1>1. Effect /\ TypeOK'
  BY StepEffect DEF ExactInv, Inv
<1>2. CASE Quiet
  BY <1>2, QuietStutters DEF AbstractStutter, Promise!lifeVars, Refs, Ups
<1>3. ASSUME NEW h \in Handles, Raised(h) \/ Lowered(h) \/ Reaped(h)
      PROVE  Promise!LifeNext
  BY <1>3, RaisedReferences, LoweredUnreferences, ReapedReaps DEF Promise!LifeNext
<1>4. ASSUME NEW h \in Handles, Added(h)
      PROVE  [Promise!LifeNext]_(Promise!lifeVars)
  <2>1. AbstractStutter \/ \E parents \in SUBSET Handles : Promise!Register(h, parents)
    BY <1>1, <1>4, AddedRegisters
  <2>2. CASE AbstractStutter
    BY <2>2 DEF AbstractStutter, Promise!lifeVars, Refs, Ups
  <2>3. CASE \E parents \in SUBSET Handles : Promise!Register(h, parents)
    BY <2>3 DEF Promise!LifeNext
  <2> QED
    BY <2>1, <2>2, <2>3
<1>5. ASSUME NEW h \in Handles, Erased(h)
      PROVE  [Promise!LifeNext]_(Promise!lifeVars)
  BY <1>5, ErasedStutters DEF AbstractStutter, Promise!lifeVars, Refs, Ups
<1>6. CASE Emptied
  BY <1>6, EmptiedForgetsAll DEF Promise!LifeNext
<1> QED
  BY <1>1, <1>2, <1>3, <1>4, <1>5, <1>6 DEF Effect

\* The safety part of ImplementsLifetime: whatever the application calls and
\* however the walks of delete_object_record run, what the tracker knows
\* changes only by registering, referencing, unreferencing and reaping.
THEOREM TrackerRefinesLifetime ==
    ConformingSpec => Promise!LifeInit /\ [][Promise!LifeNext]_(Promise!lifeVars)
<1> DEFINE I == ExactInv({}) /\ RootsAlone
<1>1. Init => I /\ Promise!LifeInit
  BY InitExact, InitMaps
<1>2. I /\ [ConformingNext]_vars => I'
  BY NextExact, StepEffect, RootsStayAlone
<1>3. I /\ I' /\ [ConformingNext]_vars => [Promise!LifeNext]_(Promise!lifeVars)
  BY StepMaps
<1> QED
  BY <1>1, <1>2, <1>3, PTL DEF ConformingSpec
=============================================================================
