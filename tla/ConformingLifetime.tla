------------------------- MODULE ConformingLifetime -------------------------
(***************************************************************************)
(* The tracker behind a driver that never returns a handle the tracker     *)
(* still has a record for, with parents that are all in the map.  Calls on *)
(* existing handles stay arbitrary: double releases, wrong types and       *)
(* unknown handles included.                                               *)
(***************************************************************************)
EXTENDS ObjectLifetime

Distinct(hs) == \A i, j \in DOMAIN hs : hs[i] = hs[j] => i = j

AllTracked(ps) == \A i \in DOMAIN ps : Tracked(ps[i])

ConformingCreate(t) ==
    \/ \E T \in CreatedTypes, hs \in HandleLists, ps \in ParentLists :
            /\ Distinct(hs)
            /\ \A i \in DOMAIN hs : ~Tracked(hs[i])
            /\ AllTracked(ps)
            /\ CheckCreationList(t, T, hs, ps)
    \/ \E T \in Types \cap RootTypes, h \in Handles, v \in Versions :
            /\ ~Tracked(h)
            /\ CheckAddOrExists(t, T, h, <<>>, v)
    \/ \E T \in Types, h \in Handles :
            /\ TrackedAs(T, h)
            /\ CheckAddOrExists(t, T, h, <<>>, FALLBACK_VERSION)
    \/ \E T \in CreatedTypes, h \in Handles, p \in Handles :
            /\ <<p>> \in ParentLists
            /\ \/ ~Tracked(h) /\ Tracked(p)
               \/ TrackedAs(T, h) /\ Retained(h) /\ CanCount(h)
            /\ CheckCreateOrExists(t, T, h, p)

ConformingNext ==
    \/ Continue
    \/ Report
    \/ \E t \in Threads : Query(t) \/ Count(t) \/ ConformingCreate(t)

ConformingSpec == Init /\ [][ConformingNext]_vars /\ WF_vars(Continue)

-----------------------------------------------------------------------------
\* num_children is the number of vector elements that still name the record:
\* the counter the code keeps by hand never drifts from the relation it counts.
ChildrenCounted ==
    \A p \in Handles :
        Counts(p) => objects[p].num_children = Cardinality(ChildEdges(p))

\* No record outlives its parents: whatever a parents vector names is in the
\* map until the notification is done, so find_object_handle never misses.
ParentsOutlive == \A e \in Edges : Tracked(ParentOf(e))

\* A record that nothing refers to any more is gone as soon as the mutex is
\* free: a counted record in the map has a reference or a child.
KeptForAReason ==
    \A h \in Handles :
        Counts(h) /\ frames[h] = None =>
            objects[h].refcount > 0 \/ objects[h].num_children > 0

\* The record being deleted has neither reference nor child, and only it can
\* be both in the map and in a loop over its parents.
DeletionIsFinal ==
    \A h \in Handles :
        Tracked(h) /\ frames[h] # None =>
            /\ objects[h].refcount = 0
            /\ ChildEdges(h) = {}

\* While the application runs, a counted record leaves the map only when its
\* last reference and its last child are gone.
ForgottenOnlyWhenDead ==
    [][\A h \in Handles :
         Counts(h) /\ objects'[h] = None /\ leaks' = leaks =>
            /\ objects[h].refcount = 0
            /\ \A c \in Handles : InLife(c)' =>
                    h \notin Elements(objects'[c].parents)]_vars

\* A count that dropped to zero comes back only for a record that a child
\* keeps, on a platform that allows it: never up to OpenCL 1.2.
NoResurrectionBefore20 ==
    [][\A h \in Handles :
         Counts(h) /\ Counts(h)' /\ objects[h].refcount = 0 /\ objects'[h].refcount > 0 =>
            /\ objects[h].version > 12
            /\ ChildEdges(h) # {}]_vars

\* The walk up the parents ends and the mutex is released, whatever the shape
\* of the object graph.
MutexReleased == mutex # None ~> mutex = None

(***************************************************************************)
(* The tracker implements LifetimeSpec: a record whose deletion has begun  *)
(* is no longer known.                                                     *)
(***************************************************************************)

Promise == INSTANCE LifetimeSpec WITH
    Objects <- Handles,
    refs <- [h \in Handles |-> IF InLife(h) THEN objects[h].refcount ELSE None],
    ups <- [h \in Handles |->
              IF InLife(h) THEN {p \in Elements(objects[h].parents) : Counts(p)} ELSE {}]

ImplementsLifetime == Promise!Life
=============================================================================
