------------------------------ MODULE MCTracker ------------------------------
(* Small instances of ObjectLifetime for TLC. *)
EXTENDS ObjectLifetime, TLC

\* Vectors of at most one parent.
OneParent == {<<>>} \cup {<<a>> : a \in Handles}

HandleSymmetry == Permutations(Handles)
=============================================================================
