---------------------------- MODULE MCConforming ----------------------------
(* Small instances of ConformingLifetime for TLC. *)
EXTENDS ConformingLifetime, TLC

\* Vectors of at most one parent, and of two with repetition.
OneParent == {<<>>} \cup {<<a>> : a \in Handles}

TwoParents == OneParent \cup {<<a, b>> : a \in Handles, b \in Handles}

HandleSymmetry == Permutations(Handles)
=============================================================================
