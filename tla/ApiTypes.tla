------------------------------ MODULE ApiTypes ------------------------------
(***************************************************************************)
(* The null pointer, and lists of context properties: NULL, or the pairs   *)
(* of a name and a value in front of the zero that ends the list.          *)
(***************************************************************************)
EXTENDS Integers, Sequences

CONSTANTS NULL

Positions(properties, name) ==
    IF properties = NULL THEN {} ELSE {n \in DOMAIN properties : properties[n].name = name}

NamesPlatform(properties) == Positions(properties, "CL_CONTEXT_PLATFORM") # {}

\* The platform of a list that names one: the compatibility layer reads the
\* first, ...
FirstPlatform(properties) ==
    LET ns == Positions(properties, "CL_CONTEXT_PLATFORM")
    IN  properties[CHOOSE n \in ns : \A m \in ns : n <= m].value

\* ... object_lifetime and param_verification read the last.
LastPlatform(properties) ==
    LET ns == Positions(properties, "CL_CONTEXT_PLATFORM")
    IN  properties[CHOOSE n \in ns : \A m \in ns : m <= n].value
=============================================================================
