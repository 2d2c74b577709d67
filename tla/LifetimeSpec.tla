---------------------------- MODULE LifetimeSpec ----------------------------
(***************************************************************************)
(* What the tracker promises about reference-counted objects, without      *)
(* counters of children, loops or a mutex: an object is known while it is  *)
(* referenced or is a parent of a known object, and is forgotten           *)
(* otherwise.                                                              *)
(***************************************************************************)
EXTENDS Integers, Sequences

CONSTANTS Objects, None

VARIABLES
    refs,       \* object -> references the application holds, None if unknown
    ups         \* object -> its parents that are themselves counted

lifeVars == <<refs, ups>>

Known(o) == refs[o] # None

HasChild(o) == \E c \in Objects : Known(c) /\ o \in ups[c]

Dead(o) == Known(o) /\ refs[o] = 0 /\ ~HasChild(o)

LifeInit ==
    /\ refs = [o \in Objects |-> None]
    /\ ups = [o \in Objects |-> {}]

\* A new object, referenced once, below objects that are known.
Register(o, parents) ==
    /\ ~Known(o)
    /\ \A p \in parents : Known(p)
    /\ refs' = [refs EXCEPT ![o] = 1]
    /\ ups' = [ups EXCEPT ![o] = parents]

\* Only an object that is not dead can be referenced once more.
Reference(o) ==
    /\ Known(o) /\ ~Dead(o)
    /\ refs' = [refs EXCEPT ![o] = @ + 1]
    /\ UNCHANGED ups

Forget(o) ==
    /\ refs' = [refs EXCEPT ![o] = None]
    /\ ups' = [ups EXCEPT ![o] = {}]

\* The last reference to an object without children ends its life at once.
Unreference(o) ==
    /\ Known(o) /\ refs[o] > 0
    /\ \/ /\ refs[o] > 1 \/ HasChild(o)
          /\ refs' = [refs EXCEPT ![o] = @ - 1]
          /\ UNCHANGED ups
       \/ /\ refs[o] = 1 /\ ~HasChild(o)
          /\ Forget(o)

\* An object that only its children kept goes after the last of them.
Reap(o) == Dead(o) /\ Forget(o)

ForgetAll ==
    /\ refs' = [o \in Objects |-> None]
    /\ ups' = [o \in Objects |-> {}]

LifeNext ==
    \/ \E o \in Objects : Reference(o) \/ Unreference(o) \/ Reap(o)
    \/ \E o \in Objects, parents \in SUBSET Objects : Register(o, parents)
    \/ ForgetAll

Life == LifeInit /\ [][LifeNext]_lifeVars /\ WF_lifeVars(\E o \in Objects : Reap(o))
=============================================================================
