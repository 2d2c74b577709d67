----------------------------- MODULE MCTestIcd -----------------------------
(* Instances of the mock driver: its options, the way CI sets them.        *)
EXTENDS TestIcdSurface

Started(version, options) == [version |-> version, options |-> options]

MCEnvironments ==
    {Started(120, {}),
     Started(120, {"report_implicit_ref_count_to_user"}),
     Started(200, {"allow_using_released_objects", "always_return_success"}),
     Started(300, {"report_implicit_ref_count_to_user", "allow_using_inaccessible_objects"})}

Created(T) == Cardinality(Of(T))

\* More than three objects are for the commands of one context: a kernel that
\* is enqueued, its event, and the kernel's clone.  None is retained then.
Bounded ==
    \/ obj[4] = None
    \/ /\ Created("CONTEXT") = 1 /\ Created("PROGRAM") = 1 /\ Created("KERNEL") \in 1 .. 2
       /\ Created("COMMAND_QUEUE") <= 1 /\ Created("DEVICE") = 1
       /\ Created("MEM") = 0 /\ Created("SAMPLER") = 0
       /\ \A h \in Objects : obj[h] # None => obj[h].ref_count <= 1

\* Only `answer` is left out; no action reads it.
IcdView == <<obj, env>>
=============================================================================
