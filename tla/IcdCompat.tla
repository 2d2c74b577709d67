------------------------------ MODULE IcdCompat ------------------------------
(***************************************************************************)
(* The platforms of the compatibility layer (ocl-icd-compat/               *)
(* ocl_icd_compat.c): the list it makes of those below when it is loaded,  *)
(* and what it forwards, or refuses, on the strength of that list.  `icd`  *)
(* is [platforms, num_platforms, default_id], the layer's static state.    *)
(***************************************************************************)
EXTENDS ApiTypes

CONSTANTS
    NotANumber, \* an environment variable that is set to no number
    Freed       \* the platform list after it was freed or never allocated

\* Fault: CPUs count before GPUs.
CmpCpusFirst(a, b) ==
    \/ a.ncpus > b.ncpus
    \/ a.ncpus = b.ncpus /\ a.ngpus > b.ngpus
    \/ a.ncpus = b.ncpus /\ a.ngpus = b.ngpus /\ a.ndevs > b.ndevs

\* `a` goes before `b`: the one with more GPUs, then CPUs, then devices.
cmp_platforms(a, b) ==
    \/ a.ngpus > b.ngpus
    \/ a.ngpus = b.ngpus /\ a.ncpus > b.ncpus
    \/ a.ngpus = b.ngpus /\ a.ncpus = b.ncpus /\ a.ndevs > b.ndevs

\* The orders qsort may leave a list in: it is not stable.
Sorted(picds) ==
    {sorted \in {[n \in DOMAIN picds |-> picds[order[n]]] :
                    order \in {f \in [DOMAIN picds -> DOMAIN picds] :
                                  \A m, n \in DOMAIN picds : f[m] = f[n] => m = n}} :
        \A m, n \in DOMAIN picds : m < n => ~ cmp_platforms(sorted[n], sorted[m])}

sort_platforms(env, picds) ==
    IF Len(picds) <= 1 \/ env.OCL_ICD_PLATFORM_SORT = "none" THEN {picds} ELSE Sorted(picds)

\* The value of OCL_ICD_DEFAULT_PLATFORM is a number, or NotANumber for a text
\* that is none; the default stays null unless it counts a platform.
set_default_id(env, picds) ==
    LET num_default_platform ==
            IF env.OCL_ICD_DEFAULT_PLATFORM = NULL THEN 0 ELSE env.OCL_ICD_DEFAULT_PLATFORM
    IN  IF num_default_platform \in 0 .. Len(picds) - 1
        THEN picds[num_default_platform + 1].pid ELSE NULL

NoPlatforms == [platforms |-> <<>>, num_platforms |-> 0, default_id |-> NULL]

\* `driver` is [picds, fails]: its platforms, and the first of the calls and
\* allocations of init_platforms that fails.  The count is kept when a later
\* one fails, the list is not.
init_platforms(env, driver) ==
    CASE driver.fails = "clGetPlatformIDs" \/ driver.picds = <<>> -> {NoPlatforms}
      [] driver.fails = "calloc" /\ driver.picds # <<>> ->
            {[NoPlatforms EXCEPT !.platforms = Freed, !.num_platforms = Len(driver.picds)]}
      [] OTHER ->
            {[platforms |-> [n \in DOMAIN picds |-> picds[n].pid],
              num_platforms |-> Len(picds),
              default_id |-> set_default_id(env, picds)] : picds \in sort_platforms(env, driver.picds)}

-----------------------------------------------------------------------------
(***************************************************************************)
(* Outcomes: a refusal, a call of the driver with some argument, an answer *)
(* from the list, or "undefined" when freed or null memory is used.        *)
(***************************************************************************)

Refused(code) == [outcome |-> "refused", with |-> code]
Forwarded(argument) == [outcome |-> "forwarded", with |-> argument]
Answered(platforms) == [outcome |-> "answered", with |-> platforms]
Undefined == [outcome |-> "undefined", with |-> NULL]

\* The refusal is written through errcode_ret, null or not.
RefusedThrough(errcode_ret) == IF errcode_ret THEN Refused("CL_INVALID_PLATFORM") ELSE Undefined

check_platform(icd, pid) == \E n \in DOMAIN icd.platforms : icd.platforms[n] = pid

\* Fault: the platform is not looked up.
AnyPlatformNamed(icd, properties, refusal, forward) ==
    IF FirstPlatform(properties) = NULL THEN refusal ELSE forward

\* What becomes of a call whose list names a platform.
platform_named(icd, properties, refusal, forward) ==
    IF FirstPlatform(properties) = NULL THEN refusal
    ELSE IF icd.platforms = Freed THEN Undefined
    ELSE IF check_platform(icd, FirstPlatform(properties)) THEN forward ELSE refusal

\* `platforms`, `count`: an array, a counter was given.
clGetPlatformIDs(icd, num_entries, platforms, count) ==
    IF (~ platforms /\ ~ count) \/ (num_entries = 0 /\ platforms) THEN Refused("CL_INVALID_VALUE")
    ELSE IF icd.num_platforms = 0 THEN Refused("CL_PLATFORM_NOT_FOUND_KHR")
    ELSE IF ~ platforms THEN Answered(<<>>)
    ELSE IF icd.platforms = Freed THEN Undefined
    ELSE Answered(SubSeq(icd.platforms, 1,
                         IF num_entries < icd.num_platforms THEN num_entries ELSE icd.num_platforms))

clCreateContext(icd, properties, errcode_ret) ==
    IF ~ NamesPlatform(properties) THEN Forwarded(properties)
    ELSE platform_named(icd, properties, RefusedThrough(errcode_ret), Forwarded(properties))

\* A list that names no platform is refused, no list means the default.
clCreateContextFromType(icd, properties, errcode_ret) ==
    LET refusal == RefusedThrough(errcode_ret)
        default == <<[name |-> "CL_CONTEXT_PLATFORM", value |-> icd.default_id]>>
    IN  IF icd.num_platforms = 0 THEN refusal
        ELSE IF properties = NULL
        THEN IF icd.default_id = NULL THEN refusal ELSE Forwarded(default)
        ELSE IF ~ NamesPlatform(properties) THEN refusal
        ELSE platform_named(icd, properties, refusal, Forwarded(properties))

clGetGLContextInfoKHR(icd, properties) ==
    IF ~ NamesPlatform(properties) THEN Forwarded(properties)
    ELSE platform_named(icd, properties, Refused("CL_INVALID_PLATFORM"), Forwarded(properties))

select_platform_id(icd, pid) == IF pid # NULL THEN pid ELSE icd.default_id
=============================================================================
