--------------------------- MODULE TestIcdProofs ---------------------------
(***************************************************************************)
(* The mock driver, for every number of objects and every width of its     *)
(* counters: no call confuses its objects (IcdTypeOK), a context has one   *)
(* default queue per device (OneDefaultQueue), a call that fails changes   *)
(* nothing, and what was released to the end stays released.               *)
(*                                                                         *)
(* The calls are many and come to few things: nothing, one reference more, *)
(* one reference less, or new objects (Outcome).  The first half shows     *)
(* that of every entry point, the second that these keep the invariant.    *)
(***************************************************************************)
EXTENDS TestIcdSurface, FiniteSetTheorems, TLAPS

Known == {h \in Objects : obj[h] # None}

IsDevice(o) == o.type \in Kinds("DEVICE")

\* Addresses are given out in order, so the next ones are unused.
InOrder == Known = 0 .. Cardinality(Known) - 1

\* What the objects named in `parents` are, by the kind of the object.
ParentKinds(o) ==
    LET kinds == {obj[p].type : p \in ToSet(o.parents)}
    IN  /\ o.type \in Kinds("DEVICE") \cup {"CONTEXT"} => kinds \subseteq Kinds("DEVICE")
        /\ o.type = "COMMAND_QUEUE" =>
            /\ Len(o.parents) = 2
            /\ obj[o.parents[1]].type \in Kinds("DEVICE")
            /\ obj[o.parents[2]].type = "CONTEXT"
        /\ o.type \in Kinds("MEM") =>
            o.parents # <<>> /\ obj[o.parents[Len(o.parents)]].type = "CONTEXT"

\* A device may be named twice, as in the context of two equal devices;
\* nothing else is: notify() takes from it one reference at most.
NamedOnce(o) ==
    \A i, j \in DOMAIN o.parents :
        o.parents[i] = o.parents[j] => i = j \/ IsDevice(obj[o.parents[i]])

ObjectOK(o) ==
    /\ o \in Object
    /\ ToSet(o.parents) \subseteq Known
    /\ o.referenced \subseteq ToSet(o.parents)
    /\ ParentKinds(o) /\ NamedOnce(o)
    /\ o.default => o.type = "COMMAND_QUEUE"

RootOK ==
    /\ obj[RootDevice] # None
    /\ obj[RootDevice].type = "DEVICE" /\ obj[RootDevice].ref_count = 1

\* The inductive invariant, but for the counters.
IcdInv ==
    /\ obj \in [Objects -> Object \cup {None}] /\ env \subseteq Options
    /\ InOrder /\ RootOK
    /\ \A h \in Known : ObjectOK(obj[h])
    /\ OneDefaultQueue

-----------------------------------------------------------------------------
(***************************************************************************)
(* What a call comes to.                                                   *)
(***************************************************************************)

RetainedTo(objects) ==
    \E h \in Known :
        /\ obj[h].type # "DEVICE" /\ obj[h].ref_count < MaxCount
        /\ Strict => obj[h].ref_count > 0
        /\ objects = [obj EXCEPT ![h].ref_count = UInt(@ + 1)]

Released(h) == [obj EXCEPT ![h].ref_count = @ - 1]

ReleasedTo(objects) ==
    \E h \in Known :
        /\ obj[h].type # "DEVICE" /\ obj[h].ref_count # 0
        /\ objects = IF Released(h)[h].ref_count = 0 /\ Released(h)[h].implicit_ref_count = 0
                     THEN notify(Released(h), h) ELSE Released(h)

\* n objects like `object`, which gave counts[p] references to the parent p.
With(n, object, counts) ==
    [h \in Objects |->
        IF h \in ToSet(New(n)) THEN object
        ELSE IF h \in object.referenced THEN reference(obj, h, counts[h])[h]
        ELSE obj[h]]

NewOK(n, object, counts) ==
    /\ Room(n) /\ ObjectOK(object)
    /\ object.ref_count = 1 /\ object.implicit_ref_count = 0
    /\ object.default =>
        /\ n = 1
        /\ \A q \in Of("COMMAND_QUEUE") : obj[q].default => obj[q].parents # object.parents
    /\ \A p \in object.referenced : IsDevice(obj[p]) \/ counts[p] = n

CreatedTo(objects) ==
    \E n \in Nat, object \in Object, counts \in [Objects -> Nat] :
        NewOK(n, object, counts) /\ objects = With(n, object, counts)

Outcome(r) ==
    /\ r.code # "CL_SUCCESS" => r.obj = obj
    /\ r.obj = obj \/ RetainedTo(r.obj) \/ ReleasedTo(r.obj) \/ CreatedTo(r.obj)

Effect == \E r : Outcome(r) /\ Answer(r)

-----------------------------------------------------------------------------
(***************************************************************************)
(* The calls that change no object.                                        *)
(***************************************************************************)

LEMMA SuccessOutcome == ASSUME NEW value PROVE Outcome(Success(obj, value))
  BY DEF Outcome, Success

LEMMA FailureOutcome == ASSUME NEW code PROVE Outcome(Failure(code))
  BY DEF Outcome, Failure

LEMMA InfoOutcome ==
  ASSUME NEW answers, NEW param, NEW size, NEW pointer
  PROVE  Outcome(Info(answers, param, size, pointer))
  BY SuccessOutcome, FailureOutcome DEF Info

LEMMA InvokeEffect ==
  ASSUME NEW T, NEW h, NEW retaining, NEW results,
         Exists(T, h) => \A r \in results : Outcome(r),
         invoke_if_valid(T, h, retaining, results)
  PROVE  Effect
  BY FailureOutcome DEF invoke_if_valid, Effect

LEMMA CreateEffect ==
  ASSUME NEW T, NEW h, NEW results,
         Exists(T, h) => \A r \in results : Outcome(r),
         create_if_valid(T, h, results)
  PROVE  Effect
  BY FailureOutcome DEF create_if_valid, Effect

LEMMA GetInfoEffect ==
  ASSUME NEW T, NEW h, NEW answers, NEW params, GetInfo(T, h, answers, params)
  PROVE  Effect
<1>1. PICK param \in params, size \in Sizes, pointer \in BOOLEAN :
        invoke_if_valid(T, h, FALSE, {Info(answers, param, size, pointer)})
  BY DEF GetInfo
<1>2. \A r \in {Info(answers, param, size, pointer)} : Outcome(r)
  BY InfoOutcome
<1>3. QED
  BY <1>1, <1>2, InvokeEffect

LEMMA PlatformEffect == ASSUME Platform PROVE Effect
<1>1. CASE \E known \in BOOLEAN : clGetPlatformInfo_wrap(known)
  BY <1>1, InfoOutcome, FailureOutcome DEF clGetPlatformInfo_wrap, IfPlatform, Effect
<1>2. CASE \E known \in BOOLEAN : clGetDeviceIDs_wrap(known)
  BY <1>2, SuccessOutcome, FailureOutcome
     DEF clGetDeviceIDs_wrap, IfPlatform, Effect, platform_clGetDeviceIDs
<1>3. CASE clIcdGetPlatformIDsKHR
  BY <1>3, SuccessOutcome, FailureOutcome DEF clIcdGetPlatformIDsKHR, Effect
<1>4. QED
  BY <1>1, <1>2, <1>3 DEF Platform

-----------------------------------------------------------------------------
(***************************************************************************)
(* The calls that change an object there is.                               *)
(***************************************************************************)

LEMMA ExistsKnown ==
  ASSUME NEW T, NEW h, Exists(T, h)
  PROVE  h \in Known /\ obj[h].type \in Kinds(T)
  BY DEF Exists, Known

LEMMA RetainOutcome ==
  ASSUME NEW T, NEW h \in Known, obj[h].type # "DEVICE", obj[h].ref_count < MaxCount
  PROVE  Outcome(retain(T, h))
<1>1. CASE obj[h].ref_count > 0 \/ (obj[h].implicit_ref_count > 0
                                   /\ "allow_using_inaccessible_objects" \in env)
  <2>1. retain(T, h) = Success([obj EXCEPT ![h].ref_count = UInt(@ + 1)], None)
    BY <1>1 DEF retain
  <2>2. Strict => obj[h].ref_count > 0
    BY <1>1 DEF Strict
  <2>3. RetainedTo([obj EXCEPT ![h].ref_count = UInt(@ + 1)])
    BY <2>2 DEF RetainedTo
  <2>4. QED
    BY <2>1, <2>3 DEF Outcome, Success
<1>2. CASE ~(obj[h].ref_count > 0 \/ (obj[h].implicit_ref_count > 0
                                   /\ "allow_using_inaccessible_objects" \in env))
  <2>1. retain(T, h) = Failure(INVALID(T))
    BY <1>2 DEF retain
  <2>2. QED
    BY <2>1, FailureOutcome
<1>3. QED
  BY <1>1, <1>2

LEMMA ReleaseOutcome ==
  ASSUME NEW T, NEW h \in Known, obj[h].type # "DEVICE"
  PROVE  Outcome(release(T, h))
<1>1. CASE obj[h].ref_count = 0
  BY <1>1, FailureOutcome DEF release
<1>2. CASE obj[h].ref_count # 0
  <2> DEFINE after == IF /\ Released(h)[h].ref_count = 0
                         /\ Released(h)[h].implicit_ref_count = 0
                      THEN notify(Released(h), h) ELSE Released(h)
  <2>1. release(T, h) = Success(after, None)
    BY <1>2 DEF release, Released
  <2>2. ReleasedTo(after)
    BY <1>2 DEF ReleasedTo
  <2> HIDE DEF after
  <2>3. QED
    BY <2>1, <2>2 DEF Outcome, Success
<1>3. QED
  BY <1>1, <1>2

-----------------------------------------------------------------------------
(***************************************************************************)
(* The calls that create.                                                  *)
(***************************************************************************)

LEMMA KnownFinite == ASSUME IcdInv PROVE IsFiniteSet(Known) /\ Cardinality(Known) \in Nat
<1>1. IsFiniteSet(Objects)
  BY FS_Interval, IcdConstants DEF Objects
<1>2. Known \in SUBSET Objects
  BY DEF Known
<1>3. IsFiniteSet(Known)
  BY <1>1, <1>2, FS_Subset
<1>4. QED
  BY <1>3, FS_CardinalityType

\* The next n addresses follow those in use.
LEMMA NewAddresses ==
  ASSUME IcdInv, NEW n \in Nat
  PROVE  /\ ToSet(New(n)) = Cardinality(Known) .. Cardinality(Known) + n - 1
         /\ ToSet(New(n)) \cap Known = {}
         /\ IsFiniteSet(ToSet(New(n))) /\ Cardinality(ToSet(New(n))) = n
<1> DEFINE used == Cardinality(Known)
<1>1. used \in Nat
  BY KnownFinite
<1>2. New(n) = [i \in 1 .. n |-> used + i - 1]
  BY DEF New, Known
<1>3. ToSet(New(n)) = {used + i - 1 : i \in 1 .. n}
  BY <1>2 DEF ToSet
<1> HIDE DEF used
<1>4. ToSet(New(n)) = used .. used + n - 1
  <2>1. ASSUME NEW x \in used .. used + n - 1 PROVE x \in {used + i - 1 : i \in 1 .. n}
    <3>1. x - used + 1 \in 1 .. n /\ x = used + (x - used + 1) - 1
      BY <1>1
    <3>2. QED
      BY <3>1
  <2>2. \A x \in {used + i - 1 : i \in 1 .. n} : x \in used .. used + n - 1
    BY <1>1
  <2>3. QED
    BY <1>3, <2>1, <2>2
<1>5. Known = 0 .. used - 1
  BY DEF IcdInv, InOrder, used
<1>6. used \in Int /\ used + n - 1 \in Int
  BY <1>1
<1>7. IsFiniteSet(used .. used + n - 1) /\ Cardinality(used .. used + n - 1) = n
  BY <1>1, <1>6, FS_Interval
<1>8. QED
  BY <1>1, <1>4, <1>5, <1>7 DEF used

LEMMA CreateAllOutcome ==
  ASSUME IcdInv, NEW n \in Nat, NEW object \in Object, NEW count \in Nat, NEW value,
         NewOK(n, object, [p \in Objects |-> count])
  PROVE  Outcome(Success(CreateAll(New(n), object, count), value))
<1> DEFINE counts == [p \in Objects |-> count]
<1>1. counts \in [Objects -> Nat]
  OBVIOUS
<1>2. CreateAll(New(n), object, count) = With(n, object, counts)
  BY DEF CreateAll, With
<1>3. NewOK(n, object, counts)
  OBVIOUS
<1> HIDE DEF counts
<1>4. CreatedTo(With(n, object, counts))
  BY <1>1, <1>3 DEF CreatedTo
<1>5. QED
  BY <1>2, <1>4 DEF Outcome, Success

LEMMA FreshAddress ==
  ASSUME IcdInv, NEW h \in Fresh
  PROVE  h \in Objects /\ New(1) = <<h>> /\ Room(1) /\ ToSet(New(1)) = {h}
<1>1. h \in Objects /\ New(1) = <<h>>
  BY DEF Fresh
<1>2. ToSet(<<h>>) = {h}
  BY DEF ToSet
<1>3. QED
  BY <1>1, <1>2 DEF Room

LEMMA CreateOutcome ==
  ASSUME IcdInv, NEW h \in Fresh, NEW object \in Object, ObjectOK(object),
         object.ref_count = 1, object.implicit_ref_count = 0,
         object.default =>
            \A q \in Of("COMMAND_QUEUE") : obj[q].default => obj[q].parents # object.parents
  PROVE  Outcome(Create(h, object))
<1>1. NewOK(1, object, [p \in Objects |-> 1])
  <2>1. \A p \in object.referenced : p \in Objects
    BY DEF Object
  <2>2. QED
    BY <2>1, FreshAddress DEF NewOK
<1>2. Outcome(Success(CreateAll(New(1), object, 1), <<h>>))
  BY <1>1, CreateAllOutcome
<1>3. QED
  BY <1>2, FreshAddress DEF Create

LEMMA SingleSet == ASSUME NEW a PROVE ToSet(<<a>>) = {a}
  BY DEF ToSet

LEMMA PairSet == ASSUME NEW a, NEW b PROVE ToSet(<<a, b>>) = {a, b}
  BY DEF ToSet

LEMMA NewObjectType ==
  ASSUME NEW type \in Types, NEW parents \in Seq(Objects), NEW referenced \in SUBSET Objects
  PROVE  NewObject(type, parents, referenced) \in Object
<1>1. 0 \in 0 .. UINT_RANGE - 1 /\ 1 \in 0 .. UINT_RANGE - 1 /\ 0 \in Nat
  BY IcdConstants
<1>2. QED
  BY <1>1 DEF NewObject, Object

LEMMA NewOutcome ==
  ASSUME IcdInv, NEW h \in Fresh,
         NEW type \in Types, NEW parents \in Seq(Objects), NEW referenced,
         ToSet(parents) \subseteq Known, referenced \subseteq ToSet(parents),
         ParentKinds(NewObject(type, parents, referenced)),
         NamedOnce(NewObject(type, parents, referenced))
  PROVE  Outcome(Create(h, NewObject(type, parents, referenced)))
<1> DEFINE object == NewObject(type, parents, referenced)
<1>1. referenced \in SUBSET Objects
  BY DEF Known
<1>2. /\ object.parents = parents /\ object.referenced = referenced
      /\ object.default = FALSE /\ object.ref_count = 1 /\ object.implicit_ref_count = 0
  BY DEF NewObject
<1> HIDE DEF object
<1>3. ParentKinds(object) /\ NamedOnce(object)
  BY DEF object
<1>4. object \in Object
  BY <1>1, NewObjectType DEF object
<1>5. ObjectOK(object)
  BY <1>2, <1>3, <1>4 DEF ObjectOK
<1>6. Outcome(Create(h, object))
  BY <1>2, <1>4, <1>5, CreateOutcome
<1>7. QED
  BY <1>6 DEF object

\* A new object with one parent, which is not a device.
LEMMA NewChildOutcome ==
  ASSUME IcdInv, NEW h \in Fresh, NEW p \in Known, NEW type \in Types, NEW referenced,
         referenced \subseteq {p},
         type \notin Kinds("DEVICE") \cup {"CONTEXT", "COMMAND_QUEUE"},
         type \in Kinds("MEM") => obj[p].type = "CONTEXT"
  PROVE  Outcome(Create(h, NewObject(type, <<p>>, referenced)))
<1> DEFINE object == NewObject(type, <<p>>, referenced)
<1>1. p \in Objects /\ <<p>> \in Seq(Objects) /\ referenced \in SUBSET Objects
  BY DEF Known
<1>2. object.type = type /\ object.parents = <<p>>
  BY DEF NewObject
<1> HIDE DEF object
<1>3. ParentKinds(object)
  BY <1>2 DEF ParentKinds
<1>4. NamedOnce(object)
  BY <1>2 DEF NamedOnce
<1>5. ToSet(<<p>>) = {p}
  BY SingleSet
<1>6. QED
  BY <1>1, <1>3, <1>4, <1>5, NewOutcome DEF object

LEMMA InContextOutcome ==
  ASSUME IcdInv, NEW c, Exists("CONTEXT", c), NEW h \in Fresh,
         NEW type \in {"BUFFER", "IMAGE", "PIPE", "EVENT", "SAMPLER"}
  PROVE  Outcome(InContext(c, h, type))
<1>1. c \in Known /\ obj[c].type = "CONTEXT"
  BY ExistsKnown DEF Kinds
<1>2. type \in Types /\ type \notin Kinds("DEVICE") \cup {"CONTEXT", "COMMAND_QUEUE"}
  BY DEF Types, Kinds
<1>3. QED
  BY <1>1, <1>2, NewChildOutcome DEF InContext

\* A new object with two parents, neither of them a device.
LEMMA NewGrandchildOutcome ==
  ASSUME IcdInv, NEW h \in Fresh, NEW p \in Known, NEW c \in Known, NEW type \in Types,
         NEW referenced, referenced \subseteq {p, c}, p # c,
         type \notin Kinds("DEVICE") \cup {"CONTEXT", "COMMAND_QUEUE"},
         type \in Kinds("MEM") => obj[c].type = "CONTEXT"
  PROVE  Outcome(Create(h, NewObject(type, <<p, c>>, referenced)))
<1> DEFINE object == NewObject(type, <<p, c>>, referenced)
<1>1. p \in Objects /\ c \in Objects /\ <<p, c>> \in Seq(Objects) /\ referenced \in SUBSET Objects
  BY DEF Known
<1>2. object.type = type /\ object.parents = <<p, c>>
  BY DEF NewObject
<1> HIDE DEF object
<1>3. ParentKinds(object)
  BY <1>2 DEF ParentKinds, Kinds
<1>4. NamedOnce(object)
  BY <1>2 DEF NamedOnce
<1>5. ToSet(<<p, c>>) = {p, c}
  BY PairSet
<1>6. QED
  BY <1>1, <1>3, <1>4, <1>5, NewOutcome DEF object

\* The context of a memory object is one.
LEMMA ContextOfMem ==
  ASSUME IcdInv, NEW m \in Known, obj[m].type \in Kinds("MEM")
  PROVE  ContextOf(m) \in Known /\ obj[ContextOf(m)].type = "CONTEXT" /\ ContextOf(m) # m
<1> DEFINE ps == obj[m].parents
<1>1. ps \in Seq(Objects) /\ ToSet(ps) \subseteq Known /\ ParentKinds(obj[m])
  BY DEF IcdInv, ObjectOK, Object
<1>2. ps # <<>> /\ obj[ps[Len(ps)]].type = "CONTEXT"
  BY <1>1 DEF ParentKinds
<1>3. ContextOf(m) = ps[Len(ps)]
  BY DEF ContextOf, Kinds, Last
<1>4. Len(ps) \in DOMAIN ps
  BY <1>1, <1>2
<1>5. ps[Len(ps)] \in Known
  BY <1>1, <1>4 DEF ToSet
<1>6. QED
  BY <1>2, <1>3, <1>5 DEF Kinds

LEMMA ContextOfQueue ==
  ASSUME IcdInv, NEW q \in Known, obj[q].type = "COMMAND_QUEUE"
  PROVE  ContextOf(q) \in Known /\ obj[ContextOf(q)].type = "CONTEXT"
<1> DEFINE ps == obj[q].parents
<1>1. ps \in Seq(Objects) /\ ToSet(ps) \subseteq Known /\ ParentKinds(obj[q])
  BY DEF IcdInv, ObjectOK, Object
<1>2. Len(ps) = 2 /\ obj[ps[2]].type = "CONTEXT"
  BY <1>1 DEF ParentKinds
<1>3. ContextOf(q) = ps[2]
  BY DEF ContextOf, Kinds
<1>4. 2 \in DOMAIN ps
  BY <1>1, <1>2
<1>5. ps[2] \in Known
  BY <1>1, <1>4 DEF ToSet
<1>6. QED
  BY <1>2, <1>3, <1>5

LEMMA ImageOutcome ==
  ASSUME IcdInv, NEW c, Exists("CONTEXT", c), NEW h \in Fresh, NEW from_buffer \in BOOLEAN,
         NEW r \in context_clCreateImageWithProperties(c, h, from_buffer)
  PROVE  Outcome(r)
<1> DEFINE mems == {m \in Objects : Exists("MEM", m) /\ ContextOf(m) = c}
<1>1. CASE from_buffer /\ mems # {}
  <2>1. PICK m \in mems : r = Create(h, NewObject("IMAGE", <<m, c>>, {m, c}))
    BY <1>1 DEF context_clCreateImageWithProperties
  <2>2. m \in Known /\ obj[m].type \in Kinds("MEM") /\ c \in Known /\ obj[c].type = "CONTEXT"
    BY ExistsKnown DEF Kinds
  <2>3. m # c
    BY <2>2 DEF Kinds
  <2>4. "IMAGE" \in Types /\ "IMAGE" \notin Kinds("DEVICE") \cup {"CONTEXT", "COMMAND_QUEUE"}
    BY DEF Types, Kinds
  <2>5. QED
    BY <2>1, <2>2, <2>3, <2>4, NewGrandchildOutcome
<1>2. CASE ~(from_buffer /\ mems # {})
  <2>1. r = InContext(c, h, "IMAGE")
    BY <1>2 DEF context_clCreateImageWithProperties
  <2>2. QED
    BY <2>1, InContextOutcome
<1>3. QED
  BY <1>1, <1>2

LEMMA ProgramOutcome ==
  ASSUME IcdInv, NEW c, Exists("CONTEXT", c), NEW h \in Fresh
  PROVE  Outcome(context_clCreateProgramWithSource(c, h))
<1> DEFINE devices == obj[c].parents
           parents == <<c>> \o devices
           object == NewObject("PROGRAM", parents, {c})
<1>1. c \in Known /\ c \in Objects /\ obj[c].type = "CONTEXT"
  BY ExistsKnown DEF Kinds, Known
<1>2. devices \in Seq(Objects) /\ ToSet(devices) \subseteq Known /\ ParentKinds(obj[c])
  BY <1>1 DEF IcdInv, ObjectOK, Object
<1>3. \A i \in DOMAIN devices : devices[i] \in Known /\ IsDevice(obj[devices[i]])
  BY <1>1, <1>2 DEF ParentKinds, IsDevice, ToSet
<1>4. parents \in Seq(Objects) /\ parents[1] = c
  BY <1>1, <1>2
<1>5. \A i \in DOMAIN parents : i = 1 \/ (i - 1 \in DOMAIN devices /\ parents[i] = devices[i - 1])
  BY <1>1, <1>2
<1>6. ToSet(parents) \subseteq Known
  BY <1>1, <1>3, <1>4, <1>5 DEF ToSet
<1>7. {c} \subseteq ToSet(parents)
  <2>1. 1 \in DOMAIN parents
    BY <1>1, <1>2
  <2>2. QED
    BY <2>1, <1>4 DEF ToSet
<1>8. object.type = "PROGRAM" /\ object.parents = parents
  BY DEF NewObject
<1> HIDE DEF parents, object
<1>9. ParentKinds(object)
  BY <1>8 DEF ParentKinds, Kinds
<1>10. NamedOnce(object)
  <2>1. SUFFICES ASSUME NEW i \in DOMAIN parents, NEW j \in DOMAIN parents,
                        parents[i] = parents[j], ~IsDevice(obj[parents[i]])
                 PROVE  i = j
    BY <1>8 DEF NamedOnce
  <2>2. i = 1 /\ j = 1
    BY <2>1, <1>3, <1>5
  <2>3. QED
    BY <2>2
<1>11. "PROGRAM" \in Types
  BY DEF Types
<1>12. Outcome(Create(h, NewObject("PROGRAM", parents, {c})))
  BY <1>4, <1>6, <1>7, <1>9, <1>10, <1>11, NewOutcome DEF object
<1>13. QED
  BY <1>12 DEF parents, context_clCreateProgramWithSource

LEMMA NewQueueOutcome ==
  ASSUME IcdInv, NEW c \in Known, obj[c].type = "CONTEXT", NEW d \in ToSet(obj[c].parents),
         NEW h \in Fresh, NEW default \in BOOLEAN,
         default => \A q \in Of("COMMAND_QUEUE") : obj[q].default => obj[q].parents # <<d, c>>
  PROVE  Outcome(Create(h, NewQueue(c, d, default)))
<1> DEFINE plain == NewObject("COMMAND_QUEUE", <<d, c>>, {c})
           object == NewQueue(c, d, default)
<1>1. ToSet(obj[c].parents) \subseteq Known /\ ParentKinds(obj[c])
  BY DEF IcdInv, ObjectOK
<1>2. d \in Known /\ IsDevice(obj[d])
  BY <1>1 DEF ParentKinds, IsDevice
<1>3. "COMMAND_QUEUE" \in Types /\ <<d, c>> \in Seq(Objects) /\ {c} \in SUBSET Objects
  BY <1>2 DEF Types, Known
<1>4. plain \in Object
  BY <1>3, NewObjectType
<1>5. object = [plain EXCEPT !.default = default]
  BY DEF NewQueue
<1>6. plain.type = "COMMAND_QUEUE" /\ plain.parents = <<d, c>> /\ plain.referenced = {c}
      /\ plain.ref_count = 1 /\ plain.implicit_ref_count = 0
  BY DEF NewObject
<1> HIDE DEF plain, object
<1>7. object \in Object
  BY <1>4, <1>5 DEF Object
<1>8. /\ object.type = "COMMAND_QUEUE" /\ object.parents = <<d, c>> /\ object.referenced = {c}
      /\ object.ref_count = 1 /\ object.implicit_ref_count = 0 /\ object.default = default
  BY <1>4, <1>5, <1>6 DEF Object
<1>9. ToSet(<<d, c>>) = {d, c}
  BY PairSet
<1>10. ParentKinds(object)
  BY <1>2, <1>8 DEF ParentKinds, Kinds, IsDevice
<1>11. NamedOnce(object)
  BY <1>2, <1>8 DEF NamedOnce, IsDevice, Kinds
<1>12. ObjectOK(object)
  BY <1>2, <1>7, <1>8, <1>9, <1>10, <1>11 DEF ObjectOK
<1>13. Outcome(Create(h, object))
  BY <1>7, <1>8, <1>12, CreateOutcome
<1>14. QED
  BY <1>13 DEF object

LEMMA QueueOutcome ==
  ASSUME IcdInv, NEW c, Exists("CONTEXT", c), NEW h \in Fresh, NEW d
  PROVE  Outcome(context_clCreateCommandQueue(c, h, d))
<1>1. c \in Known /\ obj[c].type = "CONTEXT"
  BY ExistsKnown DEF Kinds
<1>2. QED
  BY <1>1, FailureOutcome, NewQueueOutcome DEF context_clCreateCommandQueue

LEMMA QueueWithPropertiesOutcome ==
  ASSUME IcdInv, NEW c, Exists("CONTEXT", c), NEW h \in Fresh, NEW d, NEW default \in BOOLEAN,
         \A q \in Of("COMMAND_QUEUE") : MayRetain(q),
         NEW r \in context_clCreateCommandQueueWithProperties(c, h, d, default)
  PROVE  Outcome(r)
<1> DEFINE existing == {q \in Objects : Exists("COMMAND_QUEUE", q)
                           /\ obj[q].parents = <<d, c>> /\ obj[q].default}
<1>1. c \in Known /\ obj[c].type = "CONTEXT"
  BY ExistsKnown DEF Kinds
<1>2. CASE d \notin ToSet(obj[c].parents)
  BY <1>2, FailureOutcome DEF context_clCreateCommandQueueWithProperties
<1>3. CASE d \in ToSet(obj[c].parents) /\ default /\ existing # {}
  <2>1. PICK q \in existing : r = Success(retain("COMMAND_QUEUE", q).obj, <<q>>)
    BY <1>3 DEF context_clCreateCommandQueueWithProperties
  <2>2. q \in Known /\ obj[q].type = "COMMAND_QUEUE" /\ q \in Of("COMMAND_QUEUE")
    BY ExistsKnown DEF Kinds, Of
  <2>3. obj[q].ref_count < MaxCount
    BY <2>2, IcdConstants DEF MayRetain, Of, Objects
  <2>4. Outcome(retain("COMMAND_QUEUE", q))
    BY <2>2, <2>3, RetainOutcome
  <2>5. QED
    BY <2>1, <2>4 DEF Outcome, Success
<1>4. CASE d \in ToSet(obj[c].parents) /\ ~(default /\ existing # {})
  <2>1. r = Create(h, NewQueue(c, d, default))
    BY <1>4 DEF context_clCreateCommandQueueWithProperties
  <2>2. default => \A q \in Of("COMMAND_QUEUE") : obj[q].default => obj[q].parents # <<d, c>>
    BY <1>4 DEF Of
  <2>3. QED
    BY <1>1, <1>4, <2>1, <2>2, NewQueueOutcome
<1>5. QED
  BY <1>2, <1>3, <1>4

LEMMA SubBufferOutcome ==
  ASSUME IcdInv, NEW m, Exists("MEM", m), NEW h \in Fresh, NEW region
  PROVE  Outcome(mem_clCreateSubBuffer(m, h, region))
<1>1. m \in Known /\ obj[m].type \in Kinds("MEM")
  BY ExistsKnown
<1>2. ContextOf(m) \in Known /\ obj[ContextOf(m)].type = "CONTEXT" /\ m # ContextOf(m)
  BY <1>1, ContextOfMem
<1>3. "BUFFER" \in Types /\ "BUFFER" \notin Kinds("DEVICE") \cup {"CONTEXT", "COMMAND_QUEUE"}
  BY DEF Types, Kinds
<1>4. Outcome(Create(h, NewObject("BUFFER", <<m, ContextOf(m)>>, {m})))
  BY <1>1, <1>2, <1>3, NewGrandchildOutcome
<1>5. QED
  BY <1>4, FailureOutcome DEF mem_clCreateSubBuffer

LEMMA KernelOutcome ==
  ASSUME IcdInv, NEW p, Exists("PROGRAM", p), NEW h \in Fresh
  PROVE  Outcome(program_clCreateKernel(p, h))
<1>1. p \in Known
  BY ExistsKnown
<1>2. /\ "KERNEL" \in Types /\ "KERNEL" \notin Kinds("MEM")
      /\ "KERNEL" \notin Kinds("DEVICE") \cup {"CONTEXT", "COMMAND_QUEUE"}
  BY DEF Types, Kinds
<1>3. QED
  BY <1>1, <1>2, NewChildOutcome DEF program_clCreateKernel

LEMMA KernelsOutcome ==
  ASSUME IcdInv, NEW p, Exists("PROGRAM", p), Room(KERNEL_COUNT),
         NEW num_kernels, NEW kernels \in BOOLEAN
  PROVE  Outcome(program_clCreateKernelsInProgram(p, New(KERNEL_COUNT), num_kernels, kernels))
<1> DEFINE object == NewObject("KERNEL", <<p>>, {p})
<1>1. p \in Known /\ p \in Objects
  BY ExistsKnown DEF Known
<1>2. "KERNEL" \in Types /\ <<p>> \in Seq(Objects) /\ {p} \in SUBSET Objects
  BY <1>1 DEF Types
<1>3. object \in Object
  BY <1>2, NewObjectType
<1>4. /\ object.type = "KERNEL" /\ object.parents = <<p>> /\ object.referenced = {p}
      /\ object.ref_count = 1 /\ object.implicit_ref_count = 0 /\ object.default = FALSE
  BY DEF NewObject
<1> HIDE DEF object
<1>5. ToSet(<<p>>) = {p}
  BY SingleSet
<1>6. ParentKinds(object) /\ NamedOnce(object)
  BY <1>4 DEF ParentKinds, NamedOnce, Kinds
<1>7. ObjectOK(object)
  BY <1>1, <1>3, <1>4, <1>5, <1>6 DEF ObjectOK
<1>8. KERNEL_COUNT \in Nat
  BY IcdConstants
<1>9. NewOK(KERNEL_COUNT, object, [x \in Objects |-> KERNEL_COUNT])
  BY <1>1, <1>4, <1>7 DEF NewOK
<1>10. Outcome(Success(CreateAll(New(KERNEL_COUNT), object, KERNEL_COUNT), New(KERNEL_COUNT)))
  BY <1>3, <1>8, <1>9, CreateAllOutcome
<1>11. QED
  BY <1>10, SuccessOutcome, FailureOutcome DEF program_clCreateKernelsInProgram, object

LEMMA CloneOutcome ==
  ASSUME IcdInv, NEW k, Exists("KERNEL", k), NEW h \in Fresh
  PROVE  Outcome(kernel_clCloneKernel(k, h))
<1> DEFINE parents == obj[k].parents
           object == NewObject("KERNEL", parents, {})
<1>1. k \in Known
  BY ExistsKnown
<1>2. parents \in Seq(Objects) /\ ToSet(parents) \subseteq Known /\ NamedOnce(obj[k])
  BY <1>1 DEF IcdInv, ObjectOK, Object
<1>3. object.type = "KERNEL" /\ object.parents = parents
  BY DEF NewObject
<1> HIDE DEF object
<1>4. ParentKinds(object)
  BY <1>3 DEF ParentKinds, Kinds
<1>5. NamedOnce(object)
  BY <1>2, <1>3 DEF NamedOnce
<1>6. "KERNEL" \in Types /\ {} \subseteq ToSet(parents)
  BY DEF Types
<1> HIDE DEF parents
<1>7. Outcome(Create(h, NewObject("KERNEL", parents, {})))
  BY <1>2, <1>4, <1>5, <1>6, NewOutcome DEF object
<1>8. QED
  BY <1>7 DEF kernel_clCloneKernel, parents

LEMMA EnqueueOutcome ==
  ASSUME IcdInv, NEW q, Exists("COMMAND_QUEUE", q), NEW h \in Fresh,
         NEW k, NEW events, NEW event \in BOOLEAN
  PROVE  Outcome(command_queue_clEnqueueNDRangeKernel(q, h, k, events, event))
<1>1. q \in Known /\ obj[q].type = "COMMAND_QUEUE"
  BY ExistsKnown DEF Kinds
<1>2. ContextOf(q) \in Known /\ obj[ContextOf(q)].type = "CONTEXT"
  BY <1>1, ContextOfQueue
<1>3. ContextOf(q) # q
  BY <1>1, <1>2
<1>4. /\ "EVENT" \in Types /\ "EVENT" \notin Kinds("MEM")
      /\ "EVENT" \notin Kinds("DEVICE") \cup {"CONTEXT", "COMMAND_QUEUE"}
  BY DEF Types, Kinds
<1>5. Outcome(Create(h, NewObject("EVENT", <<ContextOf(q), q>>, {q})))
  BY <1>1, <1>2, <1>3, <1>4, NewGrandchildOutcome
<1>6. QED
  BY <1>5, SuccessOutcome, FailureOutcome DEF command_queue_clEnqueueNDRangeKernel

LEMMA OccurrencesType ==
  ASSUME NEW h, NEW hs \in Seq(Objects)
  PROVE  Occurrences(h, hs) \in Nat
<1>1. DOMAIN hs = 1 .. Len(hs) /\ 1 \in Int /\ Len(hs) \in Int
  OBVIOUS
<1>2. IsFiniteSet(1 .. Len(hs))
  BY <1>1, FS_Interval
<1>3. {i \in DOMAIN hs : hs[i] = h} \in SUBSET (1 .. Len(hs))
  BY <1>1
<1>4. IsFiniteSet({i \in DOMAIN hs : hs[i] = h})
  BY <1>2, <1>3, FS_Subset
<1>5. QED
  BY <1>4, FS_CardinalityType DEF Occurrences

LEMMA ContextOutcome ==
  ASSUME IcdInv, NEW devices \in ListsOf(Of("DEVICE")), NEW h \in Fresh
  PROVE  Outcome(device_clCreateContext(devices, h))
<1> DEFINE object == NewObject("CONTEXT", devices, ToSet(devices))
           counts == [p \in Objects |-> Occurrences(p, devices)]
           counted == [p \in Objects |->
                         IF p \in ToSet(devices)
                         THEN reference(obj, p, Occurrences(p, devices))[p] ELSE obj[p]]
<1>1. devices \in Seq(Of("DEVICE"))
  BY BoundsAssumption DEF ListsOf
<1>2. \A p \in Of("DEVICE") : p \in Known /\ p \in Objects /\ IsDevice(obj[p])
  BY ExistsKnown DEF Of, IsDevice
<1>3. ToSet(devices) \subseteq Of("DEVICE")
  BY <1>1 DEF ToSet
<1>4. devices \in Seq(Objects)
  BY <1>1, <1>2
<1>5. counts \in [Objects -> Nat]
  BY <1>4, OccurrencesType
<1>6. "CONTEXT" \in Types /\ ToSet(devices) \in SUBSET Objects
  BY <1>2, <1>3 DEF Types
<1>7. object \in Object
  BY <1>4, <1>6, NewObjectType
<1>8. /\ object.type = "CONTEXT" /\ object.parents = devices /\ object.referenced = ToSet(devices)
      /\ object.ref_count = 1 /\ object.implicit_ref_count = 0 /\ object.default = FALSE
  BY DEF NewObject
<1>9. [counted EXCEPT ![h] = object] = With(1, object, counts)
  <2>1. ToSet(New(1)) = {h} /\ h \in Objects
    BY FreshAddress
  <2>2. QED
    BY <2>1, <1>8 DEF With
<1>10. object = NewObject("CONTEXT", devices, ToSet(devices))
  OBVIOUS
<1> HIDE DEF object, counts
<1>11. ParentKinds(object) /\ NamedOnce(object)
  <2>1. ParentKinds(object)
    BY <1>2, <1>3, <1>8 DEF ParentKinds, Kinds, IsDevice
  <2>2. \A i \in DOMAIN devices : IsDevice(obj[devices[i]])
    BY <1>2, <1>3 DEF ToSet
  <2>3. QED
    BY <2>1, <2>2, <1>8 DEF NamedOnce
<1>12. ObjectOK(object)
  BY <1>2, <1>3, <1>7, <1>8, <1>11 DEF ObjectOK
<1>13. NewOK(1, object, counts)
  BY <1>2, <1>3, <1>8, <1>12, FreshAddress DEF NewOK
<1>14. CreatedTo(With(1, object, counts))
  BY <1>5, <1>7, <1>13 DEF CreatedTo
<1>15. CASE ~AllOurs(devices)
  BY <1>15, FailureOutcome DEF device_clCreateContext
<1>16. CASE AllOurs(devices)
  <2>1. device_clCreateContext(devices, h) = Success([counted EXCEPT ![h] = object], <<h>>)
    BY <1>10, <1>16 DEF device_clCreateContext
  <2>2. device_clCreateContext(devices, h) = Success(With(1, object, counts), <<h>>)
    BY <2>1, <1>9
  <2>3. Outcome(Success(With(1, object, counts), <<h>>))
    BY <1>14 DEF Outcome, Success
  <2>4. QED
    BY <2>2, <2>3
<1>17. QED
  BY <1>15, <1>16

LEMMA SubDevicesOutcome ==
  ASSUME IcdInv, NEW d, Exists("DEVICE", d), NEW n \in 1 .. ComputeUnits,
         NEW num_devices \in 0 .. ComputeUnits, Room(num_devices), NEW out_devices \in BOOLEAN
  PROVE  Outcome(device_clCreateSubDevices(d, New(num_devices), n, num_devices, out_devices))
<1> DEFINE plain == NewObject("SUB_DEVICE", <<d>>, {d})
           object == [plain EXCEPT !.cu_count = n]
           count == obj[d].cu_count \div n
<1>1. d \in Known /\ d \in Objects /\ IsDevice(obj[d])
  BY ExistsKnown DEF Known, IsDevice
<1>2. "SUB_DEVICE" \in Types /\ <<d>> \in Seq(Objects) /\ {d} \in SUBSET Objects
  BY <1>1 DEF Types
<1>3. plain \in Object
  BY <1>2, NewObjectType
<1>4. /\ plain.type = "SUB_DEVICE" /\ plain.parents = <<d>> /\ plain.referenced = {d}
      /\ plain.ref_count = 1 /\ plain.implicit_ref_count = 0 /\ plain.default = FALSE
  BY DEF NewObject
<1>5. n \in Nat /\ n > 0 /\ num_devices \in Nat
  BY IcdConstants
<1>6. count \in Nat
  <2>1. obj[d].cu_count \in Nat
    BY <1>1 DEF IcdInv, ObjectOK, Object
  <2>2. QED
    BY <2>1, <1>5
<1> HIDE DEF plain, count
<1>7. object \in Object
  BY <1>3, <1>5 DEF Object
<1>8. /\ object.type = "SUB_DEVICE" /\ object.parents = <<d>> /\ object.referenced = {d}
      /\ object.ref_count = 1 /\ object.implicit_ref_count = 0 /\ object.default = FALSE
  BY <1>3, <1>4 DEF Object
<1> HIDE DEF object
<1>9. ToSet(<<d>>) = {d}
  BY SingleSet
<1>10. ParentKinds(object) /\ NamedOnce(object)
  BY <1>1, <1>8, <1>9 DEF ParentKinds, NamedOnce, Kinds, IsDevice
<1>11. ObjectOK(object)
  BY <1>1, <1>7, <1>8, <1>9, <1>10 DEF ObjectOK
<1>12. NewOK(num_devices, object, [x \in Objects |-> count])
  BY <1>1, <1>8, <1>11 DEF NewOK
<1>13. Outcome(Success(CreateAll(New(num_devices), object, count), New(num_devices)))
  BY <1>5, <1>6, <1>7, <1>12, CreateAllOutcome
<1>14. QED
  BY <1>13, SuccessOutcome, FailureOutcome DEF device_clCreateSubDevices, object, plain, count

-----------------------------------------------------------------------------
(***************************************************************************)
(* Every entry point comes to one of the outcomes.                         *)
(***************************************************************************)

\* MayRetain, of a handle that is an object's.
LEMMA RetainOne ==
  ASSUME NEW T, NEW h, MayRetain(h), Exists(T, h), obj[h].type # "DEVICE"
  PROVE  Outcome(retain(T, h))
<1>1. h \in Known /\ h # None
  BY ExistsKnown, IcdConstants DEF Known, Objects
<1>2. obj[h].ref_count < MaxCount
  BY <1>1 DEF MayRetain
<1>3. QED
  BY <1>1, <1>2, RetainOutcome

LEMMA ReleaseOne ==
  ASSUME NEW T, NEW h, Exists(T, h), obj[h].type # "DEVICE"
  PROVE  Outcome(release(T, h))
  BY ExistsKnown, ReleaseOutcome

\* The methods that retain and release are called through invoke_if_valid.
LEMMA RetainEffect ==
  ASSUME NEW T \in {"CONTEXT", "MEM", "COMMAND_QUEUE", "PROGRAM", "KERNEL", "EVENT", "SAMPLER"},
         NEW h, MayRetain(h), invoke_if_valid(T, h, TRUE, {retain(T, h)})
  PROVE  Effect
<1>1. Exists(T, h) => obj[h].type # "DEVICE"
  BY ExistsKnown DEF Kinds
<1>2. Exists(T, h) => \A r \in {retain(T, h)} : Outcome(r)
  BY <1>1, RetainOne
<1>3. QED
  BY <1>2, InvokeEffect

LEMMA ReleaseEffect ==
  ASSUME NEW T \in {"CONTEXT", "MEM", "COMMAND_QUEUE", "PROGRAM", "KERNEL", "EVENT", "SAMPLER"},
         NEW h, invoke_if_valid(T, h, FALSE, {release(T, h)})
  PROVE  Effect
<1>1. Exists(T, h) => obj[h].type # "DEVICE"
  BY ExistsKnown DEF Kinds
<1>2. Exists(T, h) => \A r \in {release(T, h)} : Outcome(r)
  BY <1>1, ReleaseOne
<1>3. QED
  BY <1>2, InvokeEffect

\* A method that changes nothing.
LEMMA NothingEffect ==
  ASSUME NEW T, NEW h, NEW retaining, invoke_if_valid(T, h, retaining, {Success(obj, None)})
  PROVE  Effect
<1>1. \A r \in {Success(obj, None)} : Outcome(r)
  BY SuccessOutcome
<1>2. QED
  BY <1>1, InvokeEffect

LEMMA DeviceEffect == ASSUME IcdInv, DeviceCalls PROVE Effect
<1>1. CASE clCreateContext_wrap
  <2>1. PICK devices \in ListsOf(Of("DEVICE")) \ {<<>>}, h \in Fresh :
            create_if_valid("DEVICE", devices[1], {device_clCreateContext(devices, h)})
    BY <1>1 DEF clCreateContext_wrap
  <2>2. \A r \in {device_clCreateContext(devices, h)} : Outcome(r)
    BY ContextOutcome
  <2>3. QED
    BY <2>1, <2>2, CreateEffect
<1>2. ASSUME NEW d \in Of("DEVICE"), clGetDeviceInfo_wrap(d) PROVE Effect
  BY <1>2, GetInfoEffect DEF clGetDeviceInfo_wrap
<1>3. ASSUME NEW d \in Of("DEVICE"), clCreateSubDevices_wrap(d) PROVE Effect
  <2>1. PICK n \in 1 .. ComputeUnits, num_devices \in 0 .. ComputeUnits, out_devices \in BOOLEAN :
            /\ Room(num_devices)
            /\ invoke_if_valid("DEVICE", d, FALSE,
                  {device_clCreateSubDevices(d, New(num_devices), n, num_devices, out_devices)})
    BY <1>3 DEF clCreateSubDevices_wrap
  <2>2. Exists("DEVICE", d)
    BY DEF Of
  <2>3. Outcome(device_clCreateSubDevices(d, New(num_devices), n, num_devices, out_devices))
    BY <2>1, <2>2, SubDevicesOutcome
  <2>4. \A r \in {device_clCreateSubDevices(d, New(num_devices), n, num_devices, out_devices)} :
            Outcome(r)
    BY <2>3
  <2>5. QED
    BY <2>1, <2>4, InvokeEffect
<1>4. ASSUME NEW d \in Handles("DEVICE"), MayRetain(d), clRetainDevice_wrap(d) PROVE Effect
  <2>1. Exists("DEVICE", d) => Outcome(device_clRetainDevice(d))
    BY <1>4, RetainOne, SuccessOutcome DEF device_clRetainDevice
  <2>2. Exists("DEVICE", d) => \A r \in {device_clRetainDevice(d)} : Outcome(r)
    BY <2>1
  <2>3. QED
    BY <1>4, <2>2, InvokeEffect DEF clRetainDevice_wrap
<1>5. ASSUME NEW d \in Handles("DEVICE"), clReleaseDevice_wrap(d) PROVE Effect
  <2>1. Exists("DEVICE", d) => Outcome(device_clReleaseDevice(d))
    BY ReleaseOne, SuccessOutcome DEF device_clReleaseDevice
  <2>2. Exists("DEVICE", d) => \A r \in {device_clReleaseDevice(d)} : Outcome(r)
    BY <2>1
  <2>3. QED
    BY <1>5, <2>2, InvokeEffect DEF clReleaseDevice_wrap
<1>6. QED
  BY <1>1, <1>2, <1>3, <1>4, <1>5 DEF DeviceCalls

\* A creation in a context is checked by create_if_valid.
LEMMA InContextEffect ==
  ASSUME IcdInv, NEW c, NEW h \in Fresh,
         NEW type \in {"BUFFER", "IMAGE", "PIPE", "EVENT", "SAMPLER"},
         create_if_valid("CONTEXT", c, {InContext(c, h, type)})
  PROVE  Effect
<1>1. Exists("CONTEXT", c) => \A r \in {InContext(c, h, type)} : Outcome(r)
  BY InContextOutcome
<1>2. QED
  BY <1>1, CreateEffect

LEMMA ContextEffect == ASSUME IcdInv, ContextCalls PROVE Effect
<1>1. ASSUME NEW c, MayRetain(c), clRetainContext_wrap(c) PROVE Effect
  BY <1>1, RetainEffect DEF clRetainContext_wrap
<1>2. ASSUME NEW c, clReleaseContext_wrap(c) PROVE Effect
  BY <1>2, ReleaseEffect DEF clReleaseContext_wrap
<1>3. ASSUME NEW c, clGetContextInfo_wrap(c) PROVE Effect
  BY <1>3, GetInfoEffect DEF clGetContextInfo_wrap
<1>4. ASSUME NEW c, clGetSupportedImageFormats_wrap(c) PROVE Effect
  <2>1. PICK num_entries \in {0, FormatCount}, image_formats \in BOOLEAN :
            invoke_if_valid("CONTEXT", c, FALSE,
                {context_clGetSupportedImageFormats(num_entries, image_formats)})
    BY <1>4 DEF clGetSupportedImageFormats_wrap
  <2>2. \A r \in {context_clGetSupportedImageFormats(num_entries, image_formats)} : Outcome(r)
    BY SuccessOutcome, FailureOutcome DEF context_clGetSupportedImageFormats
  <2>3. QED
    BY <2>1, <2>2, InvokeEffect
<1>5. ASSUME NEW c, NEW h \in Fresh,
             \/ clCreateBuffer_wrap(c, h) \/ clCreateBufferWithProperties_wrap(c, h)
             \/ clCreateImage_wrap(c, h) \/ clCreateImage2D_wrap(c, h)
             \/ clCreateImage3D_wrap(c, h) \/ clCreatePipe_wrap(c, h)
             \/ clCreateUserEvent_wrap(c, h) \/ clCreateSampler_wrap(c, h)
             \/ clCreateSamplerWithProperties_wrap(c, h)
      PROVE  Effect
  <2>1. \E type \in {"BUFFER", "IMAGE", "PIPE", "EVENT", "SAMPLER"} :
            create_if_valid("CONTEXT", c, {InContext(c, h, type)})
    BY <1>5 DEF clCreateBuffer_wrap, clCreateBufferWithProperties_wrap, clCreateImage_wrap,
       clCreateImage2D_wrap, clCreateImage3D_wrap, clCreatePipe_wrap, clCreateUserEvent_wrap,
       clCreateSampler_wrap, clCreateSamplerWithProperties_wrap, context_clCreateBuffer,
       context_clCreateBufferWithProperties, context_clCreateImage, context_clCreateImage2D,
       context_clCreateImage3D, context_clCreatePipe, context_clCreateUserEvent,
       context_clCreateSampler, context_clCreateSamplerWithProperties
  <2>2. QED
    BY <2>1, InContextEffect
<1>6. ASSUME NEW c, NEW h \in Fresh, clCreateImageWithProperties_wrap(c, h) PROVE Effect
  <2>1. PICK from_buffer \in BOOLEAN :
            create_if_valid("CONTEXT", c, context_clCreateImageWithProperties(c, h, from_buffer))
    BY <1>6 DEF clCreateImageWithProperties_wrap
  <2>2. Exists("CONTEXT", c) =>
            \A r \in context_clCreateImageWithProperties(c, h, from_buffer) : Outcome(r)
    BY ImageOutcome
  <2>3. QED
    BY <2>1, <2>2, CreateEffect
<1>7. ASSUME NEW c, NEW h \in Fresh, clCreateCommandQueue_wrap(c, h) PROVE Effect
  <2> DEFINE results == {context_clCreateCommandQueue(c, h, d) : d \in Handles("DEVICE")}
  <2>1. create_if_valid("CONTEXT", c, results)
    BY <1>7 DEF clCreateCommandQueue_wrap
  <2>2. Exists("CONTEXT", c) => \A r \in results : Outcome(r)
    BY QueueOutcome
  <2> HIDE DEF results
  <2>3. QED
    BY <2>1, <2>2, CreateEffect
<1>8. ASSUME NEW c, NEW h \in Fresh, \A q \in Of("COMMAND_QUEUE") : MayRetain(q),
             clCreateCommandQueueWithProperties_wrap(c, h)
      PROVE  Effect
  <2>1. PICK d \in Handles("DEVICE"), default \in BOOLEAN :
            create_if_valid("CONTEXT", c,
                context_clCreateCommandQueueWithProperties(c, h, d, default))
    BY <1>8 DEF clCreateCommandQueueWithProperties_wrap
  <2>2. Exists("CONTEXT", c) =>
            \A r \in context_clCreateCommandQueueWithProperties(c, h, d, default) : Outcome(r)
    BY <1>8, QueueWithPropertiesOutcome
  <2>3. QED
    BY <2>1, <2>2, CreateEffect
<1>9. ASSUME NEW c, NEW h \in Fresh, clCreateProgramWithSource_wrap(c, h) PROVE Effect
  <2>1. Exists("CONTEXT", c) => \A r \in {context_clCreateProgramWithSource(c, h)} : Outcome(r)
    BY ProgramOutcome
  <2>2. QED
    BY <1>9, <2>1, CreateEffect DEF clCreateProgramWithSource_wrap
<1>10. QED
  BY <1>1, <1>2, <1>3, <1>4, <1>5, <1>6, <1>7, <1>8, <1>9 DEF ContextCalls

LEMMA MemEffect == ASSUME IcdInv, MemCalls PROVE Effect
<1>1. ASSUME NEW m, MayRetain(m), clRetainMemObject_wrap(m) PROVE Effect
  BY <1>1, RetainEffect DEF clRetainMemObject_wrap
<1>2. ASSUME NEW m, clReleaseMemObject_wrap(m) PROVE Effect
  BY <1>2, ReleaseEffect DEF clReleaseMemObject_wrap
<1>3. ASSUME NEW m, clGetMemObjectInfo_wrap(m) \/ clGetImageInfo_wrap(m) PROVE Effect
  BY <1>3, GetInfoEffect DEF clGetMemObjectInfo_wrap, clGetImageInfo_wrap
<1>4. ASSUME NEW m, NEW h \in Fresh, clCreateSubBuffer_wrap(m, h) PROVE Effect
  <2> DEFINE results ==
        {mem_clCreateSubBuffer(m, h, region) : region \in {"fits", "too_large", "null"}}
  <2>1. create_if_valid("MEM", m, results)
    BY <1>4 DEF clCreateSubBuffer_wrap
  <2>2. Exists("MEM", m) => \A r \in results : Outcome(r)
    BY SubBufferOutcome
  <2> HIDE DEF results
  <2>3. QED
    BY <2>1, <2>2, CreateEffect
<1>5. QED
  BY <1>1, <1>2, <1>3, <1>4 DEF MemCalls

LEMMA QueueEffect == ASSUME IcdInv, QueueCalls PROVE Effect
<1>1. ASSUME NEW q, MayRetain(q), clRetainCommandQueue_wrap(q) PROVE Effect
  BY <1>1, RetainEffect DEF clRetainCommandQueue_wrap
<1>2. ASSUME NEW q, clReleaseCommandQueue_wrap(q) PROVE Effect
  BY <1>2, ReleaseEffect DEF clReleaseCommandQueue_wrap
<1>3. ASSUME NEW q, clGetCommandQueueInfo_wrap(q) PROVE Effect
  BY <1>3, GetInfoEffect DEF clGetCommandQueueInfo_wrap
<1>4. ASSUME NEW q, \/ clEnqueueFillBuffer_wrap(q) \/ clEnqueueCopyImageToBuffer_wrap(q)
                   \/ clEnqueueCopyImage_wrap(q)
      PROVE  Effect
  BY <1>4, NothingEffect
     DEF clEnqueueFillBuffer_wrap, clEnqueueCopyImageToBuffer_wrap, clEnqueueCopyImage_wrap
<1>5. ASSUME NEW q, NEW h \in Fresh, clEnqueueNDRangeKernel_wrap(q, h) PROVE Effect
  <2>1. PICK events \in ListsOf(Of("EVENT")) \cup {None}, event \in BOOLEAN :
            invoke_if_valid("COMMAND_QUEUE", q, FALSE,
                {command_queue_clEnqueueNDRangeKernel(q, h, k, events, event) :
                    k \in Of("KERNEL")})
    BY <1>5 DEF clEnqueueNDRangeKernel_wrap
  <2> DEFINE results ==
        {command_queue_clEnqueueNDRangeKernel(q, h, k, events, event) : k \in Of("KERNEL")}
  <2>2. Exists("COMMAND_QUEUE", q) => \A r \in results : Outcome(r)
    BY EnqueueOutcome
  <2>3. invoke_if_valid("COMMAND_QUEUE", q, FALSE, results)
    BY <2>1
  <2> HIDE DEF results
  <2>4. QED
    BY <2>2, <2>3, InvokeEffect
<1>6. QED
  BY <1>1, <1>2, <1>3, <1>4, <1>5 DEF QueueCalls

LEMMA ProgramEffect == ASSUME IcdInv, ProgramCalls PROVE Effect
<1>1. ASSUME NEW p, MayRetain(p), clRetainProgram_wrap(p) PROVE Effect
  BY <1>1, RetainEffect DEF clRetainProgram_wrap
<1>2. ASSUME NEW p, clReleaseProgram_wrap(p) PROVE Effect
  BY <1>2, ReleaseEffect DEF clReleaseProgram_wrap
<1>3. ASSUME NEW p, clGetProgramInfo_wrap(p) PROVE Effect
  BY <1>3, GetInfoEffect DEF clGetProgramInfo_wrap
<1>4. ASSUME NEW p, clBuildProgram_wrap(p) PROVE Effect
  <2> DEFINE results ==
        {program_clBuildProgram(p, devices) : devices \in ListsOf(Of("DEVICE"))}
  <2>1. invoke_if_valid("PROGRAM", p, FALSE, results)
    BY <1>4 DEF clBuildProgram_wrap
  <2>2. \A r \in results : Outcome(r)
    BY SuccessOutcome, FailureOutcome DEF program_clBuildProgram
  <2> HIDE DEF results
  <2>3. QED
    BY <2>1, <2>2, InvokeEffect
<1>5. ASSUME NEW p, clCreateKernelsInProgram_wrap(p) PROVE Effect
  <2>1. Room(KERNEL_COUNT)
    BY <1>5 DEF clCreateKernelsInProgram_wrap
  <2>2. PICK num_kernels \in {0, KERNEL_COUNT}, kernels \in BOOLEAN :
            invoke_if_valid("PROGRAM", p, FALSE,
              {program_clCreateKernelsInProgram(p, New(KERNEL_COUNT), num_kernels, kernels)})
    BY <1>5 DEF clCreateKernelsInProgram_wrap
  <2>3. Exists("PROGRAM", p) =>
          Outcome(program_clCreateKernelsInProgram(p, New(KERNEL_COUNT), num_kernels, kernels))
    BY <2>1, KernelsOutcome
  <2>4. Exists("PROGRAM", p) =>
          \A r \in {program_clCreateKernelsInProgram(p, New(KERNEL_COUNT), num_kernels, kernels)} :
            Outcome(r)
    BY <2>3
  <2>5. QED
    BY <2>2, <2>4, InvokeEffect
<1>6. ASSUME NEW p, NEW h \in Fresh, clCreateKernel_wrap(p, h) PROVE Effect
  <2>1. Exists("PROGRAM", p) => \A r \in {program_clCreateKernel(p, h)} : Outcome(r)
    BY KernelOutcome
  <2>2. QED
    BY <1>6, <2>1, CreateEffect DEF clCreateKernel_wrap
<1>7. QED
  BY <1>1, <1>2, <1>3, <1>4, <1>5, <1>6 DEF ProgramCalls

LEMMA KernelEffect == ASSUME IcdInv, KernelCalls PROVE Effect
<1>1. ASSUME NEW k, MayRetain(k), clRetainKernel_wrap(k) PROVE Effect
  BY <1>1, RetainEffect DEF clRetainKernel_wrap
<1>2. ASSUME NEW k, clReleaseKernel_wrap(k) PROVE Effect
  BY <1>2, ReleaseEffect DEF clReleaseKernel_wrap
<1>3. ASSUME NEW k, clGetKernelInfo_wrap(k) PROVE Effect
  BY <1>3, GetInfoEffect DEF clGetKernelInfo_wrap
<1>4. ASSUME NEW k, clSetKernelArg_wrap(k) PROVE Effect
  BY <1>4, NothingEffect DEF clSetKernelArg_wrap, kernel_clSetKernelArg
<1>5. ASSUME NEW k, NEW h \in Fresh, clCloneKernel_wrap(k, h) PROVE Effect
  <2>1. Exists("KERNEL", k) => \A r \in {kernel_clCloneKernel(k, h)} : Outcome(r)
    BY CloneOutcome
  <2>2. QED
    BY <1>5, <2>1, CreateEffect DEF clCloneKernel_wrap
<1>6. QED
  BY <1>1, <1>2, <1>3, <1>4, <1>5 DEF KernelCalls

LEMMA EventEffect == ASSUME IcdInv, EventCalls PROVE Effect
<1>1. ASSUME NEW e, MayRetain(e), clRetainEvent_wrap(e) PROVE Effect
  BY <1>1, RetainEffect DEF clRetainEvent_wrap
<1>2. ASSUME NEW e, clReleaseEvent_wrap(e) PROVE Effect
  BY <1>2, ReleaseEffect DEF clReleaseEvent_wrap
<1>3. ASSUME NEW e, clGetEventInfo_wrap(e) PROVE Effect
  BY <1>3, GetInfoEffect DEF clGetEventInfo_wrap
<1>4. ASSUME NEW e, clSetUserEventStatus_wrap(e) PROVE Effect
  <2> DEFINE results ==
        {event_clSetUserEventStatus(e, status) : status \in {"CL_COMPLETE", "CL_RUNNING"}}
  <2>1. invoke_if_valid("EVENT", e, FALSE, results)
    BY <1>4 DEF clSetUserEventStatus_wrap
  <2>2. \A r \in results : Outcome(r)
    BY SuccessOutcome, FailureOutcome DEF event_clSetUserEventStatus
  <2> HIDE DEF results
  <2>3. QED
    BY <2>1, <2>2, InvokeEffect
<1>5. CASE clWaitForEvents_wrap
  <2>1. PICK events \in ListsOf(Of("EVENT")) :
            IF events = <<>> THEN Answer(Failure(INVALID("EVENT")))
            ELSE invoke_if_valid("EVENT", events[1], FALSE,
                     {event_clWaitForEvents(events[1], events)})
    BY <1>5 DEF clWaitForEvents_wrap
  <2>2. CASE events = <<>>
    BY <2>1, <2>2, FailureOutcome DEF Effect
  <2>3. CASE events # <<>>
    <3>1. \A r \in {event_clWaitForEvents(events[1], events)} : Outcome(r)
      BY SuccessOutcome, FailureOutcome DEF event_clWaitForEvents
    <3>2. QED
      BY <2>1, <2>3, <3>1, InvokeEffect
  <2>4. QED
    BY <2>2, <2>3
<1>6. QED
  BY <1>1, <1>2, <1>3, <1>4, <1>5 DEF EventCalls

LEMMA SamplerEffect == ASSUME SamplerCalls PROVE Effect
<1>1. ASSUME NEW s, MayRetain(s), clRetainSampler_wrap(s) PROVE Effect
  BY <1>1, RetainEffect DEF clRetainSampler_wrap
<1>2. ASSUME NEW s, clReleaseSampler_wrap(s) PROVE Effect
  BY <1>2, ReleaseEffect DEF clReleaseSampler_wrap
<1>3. ASSUME NEW s, clGetSamplerInfo_wrap(s) PROVE Effect
  BY <1>3, GetInfoEffect DEF clGetSamplerInfo_wrap
<1>4. QED
  BY <1>1, <1>2, <1>3 DEF SamplerCalls

LEMMA NextEffect == ASSUME IcdInv, Next PROVE Effect
  BY PlatformEffect, DeviceEffect, ContextEffect, MemEffect, QueueEffect, ProgramEffect,
     KernelEffect, EventEffect, SamplerEffect DEF Next

-----------------------------------------------------------------------------
(***************************************************************************)
(* The outcomes keep the invariant.                                        *)
(***************************************************************************)

\* No object disappears, and none changes but for its counters.
Kept ==
    /\ obj' \in [Objects -> Object \cup {None}] /\ env' = env
    /\ \A h \in Known :
        /\ obj'[h] # None /\ obj'[h].type = obj[h].type /\ obj'[h].parents = obj[h].parents
        /\ obj'[h].referenced = obj[h].referenced /\ obj'[h].default = obj[h].default

\* The objects' shape is judged by the types of other objects.
LEMMA KeptShape ==
  ASSUME IcdInv, Kept, NEW o, ObjectOK(o), NEW h \in Objects, obj'[h] # None,
         obj'[h].type = o.type, obj'[h].parents = o.parents,
         obj'[h].referenced = o.referenced, obj'[h].default = o.default
  PROVE  ObjectOK(obj[h])'
<1>1. obj'[h] \in Object
  BY DEF Kept
<1>2. Known \subseteq Known' /\ \A k \in Known : obj'[k].type = obj[k].type
  BY DEF Kept, Known
<1>3. o.parents \in Seq(Objects) /\ ToSet(o.parents) \subseteq Known
  BY DEF ObjectOK, Object
<1>4. \A i \in DOMAIN o.parents : o.parents[i] \in Known
  BY <1>3 DEF ToSet
<1>5. ToSet(obj'[h].parents) \subseteq Known' /\ obj'[h].referenced \subseteq ToSet(obj'[h].parents)
  BY <1>2, <1>3 DEF ObjectOK
<1>6. ParentKinds(obj[h])'
  <2>1. {obj'[p].type : p \in ToSet(o.parents)} = {obj[p].type : p \in ToSet(o.parents)}
    BY <1>2, <1>3
  <2>2. ParentKinds(o)
    BY DEF ObjectOK
  <2>3. o.type \in Kinds("DEVICE") \cup {"CONTEXT"} =>
            {obj'[p].type : p \in ToSet(obj'[h].parents)} \subseteq Kinds("DEVICE")
    BY <2>1, <2>2 DEF ParentKinds
  <2>4. o.type = "COMMAND_QUEUE" =>
            /\ Len(o.parents) = 2
            /\ obj'[o.parents[1]].type \in Kinds("DEVICE")
            /\ obj'[o.parents[2]].type = "CONTEXT"
    BY <1>2, <1>3, <1>4, <2>2 DEF ParentKinds
  <2>5. o.type \in Kinds("MEM") =>
            o.parents # <<>> /\ obj'[o.parents[Len(o.parents)]].type = "CONTEXT"
    BY <1>2, <1>3, <1>4, <2>2 DEF ParentKinds
  <2>6. QED
    BY <2>3, <2>4, <2>5 DEF ParentKinds
<1>7. NamedOnce(obj[h])'
  BY <1>2, <1>4 DEF ObjectOK, NamedOnce, IsDevice
<1>8. obj'[h].default => obj'[h].type = "COMMAND_QUEUE"
  BY DEF ObjectOK
<1>9. QED
  BY <1>1, <1>5, <1>6, <1>7, <1>8 DEF ObjectOK

LEMMA RootKnown == ASSUME IcdInv PROVE RootDevice \in Known
  BY IcdConstants DEF IcdInv, RootOK, RootDevice, Known, Objects

\* A step that adds no object.
LEMMA KeptInv ==
  ASSUME IcdInv, Kept, Known' = Known, obj'[RootDevice].ref_count = 1
  PROVE  IcdInv'
<1>1. obj' \in [Objects -> Object \cup {None}] /\ env' \subseteq Options
  BY DEF IcdInv, Kept
<1>2. InOrder'
  BY DEF IcdInv, InOrder
<1>3. RootOK'
  BY RootKnown DEF IcdInv, RootOK, Kept
<1>4. ASSUME NEW h \in Known' PROVE ObjectOK(obj[h])'
  <2>1. h \in Known /\ h \in Objects /\ ObjectOK(obj[h])
    BY <1>4 DEF IcdInv, Known
  <2>2. /\ obj'[h] # None /\ obj'[h].type = obj[h].type /\ obj'[h].parents = obj[h].parents
        /\ obj'[h].referenced = obj[h].referenced /\ obj'[h].default = obj[h].default
    BY <2>1 DEF Kept
  <2>3. QED
    BY <2>1, <2>2, KeptShape
<1>5. OneDefaultQueue'
  <2>1. ASSUME NEW q \in Of("COMMAND_QUEUE")' PROVE q \in Of("COMMAND_QUEUE") /\ q \in Known
    BY <2>1 DEF Of, Exists, Kept, Known
  <2>2. QED
    BY <2>1 DEF OneDefaultQueue, IcdInv, Kept
<1>6. QED
  BY <1>1, <1>2, <1>3, <1>4, <1>5 DEF IcdInv

LEMMA UIntRange == ASSUME NEW n \in Int PROVE UInt(n) \in 0 .. UINT_RANGE - 1
  BY IcdConstants DEF UInt

LEMMA KnownObject ==
  ASSUME IcdInv, NEW h \in Known
  PROVE  /\ obj[h] \in Object /\ h \in Objects
         /\ obj[h].ref_count \in 0 .. UINT_RANGE - 1
         /\ obj[h].implicit_ref_count \in 0 .. UINT_RANGE - 1
         /\ obj[h].parents \in Seq(Objects)
<1>1. obj[h] \in Object /\ h \in Objects
  BY DEF IcdInv, ObjectOK, Known
<1>2. QED
  BY <1>1 DEF Object

\* One counter of an object is set; it stays an object.
LEMMA CounterSet ==
  ASSUME NEW o \in Object, NEW n \in 0 .. UINT_RANGE - 1
  PROVE  /\ [o EXCEPT !.ref_count = n] \in Object
         /\ [o EXCEPT !.implicit_ref_count = n] \in Object
  BY DEF Object

LEMMA RetainedInv ==
  ASSUME IcdInv, env' = env, RetainedTo(obj')
  PROVE  IcdInv' /\ Kept /\ Known' = Known
<1>1. PICK h \in Known :
        /\ obj[h].type # "DEVICE"
        /\ obj' = [obj EXCEPT ![h].ref_count = UInt(@ + 1)]
  BY DEF RetainedTo
<1>2. obj[h] \in Object /\ h \in Objects /\ obj[h].ref_count \in 0 .. UINT_RANGE - 1
  BY KnownObject
<1>3. UInt(obj[h].ref_count + 1) \in 0 .. UINT_RANGE - 1
  <2>1. obj[h].ref_count + 1 \in Int
    BY <1>2, IcdConstants
  <2>2. QED
    BY <2>1, UIntRange
<1> DEFINE after == [obj[h] EXCEPT !.ref_count = UInt(obj[h].ref_count + 1)]
<1>4. after \in Object
  BY <1>2, <1>3, CounterSet
<1>5. /\ after.type = obj[h].type /\ after.parents = obj[h].parents
      /\ after.referenced = obj[h].referenced /\ after.default = obj[h].default
  BY <1>2 DEF Object
<1>6. obj' = [obj EXCEPT ![h] = after]
  BY <1>1
<1> HIDE DEF after
<1>7. obj \in [Objects -> Object \cup {None}]
  BY DEF IcdInv
<1>8. obj' \in [Objects -> Object \cup {None}]
  BY <1>2, <1>4, <1>6, <1>7
<1>9. after # None
  BY <1>4, NoneIsNoObject
<1>10. Kept
  BY <1>2, <1>5, <1>6, <1>7, <1>8, <1>9 DEF Kept, Known
<1>11. Known' = Known
  BY <1>2, <1>6, <1>7, <1>9 DEF Known
<1>12. obj'[RootDevice].ref_count = 1
  <2>1. RootDevice # h /\ RootDevice \in Objects
    BY <1>1, RootKnown DEF IcdInv, RootOK, Known
  <2>2. obj'[RootDevice] = obj[RootDevice]
    BY <2>1, <1>6, <1>7
  <2>3. QED
    BY <2>2 DEF IcdInv, RootOK
<1>13. QED
  BY <1>10, <1>11, <1>12, KeptInv

\* notify() changes one counter of some objects.
LEMMA Notified ==
  ASSUME NEW objects \in [Objects -> Object \cup {None}], NEW h \in Objects,
         objects[h] \in Object, NEW k \in Objects
  PROVE  /\ k \in ToSet(objects[h].parents) /\ objects[k] \in Object =>
            /\ notify(objects, h)[k] \in Object
            /\ notify(objects, h)[k] =
                 [objects[k] EXCEPT !.implicit_ref_count =
                    UInt(objects[k].implicit_ref_count - Occurrences(k, objects[h].parents))]
         /\ k \notin ToSet(objects[h].parents) => notify(objects, h)[k] = objects[k]
<1>1. CASE k \notin ToSet(objects[h].parents)
  BY <1>1 DEF notify
<1>2. CASE k \in ToSet(objects[h].parents) /\ objects[k] \in Object
  <2> DEFINE n == UInt(objects[k].implicit_ref_count - Occurrences(k, objects[h].parents))
  <2>1. notify(objects, h)[k] = [objects[k] EXCEPT !.implicit_ref_count = n]
    BY <1>2 DEF notify
  <2>2. objects[h].parents \in Seq(Objects)
    BY DEF Object
  <2>3. Occurrences(k, objects[h].parents) \in Nat
    BY <2>2, OccurrencesType
  <2>4. objects[k].implicit_ref_count \in 0 .. UINT_RANGE - 1
    BY <1>2 DEF Object
  <2>5. objects[k].implicit_ref_count - Occurrences(k, objects[h].parents) \in Int
    BY <2>3, <2>4, IcdConstants
  <2>6. n \in 0 .. UINT_RANGE - 1
    BY <2>5, UIntRange
  <2> HIDE DEF n
  <2>7. [objects[k] EXCEPT !.implicit_ref_count = n] \in Object
    BY <1>2, <2>6, CounterSet
  <2>8. QED
    BY <1>2, <2>1, <2>7 DEF n
<1>3. QED
  BY <1>1, <1>2

\* The last reference: none of the other kind is left either.
LastOf(h) == obj[h].ref_count = 1 /\ obj[h].implicit_ref_count = 0

\* o is what the release of h makes of the object k.
ReleasedAt(h, k, o) ==
    /\ o \in Object
    /\ o.type = obj[k].type /\ o.parents = obj[k].parents
    /\ o.referenced = obj[k].referenced /\ o.default = obj[k].default
    /\ o.ref_count = IF k = h THEN obj[k].ref_count - 1 ELSE obj[k].ref_count
    /\ o.implicit_ref_count =
         IF LastOf(h) /\ k \in ToSet(obj[h].parents)
         THEN UInt(obj[k].implicit_ref_count - Occurrences(k, obj[h].parents))
         ELSE obj[k].implicit_ref_count

LEMMA ReleasedStep ==
  ASSUME IcdInv, NEW h \in Known, obj[h].ref_count # 0, NEW objects,
         objects = IF Released(h)[h].ref_count = 0 /\ Released(h)[h].implicit_ref_count = 0
                   THEN notify(Released(h), h) ELSE Released(h)
  PROVE  /\ objects \in [Objects -> Object \cup {None}]
         /\ \A k \in Known : ReleasedAt(h, k, objects[k])
         /\ \A k \in Objects \ Known : objects[k] = None
<1>1. /\ obj[h] \in Object /\ h \in Objects /\ obj[h].ref_count \in 0 .. UINT_RANGE - 1
      /\ obj[h].parents \in Seq(Objects)
  BY KnownObject
<1>2. obj[h].ref_count - 1 \in 0 .. UINT_RANGE - 1
  BY <1>1, IcdConstants
<1> DEFINE after == [obj[h] EXCEPT !.ref_count = obj[h].ref_count - 1]
<1>3. after \in Object
  BY <1>1, <1>2, CounterSet
<1>4. /\ after.type = obj[h].type /\ after.parents = obj[h].parents
      /\ after.referenced = obj[h].referenced /\ after.default = obj[h].default
      /\ after.ref_count = obj[h].ref_count - 1
      /\ after.implicit_ref_count = obj[h].implicit_ref_count
  BY <1>1 DEF Object
<1>5. Released(h) = [obj EXCEPT ![h] = after]
  BY DEF Released
<1> HIDE DEF after
<1>6. obj \in [Objects -> Object \cup {None}] /\ ToSet(obj[h].parents) \subseteq Known
  BY DEF IcdInv, ObjectOK
<1>7. Released(h) \in [Objects -> Object \cup {None}]
  BY <1>1, <1>3, <1>5, <1>6
<1>8. Released(h)[h] = after
  BY <1>1, <1>5, <1>6
<1>9. \A k \in Objects : k # h => Released(h)[k] = obj[k]
  BY <1>5, <1>6
<1>10. \A k \in Known : Released(h)[k] \in Object
  BY <1>3, <1>8, <1>9, KnownObject
<1>11. Released(h)[h].ref_count = 0 <=> obj[h].ref_count = 1
  BY <1>1, <1>4, <1>8
<1>12. CASE ~LastOf(h)
  <2>1. objects = Released(h)
    BY <1>4, <1>8, <1>11, <1>12 DEF LastOf
  <2>2. ASSUME NEW k \in Known PROVE ReleasedAt(h, k, objects[k])
    BY <1>4, <1>8, <1>9, <1>10, <1>12, <2>1, KnownObject DEF ReleasedAt
  <2>3. \A k \in Objects \ Known : objects[k] = None
    BY <1>9, <2>1 DEF Known
  <2>4. QED
    BY <1>7, <2>1, <2>2, <2>3
<1>13. CASE LastOf(h)
  <2>1. objects = notify(Released(h), h)
    BY <1>4, <1>8, <1>11, <1>13 DEF LastOf
  <2>2. ASSUME NEW k \in Objects
        PROVE  /\ k \in ToSet(obj[h].parents) =>
                    /\ objects[k] \in Object
                    /\ objects[k] = [Released(h)[k] EXCEPT !.implicit_ref_count =
                         UInt(Released(h)[k].implicit_ref_count
                              - Occurrences(k, obj[h].parents))]
               /\ k \notin ToSet(obj[h].parents) => objects[k] = Released(h)[k]
    <3>1. Released(h)[h].parents = obj[h].parents /\ Released(h)[h] \in Object
      BY <1>3, <1>4, <1>8
    <3>2. k \in ToSet(obj[h].parents) => Released(h)[k] \in Object
      BY <1>6, <1>10
    <3>3. QED
      BY <1>1, <1>7, <2>1, <3>1, <3>2, Notified
  <2>3. ASSUME NEW k \in Known PROVE ReleasedAt(h, k, objects[k])
    <3> DEFINE before == Released(h)[k]
    <3>1. before \in Object /\ k \in Objects
      BY <1>10 DEF Known
    <3>2. /\ before.type = obj[k].type /\ before.parents = obj[k].parents
          /\ before.referenced = obj[k].referenced /\ before.default = obj[k].default
          /\ before.ref_count = IF k = h THEN obj[k].ref_count - 1 ELSE obj[k].ref_count
          /\ before.implicit_ref_count = obj[k].implicit_ref_count
      BY <1>4, <1>8, <1>9, <3>1
    <3> HIDE DEF before
    <3>3. CASE k \in ToSet(obj[h].parents)
      <4>1. /\ objects[k] \in Object
            /\ objects[k] = [before EXCEPT !.implicit_ref_count =
                 UInt(obj[k].implicit_ref_count - Occurrences(k, obj[h].parents))]
        BY <2>2, <3>1, <3>2, <3>3 DEF before
      <4>2. QED
        BY <1>13, <3>1, <3>2, <3>3, <4>1 DEF ReleasedAt, Object
    <3>4. CASE k \notin ToSet(obj[h].parents)
      <4>1. objects[k] = before
        BY <2>2, <3>1, <3>4 DEF before
      <4>2. QED
        BY <3>1, <3>2, <3>4, <4>1 DEF ReleasedAt
    <3>5. QED
      BY <3>3, <3>4
  <2>4. \A k \in Objects \ Known : objects[k] = None
    BY <1>6, <1>9, <2>2 DEF Known
  <2>5. objects \in [Objects -> Object \cup {None}]
    <3>1. objects = [k \in Objects |-> objects[k]]
      BY <2>1 DEF notify
    <3>2. \A k \in Objects : objects[k] \in Object \cup {None}
      BY <2>3, <2>4 DEF ReleasedAt
    <3>3. QED
      BY <3>1, <3>2
  <2>6. QED
    BY <2>3, <2>4, <2>5
<1>14. QED
  BY <1>12, <1>13

LEMMA ReleasedInv ==
  ASSUME IcdInv, env' = env, ReleasedTo(obj')
  PROVE  IcdInv' /\ Kept /\ Known' = Known
<1>1. PICK h \in Known :
        /\ obj[h].type # "DEVICE" /\ obj[h].ref_count # 0
        /\ obj' = IF Released(h)[h].ref_count = 0 /\ Released(h)[h].implicit_ref_count = 0
                  THEN notify(Released(h), h) ELSE Released(h)
  BY DEF ReleasedTo
<1>2. /\ obj' \in [Objects -> Object \cup {None}]
      /\ \A k \in Known : ReleasedAt(h, k, obj'[k])
      /\ \A k \in Objects \ Known : obj'[k] = None
  BY <1>1, ReleasedStep
<1>3. Kept
  BY <1>2, NoneIsNoObject DEF Kept, ReleasedAt
<1>4. Known' = Known
  BY <1>2, NoneIsNoObject DEF Known, ReleasedAt
<1>5. obj'[RootDevice].ref_count = 1
  <2>1. RootDevice # h /\ RootDevice \in Known
    BY <1>1, RootKnown DEF IcdInv, RootOK
  <2>2. QED
    BY <1>2, <2>1 DEF IcdInv, RootOK, ReleasedAt
<1>6. QED
  BY <1>3, <1>4, <1>5, KeptInv

\* o is what the creation makes of the object k there was.
CreatedAt(object, counts, k, o) ==
    /\ o \in Object
    /\ o.type = obj[k].type /\ o.parents = obj[k].parents
    /\ o.referenced = obj[k].referenced /\ o.default = obj[k].default
    /\ o.ref_count = obj[k].ref_count
    /\ o.implicit_ref_count =
         IF k \in object.referenced THEN UInt(obj[k].implicit_ref_count + counts[k])
         ELSE obj[k].implicit_ref_count

LEMMA CreatedStep ==
  ASSUME IcdInv, NEW n \in Nat, NEW object \in Object, NEW counts \in [Objects -> Nat],
         NewOK(n, object, counts), NEW objects, objects = With(n, object, counts)
  PROVE  /\ objects \in [Objects -> Object \cup {None}]
         /\ ToSet(New(n)) \subseteq Objects /\ \A k \in ToSet(New(n)) : objects[k] = object
         /\ \A k \in Known : CreatedAt(object, counts, k, objects[k])
         /\ \A k \in Objects \ (Known \cup ToSet(New(n))) : objects[k] = None
<1>1. ToSet(New(n)) \subseteq Objects /\ ToSet(New(n)) \cap Known = {}
  BY NewAddresses DEF NewOK, Room
<1>2. object.referenced \subseteq Known
  BY DEF NewOK, ObjectOK
<1>3. \A k \in ToSet(New(n)) : objects[k] = object
  BY <1>1 DEF With
<1>4. ASSUME NEW k \in Known PROVE CreatedAt(object, counts, k, objects[k])
  <2>1. /\ obj[k] \in Object /\ k \in Objects /\ obj[k].implicit_ref_count \in 0 .. UINT_RANGE - 1
        /\ k \notin ToSet(New(n))
    BY <1>1, KnownObject
  <2>2. CASE k \in object.referenced
    <3> DEFINE m == UInt(obj[k].implicit_ref_count + counts[k])
    <3>1. obj[k].implicit_ref_count + counts[k] \in Int
      BY <2>1, IcdConstants
    <3>2. m \in 0 .. UINT_RANGE - 1
      BY <3>1, UIntRange
    <3>3. reference(obj, k, counts[k])[k] = [obj[k] EXCEPT !.implicit_ref_count = m]
      BY <2>1 DEF reference, IcdInv
    <3>4. objects[k] = [obj[k] EXCEPT !.implicit_ref_count = m]
      BY <2>1, <2>2, <3>3 DEF With
    <3>5. m = UInt(obj[k].implicit_ref_count + counts[k])
      OBVIOUS
    <3> HIDE DEF m
    <3>6. objects[k] \in Object
      BY <2>1, <3>2, <3>4, CounterSet
    <3>7. QED
      BY <2>1, <2>2, <3>4, <3>5, <3>6 DEF CreatedAt, Object
  <2>3. CASE k \notin object.referenced
    <3>1. objects[k] = obj[k]
      BY <2>1, <2>3 DEF With
    <3>2. QED
      BY <2>1, <2>3, <3>1 DEF CreatedAt
  <2>4. QED
    BY <2>2, <2>3
<1>5. ASSUME NEW k \in Objects \ (Known \cup ToSet(New(n))) PROVE objects[k] = None
  BY <1>2 DEF With, Known
<1>6. objects \in [Objects -> Object \cup {None}]
  <2>1. objects = [k \in Objects |-> objects[k]]
    BY DEF With
  <2>2. \A k \in Objects : objects[k] \in Object \cup {None}
    BY <1>3, <1>4, <1>5 DEF CreatedAt
  <2>3. QED
    BY <2>1, <2>2
<1>7. QED
  BY <1>1, <1>3, <1>4, <1>5, <1>6

LEMMA CreatedInv ==
  ASSUME IcdInv, env' = env, CreatedTo(obj')
  PROVE  IcdInv' /\ Kept
<1>1. PICK n \in Nat, object \in Object, counts \in [Objects -> Nat] :
        NewOK(n, object, counts) /\ obj' = With(n, object, counts)
  BY DEF CreatedTo
<1> DEFINE new == ToSet(New(n))
<1>2. /\ obj' \in [Objects -> Object \cup {None}]
      /\ new \subseteq Objects /\ \A k \in new : obj'[k] = object
      /\ \A k \in Known : CreatedAt(object, counts, k, obj'[k])
      /\ \A k \in Objects \ (Known \cup new) : obj'[k] = None
  BY <1>1, CreatedStep
<1>3. /\ new = Cardinality(Known) .. Cardinality(Known) + n - 1
      /\ new \cap Known = {}
      /\ Cardinality(Known) \in Nat
  BY NewAddresses, KnownFinite
<1>4. ObjectOK(object) /\ object # None
  BY <1>1, NoneIsNoObject DEF NewOK
<1> HIDE DEF new
<1>5. Kept
  BY <1>2, NoneIsNoObject DEF Kept, CreatedAt
<1>6. Known' = Known \cup new
  BY <1>2, <1>4, <1>5, NoneIsNoObject DEF Known, Kept
<1>7. InOrder'
  <2> DEFINE used == Cardinality(Known)
  <2>1. Known = 0 .. used - 1 /\ used \in Nat
    BY <1>3 DEF IcdInv, InOrder
  <2>2. new = used .. used + n - 1
    BY <1>3
  <2> HIDE DEF used
  <2>3. Known' = 0 .. used + n - 1
    BY <1>6, <2>1, <2>2
  <2>4. used + n - 1 \in Int /\ 0 \in Int
    BY <2>1
  <2>5. Cardinality(0 .. used + n - 1) = used + n
    BY <2>1, <2>4, FS_Interval
  <2>6. Cardinality(Known') = used + n
    BY <2>3, <2>5
  <2>7. Known' = 0 .. Cardinality(Known') - 1
    BY <2>1, <2>3, <2>6
  <2>8. QED
    BY <2>7 DEF InOrder
<1>8. RootOK'
  <2>1. RootDevice \in Known
    BY RootKnown
  <2>2. CreatedAt(object, counts, RootDevice, obj'[RootDevice])
    BY <1>2, <2>1
  <2>3. QED
    BY <2>2, NoneIsNoObject DEF RootOK, IcdInv, CreatedAt
<1>9. ASSUME NEW h \in Known' PROVE ObjectOK(obj[h])'
  <2>1. h \in Objects /\ obj'[h] # None
    BY <1>9 DEF Known
  <2>2. CASE h \in Known
    <3>1. ObjectOK(obj[h])
      BY <2>2 DEF IcdInv
    <3>2. /\ obj'[h].type = obj[h].type /\ obj'[h].parents = obj[h].parents
          /\ obj'[h].referenced = obj[h].referenced /\ obj'[h].default = obj[h].default
      BY <1>5, <2>2 DEF Kept
    <3>3. QED
      BY <1>5, <2>1, <3>1, <3>2, KeptShape
  <2>3. CASE h \in new
    <3>1. obj'[h] = object
      BY <1>2, <2>3
    <3>2. QED
      BY <1>4, <1>5, <2>1, <3>1, KeptShape
  <2>4. QED
    BY <1>6, <1>9, <2>2, <2>3
<1>10. OneDefaultQueue'
  <2>1. SUFFICES ASSUME NEW q \in Of("COMMAND_QUEUE")', NEW r \in Of("COMMAND_QUEUE")',
                        obj'[q].default, obj'[r].default, obj'[q].parents = obj'[r].parents
                 PROVE  q = r
    BY DEF OneDefaultQueue
  <2>2. ASSUME NEW k \in Of("COMMAND_QUEUE")'
        PROVE  k \in new \/ (k \in Known /\ k \in Of("COMMAND_QUEUE"))
    BY <1>5, <1>6, <2>2 DEF Of, Exists, Known, Kept
  <2>3. \A k \in Known : obj'[k].default = obj[k].default /\ obj'[k].parents = obj[k].parents
    BY <1>5 DEF Kept
  <2>4. CASE q \in new /\ r \in new
    <3>1. n = 1
      BY <1>1, <1>2, <2>1, <2>4 DEF NewOK
    <3>2. new = {Cardinality(Known)}
      BY <1>3, <3>1
    <3>3. QED
      BY <2>4, <3>2
  <2>5. CASE q \in new /\ r \notin new
    BY <1>1, <1>2, <2>1, <2>2, <2>3, <2>5 DEF NewOK
  <2>6. CASE q \notin new /\ r \in new
    BY <1>1, <1>2, <2>1, <2>2, <2>3, <2>6 DEF NewOK
  <2>7. CASE q \notin new /\ r \notin new
    BY <2>1, <2>2, <2>3, <2>7 DEF IcdInv, OneDefaultQueue
  <2>8. QED
    BY <2>4, <2>5, <2>6, <2>7
<1>11. env' \subseteq Options
  BY DEF IcdInv
<1>12. QED
  BY <1>2, <1>5, <1>7, <1>8, <1>9, <1>10, <1>11 DEF IcdInv

LEMMA InitInv == ASSUME Init PROVE IcdInv
<1> DEFINE plain == NewObject("DEVICE", <<>>, {})
           root == [plain EXCEPT !.cu_count = ComputeUnits]
<1>1. PICK e \in Environments : env = e.options
  BY DEF Init
<1>2. env \subseteq Options
  BY <1>1, EnvironmentsAssumption
<1>3. obj = [h \in Objects |-> IF h = RootDevice THEN root ELSE None]
  BY DEF Init
<1>4. "DEVICE" \in Types /\ <<>> \in Seq(Objects) /\ {} \in SUBSET Objects
  BY DEF Types
<1>5. plain \in Object
  BY <1>4, NewObjectType
<1>6. /\ plain.type = "DEVICE" /\ plain.parents = <<>> /\ plain.referenced = {}
      /\ plain.ref_count = 1 /\ plain.implicit_ref_count = 0 /\ plain.default = FALSE
  BY DEF NewObject
<1> HIDE DEF plain
<1>7. root \in Object
  BY <1>5, IcdConstants DEF Object
<1>8. /\ root.type = "DEVICE" /\ root.parents = <<>> /\ root.referenced = {}
      /\ root.ref_count = 1 /\ root.implicit_ref_count = 0 /\ root.default = FALSE
  BY <1>5, <1>6 DEF Object
<1> HIDE DEF root
<1>9. 0 \in Objects /\ root # None
  BY <1>7, IcdConstants, NoneIsNoObject DEF Objects
<1>10. Known = {0}
  BY <1>3, <1>9 DEF Known, RootDevice
<1>11. InOrder
  <2>1. Cardinality(Known) = 1
    BY <1>10, FS_Singleton
  <2>2. QED
    BY <1>10, <2>1 DEF InOrder
<1>12. RootOK
  BY <1>3, <1>8, <1>9 DEF RootOK, RootDevice
<1>13. ObjectOK(root)
  <2>1. ToSet(<<>>) = {}
    BY DEF ToSet
  <2>2. ParentKinds(root)
    BY <1>8, <2>1 DEF ParentKinds, Kinds
  <2>3. NamedOnce(root)
    BY <1>8 DEF NamedOnce
  <2>4. QED
    BY <1>7, <1>8, <2>1, <2>2, <2>3 DEF ObjectOK
<1>14. obj[0] = root
  BY <1>3, <1>9 DEF RootDevice
<1>15. OneDefaultQueue
  BY <1>3, <1>8 DEF OneDefaultQueue, Of, Exists
<1>16. obj \in [Objects -> Object \cup {None}]
  BY <1>3, <1>7
<1>17. QED
  BY <1>2, <1>10, <1>11, <1>12, <1>13, <1>14, <1>15, <1>16 DEF IcdInv

LEMMA QuietInv ==
  ASSUME IcdInv, obj' = obj, env' = env
  PROVE  IcdInv' /\ Kept /\ Known' = Known
<1>1. Known' = Known
  BY DEF Known
<1>2. Kept
  BY DEF Kept, IcdInv, Known
<1>3. QED
  BY <1>1, <1>2, KeptInv DEF IcdInv, RootOK

LEMMA OutcomeInv ==
  ASSUME IcdInv, NEW r, Outcome(r), Answer(r)
  PROVE  IcdInv' /\ Kept
<1>1. obj' = r.obj /\ env' = env
  BY DEF Answer
<1>2. obj' = obj \/ RetainedTo(obj') \/ ReleasedTo(obj') \/ CreatedTo(obj')
  BY <1>1 DEF Outcome
<1>3. QED
  BY <1>1, <1>2, QuietInv, RetainedInv, ReleasedInv, CreatedInv

\* The invariant is inductive.
LEMMA NextInv == ASSUME IcdInv, [Next]_icdvars PROVE IcdInv'
<1>1. CASE Next
  <2>1. PICK r : Outcome(r) /\ Answer(r)
    BY <1>1, NextEffect DEF Effect
  <2>2. QED
    BY <2>1, OutcomeInv
<1>2. CASE UNCHANGED icdvars
  BY <1>2, QuietInv DEF icdvars
<1>3. QED
  BY <1>1, <1>2

\* The mock driver's objects are what IcdInv says, for every number of objects
\* and every width of their counters: the methods of object_lifetime_test_icd.cpp
\* never name a parent that is not there, and never lose the root device.
THEOREM IcdInvariant == Spec => []IcdInv
<1>1. Init => IcdInv
  BY InitInv
<1>2. IcdInv /\ [Next]_icdvars => IcdInv'
  BY NextInv
<1>3. QED
  BY <1>1, <1>2, PTL DEF Spec

LEMMA InvType == ASSUME IcdInv PROVE IcdTypeOK
<1>1. ASSUME NEW h \in Objects, obj[h] # None
      PROVE  /\ obj[h].type \in Types
             /\ {obj[h].ref_count, obj[h].implicit_ref_count} \subseteq 0 .. UINT_RANGE - 1
             /\ obj[h].referenced \subseteq ToSet(obj[h].parents)
             /\ \A p \in ToSet(obj[h].parents) : obj[p] # None
  <2>1. h \in Known
    BY <1>1 DEF Known
  <2>2. ObjectOK(obj[h]) /\ obj[h] \in Object
    BY <2>1 DEF IcdInv, ObjectOK
  <2>3. /\ obj[h].type \in Types
        /\ {obj[h].ref_count, obj[h].implicit_ref_count} \subseteq 0 .. UINT_RANGE - 1
    BY <2>2 DEF Object
  <2>4. \A p \in ToSet(obj[h].parents) : obj[p] # None
    BY <2>2 DEF ObjectOK, Known
  <2>5. QED
    BY <2>2, <2>3, <2>4 DEF ObjectOK
<1>2. QED
  BY <1>1 DEF IcdInv, IcdTypeOK, RootOK

\* The counters fit cl_uint, every parent is an object the driver still has,
\* and the root device is never released (device_clReleaseDevice).
THEOREM IcdTypeCorrect == Spec => []IcdTypeOK
<1>1. IcdInv => IcdTypeOK
  BY InvType
<1>2. QED
  BY <1>1, IcdInvariant, PTL

\* A context has one default queue per device at most, in whatever order it is
\* asked for, retained and released (clCreateCommandQueueWithProperties).
THEOREM IcdOneDefaultQueue == Spec => []OneDefaultQueue
<1>1. IcdInv => OneDefaultQueue
  BY DEF IcdInv
<1>2. QED
  BY <1>1, IcdInvariant, PTL

\* A call that answers with an error has changed no object: every method checks
\* before it counts.
THEOREM IcdErrorsChangeNothing == Spec => ErrorsChangeNothing
<1>1. IcdInv /\ [Next]_icdvars => [answer'.code # "CL_SUCCESS" => obj' = obj]_icdvars
  <2>1. ASSUME IcdInv, Next, answer'.code # "CL_SUCCESS" PROVE obj' = obj
    <3>1. PICK r : Outcome(r) /\ Answer(r)
      BY <2>1, NextEffect DEF Effect
    <3>2. r.code # "CL_SUCCESS"
      BY <2>1, <3>1 DEF Answer, Masked
    <3>3. QED
      BY <3>1, <3>2 DEF Outcome, Answer
  <2>2. QED
    BY <2>1
<1>2. QED
  BY <1>1, IcdInvariant, PTL DEF Spec, ErrorsChangeNothing

\* As long as no option lets the application use released objects, an object
\* without explicit references never has one again: retain() refuses what the
\* check of the entry point let through, and a default queue is not revived.
THEOREM IcdNoResurrection == Spec => NoResurrection
<1> DEFINE Dead(h) == obj[h] # None /\ obj[h].ref_count = 0
           Step == Strict => \A h \in Objects : Dead(h) => obj'[h].ref_count = 0
<1>1. IcdInv /\ [Next]_icdvars => [Step]_icdvars
  <2>1. SUFFICES ASSUME IcdInv, Next, Strict, NEW h \in Objects, Dead(h)
                 PROVE  obj'[h].ref_count = 0
    OBVIOUS
  <2>2. h \in Known
    BY <2>1 DEF Known
  <2>3. PICK r : Outcome(r) /\ Answer(r)
    BY <2>1, NextEffect DEF Effect
  <2>4. obj' = r.obj
    BY <2>3 DEF Answer
  <2>5. CASE obj' = obj
    BY <2>1, <2>5
  <2>6. CASE RetainedTo(obj')
    BY <2>1, <2>6 DEF RetainedTo, IcdInv
  <2>7. CASE ReleasedTo(obj')
    <3>1. PICK k \in Known :
            /\ obj[k].ref_count # 0
            /\ obj' = IF Released(k)[k].ref_count = 0 /\ Released(k)[k].implicit_ref_count = 0
                      THEN notify(Released(k), k) ELSE Released(k)
      BY <2>7 DEF ReleasedTo
    <3>2. ReleasedAt(k, h, obj'[h])
      BY <2>1, <2>2, <3>1, ReleasedStep
    <3>3. QED
      BY <2>1, <3>1, <3>2 DEF ReleasedAt
  <2>8. CASE CreatedTo(obj')
    <3>1. PICK n \in Nat, object \in Object, counts \in [Objects -> Nat] :
            NewOK(n, object, counts) /\ obj' = With(n, object, counts)
      BY <2>8 DEF CreatedTo
    <3>2. CreatedAt(object, counts, h, obj'[h])
      BY <2>1, <2>2, <3>1, CreatedStep
    <3>3. QED
      BY <2>1, <3>2 DEF CreatedAt
  <2>9. QED
    BY <2>3, <2>4, <2>5, <2>6, <2>7, <2>8 DEF Outcome
<1>2. QED
  BY <1>1, IcdInvariant, PTL DEF Spec, NoResurrection

-----------------------------------------------------------------------------
(***************************************************************************)
(* The two counters of ref_counted_object agree with the objects there are *)
(* (ImplicitBetween), as long as there are fewer objects, and fewer        *)
(* references to each, than a cl_uint counts.                              *)
(***************************************************************************)

CountsFit == MaxCount < UINT_RANGE /\ MaxObjects < UINT_RANGE

\* The children that keep h from being inaccessible, and those that may.
Holding(h) == {c \in Children(h) : obj[c].ref_count > 0}

Gone(h) == {c \in Children(h) : obj[c].ref_count = 0 /\ Children(c) = {}}

Between ==
    \A h \in Objects : Counted(h) =>
        /\ Cardinality(Holding(h)) <= obj[h].implicit_ref_count
        /\ obj[h].implicit_ref_count <= Cardinality(Children(h) \ Gone(h))

CountInv == IcdInv /\ (Strict => Between)

LEMMA FiniteObjects ==
  ASSUME NEW S \in SUBSET Objects
  PROVE  IsFiniteSet(S) /\ Cardinality(S) \in Nat
<1>1. IsFiniteSet(Objects)
  BY FS_Interval, IcdConstants DEF Objects
<1>2. IsFiniteSet(S)
  BY <1>1, FS_Subset
<1>3. QED
  BY <1>2, FS_CardinalityType

LEMMA Larger ==
  ASSUME NEW S \in SUBSET Objects, NEW T \in SUBSET S
  PROVE  Cardinality(T) <= Cardinality(S)
  BY FiniteObjects, FS_Subset

LEMMA ChildrenObjects ==
  ASSUME NEW h
  PROVE  /\ Children(h) \in SUBSET Objects /\ Holding(h) \in SUBSET Objects
         /\ Children(h) \ Gone(h) \in SUBSET Objects
         /\ Holding(h) \subseteq Children(h) \ Gone(h)
  BY DEF Children, Holding, Gone

\* What is not a device has no device among its children.
LEMMA ChildOfOther ==
  ASSUME IcdInv, NEW h \in Known, ~IsDevice(obj[h]), NEW c \in Children(h)
  PROVE  c \in Known /\ ~IsDevice(obj[c])
<1>1. c \in Known /\ h \in ToSet(obj[c].parents)
  BY DEF Children, Known
<1>2. ParentKinds(obj[c])
  BY <1>1 DEF IcdInv, ObjectOK
<1>3. QED
  BY <1>1, <1>2 DEF ParentKinds, IsDevice

\* Children are never lost, and what counted them is not forgotten.
LEMMA CountedBefore ==
  ASSUME IcdInv, Kept, NEW h \in Known, Counted(h)'
  PROVE  Counted(h) /\ Children(h) \subseteq Children(h)'
<1>1. Children(h) \subseteq Children(h)'
  BY DEF Kept, Children, Known
<1>2. obj[h] # None /\ obj[h].type \notin Kinds("DEVICE")
  BY DEF Counted, Kept, Known
<1>3. ASSUME NEW c \in Children(h) PROVE h \in obj[c].referenced
  <2>1. c \in Known /\ c \in Children(h)'
    BY <1>1 DEF Children, Known
  <2>2. QED
    BY <2>1 DEF Counted, Kept
<1>4. QED
  BY <1>1, <1>2, <1>3 DEF Counted

LEMMA SameChildren ==
  ASSUME Kept, Known' = Known, NEW h
  PROVE  Children(h)' = Children(h)
  BY DEF Kept, Children, Known

\* A step that adds no object and takes no object's last explicit reference.
LEMMA SameCounts ==
  ASSUME CountInv, Kept, Known' = Known,
         \A c \in Known : obj'[c].ref_count = 0 <=> obj[c].ref_count = 0,
         \A c \in Known : obj'[c].implicit_ref_count = obj[c].implicit_ref_count,
         IcdInv'
  PROVE  CountInv'
<1>1. SUFFICES ASSUME Strict, NEW h \in Objects, Counted(h)'
               PROVE  /\ Cardinality(Holding(h)') <= obj'[h].implicit_ref_count
                      /\ obj'[h].implicit_ref_count <= Cardinality(Children(h)' \ Gone(h)')
  BY DEF CountInv, Between, Strict, Kept
<1>2. h \in Known
  BY <1>1 DEF Counted, Known
<1>3. Counted(h) /\ IcdInv
  BY <1>1, <1>2, CountedBefore DEF CountInv
<1>4. Children(h)' = Children(h) /\ \A c : Children(c)' = Children(c)
  BY SameChildren
<1>5. \A c \in Children(h) : c \in Known
  BY DEF Children, Known
<1>6. \A c \in Known : obj[c].ref_count \in Nat /\ obj'[c].ref_count \in Nat
  <2>1. \A c \in Known : obj[c] \in Object /\ obj'[c] \in Object
    BY <1>3, KnownObject DEF Kept
  <2>2. QED
    BY <2>1 DEF Object
<1>7. Holding(h)' = Holding(h)
  BY <1>4, <1>5, <1>6 DEF Holding
<1>8. Gone(h)' = Gone(h)
  BY <1>4, <1>5 DEF Gone
<1>9. QED
  BY <1>1, <1>2, <1>3, <1>4, <1>7, <1>8 DEF CountInv, Between

LEMMA QuietCounts ==
  ASSUME CountInv, obj' = obj, env' = env
  PROVE  CountInv'
<1>1. IcdInv' /\ Kept /\ Known' = Known
  BY QuietInv DEF CountInv
<1>2. QED
  BY <1>1, SameCounts

LEMMA RetainedCounts ==
  ASSUME CountsFit, CountInv, env' = env, RetainedTo(obj')
  PROVE  CountInv'
<1>1. IcdInv' /\ Kept /\ Known' = Known
  BY RetainedInv DEF CountInv
<1>2. CASE ~Strict
  BY <1>1, <1>2 DEF CountInv, Strict
<1>3. CASE Strict
  <2>1. PICK h \in Known :
          /\ obj[h].ref_count < MaxCount /\ obj[h].ref_count > 0
          /\ obj' = [obj EXCEPT ![h].ref_count = UInt(@ + 1)]
    BY <1>3 DEF RetainedTo
  <2>2. obj[h] \in Object /\ h \in Objects /\ obj[h].ref_count \in 0 .. UINT_RANGE - 1
    BY KnownObject DEF CountInv
  <2>3. obj[h].ref_count + 1 \in 1 .. UINT_RANGE - 1
    BY <2>1, <2>2, BoundsAssumption, IcdConstants DEF CountsFit
  <2>4. UInt(obj[h].ref_count + 1) = obj[h].ref_count + 1
    BY <2>3, IcdConstants DEF UInt
  <2>5. obj'[h] = [obj[h] EXCEPT !.ref_count = obj[h].ref_count + 1]
    BY <2>1, <2>2, <2>4 DEF CountInv, IcdInv
  <2>6. \A c \in Known : c # h => obj'[c] = obj[c]
    BY <2>1, <2>2 DEF CountInv, IcdInv, Known
  <2>7. /\ obj'[h].ref_count = obj[h].ref_count + 1
        /\ obj'[h].implicit_ref_count = obj[h].implicit_ref_count
    BY <2>2, <2>5 DEF Object
  <2>8. \A c \in Known : obj'[c].ref_count = 0 <=> obj[c].ref_count = 0
    BY <2>1, <2>2, <2>6, <2>7
  <2>9. \A c \in Known : obj'[c].implicit_ref_count = obj[c].implicit_ref_count
    BY <2>6, <2>7
  <2>10. QED
    BY <1>1, <2>8, <2>9, SameCounts
<1>4. QED
  BY <1>2, <1>3

\* A parent that is no device is named once.
LEMMA OccursOnce ==
  ASSUME IcdInv, NEW k \in Known, NEW h \in ToSet(obj[k].parents), ~IsDevice(obj[h])
  PROVE  Occurrences(h, obj[k].parents) = 1
<1> DEFINE ps == obj[k].parents
<1>1. PICK i \in DOMAIN ps : ps[i] = h
  BY DEF ToSet
<1>2. NamedOnce(obj[k])
  BY DEF IcdInv, ObjectOK
<1>3. {j \in DOMAIN ps : ps[j] = h} = {i}
  BY <1>1, <1>2 DEF NamedOnce
<1>4. Cardinality({i}) = 1
  BY FS_Singleton
<1>5. QED
  BY <1>3, <1>4 DEF Occurrences

\* An object that still has implicit references has children.
LEMMA ImplicitFromChildren ==
  ASSUME CountInv, Strict, NEW k \in Known, ~IsDevice(obj[k]), obj[k].implicit_ref_count # 0
  PROVE  Children(k) # {}
<1>1. SUFFICES ASSUME Children(k) = {} PROVE FALSE
  OBVIOUS
<1>2. Counted(k) /\ k \in Objects
  BY <1>1 DEF Counted, IsDevice, Known
<1>3. obj[k].implicit_ref_count <= Cardinality(Children(k) \ Gone(k))
  BY <1>2 DEF CountInv, Between
<1>4. Children(k) \ Gone(k) = {}
  BY <1>1
<1>5. Cardinality(Children(k) \ Gone(k)) = 0
  BY <1>4, FS_EmptySet
<1>6. obj[k].implicit_ref_count \in 0 .. UINT_RANGE - 1
  BY KnownObject DEF CountInv
<1>7. QED
  BY <1>3, <1>5, <1>6, IcdConstants

LEMMA ReleasedCounts ==
  ASSUME CountInv, env' = env, ReleasedTo(obj')
  PROVE  CountInv'
<1>1. IcdInv /\ IcdInv' /\ Kept /\ Known' = Known
  BY ReleasedInv DEF CountInv
<1>2. PICK k \in Known :
        /\ obj[k].ref_count # 0
        /\ obj' = IF Released(k)[k].ref_count = 0 /\ Released(k)[k].implicit_ref_count = 0
                  THEN notify(Released(k), k) ELSE Released(k)
  BY DEF ReleasedTo
<1>3. \A c \in Known : ReleasedAt(k, c, obj'[c])
  BY <1>1, <1>2, ReleasedStep
<1>4. SUFFICES ASSUME Strict, NEW h \in Objects, Counted(h)'
               PROVE  /\ Cardinality(Holding(h)') <= obj'[h].implicit_ref_count
                      /\ obj'[h].implicit_ref_count <= Cardinality(Children(h)' \ Gone(h)')
  BY <1>1 DEF CountInv, Between, Strict
<1>5. h \in Known
  BY <1>1, <1>4 DEF Counted, Known
<1>6. Counted(h) /\ ~IsDevice(obj[h])
  BY <1>1, <1>4, <1>5, CountedBefore DEF Counted, IsDevice
<1>7. \A c : Children(c)' = Children(c)
  BY <1>1, SameChildren
<1>8. \A c \in Children(h) : c \in Known
  BY DEF Children, Known
<1>9. \A c \in Known : /\ obj[c].ref_count \in Nat /\ obj[c].implicit_ref_count \in Nat
                        /\ obj[c].implicit_ref_count < UINT_RANGE
  BY <1>1, KnownObject, IcdConstants
<1>10. /\ Cardinality(Holding(h)) <= obj[h].implicit_ref_count
       /\ obj[h].implicit_ref_count <= Cardinality(Children(h) \ Gone(h))
  BY <1>4, <1>6 DEF CountInv, Between
<1>11. /\ obj'[k].ref_count = obj[k].ref_count - 1
       /\ \A c \in Known : c # k => obj'[c].ref_count = obj[c].ref_count
  BY <1>3 DEF ReleasedAt
<1>12. CASE k \notin Children(h) \/ obj[k].ref_count # 1
  <2>1. Holding(h)' = Holding(h) /\ Gone(h)' = Gone(h)
    BY <1>2, <1>7, <1>8, <1>9, <1>11, <1>12 DEF Holding, Gone
  <2>2. ~(LastOf(k) /\ h \in ToSet(obj[k].parents))
    BY <1>12 DEF LastOf, Children, Known
  <2>3. obj'[h].implicit_ref_count = obj[h].implicit_ref_count
    BY <1>3, <1>5, <2>2 DEF ReleasedAt
  <2>4. QED
    BY <1>7, <1>10, <2>1, <2>3
<1>13. CASE k \in Children(h) /\ obj[k].ref_count = 1
  <2>1. ~IsDevice(obj[k])
    BY <1>1, <1>5, <1>6, <1>13, ChildOfOther
  <2>2. h \in ToSet(obj[k].parents)
    BY <1>13 DEF Children
  <2>3. k \in Holding(h) /\ k \in Children(h) \ Gone(h)
    BY <1>13 DEF Holding, Gone
  <2>4. Holding(h)' = Holding(h) \ {k}
    BY <1>7, <1>8, <1>9, <1>11, <1>13 DEF Holding
  <2>5. /\ Holding(h) \in SUBSET Objects /\ Children(h) \ Gone(h) \in SUBSET Objects
        /\ IsFiniteSet(Holding(h)) /\ IsFiniteSet(Children(h) \ Gone(h))
        /\ Cardinality(Holding(h)) \in Nat /\ Cardinality(Children(h) \ Gone(h)) \in Nat
    BY ChildrenObjects, FiniteObjects
  <2>6. Cardinality(Holding(h)') = Cardinality(Holding(h)) - 1
    BY <2>3, <2>4, <2>5, FS_RemoveElement
  <2>7. CASE obj[k].implicit_ref_count = 0
    <3>1. LastOf(k)
      BY <1>13, <2>7 DEF LastOf
    <3>2. Occurrences(h, obj[k].parents) = 1
      BY <1>1, <1>6, <2>2, OccursOnce
    <3>3. obj'[h].implicit_ref_count = UInt(obj[h].implicit_ref_count - 1)
      BY <1>3, <1>5, <2>2, <3>1, <3>2 DEF ReleasedAt
    <3>4. Cardinality(Holding(h)') \in Nat
      <4>1. Holding(h)' \in SUBSET Objects
        BY <2>4, <2>5
      <4>2. QED
        BY <4>1, FiniteObjects
    <3>5. obj[h].implicit_ref_count - 1 \in 0 .. UINT_RANGE - 1
      BY <1>5, <1>9, <1>10, <2>5, <2>6, <3>4, IcdConstants
    <3>6. obj'[h].implicit_ref_count = obj[h].implicit_ref_count - 1
      BY <3>3, <3>5, IcdConstants DEF UInt
    <3>7. (Children(h) \ Gone(h)) \ {k} \subseteq Children(h)' \ Gone(h)'
      BY <1>7, <1>8, <1>11 DEF Gone
    <3>8. Cardinality((Children(h) \ Gone(h)) \ {k}) = Cardinality(Children(h) \ Gone(h)) - 1
      BY <2>3, <2>5, FS_RemoveElement
    <3>9. Children(h)' \ Gone(h)' \in SUBSET Objects
      BY <1>7, ChildrenObjects
    <3>10. Cardinality((Children(h) \ Gone(h)) \ {k}) <= Cardinality(Children(h)' \ Gone(h)')
      BY <3>7, <3>9, Larger
    <3>11. Cardinality(Children(h)' \ Gone(h)') \in Nat
      BY <3>9, FiniteObjects
    <3>12. QED
      BY <1>5, <1>9, <1>10, <2>5, <2>6, <3>6, <3>8, <3>10, <3>11
  <2>8. CASE obj[k].implicit_ref_count # 0
    <3>1. Children(k) # {}
      BY <1>4, <2>1, <2>8, ImplicitFromChildren
    <3>2. ~LastOf(k)
      BY <2>8 DEF LastOf
    <3>3. obj'[h].implicit_ref_count = obj[h].implicit_ref_count
      BY <1>3, <1>5, <3>2 DEF ReleasedAt
    <3>4. Gone(h)' = Gone(h)
      BY <1>7, <1>8, <1>11, <1>13, <3>1 DEF Gone
    <3>5. Children(h)' \ Gone(h)' = Children(h) \ Gone(h)
      BY <1>7, <3>4
    <3>6. Cardinality(Holding(h)') <= obj[h].implicit_ref_count
      BY <1>5, <1>9, <1>10, <2>5, <2>6
    <3>7. QED
      BY <1>10, <3>3, <3>5, <3>6
  <2>9. QED
    BY <2>7, <2>8
<1>14. QED
  BY <1>12, <1>13

LEMMA CreatedCounts ==
  ASSUME CountsFit, CountInv, env' = env, CreatedTo(obj')
  PROVE  CountInv'
<1>1. IcdInv /\ IcdInv' /\ Kept
  BY CreatedInv DEF CountInv
<1>2. PICK n \in Nat, object \in Object, counts \in [Objects -> Nat] :
        NewOK(n, object, counts) /\ obj' = With(n, object, counts)
  BY DEF CreatedTo
<1> DEFINE new == ToSet(New(n))
<1>3. /\ new \subseteq Objects /\ \A c \in new : obj'[c] = object
      /\ \A c \in Known : CreatedAt(object, counts, c, obj'[c])
      /\ \A c \in Objects \ (Known \cup new) : obj'[c] = None
  BY <1>1, <1>2, CreatedStep
<1>4. new \cap Known = {} /\ IsFiniteSet(new) /\ Cardinality(new) = n
  BY <1>1, NewAddresses
<1> HIDE DEF new
<1>5. /\ object.ref_count = 1 /\ object.implicit_ref_count = 0 /\ object # None
      /\ ToSet(object.parents) \subseteq Known
      /\ object.referenced \subseteq ToSet(object.parents)
      /\ \A p \in object.referenced : IsDevice(obj[p]) \/ counts[p] = n
  BY <1>2, NoneIsNoObject DEF NewOK, ObjectOK
<1>6. \A c : c \in Known' <=> c \in Known \/ c \in new
  BY <1>1, <1>3, <1>5 DEF Known, Kept
<1>7. SUFFICES ASSUME Strict, NEW h \in Objects, Counted(h)'
               PROVE  /\ Cardinality(Holding(h)') <= obj'[h].implicit_ref_count
                      /\ obj'[h].implicit_ref_count <= Cardinality(Children(h)' \ Gone(h)')
  BY <1>1 DEF CountInv, Between, Strict, Kept
\* The children of p after the step.
<1>8. ASSUME NEW p
      PROVE  Children(p)' = Children(p) \cup {c \in new : p \in ToSet(object.parents)}
  <2>1. ASSUME NEW c \in Known PROVE c \in Children(p)' <=> c \in Children(p)
    <3>1. obj'[c].parents = obj[c].parents /\ c \in Known'
      BY <1>1, <1>6 DEF Kept
    <3>2. QED
      BY <3>1 DEF Children, Known
  <2>2. ASSUME NEW c \in new PROVE c \in Children(p)' <=> p \in ToSet(object.parents)
    <3>1. obj'[c].parents = object.parents /\ c \in Known'
      BY <1>3, <1>6
    <3>2. QED
      BY <3>1 DEF Children, Known
  <2>3. \A c \in Children(p)' : c \in Known \/ c \in new
    BY <1>6 DEF Children, Known
  <2>4. \A c \in Children(p) : c \in Known
    BY DEF Children, Known
  <2>5. QED
    BY <1>4, <2>1, <2>2, <2>3, <2>4
<1>9. Holding(h)' \in SUBSET Objects /\ Children(h)' \ Gone(h)' \in SUBSET Objects
  BY DEF Holding, Children
<1>10. /\ IsFiniteSet(Holding(h)') /\ Cardinality(Holding(h)') \in Nat
       /\ IsFiniteSet(Children(h)' \ Gone(h)') /\ Cardinality(Children(h)' \ Gone(h)') \in Nat
  BY <1>9, FiniteObjects
<1>11. CASE h \notin Known
  <2>1. h \in new
    BY <1>6, <1>7, <1>11 DEF Counted, Known
  <2>2. Children(h) = {}
    <3>1. \A c \in Known : ToSet(obj[c].parents) \subseteq Known
      BY <1>1 DEF IcdInv, ObjectOK
    <3>2. QED
      BY <1>11, <3>1 DEF Children, Known
  <2>3. Children(h)' = {}
    BY <1>5, <1>8, <1>11, <2>2
  <2>4. Holding(h)' = {}
    BY <2>3 DEF Holding
  <2>5. Cardinality(Holding(h)') = 0
    BY <2>4, FS_EmptySet
  <2>6. obj'[h].implicit_ref_count = 0
    BY <1>3, <1>5, <2>1
  <2>7. QED
    BY <1>10, <2>5, <2>6
<1>12. CASE h \in Known
  <2>1. Counted(h) /\ ~IsDevice(obj[h])
    BY <1>1, <1>7, <1>12, CountedBefore DEF Counted, IsDevice
  <2>2. /\ Cardinality(Holding(h)) <= obj[h].implicit_ref_count
        /\ obj[h].implicit_ref_count <= Cardinality(Children(h) \ Gone(h))
    BY <1>7, <1>12, <2>1 DEF CountInv, Between, Known
  <2>3. /\ Holding(h) \in SUBSET Objects /\ Children(h) \ Gone(h) \in SUBSET Objects
        /\ IsFiniteSet(Holding(h)) /\ IsFiniteSet(Children(h) \ Gone(h))
        /\ Cardinality(Holding(h)) \in Nat /\ Cardinality(Children(h) \ Gone(h)) \in Nat
    BY ChildrenObjects, FiniteObjects
  <2>4. obj[h].implicit_ref_count \in 0 .. UINT_RANGE - 1
    BY <1>1, <1>12, KnownObject
  <2>5. \A c \in Known : obj'[c].ref_count = obj[c].ref_count
    BY <1>3 DEF CreatedAt
  <2>6. \A c \in Children(h) : c \in Known /\ c \notin new
    BY <1>4 DEF Children, Known
  <2>7. Children(h) \ Gone(h) \subseteq Children(h)' \ Gone(h)'
    <3>1. SUFFICES ASSUME NEW c \in Children(h) \ Gone(h), c \in Gone(h)' PROVE FALSE
      BY <1>8
    <3>2. obj[c].ref_count = 0
      BY <2>5, <2>6, <3>1 DEF Gone
    <3>3. Children(c)' = {}
      BY <3>1 DEF Gone
    <3>4. Children(c) = {}
      BY <1>8, <3>3
    <3>5. QED
      BY <3>1, <3>2, <3>4 DEF Gone
  <2>8. CASE h \in object.referenced
    <3>1. h \in ToSet(object.parents) /\ counts[h] = n
      BY <1>5, <2>1, <2>8
    <3>2. Holding(h)' = Holding(h) \cup new
      BY <1>3, <1>5, <1>8, <2>5, <2>6, <3>1 DEF Holding
    <3>3. Cardinality(Holding(h)') = Cardinality(Holding(h)) + n
      <4>1. Holding(h) \cap new = {}
        BY <2>6 DEF Holding
      <4>2. Cardinality(Holding(h) \cap new) = 0
        BY <4>1, FS_EmptySet
      <4>3. Cardinality(Holding(h) \cup new) =
                Cardinality(Holding(h)) + Cardinality(new) - Cardinality(Holding(h) \cap new)
        BY <1>4, <2>3, FS_Union
      <4>4. QED
        BY <1>4, <2>3, <3>2, <4>2, <4>3
    <3>4. (Children(h) \ Gone(h)) \cup new \subseteq Children(h)' \ Gone(h)'
      BY <1>3, <1>5, <1>8, <2>7, <3>1 DEF Gone
    <3>5. Cardinality((Children(h) \ Gone(h)) \cup new) = Cardinality(Children(h) \ Gone(h)) + n
      <4>1. (Children(h) \ Gone(h)) \cap new = {}
        BY <2>6
      <4>2. Cardinality((Children(h) \ Gone(h)) \cap new) = 0
        BY <4>1, FS_EmptySet
      <4>3. Cardinality((Children(h) \ Gone(h)) \cup new) =
                Cardinality(Children(h) \ Gone(h)) + Cardinality(new)
                    - Cardinality((Children(h) \ Gone(h)) \cap new)
        BY <1>4, <2>3, FS_Union
      <4>4. QED
        BY <1>4, <2>3, <4>2, <4>3
    <3>6. Cardinality((Children(h) \ Gone(h)) \cup new) <= Cardinality(Children(h)' \ Gone(h)')
      BY <1>9, <3>4, Larger
    <3>7. Cardinality(Children(h)' \ Gone(h)') <= MaxObjects
      <4>1. Children(h)' \ Gone(h)' \subseteq 1 .. MaxObjects
        <5>1. SUFFICES ASSUME NEW c \in Children(h)' PROVE c # RootDevice
          BY <1>9, IcdConstants DEF Objects, RootDevice, Children
        <5>2. CASE c \in Children(h)
          <6>1. ~IsDevice(obj[c])
            BY <1>1, <1>12, <2>1, <5>2, ChildOfOther
          <6>2. QED
            BY <1>1, <6>1 DEF IcdInv, RootOK, IsDevice, Kinds
        <5>3. CASE c \in new
          BY <1>1, <1>4, <5>3, RootKnown
        <5>4. QED
          BY <1>8, <5>1, <5>2, <5>3
      <4>2. MaxObjects \in Int /\ 1 \in Int
        BY IcdConstants
      <4>3. IsFiniteSet(1 .. MaxObjects)
            /\ Cardinality(1 .. MaxObjects) = IF 1 > MaxObjects THEN 0 ELSE MaxObjects - 1 + 1
        BY <4>2, FS_Interval
      <4>4. Cardinality(1 .. MaxObjects) = MaxObjects
        BY <4>3, IcdConstants
      <4>5. Cardinality(Children(h)' \ Gone(h)') <= Cardinality(1 .. MaxObjects)
        BY <4>1, <4>3, FS_Subset
      <4>6. QED
        BY <4>4, <4>5
    <3>8. obj'[h].implicit_ref_count = UInt(obj[h].implicit_ref_count + n)
      BY <1>3, <1>12, <2>8, <3>1 DEF CreatedAt
    <3>9. obj[h].implicit_ref_count + n <= Cardinality(Children(h)' \ Gone(h)')
      BY <1>10, <2>2, <2>3, <2>4, <3>5, <3>6, IcdConstants
    <3>10. obj[h].implicit_ref_count + n \in 0 .. UINT_RANGE - 1
      BY <1>10, <2>4, <3>7, <3>9, IcdConstants DEF CountsFit
    <3>11. obj'[h].implicit_ref_count = obj[h].implicit_ref_count + n
      BY <3>8, <3>10, IcdConstants DEF UInt
    <3>12. Cardinality(Holding(h)) + n <= obj[h].implicit_ref_count + n
      BY <2>2, <2>3, <2>4, IcdConstants
    <3>13. QED
      BY <3>3, <3>9, <3>11, <3>12
  <2>9. CASE h \notin object.referenced
    <3>1. obj'[h].implicit_ref_count = obj[h].implicit_ref_count
      BY <1>3, <1>12, <2>9 DEF CreatedAt
    <3>2. \A c \in new : h \notin ToSet(object.parents)
      <4>1. SUFFICES ASSUME NEW c \in new, h \in ToSet(object.parents) PROVE FALSE
        OBVIOUS
      <4>2. c \in Children(h)' /\ obj'[c] = object
        BY <1>3, <1>8, <4>1
      <4>3. QED
        BY <1>7, <2>9, <4>2 DEF Counted
    <3>3. Holding(h)' = Holding(h)
      BY <1>8, <2>5, <2>6, <3>2 DEF Holding
    <3>4. Cardinality(Children(h) \ Gone(h)) <= Cardinality(Children(h)' \ Gone(h)')
      BY <1>9, <2>7, Larger
    <3>5. obj[h].implicit_ref_count <= Cardinality(Children(h)' \ Gone(h)')
      BY <1>10, <2>2, <2>3, <2>4, <3>4, IcdConstants
    <3>6. QED
      BY <2>2, <3>1, <3>3, <3>5
  <2>10. QED
    BY <2>8, <2>9
<1>13. QED
  BY <1>11, <1>12

LEMMA InitCounts == ASSUME Init PROVE CountInv
<1>1. IcdInv
  BY InitInv
<1>2. ASSUME NEW h \in Objects PROVE ~Counted(h)
  <2>1. obj[h] # None => obj[h].type = "DEVICE"
    BY DEF Init, NewObject
  <2>2. QED
    BY <2>1 DEF Counted, Kinds
<1>3. QED
  BY <1>1, <1>2 DEF CountInv, Between

LEMMA NextCounts == ASSUME CountsFit, CountInv, [Next]_icdvars PROVE CountInv'
<1>1. CASE Next
  <2>1. PICK r : Outcome(r) /\ Answer(r)
    BY <1>1, NextEffect DEF Effect, CountInv
  <2>2. obj' = r.obj /\ env' = env
    BY <2>1 DEF Answer
  <2>3. obj' = obj \/ RetainedTo(obj') \/ ReleasedTo(obj') \/ CreatedTo(obj')
    BY <2>1, <2>2 DEF Outcome
  <2>4. QED
    BY <2>2, <2>3, QuietCounts, RetainedCounts, ReleasedCounts, CreatedCounts
<1>2. CASE UNCHANGED icdvars
  BY <1>2, QuietCounts DEF icdvars
<1>3. QED
  BY <1>1, <1>2

\* With fewer objects than a cl_uint counts, and as many explicit references,
\* the implicit counter of ref_counted_object lies between the children that
\* have explicit references and those that may still be counted: it never wraps
\* around, in whatever order objects are created, retained and released.
THEOREM IcdImplicitBetween == CountsFit /\ Spec => []ImplicitBetween
<1>1. Init => CountInv
  BY InitCounts
<1>2. CountsFit /\ CountInv /\ [Next]_icdvars => CountInv'
  BY NextCounts
<1>3. CountInv => ImplicitBetween
  BY DEF CountInv, Between, Holding, Gone, ImplicitBetween
<1>4. CountsFit => CountsFit'
  BY DEF CountsFit
<1>5. QED
  BY <1>1, <1>2, <1>3, <1>4, PTL DEF Spec
=============================================================================
