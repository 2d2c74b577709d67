----------------------------- MODULE SystemProofs -----------------------------
(***************************************************************************)
(* Application threads, tracker and driver together.  As long as the       *)
(* application passes what it holds, what the tracker knows, what the      *)
(* driver keeps and what the threads hold agree at every step of every     *)
(* interleaving, for any number of threads and handles.                    *)
(***************************************************************************)
EXTENDS LayeredSystem, ConformingProofs, FoldProofs

\* An application that uses what it holds, a driver that does not fail, and
\* none of the calls the layer is known to be wrong about.
LegalUse ==
    /\ Legal /\ ~NullPointers /\ MayFail = {}
    /\ Used \cap {clGetEventInfo, clCreateEventFromEGLSyncKHR, clCreateContextFromType} = {}
    /\ \A properties \in PropertyLists :
         WantsDefault(properties) => QueuePropertiesIsOnDeviceDefault(properties)
    /\ BoundedSeq(Handles, MaxList) \subseteq ParentLists
    /\ \A h \in Handles : <<h>> \in ParentLists

-----------------------------------------------------------------------------
(***************************************************************************)
(* The driver's objects.                                                   *)
(***************************************************************************)

DeviceTypes == {"DEVICE", "SUB_DEVICE"}

InContext(h) == drv[h].type \notin DeviceTypes \cup {"PLATFORM"}

\* An object in a context is made from one other object in it.
KindOK(h) ==
    /\ drv[h].type \in RootTypes <=> h \in Roots
    /\ drv[h].on \in ParentLists
    /\ \A p \in Elements(drv[h].on) : DriverHas(p)
    /\ drv[h].type = "CONTEXT" => drv[h].context = h /\ drv[h].on # <<>>
    /\ InContext(h) =>
         /\ DriverHas(drv[h].context) /\ drv[drv[h].context].type = "CONTEXT"
         /\ drv[h].type # "CONTEXT" =>
              \E p \in Handles : /\ drv[h].on = <<p>> /\ InContext(p)
                                 /\ drv[h].context = drv[p].context
    /\ ~InContext(h) => drv[h].context = None
    /\ drv[h].default => drv[h].type = "COMMAND_QUEUE"
    /\ drv[h].type = "SUB_DEVICE" => \E p \in Handles : drv[h].on = <<p>>
    /\ drv[h].type = "EVENT" => drv[drv[h].on[1]].type \in {"CONTEXT", "COMMAND_QUEUE"}
    /\ drv[h].type = "COMMAND_QUEUE" => drv[drv[h].on[1]].type = "CONTEXT"

\* Nothing is made from itself, directly or not.
WellFounded ==
    \A S \in SUBSET Handles : S # {} =>
        \E m \in S : DriverHas(m) => Elements(drv[m].on) \cap S = {}

Structure == WellFounded /\ \A h \in Handles : DriverHas(h) => KindOK(h)

RootsKept ==
    \A h \in Roots :
        /\ drv[h] = RootObject(h)
        /\ Tracked(h) => objects[h].refcount = 0
        /\ leaks = None /\ (\E t \in Threads : own[t][h] > 0) => Tracked(h)

-----------------------------------------------------------------------------
(***************************************************************************)
(* The records are those of the driver's objects.                          *)
(***************************************************************************)

\* What the record of an object has for parents.
RecordedBelow(h) == IF drv[h].type = "EVENT" THEN <<drv[h].context>> ELSE drv[h].on

Known(h) == Tracked(h) \/ Framed(h)

Linked(h) ==
    /\ Known(h) => DriverHas(h)
    /\ Tracked(h) => /\ objects[h].type = drv[h].type
                     /\ objects[h].parents = RecordedBelow(h)
    /\ Framed(h) => frames[h].parents = RecordedBelow(h)

Links == \A h \in Handles \ {Null} : Linked(h)

\* NULL is nobody's.  clGetImageInfo may have made a record of it: a buffer
\* without parents and without references.
NullOK ==
    /\ ~DriverHas(Null) /\ ~Framed(Null)
    /\ \A t \in Threads : own[t][Null] = 0
    /\ Tracked(Null) => /\ objects[Null].type = "BUFFER" /\ objects[Null].parents = <<>>
                        /\ objects[Null].refcount = 0

-----------------------------------------------------------------------------
(***************************************************************************)
(* The calls.                                                              *)
(***************************************************************************)

ArgumentOK(t, a, hs) ==
    /\ hs \in Seq(Handles \cup {None})
    /\ a.check = "list" => Len(hs) <= MaxList
    /\ a.check # "list" => Len(hs) = 1 \/ (a.null /\ hs = <<>>)
    /\ \A h \in Elements(hs) :
         \/ h = None /\ a.type = "PLATFORM"
         \/ /\ DriverHas(h) /\ drv[h].type \in Accepted(a.type)
            /\ a.check # "release" => own[t][h] > 0

\* A new object only its maker knows of.
Fresh(h) == drv[h].refs = 1 /\ ~drv[h].default /\ ~InUse(h) /\ ~Known(h)

\* What a query on h can answer.
Related(h, q) ==
    /\ DriverHas(h)
    /\ \/ q \in Elements(drv[h].on)
       \/ /\ InContext(h)
          /\ q = drv[h].context \/ q \in Elements(drv[drv[h].context].on)

MadeOK(t) ==
    LET c == call[t]
        r == c.result
    IN  c.fn.makes # NOTHING =>
            /\ \A h \in Elements(c.made) : h \in Pool /\ DriverHas(h) /\ drv[h].type = c.fn.makes
            /\ c.stage = "post" =>
                 /\ IsInjective(c.made)
                 /\ r.check # "list" => Len(c.made) = 1
                 /\ \A h \in Elements(c.made) :
                      /\ LayerParents(t, r, h) = RecordedBelow(h)
                      /\ \A p \in Elements(RecordedBelow(h)) :
                           own[t][p] > 0 \/ Related(Argument1(t), p)
                      /\ r.check # "create or exists" => Fresh(h)

AnswerOK(t) ==
    LET c == call[t]
        r == c.result
    IN  /\ r.check = "roots" =>
             \E h \in Roots : /\ c.made = <<h>> /\ drv[h].type = r.type
                              /\ c.stage = "return" => Tracked(h)
        /\ r.check = "add" /\ c.stage = "post" =>
             \/ \A h \in Elements(c.made) :
                   Related(Argument1(t), h) /\ RecordedType(r, h) = drv[h].type
             \/ c.made = <<Null>> /\ r = AddOrExists("BUFFER", "get_parent")

CallOK(t) ==
    LET c == call[t]
    IN  /\ c.stage # "crashed"
        /\ Len(c.args) <= Len(c.fn.arguments)
        /\ \A i \in DOMAIN c.args : ArgumentOK(t, c.fn.arguments[i], c.args[i])
        /\ c.stage = "check" => c.result = None /\ c.made = <<>>
        /\ c.stage # "check" =>
             /\ Len(c.args) = Len(c.fn.arguments)
             /\ c.result \in c.fn.results /\ c.made # <<>>
             /\ MadeOK(t) /\ AnswerOK(t)

Calls == \A t \in Threads : call[t] # None => CallOK(t)

-----------------------------------------------------------------------------
(***************************************************************************)
(* The balance.                                                            *)
(***************************************************************************)

\* A call that retains or releases h, in front of the driver.
Requesting(t, op, h) ==
    /\ call[t] # None /\ call[t].stage = "check" /\ call[t].args # <<>>
    /\ Counting(call[t].fn) = op /\ Argument1(t) = h

\* A call that is about to return h to the application as a new object, and
\* whether the tracker has yet to be told of it.
Making(t, h) == call[t] # None /\ call[t].fn.makes # NOTHING /\ h \in Elements(call[t].made)

ToRegister(t, h) ==
    /\ Making(t, h)
    /\ \/ call[t].stage = "post"
       \/ Holds(t) /\ \E p \in Elements(mutex.todo) : p.handle = h

One(b) == IF b THEN 1 ELSE 0

DriverShare(t, h) == own[t][h] + One(Requesting(t, "release", h)) + One(Making(t, h))

TrackerShare(t, h) ==
    own[t][h] + One(Requesting(t, "retain", h)) + One(Making(t, h) /\ ~ToRegister(t, h))

Total(f) == SumFunctionOnSet(f, Threads)

Refs(h) == IF DriverHas(h) THEN drv[h].refs ELSE 0

CountOf(h) == IF Tracked(h) THEN objects[h].refcount ELSE 0

DriverBalance(h) == Refs(h) = Total([t \in Threads |-> DriverShare(t, h)])

TrackerBalance(h) == CountOf(h) = Total([t \in Threads |-> TrackerShare(t, h)])

Balance == \A h \in Pool : DriverBalance(h) /\ (leaks = None => TrackerBalance(h))

-----------------------------------------------------------------------------
(***************************************************************************)
(* Who holds the mutex, and the end of the program.                        *)
(***************************************************************************)

PendingOK(t, p) ==
    /\ p.handle \in Elements(call[t].made)
    /\ p.new.type = drv[p.handle].type
    /\ p.new.parents = RecordedBelow(p.handle)

MutexOK ==
    mutex # None =>
        /\ call[mutex.owner] # None
        /\ mutex.stack # <<>> =>
             /\ mutex.stack[1] \in Pool
             /\ Requesting(mutex.owner, "release", mutex.stack[1])
        /\ \A i \in DOMAIN mutex.stack :
             i > 1 => mutex.stack[i] \in Elements(frames[mutex.stack[i - 1]].parents)
        /\ mutex.stack = <<>> =>
             call[mutex.owner].stage = "return" /\ call[mutex.owner].fn.makes # NOTHING
        /\ \A i \in DOMAIN mutex.todo : PendingOK(mutex.owner, mutex.todo[i])

AfterExit ==
    leaks # None =>
        /\ mutex = None /\ \A t \in Threads : call[t] = None
        /\ \A h \in Handles : ~Tracked(h)
        /\ LeakReportExact

SysInv ==
    /\ ExactInv({Null}) /\ SysTypeOK /\ NoFalsePositive
    /\ Structure /\ RootsKept /\ Links /\ NullOK
    /\ Calls /\ Balance /\ MutexOK /\ AfterExit

-----------------------------------------------------------------------------
(***************************************************************************)
(* The shapes of the entry points.                                         *)
(***************************************************************************)

\* Arguments that are not counted.
Plain == [check: {"exists", "list", "unchecked"}, type: ObjectTypes,
          null: BOOLEAN, bare: BOOLEAN]

\* What a new object of a type is made from, and where its record's parents
\* come from.
MadeBelow(made, from, parents) ==
    \/ made = "SUB_DEVICE" /\ from = "DEVICE" /\ parents = "argument"
    \/ made = "EVENT" /\ from = "COMMAND_QUEUE" /\ parents = "get_parent"
    \/ made = "EVENT" /\ from = "CONTEXT" /\ parents = "argument"
    \/ made = "COMMAND_QUEUE" /\ from = "CONTEXT" /\ parents = "argument"
    \/ /\ made \in {"BUFFER", "IMAGE", "PIPE", "PROGRAM", "KERNEL", "SAMPLER"}
       /\ from \in {"CONTEXT", "BUFFER", "PROGRAM"}
       /\ parents \in {"argument", "get_parent"}

\* What a query on an object of type T records.
Answered(T, r) ==
    /\ r.check = "add"
    /\ \/ r.type = "DEVICE" /\ r.parents = "get_parent_device"
       \/ r.type = "CONTEXT" /\ r.parents = "get_parent_devices"
       \/ /\ r.type \in {"BUFFER", "IMAGE", "PIPE", "PROGRAM"}
          /\ r.parents \in {"argument", "get_parent"}
          /\ T \in {"MEM", "IMAGE", "KERNEL"}

QueriedTypes == {"CONTEXT", "COMMAND_QUEUE", "MEM", "IMAGE", "SAMPLER", "PROGRAM", "KERNEL"}

CountingShape(fn) ==
    \E op \in {"retain", "release"}, T \in ObjectTypes \ {"PLATFORM"} :
        fn = EntryPoint(<<Argument(op, T, FALSE, FALSE)>>, NOTHING, {})

UseShape(fn) == fn.arguments \in Seq(Plain) /\ fn.makes = NOTHING /\ fn.results = {}

ListShape(fn) ==
    /\ fn.arguments \in Seq(Plain) /\ fn.makes = NOTHING
    /\ \E T \in RootTypes : fn.results = {Result("roots", T, "none", FALSE)}

QueryShape(fn) ==
    \E T \in QueriedTypes : /\ fn.arguments = <<Exists(T)>> /\ fn.makes = NOTHING
                            /\ \A r \in fn.results : Answered(T, r)

CreateShape(fn) ==
    /\ fn.arguments \in Seq(Plain) /\ fn.arguments # <<>>
    /\ fn.arguments[1].check = "exists" /\ ~fn.arguments[1].null
    /\ \E r : /\ fn.results = {r} /\ r.type = fn.makes
              /\ r.check \in {"creation", "list"}
              /\ r.check = "list" => r.parents = "argument"
              /\ MadeBelow(fn.makes, fn.arguments[1].type, r.parents)

\* Entry points with a rule of their own.
Special == {clCreateContext, clCloneKernel, clCreateImage, clCreateImageWithProperties,
            clCreateCommandQueueWithProperties}

Shape(fn) ==
    \/ fn \in Special
    \/ CountingShape(fn) \/ UseShape(fn) \/ ListShape(fn) \/ QueryShape(fn)
    \/ CreateShape(fn)

LEMMA PlainArguments ==
    ASSUME NEW T \in ObjectTypes
    PROVE  /\ Exists(T) \in Plain /\ ExistsErrc(T) \in Plain /\ ExistList(T) \in Plain
           /\ ExistListErrc(T) \in Plain /\ Unchecked(T) \in Plain
           /\ IfGiven(Exists(T)) \in Plain /\ IfGiven(ExistsErrc(T)) \in Plain
BY DEF Plain, Exists, ExistsErrc, ExistList, ExistListErrc, Unchecked, IfGiven, Argument

LEMMA AllTypes ==
    /\ "PLATFORM" \in ObjectTypes /\ "DEVICE" \in ObjectTypes /\ "SUB_DEVICE" \in ObjectTypes
    /\ "CONTEXT" \in ObjectTypes /\ "COMMAND_QUEUE" \in ObjectTypes /\ "MEM" \in ObjectTypes
    /\ "BUFFER" \in ObjectTypes /\ "IMAGE" \in ObjectTypes /\ "PIPE" \in ObjectTypes
    /\ "PROGRAM" \in ObjectTypes /\ "KERNEL" \in ObjectTypes /\ "EVENT" \in ObjectTypes
    /\ "SAMPLER" \in ObjectTypes
    /\ "PLATFORM" \in RootTypes /\ "DEVICE" \in RootTypes
BY DEF ObjectTypes, RootTypes

LEMMA PlainLists ==
    ASSUME NEW S \in ObjectTypes, NEW T \in ObjectTypes, NEW U \in ObjectTypes
    PROVE  /\ <<>> \in Seq(Plain) /\ <<Exists(S)>> \in Seq(Plain) /\ <<ExistList(S)>> \in Seq(Plain)
           /\ <<Exists(S), Exists(T)>> \in Seq(Plain)
           /\ <<Exists(S), ExistList(T)>> \in Seq(Plain)
           /\ <<Exists(S), IfGiven(Exists(T))>> \in Seq(Plain)
           /\ <<Exists(S), Exists(T), Exists(U)>> \in Seq(Plain)
           /\ <<Exists(S), ExistList(T), Unchecked(U)>> \in Seq(Plain)
<1>1. /\ Exists(S) \in Plain /\ Exists(T) \in Plain /\ Exists(U) \in Plain
      /\ ExistList(T) \in Plain /\ ExistList(S) \in Plain /\ Unchecked(U) \in Plain
      /\ IfGiven(Exists(T)) \in Plain
  BY PlainArguments
<1>. QED  BY <1>1

LEMMA UsesShape ==
    ASSUME NEW arguments \in Seq(Plain)
    PROVE  Shape(Uses(arguments))
BY DEF Shape, UseShape, Uses, EntryPoint

LEMMA RetainsShape ==
    ASSUME NEW T \in ObjectTypes, T # "PLATFORM"
    PROVE  Shape(Retains(T)) /\ Shape(Releases(T))
<1>1. /\ Retains(T) = EntryPoint(<<Argument("retain", T, FALSE, FALSE)>>, NOTHING, {})
      /\ Releases(T) = EntryPoint(<<Argument("release", T, FALSE, FALSE)>>, NOTHING, {})
  BY DEF Retains, Releases, Uses
<1>. QED  BY <1>1 DEF Shape, CountingShape

LEMMA ListsShape ==
    ASSUME NEW arguments \in Seq(Plain), NEW T \in RootTypes
    PROVE  Shape(Lists(arguments, T))
BY DEF Shape, ListShape, Lists, EntryPoint

\* Reading num_devices after the driver's call changes nothing of the shape.
LEMMA ReadsCountShape ==
    ASSUME NEW arguments, NEW makes, NEW results,
           ListShape(EntryPoint(arguments, makes, results))
           \/ CreateShape(EntryPoint(arguments, makes, results))
    PROVE  Shape(ReadsCount(EntryPoint(arguments, makes, results)))
<1> DEFINE fn == EntryPoint(arguments, makes, results)
<1>1. /\ ReadsCount(fn).arguments = fn.arguments /\ ReadsCount(fn).makes = fn.makes
      /\ ReadsCount(fn).results = fn.results
  BY DEF ReadsCount, EntryPoint
<1> HIDE DEF fn
<1>2. ListShape(fn) => ListShape(ReadsCount(fn))
  BY <1>1 DEF ListShape
<1>3. CreateShape(fn) => CreateShape(ReadsCount(fn))
  BY <1>1 DEF CreateShape
<1>. QED  BY <1>2, <1>3 DEF Shape, fn

LEMMA CountedListsShape ==
    ASSUME NEW arguments \in Seq(Plain), NEW T \in RootTypes
    PROVE  Shape(ReadsCount(Lists(arguments, T)))
<1>1. ListShape(Lists(arguments, T))
  BY DEF ListShape, Lists, EntryPoint
<1>. QED  BY <1>1, ReadsCountShape DEF Lists

LEMMA QueriesShape ==
    ASSUME NEW T \in QueriedTypes, NEW results, \A r \in results : Answered(T, r)
    PROVE  Shape(Queries(T, results))
BY DEF Shape, QueryShape, Queries, EntryPoint

LEMMA CreatesShape ==
    ASSUME NEW a \in Plain, NEW b \in Plain, NEW c \in Plain,
           a.check = "exists", ~a.null, NEW result, result.check \in {"creation", "list"},
           result.check = "list" => result.parents = "argument",
           MadeBelow(result.type, a.type, result.parents)
    PROVE  /\ Shape(Creates(<<a>>, result)) /\ Shape(Creates(<<a, b>>, result))
           /\ Shape(Creates(<<a, b, c>>, result))
<1>1. /\ <<a>> \in Seq(Plain) /\ <<a, b>> \in Seq(Plain) /\ <<a, b, c>> \in Seq(Plain)
      /\ <<a>>[1] = a /\ <<a, b>>[1] = a /\ <<a, b, c>>[1] = a
      /\ <<a>> # <<>> /\ <<a, b>> # <<>> /\ <<a, b, c>> # <<>>
  OBVIOUS
<1>2. ASSUME NEW args \in Seq(Plain), args # <<>>, args[1] = a
      PROVE  CreateShape(Creates(args, result))
  BY <1>2 DEF CreateShape, Creates, EntryPoint
<1>. QED  BY <1>1, <1>2 DEF Shape

\* The first argument is an object of type S, what is made an object of type T.
LEMMA CreatesBelowShape ==
    ASSUME NEW S \in ObjectTypes, NEW T \in ObjectTypes, NEW U \in ObjectTypes,
           NEW V \in ObjectTypes, NEW parents, MadeBelow(T, S, parents)
    PROVE  /\ Shape(Creates(<<ExistsErrc(S)>>, Creation(T, parents)))
           /\ parents = "argument" => Shape(Creates(<<Exists(S)>>, CreationList(T, parents)))
           /\ Shape(Creates(<<ExistsErrc(S), Unchecked(U)>>, Creation(T, parents)))
           /\ Shape(Creates(<<ExistsErrc(S), ExistListErrc(U)>>, Creation(T, parents)))
           /\ Shape(Creates(<<ExistsErrc(S), ExistsErrc(U), ExistListErrc(V)>>, Creation(T, parents)))
           /\ Shape(Creates(<<ExistsErrc(S), ExistListErrc(U), ExistListErrc(V)>>,
                            Creation(T, parents)))
<1> DEFINE a == ExistsErrc(S)
           r == Creation(T, parents)
           l == CreationList(T, parents)
<1>1. a \in Plain /\ a.check = "exists" /\ ~a.null /\ a.type = S /\ a = Exists(S)
  BY PlainArguments DEF ExistsErrc, Exists, Argument
<1>2. /\ r.check = "creation" /\ r.type = T /\ r.parents = parents
      /\ l.check = "list" /\ l.type = T /\ l.parents = parents
  BY DEF Creation, CreationList, Result
<1> HIDE DEF a, r, l
<1>3. ASSUME NEW b \in Plain, NEW c \in Plain
      PROVE  /\ Shape(Creates(<<a>>, r)) /\ Shape(Creates(<<a, b>>, r))
             /\ Shape(Creates(<<a, b, c>>, r))
             /\ parents = "argument" => Shape(Creates(<<a>>, l))
  BY <1>1, <1>2, <1>3, CreatesShape
<1>4. /\ Unchecked(U) \in Plain /\ ExistsErrc(U) \in Plain /\ ExistListErrc(U) \in Plain
      /\ ExistListErrc(V) \in Plain
  BY PlainArguments
<1>5. /\ Shape(Creates(<<a>>, r))
      /\ parents = "argument" => Shape(Creates(<<a>>, l))
      /\ Shape(Creates(<<a, Unchecked(U)>>, r))
  BY <1>3, <1>4
<1>6. Shape(Creates(<<a, ExistListErrc(U)>>, r))
  BY <1>3, <1>4
<1>7. /\ Shape(Creates(<<a, ExistsErrc(U), ExistListErrc(V)>>, r))
      /\ Shape(Creates(<<a, ExistListErrc(U), ExistListErrc(V)>>, r))
  BY <1>3, <1>4
<1>. QED  BY <1>1, <1>5, <1>6, <1>7 DEF a, r, l

LEMMA CountedSubDevicesShape ==
    ASSUME MadeBelow("SUB_DEVICE", "DEVICE", "argument")
    PROVE  Shape(ReadsCount(Creates(<<Exists("DEVICE")>>, CreationList("SUB_DEVICE", "argument"))))
<1> DEFINE a == Exists("DEVICE")
           l == CreationList("SUB_DEVICE", "argument")
<1>1. a \in Plain /\ a.check = "exists" /\ ~a.null /\ a.type = "DEVICE"
  BY PlainArguments, AllTypes DEF Exists, Argument
<1>2. l.check = "list" /\ l.type = "SUB_DEVICE" /\ l.parents = "argument"
  BY DEF CreationList, Result
<1> HIDE DEF a, l
<1>3. CreateShape(Creates(<<a>>, l))
  <2>1. <<a>> \in Seq(Plain) /\ <<a>> # <<>> /\ <<a>>[1] = a
    BY <1>1
  <2>. QED  BY <1>1, <1>2, <2>1 DEF CreateShape, Creates, EntryPoint
<1>. QED  BY <1>3, ReadsCountShape DEF Creates, a, l

LEMMA CreatesInContextShape ==
    ASSUME NEW T \in {"BUFFER", "IMAGE", "PIPE", "PROGRAM", "SAMPLER", "EVENT"}
    PROVE  Shape(CreatesInContext(T))
<1>1. MadeBelow(T, "CONTEXT", "argument")
  BY DEF MadeBelow
<1>2. T \in ObjectTypes
  BY AllTypes
<1>. QED  BY <1>1, <1>2, AllTypes, CreatesBelowShape DEF CreatesInContext

\* Commands return an event below the context of their queue.
LEMMA CommandsShape ==
    ASSUME NEW all \in Seq(Plain), all # <<>>, all[1] = Exists("COMMAND_QUEUE")
    PROVE  Shape(Commands(all))
<1> DEFINE q == Exists("COMMAND_QUEUE")
           r == Creation("EVENT", "get_parent")
<1>1. q.check = "exists" /\ ~q.null /\ q.type = "COMMAND_QUEUE"
  BY DEF Exists, Argument
<1>2. r.check = "creation" /\ r.type = "EVENT" /\ r.parents = "get_parent"
  BY DEF Creation, Result
<1>3. MadeBelow("EVENT", "COMMAND_QUEUE", "get_parent")
  BY DEF MadeBelow
<1> HIDE DEF q, r
<1>4. all[1] = q
  BY DEF q
<1>5. CreateShape(Creates(all, r))
  BY <1>1, <1>2, <1>3, <1>4 DEF CreateShape, Creates, EntryPoint
<1>. QED  BY <1>5 DEF Commands, Shape, r

LEMMA EnqueuesShape ==
    ASSUME NEW arguments \in Seq(Plain)
    PROVE  Shape(Enqueues(arguments))
<1> DEFINE q == Exists("COMMAND_QUEUE")
           l == ExistList("EVENT")
           all == <<q>> \o arguments \o <<l>>
<1>1. l \in Plain /\ q \in Plain
  BY PlainArguments, AllTypes
<1> HIDE DEF q, l
<1>2. <<q>> \in Seq(Plain) /\ <<l>> \in Seq(Plain) /\ Len(<<q>>) = 1 /\ <<q>>[1] = q /\ Len(<<l>>) = 1
  BY <1>1
<1>3. /\ <<q>> \o arguments \in Seq(Plain) /\ Len(<<q>> \o arguments) > 0
      /\ (<<q>> \o arguments)[1] = q
  BY <1>2
<1>4. all \in Seq(Plain) /\ Len(all) > 0 /\ all[1] = q
  BY <1>2, <1>3
<1>5. all # <<>>
  BY <1>4
<1> HIDE DEF all
<1>6. Shape(Commands(all))
  BY <1>4, <1>5, CommandsShape DEF q
<1>. QED  BY <1>6 DEF Enqueues, all, q, l

\* Every entry point of a legal use has one of the shapes.
LEMMA UsedShapes ==
    ASSUME LegalUse
    PROVE  \A fn \in Used : Shape(fn)
<1>1. \A fn \in {clGetPlatformIDs, clGetDeviceIDs, clGetGLContextInfoKHR,
      clGetDeviceIDsFromD3D10KHR, clGetDeviceIDsFromD3D11KHR,
      clGetDeviceIDsFromDX9MediaAdapterKHR} : Shape(fn)
  <2>1. Shape(clGetPlatformIDs) /\ Shape(clGetDeviceIDs)
    BY CountedListsShape, PlainLists, AllTypes DEF clGetPlatformIDs, clGetDeviceIDs
  <2>2. Shape(clGetGLContextInfoKHR) /\ Shape(clGetDeviceIDsFromD3D10KHR)
    BY ListsShape, CountedListsShape, PlainLists, AllTypes
       DEF clGetGLContextInfoKHR, clGetDeviceIDsFromD3D10KHR
  <2>3. /\ Shape(clGetDeviceIDsFromD3D11KHR)
        /\ Shape(clGetDeviceIDsFromDX9MediaAdapterKHR)
    BY CountedListsShape, PlainLists, AllTypes
       DEF clGetDeviceIDsFromD3D11KHR, clGetDeviceIDsFromDX9MediaAdapterKHR
  <2>. QED  BY <2>1, <2>2, <2>3
<1>2. \A fn \in {clGetPlatformInfo, clGetDeviceInfo, clSetCommandQueueProperty,
      clGetSupportedImageFormats, clBuildProgram, clGetProgramBuildInfo,
      clSetKernelArg, clGetKernelWorkGroupInfo} : Shape(fn)
  BY UsesShape, PlainLists, AllTypes
     DEF clGetPlatformInfo, clGetDeviceInfo, clSetCommandQueueProperty,
         clGetSupportedImageFormats, clBuildProgram, clGetProgramBuildInfo,
         clSetKernelArg, clGetKernelWorkGroupInfo
<1>3. \A fn \in {clWaitForEvents, clGetEventProfilingInfo, clFlush, clFinish,
      clEnqueueWaitForEvents, clEnqueueBarrier, clGetGLObjectInfo,
      clGetGLTextureInfo} : Shape(fn)
  BY UsesShape, PlainLists, AllTypes
     DEF clWaitForEvents, clGetEventProfilingInfo, clFlush, clFinish,
         clEnqueueWaitForEvents, clEnqueueBarrier, clGetGLObjectInfo,
         clGetGLTextureInfo
<1>4. \A fn \in {clSetEventCallback, clSetMemObjectDestructorCallback,
      clSetUserEventStatus, clCompileProgram, clUnloadPlatformCompiler,
      clGetKernelArgInfo, clGetExtensionFunctionAddressForPlatform, clGetPipeInfo} :
      Shape(fn)
  BY UsesShape, PlainLists, AllTypes
     DEF clSetEventCallback, clSetMemObjectDestructorCallback,
         clSetUserEventStatus, clCompileProgram, clUnloadPlatformCompiler,
         clGetKernelArgInfo, clGetExtensionFunctionAddressForPlatform, clGetPipeInfo
<1>5. \A fn \in {clSVMAlloc, clSVMFree, clSetKernelArgSVMPointer,
      clSetKernelExecInfo, clGetKernelSubGroupInfoKHR, clGetDeviceAndHostTimer,
      clGetHostTimer, clGetKernelSubGroupInfo} : Shape(fn)
  BY UsesShape, PlainLists, AllTypes
     DEF clSVMAlloc, clSVMFree, clSetKernelArgSVMPointer, clSetKernelExecInfo,
         clGetKernelSubGroupInfoKHR, clGetDeviceAndHostTimer, clGetHostTimer,
         clGetKernelSubGroupInfo
<1>6. \A fn \in {clSetDefaultDeviceCommandQueue, clSetProgramReleaseCallback,
      clSetProgramSpecializationConstant, clSetContextDestructorCallback} :
      Shape(fn)
  BY UsesShape, PlainLists, AllTypes
     DEF clSetDefaultDeviceCommandQueue, clSetProgramReleaseCallback,
         clSetProgramSpecializationConstant, clSetContextDestructorCallback
<1>7. \A fn \in {clRetainContext, clRetainCommandQueue, clRetainMemObject,
      clRetainSampler, clRetainProgram, clRetainKernel, clRetainEvent,
      clRetainDeviceEXT} : Shape(fn)
  BY RetainsShape, AllTypes
     DEF clRetainContext, clRetainCommandQueue, clRetainMemObject, clRetainSampler,
         clRetainProgram, clRetainKernel, clRetainEvent, clRetainDeviceEXT
<1>8. \A fn \in {clRetainDevice} : Shape(fn)
  BY RetainsShape, AllTypes
     DEF clRetainDevice
<1>9. \A fn \in {clReleaseContext, clReleaseCommandQueue, clReleaseMemObject,
      clReleaseSampler, clReleaseProgram, clReleaseKernel, clReleaseEvent,
      clReleaseDeviceEXT} : Shape(fn)
  BY RetainsShape, AllTypes
     DEF clReleaseContext, clReleaseCommandQueue, clReleaseMemObject,
         clReleaseSampler, clReleaseProgram, clReleaseKernel, clReleaseEvent,
         clReleaseDeviceEXT
<1>10. \A fn \in {clReleaseDevice} : Shape(fn)
  BY RetainsShape, AllTypes
     DEF clReleaseDevice
<1>11. \A fn \in {clCreateBuffer, clCreateImage2D, clCreateImage3D, clCreateSampler,
       clCreateProgramWithSource, clCreateFromGLBuffer, clCreateFromGLTexture2D,
       clCreateFromGLTexture3D} : Shape(fn)
  BY CreatesInContextShape
     DEF clCreateBuffer, clCreateImage2D, clCreateImage3D, clCreateSampler,
         clCreateProgramWithSource, clCreateFromGLBuffer, clCreateFromGLTexture2D,
         clCreateFromGLTexture3D
<1>12. \A fn \in {clCreateFromGLRenderbuffer, clCreateFromD3D10BufferKHR,
       clCreateFromD3D10Texture2DKHR, clCreateFromD3D10Texture3DKHR,
       clCreateUserEvent, clCreateEventFromGLsyncKHR, clCreateFromEGLImageKHR,
       clCreatePipe} : Shape(fn)
  BY CreatesInContextShape
     DEF clCreateFromGLRenderbuffer, clCreateFromD3D10BufferKHR,
         clCreateFromD3D10Texture2DKHR, clCreateFromD3D10Texture3DKHR,
         clCreateUserEvent, clCreateEventFromGLsyncKHR, clCreateFromEGLImageKHR,
         clCreatePipe
<1>13. \A fn \in {clCreateSamplerWithProperties, clCreateProgramWithIL,
       clCreateBufferWithProperties} : Shape(fn)
  BY CreatesInContextShape
     DEF clCreateSamplerWithProperties, clCreateProgramWithIL,
         clCreateBufferWithProperties
<1>14. \A fn \in {clEnqueueReadBuffer, clEnqueueWriteBuffer, clEnqueueCopyBuffer,
       clEnqueueReadImage, clEnqueueWriteImage, clEnqueueCopyImage,
       clEnqueueCopyImageToBuffer, clEnqueueCopyBufferToImage} : Shape(fn)
  BY EnqueuesShape, PlainLists, AllTypes
     DEF clEnqueueReadBuffer, clEnqueueWriteBuffer, clEnqueueCopyBuffer,
         clEnqueueReadImage, clEnqueueWriteImage, clEnqueueCopyImage,
         clEnqueueCopyImageToBuffer, clEnqueueCopyBufferToImage
<1>15. \A fn \in {clEnqueueUnmapMemObject, clEnqueueNDRangeKernel, clEnqueueTask,
       clEnqueueAcquireGLObjects, clEnqueueReleaseGLObjects,
       clEnqueueAcquireD3D10ObjectsKHR, clEnqueueReleaseD3D10ObjectsKHR,
       clEnqueueReadBufferRect} : Shape(fn)
  BY EnqueuesShape, PlainLists, AllTypes
     DEF clEnqueueUnmapMemObject, clEnqueueNDRangeKernel, clEnqueueTask,
         clEnqueueAcquireGLObjects, clEnqueueReleaseGLObjects,
         clEnqueueAcquireD3D10ObjectsKHR, clEnqueueReleaseD3D10ObjectsKHR,
         clEnqueueReadBufferRect
<1>16. \A fn \in {clEnqueueWriteBufferRect, clEnqueueCopyBufferRect,
       clEnqueueFillBuffer, clEnqueueFillImage, clEnqueueMigrateMemObjects,
       clEnqueueMarkerWithWaitList, clEnqueueBarrierWithWaitList,
       clEnqueueAcquireD3D11ObjectsKHR} : Shape(fn)
  BY EnqueuesShape, PlainLists, AllTypes
     DEF clEnqueueWriteBufferRect, clEnqueueCopyBufferRect, clEnqueueFillBuffer,
         clEnqueueFillImage, clEnqueueMigrateMemObjects, clEnqueueMarkerWithWaitList,
         clEnqueueBarrierWithWaitList, clEnqueueAcquireD3D11ObjectsKHR
<1>17. \A fn \in {clEnqueueReleaseD3D11ObjectsKHR,
       clEnqueueAcquireDX9MediaSurfacesKHR, clEnqueueReleaseDX9MediaSurfacesKHR,
       clEnqueueAcquireEGLObjectsKHR, clEnqueueReleaseEGLObjectsKHR,
       clEnqueueSVMFree, clEnqueueSVMMemcpy, clEnqueueSVMMemFill} : Shape(fn)
  BY EnqueuesShape, PlainLists, AllTypes
     DEF clEnqueueReleaseD3D11ObjectsKHR, clEnqueueAcquireDX9MediaSurfacesKHR,
         clEnqueueReleaseDX9MediaSurfacesKHR, clEnqueueAcquireEGLObjectsKHR,
         clEnqueueReleaseEGLObjectsKHR, clEnqueueSVMFree, clEnqueueSVMMemcpy,
         clEnqueueSVMMemFill
<1>18. \A fn \in {clEnqueueSVMMap, clEnqueueSVMUnmap, clEnqueueSVMMigrateMem} :
       Shape(fn)
  BY EnqueuesShape, PlainLists, AllTypes
     DEF clEnqueueSVMMap, clEnqueueSVMUnmap, clEnqueueSVMMigrateMem
<1>19. Shape(clCreateCommandQueue)
  <2>1. MadeBelow("COMMAND_QUEUE", "CONTEXT", "argument")
    BY DEF MadeBelow
  <2>. QED  BY <2>1, CreatesBelowShape, AllTypes DEF clCreateCommandQueue
<1>20. Shape(clCreateProgramWithBinary)
  <2>1. MadeBelow("PROGRAM", "CONTEXT", "argument")
    BY DEF MadeBelow
  <2>. QED  BY <2>1, CreatesBelowShape, AllTypes DEF clCreateProgramWithBinary
<1>21. Shape(clCreateKernel)
  <2>1. MadeBelow("KERNEL", "PROGRAM", "argument")
    BY DEF MadeBelow
  <2>. QED  BY <2>1, CreatesBelowShape, AllTypes DEF clCreateKernel
<1>22. Shape(clCreateKernelsInProgram)
  <2>1. MadeBelow("KERNEL", "PROGRAM", "argument")
    BY DEF MadeBelow
  <2>. QED  BY <2>1, CreatesBelowShape, AllTypes DEF clCreateKernelsInProgram
<1>23. Shape(clCreateSubBuffer)
  <2>1. MadeBelow("BUFFER", "BUFFER", "argument")
    BY DEF MadeBelow
  <2>. QED  BY <2>1, CreatesBelowShape, AllTypes DEF clCreateSubBuffer
<1>24. Shape(clCreateSubDevicesEXT)
  <2>1. MadeBelow("SUB_DEVICE", "DEVICE", "argument")
    BY DEF MadeBelow
  <2>. QED  BY <2>1, CountedSubDevicesShape DEF clCreateSubDevicesEXT
<1>25. Shape(clCreateSubDevices)
  <2>1. MadeBelow("SUB_DEVICE", "DEVICE", "argument")
    BY DEF MadeBelow
  <2>. QED  BY <2>1, CreatesBelowShape, AllTypes DEF clCreateSubDevices
<1>26. Shape(clCreateProgramWithBuiltInKernels)
  <2>1. MadeBelow("PROGRAM", "CONTEXT", "argument")
    BY DEF MadeBelow
  <2>. QED  BY <2>1, CreatesBelowShape, AllTypes DEF clCreateProgramWithBuiltInKernels
<1>27. Shape(clLinkProgram)
  <2>1. MadeBelow("PROGRAM", "CONTEXT", "argument")
    BY DEF MadeBelow
  <2>. QED  BY <2>1, CreatesBelowShape, AllTypes DEF clLinkProgram
<1>28. Shape(clCreateFromGLTexture)
  <2>1. MadeBelow("IMAGE", "CONTEXT", "get_parent")
    BY DEF MadeBelow
  <2>. QED  BY <2>1, CreatesBelowShape, AllTypes DEF clCreateFromGLTexture
<1>29. Shape(clCreateFromD3D11BufferKHR)
  <2>1. MadeBelow("BUFFER", "CONTEXT", "get_parent")
    BY DEF MadeBelow
  <2>. QED  BY <2>1, CreatesBelowShape, AllTypes DEF clCreateFromD3D11BufferKHR
<1>30. Shape(clCreateFromD3D11Texture2DKHR)
  <2>1. MadeBelow("IMAGE", "CONTEXT", "get_parent")
    BY DEF MadeBelow
  <2>. QED  BY <2>1, CreatesBelowShape, AllTypes DEF clCreateFromD3D11Texture2DKHR
<1>31. Shape(clCreateFromD3D11Texture3DKHR)
  <2>1. MadeBelow("IMAGE", "CONTEXT", "get_parent")
    BY DEF MadeBelow
  <2>. QED  BY <2>1, CreatesBelowShape, AllTypes DEF clCreateFromD3D11Texture3DKHR
<1>32. Shape(clCreateFromDX9MediaSurfaceKHR)
  <2>1. MadeBelow("IMAGE", "CONTEXT", "get_parent")
    BY DEF MadeBelow
  <2>. QED  BY <2>1, CreatesBelowShape, AllTypes DEF clCreateFromDX9MediaSurfaceKHR
<1>33. Shape(clGetContextInfo)
  BY QueriesShape DEF clGetContextInfo, QueriedTypes, Answered, EachDevice, ContextOf, AddOrExists, Result
<1>34. Shape(clGetCommandQueueInfo)
  BY QueriesShape DEF clGetCommandQueueInfo, QueriedTypes, Answered, EachDevice, ContextOf, AddOrExists, Result
<1>35. Shape(clGetMemObjectInfo)
  BY QueriesShape DEF clGetMemObjectInfo, QueriedTypes, Answered, EachDevice, ContextOf, AddOrExists, Result
<1>36. Shape(clGetImageInfo)
  BY QueriesShape DEF clGetImageInfo, QueriedTypes, Answered, EachDevice, ContextOf, AddOrExists, Result
<1>37. Shape(clGetSamplerInfo)
  BY QueriesShape DEF clGetSamplerInfo, QueriedTypes, Answered, EachDevice, ContextOf, AddOrExists, Result
<1>38. Shape(clGetProgramInfo)
  BY QueriesShape DEF clGetProgramInfo, QueriedTypes, Answered, EachDevice, ContextOf, AddOrExists, Result
<1>39. Shape(clGetKernelInfo)
  BY QueriesShape DEF clGetKernelInfo, QueriedTypes, Answered, EachDevice, ContextOf, AddOrExists, Result
<1>40. Shape(clEnqueueMapBuffer)
  <2> DEFINE all == <<ExistsErrc("COMMAND_QUEUE"), ExistsErrc("BUFFER"), ExistListErrc("EVENT")>>
  <2>1. all \in Seq(Plain) /\ all # <<>> /\ all[1] = ExistsErrc("COMMAND_QUEUE")
    BY PlainArguments, AllTypes
  <2>2. ExistsErrc("COMMAND_QUEUE") = Exists("COMMAND_QUEUE")
    BY DEF ExistsErrc, Exists
  <2>3. Shape(Commands(all))
    BY <2>1, <2>2, CommandsShape
  <2>. QED  BY <2>3 DEF clEnqueueMapBuffer, EnqueuesMap
<1>41. Shape(clEnqueueMapImage)
  <2> DEFINE all == <<ExistsErrc("COMMAND_QUEUE"), ExistsErrc("IMAGE"), ExistListErrc("EVENT")>>
  <2>1. all \in Seq(Plain) /\ all # <<>> /\ all[1] = ExistsErrc("COMMAND_QUEUE")
    BY PlainArguments, AllTypes
  <2>2. ExistsErrc("COMMAND_QUEUE") = Exists("COMMAND_QUEUE")
    BY DEF ExistsErrc, Exists
  <2>3. Shape(Commands(all))
    BY <2>1, <2>2, CommandsShape
  <2>. QED  BY <2>3 DEF clEnqueueMapImage, EnqueuesMap
<1>42. Shape(clEnqueueNativeKernel)
  <2> DEFINE all == <<Exists("COMMAND_QUEUE"), ExistList("EVENT"), ExistList("MEM")>>
  <2>1. all \in Seq(Plain) /\ all # <<>> /\ all[1] = Exists("COMMAND_QUEUE")
    BY PlainArguments, AllTypes
  <2>2. Shape(Commands(all))
    BY <2>1, CommandsShape
  <2>. QED  BY <2>2 DEF clEnqueueNativeKernel
<1>43. Shape(clEnqueueMarker)
  <2> DEFINE all == <<Exists("COMMAND_QUEUE")>>
  <2>1. all \in Seq(Plain) /\ all # <<>> /\ all[1] = Exists("COMMAND_QUEUE")
    BY PlainArguments, AllTypes
  <2>2. Shape(Commands(all))
    BY <2>1, CommandsShape
  <2>. QED  BY <2>2 DEF clEnqueueMarker
<1>44. \A fn \in Special : Shape(fn)
  BY DEF Shape
<1>. QED  BY <1>1, <1>2, <1>3, <1>4, <1>5, <1>6, <1>7, <1>8, <1>9, <1>10, <1>11, <1>12,
             <1>13, <1>14, <1>15, <1>16, <1>17, <1>18, <1>19, <1>20, <1>21, <1>22, <1>23,
             <1>24, <1>25, <1>26, <1>27, <1>28, <1>29, <1>30, <1>31, <1>32, <1>33, <1>34,
             <1>35, <1>36, <1>37, <1>38, <1>39, <1>40, <1>41, <1>42, <1>43, <1>44,
             SystemConstants
          DEF LegalUse, SystemAssumption, Dispatch, Special

-----------------------------------------------------------------------------
(***************************************************************************)
(* What the shapes say of a call.                                          *)
(***************************************************************************)

\* Each special entry point, spelled out.
LEMMA ContextShape ==
    /\ clCreateContext.arguments = <<ExistsErrc("PLATFORM"), ExistListErrc("DEVICE")>>
    /\ clCreateContext.arguments \in Seq(Plain) /\ clCreateContext.arguments # <<>>
    /\ clCreateContext.arguments[1] = ExistsErrc("PLATFORM")
    /\ clCreateContext.makes = "CONTEXT"
    /\ clCreateContext.results = {Creation("CONTEXT", "device list")}
<1>1. /\ <<ExistsErrc("PLATFORM"), ExistListErrc("DEVICE")>> \in Seq(Plain) /\ <<ExistsErrc("PLATFORM"), ExistListErrc("DEVICE")>> # <<>>
      /\ <<ExistsErrc("PLATFORM"), ExistListErrc("DEVICE")>>[1] = ExistsErrc("PLATFORM")
  BY PlainArguments, AllTypes
<1>. QED  BY <1>1 DEF clCreateContext, Creates, EntryPoint, Creation, Result

LEMMA CloneShape ==
    /\ clCloneKernel.arguments = <<ExistsErrc("KERNEL")>>
    /\ clCloneKernel.arguments \in Seq(Plain) /\ clCloneKernel.arguments # <<>>
    /\ clCloneKernel.arguments[1] = ExistsErrc("KERNEL")
    /\ clCloneKernel.makes = "KERNEL"
    /\ clCloneKernel.results = {Creation("KERNEL", "get_parent(argument)")}
<1>1. /\ <<ExistsErrc("KERNEL")>> \in Seq(Plain) /\ <<ExistsErrc("KERNEL")>> # <<>>
      /\ <<ExistsErrc("KERNEL")>>[1] = ExistsErrc("KERNEL")
  BY PlainArguments, AllTypes
<1>. QED  BY <1>1 DEF clCloneKernel, Creates, EntryPoint, Creation, Result

LEMMA ImageShapes ==
    ASSUME NEW fn \in {clCreateImage, clCreateImageWithProperties}
    PROVE  /\ fn.arguments = <<ExistsErrc("CONTEXT"), IfGiven(ExistsErrc("MEM"))>>
           /\ fn.arguments \in Seq(Plain) /\ fn.arguments # <<>>
           /\ fn.arguments[1] = ExistsErrc("CONTEXT")
           /\ fn.makes = "IMAGE"
           /\ fn.results \in {{Creation("IMAGE", "get_parent")}, {Creation("IMAGE", "image_desc")}}
<1>1. /\ <<ExistsErrc("CONTEXT"), IfGiven(ExistsErrc("MEM"))>> \in Seq(Plain) /\ <<ExistsErrc("CONTEXT"), IfGiven(ExistsErrc("MEM"))>> # <<>>
      /\ <<ExistsErrc("CONTEXT"), IfGiven(ExistsErrc("MEM"))>>[1] = ExistsErrc("CONTEXT")
  BY PlainArguments, AllTypes
<1>2. /\ Creation("IMAGE", "get_parent").type = "IMAGE"
      /\ Creation("IMAGE", "image_desc").type = "IMAGE"
  BY DEF Creation, Result
<1>3. CASE fn = clCreateImage
  BY <1>1, <1>2, <1>3 DEF clCreateImage, Creates, EntryPoint
<1>4. CASE fn = clCreateImageWithProperties
  BY <1>1, <1>2, <1>4 DEF clCreateImageWithProperties, Creates, EntryPoint
<1>. QED  BY <1>3, <1>4

LEMMA QueueShape ==
    /\ clCreateCommandQueueWithProperties.arguments = <<ExistsErrc("CONTEXT"), ExistsErrc("DEVICE")>>
    /\ clCreateCommandQueueWithProperties.arguments \in Seq(Plain) /\ clCreateCommandQueueWithProperties.arguments # <<>>
    /\ clCreateCommandQueueWithProperties.arguments[1] = ExistsErrc("CONTEXT")
    /\ clCreateCommandQueueWithProperties.makes = "COMMAND_QUEUE"
    /\ clCreateCommandQueueWithProperties.results =
         {Creation("COMMAND_QUEUE", "argument"), CreateOrExistsErrc("COMMAND_QUEUE", "argument")}
<1>1. /\ <<ExistsErrc("CONTEXT"), ExistsErrc("DEVICE")>> \in Seq(Plain) /\ <<ExistsErrc("CONTEXT"), ExistsErrc("DEVICE")>> # <<>>
      /\ <<ExistsErrc("CONTEXT"), ExistsErrc("DEVICE")>>[1] = ExistsErrc("CONTEXT")
  BY PlainArguments, AllTypes
<1>. QED  BY <1>1 DEF clCreateCommandQueueWithProperties, EntryPoint

\* Special entry points count nothing, check a first argument and record
\* what they make.
LEMMA SpecialShape ==
    ASSUME NEW fn \in Special
    PROVE  /\ fn.arguments \in Seq(Plain) /\ fn.arguments # <<>>
           /\ fn.arguments[1].check = "exists" /\ ~fn.arguments[1].null
           /\ fn.makes \in {"CONTEXT", "KERNEL", "IMAGE", "COMMAND_QUEUE"}
           /\ \A r \in fn.results : r.check \in {"creation", "create or exists"} /\ r.type = fn.makes
<1>1. /\ ExistsErrc("PLATFORM").check = "exists" /\ ExistsErrc("CONTEXT").check = "exists"
      /\ ExistsErrc("KERNEL").check = "exists" /\ ~ExistsErrc("PLATFORM").null
      /\ ~ExistsErrc("CONTEXT").null /\ ~ExistsErrc("KERNEL").null
  BY DEF ExistsErrc, Argument
<1>2. /\ Creation("CONTEXT", "device list").check = "creation"
      /\ Creation("CONTEXT", "device list").type = "CONTEXT"
      /\ Creation("KERNEL", "get_parent(argument)").check = "creation"
      /\ Creation("KERNEL", "get_parent(argument)").type = "KERNEL"
  BY DEF Creation, Result
<1>7. /\ Creation("IMAGE", "get_parent").check = "creation"
      /\ Creation("IMAGE", "get_parent").type = "IMAGE"
      /\ Creation("IMAGE", "image_desc").check = "creation"
      /\ Creation("IMAGE", "image_desc").type = "IMAGE"
  BY DEF Creation, Result
<1>8. /\ Creation("COMMAND_QUEUE", "argument").check = "creation"
      /\ Creation("COMMAND_QUEUE", "argument").type = "COMMAND_QUEUE"
      /\ CreateOrExistsErrc("COMMAND_QUEUE", "argument").check = "create or exists"
      /\ CreateOrExistsErrc("COMMAND_QUEUE", "argument").type = "COMMAND_QUEUE"
  BY DEF Creation, CreateOrExistsErrc, Result
<1>3. CASE fn = clCreateContext
  <2>1. \A r \in fn.results : r = Creation("CONTEXT", "device list")
    BY <1>3, ContextShape
  <2>. QED  BY <1>1, <1>2, <1>3, <2>1, ContextShape
<1>4. CASE fn = clCloneKernel
  <2>1. \A r \in fn.results : r = Creation("KERNEL", "get_parent(argument)")
    BY <1>4, CloneShape
  <2>. QED  BY <1>1, <1>2, <1>4, <2>1, CloneShape
<1>5. CASE fn \in {clCreateImage, clCreateImageWithProperties}
  <2>1. \A r \in fn.results : r = Creation("IMAGE", "get_parent") \/ r = Creation("IMAGE", "image_desc")
    BY <1>5, ImageShapes
  <2>2. /\ fn.makes = "IMAGE" /\ fn.arguments \in Seq(Plain) /\ fn.arguments # <<>>
        /\ fn.arguments[1] = ExistsErrc("CONTEXT")
    BY <1>5, ImageShapes
  <2>3. \A r \in fn.results : r.check = "creation" /\ r.type = "IMAGE"
    BY <1>7, <2>1
  <2>. QED  BY <1>1, <2>2, <2>3
<1>6. CASE fn = clCreateCommandQueueWithProperties
  <2>1. \A r \in fn.results : \/ r = Creation("COMMAND_QUEUE", "argument")
                              \/ r = CreateOrExistsErrc("COMMAND_QUEUE", "argument")
    BY <1>6, QueueShape
  <2>2. \A r \in fn.results : r.check \in {"creation", "create or exists"} /\ r.type = "COMMAND_QUEUE"
    BY <1>8, <2>1
  <2>. QED  BY <1>1, <1>6, <2>2, QueueShape
<1>. QED  BY <1>3, <1>4, <1>5, <1>6 DEF Special

\* An entry point either counts its only argument or counts nothing.
LEMMA UsedArguments ==
    ASSUME LegalUse, NEW fn \in Used
    PROVE  \/ CountingShape(fn)
           \/ fn.arguments \in Seq(Plain) /\ Counting(fn) = "nothing"
<1>1. Shape(fn)
  BY UsedShapes
<1>2. ASSUME fn.arguments \in Seq(Plain)
      PROVE  Counting(fn) = "nothing"
  <2>1. fn.arguments # <<>> => fn.arguments[1] \in Plain
    BY <1>2
  <2>2. fn.arguments # <<>> => fn.arguments[1].check \in {"exists", "list", "unchecked"}
    BY <2>1 DEF Plain
  <2>. QED  BY <2>2 DEF Counting
<1>3. ASSUME QueryShape(fn)
      PROVE  fn.arguments \in Seq(Plain)
  BY <1>3, PlainArguments, AllTypes DEF QueryShape, QueriedTypes
<1>. QED  BY <1>1, <1>2, <1>3, SpecialShape DEF Shape, UseShape, ListShape, CreateShape

\* Nothing is made by an entry point that counts.
LEMMA CountingCalls ==
    ASSUME LegalUse, NEW fn \in Used, CountingShape(fn)
    PROVE  /\ Len(fn.arguments) = 1 /\ fn.arguments # <<>> /\ DOMAIN fn.arguments = {1}
           /\ Counting(fn) \in {"retain", "release"} /\ fn.arguments[1].check = Counting(fn)
           /\ ~fn.arguments[1].null /\ fn.arguments[1].type \in ObjectTypes
           /\ fn.arguments[1].type # "PLATFORM"
           /\ fn.makes = NOTHING /\ fn.results = {}
<1>1. PICK op \in {"retain", "release"}, T \in ObjectTypes \ {"PLATFORM"} :
        fn = EntryPoint(<<Argument(op, T, FALSE, FALSE)>>, NOTHING, {})
  BY DEF CountingShape
<1>2. fn.arguments = <<Argument(op, T, FALSE, FALSE)>> /\ fn.makes = NOTHING /\ fn.results = {}
  BY <1>1 DEF EntryPoint
<1>3. Len(fn.arguments) = 1 /\ fn.arguments # <<>> /\ DOMAIN fn.arguments = {1}
      /\ fn.arguments[1] = Argument(op, T, FALSE, FALSE)
  BY <1>2
<1>. QED  BY <1>2, <1>3 DEF Counting, Argument

LEMMA PlainCall ==
    ASSUME NEW fn, fn.arguments \in Seq(Plain), NEW i \in DOMAIN fn.arguments
    PROVE  /\ fn.arguments[i].check \in {"exists", "list", "unchecked"}
           /\ fn.arguments[i].type \in ObjectTypes /\ fn.arguments[i].null \in BOOLEAN
<1>1. fn.arguments[i] \in Plain
  OBVIOUS
<1>. QED  BY <1>1 DEF Plain

\* What an entry point records follows from what it makes.
LEMMA UsedResults ==
    ASSUME LegalUse, NEW fn \in Used, NEW r \in fn.results
    PROVE  /\ fn.makes # NOTHING => r.check \in {"creation", "list", "create or exists"} /\ r.type = fn.makes
           /\ fn.makes = NOTHING => r.check \in {"add", "roots"}
           /\ r.check = "roots" => r.type \in RootTypes /\ ListShape(fn) /\ r.parents = "none"
           /\ r.check = "add" => QueryShape(fn)
<1>1. Shape(fn)
  BY UsedShapes
<1>2. CASE fn \in Special
  BY <1>2, SpecialShape DEF NOTHING
<1>3. CASE CountingShape(fn)
  BY <1>3, CountingCalls
<1>4. CASE ListShape(fn)
  <2>1. PICK T \in RootTypes : fn.results = {Result("roots", T, "none", FALSE)}
    BY <1>4 DEF ListShape
  <2>2. r = Result("roots", T, "none", FALSE)
    BY <2>1
  <2>. QED  BY <1>4, <2>2 DEF Result, ListShape
<1>5. CASE QueryShape(fn)
  BY <1>5 DEF QueryShape, Answered
<1>6. CASE CreateShape(fn)
  <2>1. fn.makes # NOTHING
    BY <1>6 DEF CreateShape, MadeBelow, NOTHING
  <2>. QED  BY <1>6, <2>1 DEF CreateShape
<1>. QED  BY <1>1, <1>2, <1>3, <1>4, <1>5, <1>6 DEF Shape, UseShape

-----------------------------------------------------------------------------
(***************************************************************************)
(* Reading the invariant: types.                                           *)
(***************************************************************************)

LEMMA ObjectTyped ==
    ASSUME SysTypeOK, NEW h, DriverHas(h)
    PROVE  /\ h \in Handles /\ drv[h] \in DriverObject
           /\ drv[h].type \in ObjectTypes /\ drv[h].refs \in Nat
           /\ drv[h].on \in Seq(Handles) /\ drv[h].context \in Handles \cup {None}
           /\ drv[h].default \in BOOLEAN
BY DEF SysTypeOK, DriverHas, DriverObject

LEMMA CallTyped ==
    ASSUME SysTypeOK, NEW t \in Threads, call[t] # None
    PROVE  /\ call[t] \in Call /\ call[t].fn \in Used
           /\ call[t].args \in Seq(Seq(Handles \cup {None}))
           /\ call[t].stage \in Stages
           /\ call[t].made \in Seq(Handles)
BY DEF SysTypeOK, Call

LEMMA RecordTyped ==
    ASSUME SysTypeOK, NEW h, Tracked(h)
    PROVE  /\ h \in Handles /\ objects[h] \in Record
           /\ objects[h].type \in ObjectTypes /\ objects[h].refcount \in Int
           /\ objects[h].parents \in ParentLists /\ objects[h].parents \in Seq(Handles)
BY ParentListsAssumption DEF SysTypeOK, TypeOK, Tracked, Record

LEMMA OwnTyped ==
    ASSUME SysTypeOK, NEW t \in Threads, NEW h \in Handles
    PROVE  own[t][h] \in Nat
BY DEF SysTypeOK

\* The elements of a sequence.
LEMMA ElementsOfSeq ==
    ASSUME NEW S, NEW s \in Seq(S)
    PROVE  /\ Elements(s) \subseteq S
           /\ s # <<>> => s[1] \in Elements(s) /\ 1 \in DOMAIN s
           /\ \A x \in S : Elements(<<x>>) = {x}
           /\ Elements(<<>>) = {}
<1>1. Elements(s) \subseteq S
  BY DEF Elements
<1>2. s # <<>> => s[1] \in Elements(s) /\ 1 \in DOMAIN s
  BY DEF Elements
<1>3. \A x \in S : DOMAIN <<x>> = {1} /\ <<x>>[1] = x
  OBVIOUS
<1>4. \A x \in S : Elements(<<x>>) = {x}
  BY <1>3 DEF Elements
<1>5. DOMAIN <<>> = {}
  OBVIOUS
<1>. QED  BY <1>1, <1>2, <1>4, <1>5 DEF Elements

LEMMA ElementsOfOne == \A x : Elements(<<x>>) = {x}
<1>1. \A x : DOMAIN <<x>> = {1} /\ <<x>>[1] = x
  OBVIOUS
<1>. QED  BY <1>1 DEF Elements

LEMMA ElementsOfNone == Elements(<<>>) = {}
<1>1. DOMAIN <<>> = {}
  OBVIOUS
<1>. QED  BY <1>1 DEF Elements

LEMMA ElementsOfSingle ==
    ASSUME NEW S, NEW s \in Seq(S), Len(s) = 1
    PROVE  s # <<>> /\ s[1] \in S /\ s = <<s[1]>> /\ Elements(s) = {s[1]}
<1>1. s # <<>> /\ s[1] \in S /\ DOMAIN s = {1}
  OBVIOUS
<1>2. s = <<s[1]>>
  BY <1>1
<1>. QED  BY <1>1, <1>2 DEF Elements

\* Roots, the pool and NULL part the handles.
LEMMA PoolAndRoots ==
    /\ Roots \subseteq Handles /\ IsFiniteSet(Threads)
    /\ \A h : h \in Handles <=> h \in Roots \/ h \in Pool \/ h = Null
    /\ \A h \in Pool : h \notin Roots /\ h # Null
    /\ Null \notin Roots /\ Null \in Handles
    /\ None \notin Handles
BY SystemConstants, NoneAssumption DEF SystemAssumption, Pool

LEMMA NotNull ==
    ASSUME NullOK, NEW h, DriverHas(h)
    PROVE  h # Null /\ (h \in Roots \/ h \in Pool)
BY PoolAndRoots DEF NullOK, DriverHas

LEMMA NullKept ==
    ASSUME NullOK, drv'[Null] = drv[Null], objects'[Null] = objects[Null],
           frames'[Null] = frames[Null], \A t \in Threads : own'[t][Null] = own[t][Null]
    PROVE  NullOK'
BY DEF NullOK, DriverHas, Tracked, Framed

\* Only a query answers NULL, so no other step makes a record of it.
LEMMA NullUntouched ==
    ASSUME NullOK, UNCHANGED drv,
           Tracked(Null)' => /\ Tracked(Null) /\ objects'[Null].type = objects[Null].type
                             /\ objects'[Null].parents = objects[Null].parents
                             /\ objects'[Null].refcount = objects[Null].refcount,
           frames'[Null] = frames[Null], \A t \in Threads : own'[t][Null] = own[t][Null]
    PROVE  NullOK'
BY DEF NullOK, DriverHas, Framed

-----------------------------------------------------------------------------
(***************************************************************************)
(* Reading the invariant: what the shares of the threads say.              *)
(***************************************************************************)

LEMMA ShareTyped ==
    ASSUME SysTypeOK, NEW t \in Threads, NEW h \in Handles
    PROVE  DriverShare(t, h) \in Nat /\ TrackerShare(t, h) \in Nat
BY OwnTyped DEF DriverShare, TrackerShare, One

LEMMA SharesTyped ==
    ASSUME SysTypeOK, NEW h \in Handles
    PROVE  /\ \A t \in Threads : [u \in Threads |-> DriverShare(u, h)][t] = DriverShare(t, h)
           /\ \A t \in Threads : [u \in Threads |-> TrackerShare(u, h)][t] = TrackerShare(t, h)
           /\ \A t \in Threads : [u \in Threads |-> DriverShare(u, h)][t] \in Nat
           /\ \A t \in Threads : [u \in Threads |-> TrackerShare(u, h)][t] \in Nat
BY ShareTyped

\* A share of a thread is a reference the driver counts.
LEMMA ShareIsCounted ==
    ASSUME SysTypeOK, Balance, NEW t \in Threads, NEW h \in Pool, DriverShare(t, h) > 0
    PROVE  DriverHas(h) /\ drv[h].refs > 0 /\ DriverShare(t, h) <= drv[h].refs /\ Alive(h)
<1> DEFINE f == [u \in Threads |-> DriverShare(u, h)]
<1>1. h \in Handles /\ IsFiniteSet(Threads)
  BY PoolAndRoots
<1>2. \A u \in Threads : f[u] \in Nat
  BY <1>1, ShareTyped
<1>3. f[t] = DriverShare(t, h)
  OBVIOUS
<1>4. Refs(h) = Total(f)
  BY DEF Balance, DriverBalance
<1> HIDE DEF f
<1>5. f[t] <= Total(f) /\ Total(f) \in Nat
  BY <1>1, <1>2, SumOfNaturals DEF Total
<1>6. DriverShare(t, h) \in Nat
  BY <1>1, ShareTyped
<1>7. DriverShare(t, h) <= Refs(h) /\ Refs(h) \in Nat
  BY <1>3, <1>4, <1>5
<1>8. Refs(h) > 0
  BY <1>6, <1>7
<1>. QED  BY <1>7, <1>8 DEF Refs, Alive

\* Who has a share of an object with one reference has it alone.
LEMMA ShareAlone ==
    ASSUME SysTypeOK, Balance, NEW t \in Threads, NEW u \in Threads, u # t, NEW h \in Pool,
           DriverShare(t, h) > 0, Refs(h) = 1
    PROVE  DriverShare(u, h) = 0 /\ DriverShare(t, h) = 1
<1> DEFINE f == [v \in Threads |-> DriverShare(v, h)]
<1>1. h \in Handles /\ IsFiniteSet(Threads)
  BY PoolAndRoots
<1>2. \A v \in Threads : f[v] \in Nat
  BY <1>1, ShareTyped
<1>3. f[t] = DriverShare(t, h) /\ f[u] = DriverShare(u, h)
  OBVIOUS
<1>4. Refs(h) = Total(f)
  BY DEF Balance, DriverBalance
<1> HIDE DEF f
<1>5. f[t] + f[u] <= Total(f)
  BY <1>1, <1>2, SumOfNaturals DEF Total
<1>6. DriverShare(t, h) \in Nat /\ DriverShare(u, h) \in Nat
  BY <1>1, ShareTyped
<1>. QED  BY <1>3, <1>4, <1>5, <1>6

LEMMA ShareIsTracked ==
    ASSUME SysTypeOK, Balance, leaks = None, NEW t \in Threads, NEW h \in Pool,
           TrackerShare(t, h) > 0
    PROVE  Tracked(h) /\ objects[h].refcount > 0 /\ TrackerShare(t, h) <= objects[h].refcount
<1> DEFINE f == [u \in Threads |-> TrackerShare(u, h)]
<1>1. h \in Handles /\ IsFiniteSet(Threads)
  BY PoolAndRoots
<1>2. \A u \in Threads : f[u] \in Nat
  BY <1>1, ShareTyped
<1>3. f[t] = TrackerShare(t, h)
  OBVIOUS
<1>4. CountOf(h) = Total(f)
  BY DEF Balance, TrackerBalance
<1> HIDE DEF f
<1>5. f[t] <= Total(f) /\ Total(f) \in Nat
  BY <1>1, <1>2, SumOfNaturals DEF Total
<1>6. TrackerShare(t, h) \in Nat
  BY <1>1, ShareTyped
<1>7. TrackerShare(t, h) <= CountOf(h) /\ CountOf(h) \in Nat
  BY <1>3, <1>4, <1>5
<1>8. CountOf(h) > 0
  BY <1>6, <1>7
<1>. QED  BY <1>7, <1>8 DEF CountOf

\* A count the tracker keeps is the share of some thread.
LEMMA CountIsShare ==
    ASSUME SysTypeOK, Balance, leaks = None, NEW h \in Pool, CountOf(h) > 0
    PROVE  \E t \in Threads : TrackerShare(t, h) > 0
<1> DEFINE f == [u \in Threads |-> TrackerShare(u, h)]
<1>1. h \in Handles /\ IsFiniteSet(Threads)
  BY PoolAndRoots
<1>2. \A u \in Threads : f[u] \in Nat
  BY <1>1, ShareTyped
<1>3. \A u \in Threads : f[u] = TrackerShare(u, h)
  OBVIOUS
<1>4. CountOf(h) = Total(f)
  BY DEF Balance, TrackerBalance
<1> HIDE DEF f
<1>5. \E u \in Threads : f[u] > 0
  BY <1>1, <1>2, <1>4, SumOfNaturals DEF Total
<1>. QED  BY <1>3, <1>5

-----------------------------------------------------------------------------
(***************************************************************************)
(* Reading the invariant: what is in use.                                  *)
(***************************************************************************)

LEMMA InvParts ==
    ASSUME SysInv
    PROVE  /\ ExactInv({Null}) /\ Inv /\ GraphOK({Null}) /\ PendingFresh
           /\ TypeOK /\ SysTypeOK /\ NoFalsePositive
           /\ WellFounded /\ Structure /\ RootsKept /\ Links /\ NullOK /\ Calls /\ Balance
           /\ MutexOK /\ AfterExit
           /\ \A h \in Handles : DriverHas(h) => KindOK(h)
BY DEF SysInv, ExactInv, SysTypeOK, Structure

LEMMA RootTyped ==
    ASSUME NEW h \in Roots
    PROVE  /\ RootObject(h) \in DriverObject /\ RootObject(h).type \in RootTypes
           /\ RootObject(h).refs = 0 /\ RootObject(h).on = <<>> /\ RootObject(h).context = None
BY DEF RootObject, DriverObject, ObjectTypes, RootTypes

LEMMA RootIsAlive ==
    ASSUME RootsKept, NEW h \in Roots
    PROVE  /\ DriverHas(h) /\ Alive(h) /\ drv[h].type \in RootTypes
           /\ drv[h].on = <<>> /\ drv[h].refs = 0
<1>1. drv[h] = RootObject(h) /\ h \in Handles
  BY PoolAndRoots DEF RootsKept
<1>. QED  BY <1>1, RootTyped, NoCallAssumption DEF DriverHas, Alive

\* What a thread holds is alive, and in the map as what it is.
LEMMA HeldIsAlive ==
    ASSUME SysInv, NEW t \in Threads, NEW h \in Handles, own[t][h] > 0
    PROVE  Alive(h) /\ DriverHas(h)
<1>. SysTypeOK /\ Balance /\ RootsKept /\ NullOK
  BY InvParts
<1>1. CASE h \in Roots
  BY <1>1, RootIsAlive
<1>2. CASE h \in Pool
  <2>1. DriverShare(t, h) > 0
    BY OwnTyped DEF DriverShare, One
  <2>. QED  BY <1>2, <2>1, ShareIsCounted
<1>3. h # Null
  BY DEF NullOK
<1>. QED  BY <1>1, <1>2, <1>3, PoolAndRoots

LEMMA HeldIsTracked ==
    ASSUME SysInv, leaks = None, NEW t \in Threads, NEW h \in Handles, own[t][h] > 0
    PROVE  /\ Tracked(h) /\ objects[h].type = drv[h].type /\ DriverHas(h)
           /\ h \in Pool => objects[h].refcount > 0 /\ IsCounted(objects[h])
           /\ h \in Roots => ~IsCounted(objects[h]) /\ objects[h].refcount = 0
<1>. SysTypeOK /\ Balance /\ RootsKept /\ Links /\ Structure /\ NullOK
  BY InvParts
<1>0. DriverHas(h) /\ h # Null /\ Linked(h) /\ KindOK(h)
  BY HeldIsAlive, NotNull, InvParts DEF Links
<1>1. CASE h \in Roots
  <2>1. Tracked(h) /\ objects[h].refcount = 0
    BY <1>1 DEF RootsKept
  <2>. QED  BY <1>0, <1>1, <2>1, PoolAndRoots DEF Linked, KindOK, IsCounted
<1>2. CASE h \in Pool
  <2>1. TrackerShare(t, h) > 0
    BY OwnTyped DEF TrackerShare, One
  <2>2. Tracked(h) /\ objects[h].refcount > 0
    BY <1>2, <2>1, ShareIsTracked
  <2>. QED  BY <1>0, <1>2, <2>2, PoolAndRoots DEF Linked, KindOK, IsCounted
<1>. QED  BY <1>0, <1>1, <1>2, PoolAndRoots

\* What is above an object in the driver is in use, its context through a
\* queue if it is the event of one.
LEMMA BelowInUse ==
    ASSUME SysTypeOK, Structure, NEW c, DriverHas(c), NEW h \in Elements(RecordedBelow(c))
    PROVE  InUse(h) /\ DriverHas(h)
<1>1. KindOK(c) /\ c \in Handles
  BY DEF Structure, DriverHas
<1>2. CASE drv[c].type # "EVENT"
  <2>1. h \in Elements(drv[c].on)
    BY <1>2 DEF RecordedBelow
  <2>. QED  BY <1>1, <2>1 DEF InUse, KindOK
<1>3. CASE drv[c].type = "EVENT"
  <2>1. h = drv[c].context
    BY <1>3, ElementsOfOne DEF RecordedBelow
  <2>2. InContext(c)
    BY <1>3 DEF InContext, DeviceTypes
  <2>3. PICK p \in Handles : drv[c].on = <<p>> /\ InContext(p) /\ drv[c].context = drv[p].context
    BY <1>1, <1>3, <2>2 DEF KindOK
  <2>4. Elements(drv[c].on) = {p} /\ drv[c].on[1] = p
    BY <2>3, ElementsOfOne
  <2>5. DriverHas(p) /\ KindOK(p) /\ drv[p].type \in {"CONTEXT", "COMMAND_QUEUE"}
    BY <1>1, <1>3, <2>4 DEF KindOK, Structure
  <2>6. CASE drv[p].type = "CONTEXT"
    BY <1>1, <2>1, <2>3, <2>4, <2>5, <2>6 DEF KindOK, InUse
  <2>7. CASE drv[p].type = "COMMAND_QUEUE"
    <3>1. PICK q \in Handles : drv[p].on = <<q>> /\ InContext(q) /\ drv[p].context = drv[q].context
      BY <2>3, <2>5, <2>7 DEF KindOK
    <3>2. Elements(drv[p].on) = {q} /\ drv[p].on[1] = q
      BY <3>1, ElementsOfOne
    <3>3. DriverHas(q) /\ KindOK(q) /\ drv[q].type = "CONTEXT"
      BY <2>5, <2>7, <3>2 DEF KindOK, Structure
    <3>4. q = h
      BY <2>1, <2>3, <3>1, <3>3 DEF KindOK
    <3>. QED  BY <2>5, <3>2, <3>3, <3>4 DEF InUse
  <2>. QED  BY <2>5, <2>6, <2>7
<1>. QED  BY <1>2, <1>3

\* So is its context, however far above.
LEMMA ContextInUse ==
    ASSUME Structure, NEW h, DriverHas(h), InContext(h), drv[h].type # "CONTEXT"
    PROVE  InUse(drv[h].context)
<1> DEFINE S == {x \in Handles : /\ DriverHas(x) /\ InContext(x) /\ drv[x].type # "CONTEXT"
                                 /\ ~InUse(drv[x].context)}
<1>1. SUFFICES ASSUME S # {}
               PROVE  FALSE
  BY DEF DriverHas
<1>2. PICK m \in S : DriverHas(m) => Elements(drv[m].on) \cap S = {}
  BY <1>1 DEF Structure, WellFounded
<1>3. m \in Handles /\ DriverHas(m) /\ KindOK(m)
  BY <1>2 DEF Structure
<1>4. PICK p \in Handles : drv[m].on = <<p>> /\ InContext(p) /\ drv[m].context = drv[p].context
  BY <1>2, <1>3 DEF KindOK
<1>5. p \in Elements(drv[m].on) /\ DriverHas(p) /\ KindOK(p)
  BY <1>3, <1>4, ElementsOfOne DEF KindOK, Structure
<1>6. CASE drv[p].type = "CONTEXT"
  <2>1. drv[m].context = p
    BY <1>4, <1>5, <1>6 DEF KindOK
  <2>2. InUse(p)
    BY <1>3, <1>5 DEF InUse
  <2>. QED  BY <1>2, <2>1, <2>2
<1>7. CASE drv[p].type # "CONTEXT"
  <2>1. p \notin S
    BY <1>2, <1>3, <1>5
  <2>2. InUse(drv[p].context)
    BY <1>4, <1>5, <1>7, <2>1
  <2>. QED  BY <1>2, <1>4, <2>2
<1>. QED  BY <1>6, <1>7

\* A retain or a release that waits for the driver is of a live object.
LEMMA RequestedIsAlive ==
    ASSUME SysInv, LegalUse, NEW t \in Threads, NEW h \in Pool,
           Requesting(t, "retain", h) \/ Requesting(t, "release", h)
    PROVE  DriverShare(t, h) > 0 /\ Alive(h) /\ DriverHas(h) /\ drv[h].refs > 0
<1>. SysTypeOK /\ Balance /\ Calls /\ h \in Handles
  BY InvParts, PoolAndRoots
<1>1. CASE Requesting(t, "release", h)
  <2>1. DriverShare(t, h) > 0
    BY <1>1, OwnTyped DEF DriverShare, One
  <2>. QED  BY <2>1, ShareIsCounted
<1>2. CASE Requesting(t, "retain", h)
  <2>1. /\ call[t] # None /\ CallOK(t) /\ call[t].args # <<>>
        /\ Counting(call[t].fn) = "retain" /\ h = call[t].args[1][1]
    BY <1>2 DEF Requesting, Calls, Argument1
  <2>2. 1 \in DOMAIN call[t].args
    BY <2>1, CallTyped, ElementsOfSeq
  <2>3. ArgumentOK(t, call[t].fn.arguments[1], call[t].args[1])
    BY <2>1, <2>2 DEF CallOK
  <2>4. call[t].fn.arguments[1].check = "retain"
    BY <2>1 DEF Counting
  <2>5. own[t][h] > 0 /\ h \in Handles
    <3>1. ~call[t].fn.arguments[1].null
      BY <2>1, CallTyped, UsedArguments, CountingCalls
    <3>2. /\ Len(call[t].args[1]) = 1 /\ call[t].args[1] \in Seq(Handles \cup {None})
      BY <2>3, <2>4, <3>1 DEF ArgumentOK
    <3>3. h \in Elements(call[t].args[1])
      BY <2>1, <3>2, ElementsOfSeq
    <3>. QED  BY <2>3, <2>4, <3>3, PoolAndRoots DEF ArgumentOK
  <2>6. DriverShare(t, h) > 0
    BY <2>5, OwnTyped DEF DriverShare, One
  <2>. QED  BY <2>6, ShareIsCounted
<1>. QED  BY <1>1, <1>2

\* Every record of a running program, and every record whose deletion is under
\* way, is that of a live object, or of NULL.
LEMMA KnownIsAlive ==
    ASSUME SysInv, LegalUse, NEW h \in Handles \ {Null}, Known(h)
    PROVE  Alive(h) /\ DriverHas(h)
<1>. /\ NullOK /\ SysTypeOK /\ Balance /\ RootsKept /\ Links /\ Structure /\ ExactInv({Null}) /\ Inv /\ TypeOK
     /\ MutexOK /\ AfterExit /\ GraphOK({Null})
  BY InvParts
<1>1. leaks = None
  BY DEF Known, AfterExit, Inv, WalkInv
<1>2. DriverHas(h)
  BY DEF Links, Linked
<1>3. CASE h \in Roots
  BY <1>3, RootIsAlive
<1>4. CASE h \in Pool /\ Framed(h)
  <2>1. mutex # None
    BY <1>4 DEF Inv, WalkInv
  <2>2. mutex.stack \in Seq(Handles) /\ mutex.owner \in Threads
    BY <2>1, HeldType
  <2>3. PICK i \in DOMAIN mutex.stack : mutex.stack[i] = h
    BY <1>4, <2>1 DEF Inv, WalkInv, StackIsFrames
  <2>4. CASE i = 1
    <3>1. mutex.stack # <<>>
      BY <2>2, <2>3, <2>4
    <3>2. Requesting(mutex.owner, "release", h)
      BY <2>1, <2>3, <2>4, <3>1 DEF MutexOK
    <3>. QED  BY <1>4, <2>2, <3>2, RequestedIsAlive
  <2>5. CASE i > 1
    <3>1. h \in Elements(frames[mutex.stack[i - 1]].parents)
      BY <2>1, <2>3, <2>5 DEF MutexOK
    <3>2. i - 1 \in DOMAIN mutex.stack /\ mutex.stack[i - 1] \in Handles
      BY <2>2, <2>3, <2>5
    <3>3. Framed(mutex.stack[i - 1]) /\ mutex.stack[i - 1] # Null
      BY <2>1, <3>2 DEF Inv, WalkInv, StackIsFrames, NullOK
    <3>4. /\ DriverHas(mutex.stack[i - 1])
          /\ h \in Elements(RecordedBelow(mutex.stack[i - 1]))
      BY <3>1, <3>2, <3>3 DEF Links, Linked, Known
    <3>. QED  BY <1>2, <3>4, BelowInUse DEF Alive
  <2>. QED  BY <2>2, <2>3, <2>4, <2>5
<1>5. CASE h \in Pool /\ Tracked(h) /\ ~Framed(h)
  <2>1. Counts(h)
    BY <1>2, <1>5, PoolAndRoots DEF Counts, IsCounted, Links, Linked, Structure, KindOK
  <2>2. /\ objects[h].refcount > 0 \/ objects[h].num_children > 0
        /\ objects[h].num_children = Cardinality(ChildEdges(h))
    BY <1>5, <2>1, PoolAndRoots DEF GraphOK, NodeOK
  <2>3. CASE objects[h].refcount > 0
    <3>1. PICK t \in Threads : TrackerShare(t, h) > 0
      BY <1>1, <1>5, <2>3, CountIsShare DEF CountOf
    <3>2. own[t][h] \in Nat /\ h \in Handles
      BY <1>5, OwnTyped
    <3>3. DriverShare(t, h) > 0
      <4>1. CASE Requesting(t, "retain", h)
        BY <1>5, <4>1, RequestedIsAlive
      <4>2. CASE ~Requesting(t, "retain", h)
        BY <3>1, <3>2, <4>2 DEF TrackerShare, DriverShare, One
      <4>. QED  BY <4>1, <4>2
    <3>. QED  BY <1>5, <3>3, ShareIsCounted
  <2>4. CASE objects[h].num_children > 0
    <3>1. ChildEdges(h) # {}
      BY <2>2, <2>4, FS_EmptySet
    <3>2. PICK c \in Handles : \E i \in Owed(c) : ParentsOf(c)[i] = h
      BY <3>1, ChildEdgesAre
    <3>3. PICK i \in Owed(c) : ParentsOf(c)[i] = h
      BY <3>2
    <3>4. i \in DOMAIN ParentsOf(c) /\ ParentsOf(c) \in Seq(Handles)
      BY <3>3, ParentsOfType
    <3>5. Known(c) /\ c # Null
      <4>1. CASE ~Known(c) \/ c = Null
        <5>1. ParentsOf(c) = <<>>
          BY <4>1 DEF Known, ParentsOf, Tracked, Framed, NullOK
        <5>. QED  BY <3>4, <5>1
      <4>. QED  BY <4>1
    <3>6. ParentsOf(c) = RecordedBelow(c) /\ DriverHas(c)
      BY <3>5 DEF Links, Linked, Known, ParentsOf, Tracked, Framed
    <3>7. h \in Elements(RecordedBelow(c))
      BY <3>3, <3>4, <3>6 DEF Elements
    <3>. QED  BY <1>2, <3>6, <3>7, BelowInUse DEF Alive
  <2>. QED  BY <2>2, <2>3, <2>4
<1>. QED  BY <1>3, <1>4, <1>5, PoolAndRoots DEF Known

\* Outside a walk the parents a record names have records.
LEMMA ParentTracked ==
    ASSUME SysInv, Unlocked, NEW c \in Handles \ {Null}, Tracked(c),
           NEW p \in Elements(RecordedBelow(c))
    PROVE  Tracked(p)
<1>. /\ SysTypeOK /\ Links /\ Structure /\ ExactInv({Null}) /\ Inv /\ RootsKept
     /\ \A g \in Handles : ~Framed(g)
  BY InvParts DEF Inv, WalkInv, Unlocked
<1>1. DriverHas(c) /\ KindOK(c) /\ objects[c].parents = RecordedBelow(c) /\ ~Framed(c)
  BY DEF Links, Linked, Known, Structure
<1>2. p \in Handles
  BY <1>1, RecordTyped, ElementsOfSeq
<1>3. CASE c \in Roots
  <2>1. drv[c].on = <<>> /\ drv[c].type # "EVENT"
    BY <1>3, RootIsAlive DEF RootTypes
  <2>. QED  BY <2>1, ElementsOfNone DEF RecordedBelow
<1>4. CASE c \in Pool
  <2>1. InLife(c)
    BY <1>1, <1>4, PoolAndRoots DEF InLife, Counts, IsCounted, Linked, Links, KindOK, Framed
  <2>. QED  BY <1>1, <1>2, <2>1, UnnamedWhenForgotten
<1>. QED  BY <1>3, <1>4, PoolAndRoots

\* So has the context of an object that has one.
LEMMA ContextTracked ==
    ASSUME SysInv, Unlocked, NEW h \in Handles \ {Null}, Tracked(h), InContext(h)
    PROVE  /\ Tracked(drv[h].context) /\ DriverHas(drv[h].context)
           /\ drv[drv[h].context].type = "CONTEXT" /\ drv[h].context \in Handles
<1>. SysTypeOK /\ Links /\ Structure /\ WellFounded /\ NullOK
  BY InvParts
<1>1. \A x \in Handles \ {Null} : Tracked(x) => DriverHas(x) /\ KindOK(x)
  BY DEF Links, Linked, Known, Structure
<1> DEFINE S == {x \in Handles \ {Null} :
                   Tracked(x) /\ InContext(x) /\ ~Tracked(drv[x].context)}
<1>2. S = {}
  <2> SUFFICES ASSUME S # {}
               PROVE  FALSE
    OBVIOUS
  <2>1. PICK m \in S : DriverHas(m) => Elements(drv[m].on) \cap S = {}
    BY DEF WellFounded
  <2>2. m \in Handles \ {Null} /\ DriverHas(m) /\ KindOK(m) /\ Tracked(m) /\ InContext(m)
        /\ ~Tracked(drv[m].context)
    BY <1>1, <2>1
  <2>3. CASE drv[m].type = "EVENT"
    <3>1. drv[m].context \in Elements(RecordedBelow(m))
      BY <2>3, ElementsOfOne DEF RecordedBelow
    <3>. QED  BY <2>2, <3>1, ParentTracked
  <2>4. CASE drv[m].type = "CONTEXT"
    BY <2>2, <2>4 DEF KindOK
  <2>5. CASE drv[m].type \notin {"EVENT", "CONTEXT"}
    <3>1. PICK p \in Handles : /\ drv[m].on = <<p>> /\ InContext(p)
                               /\ drv[m].context = drv[p].context
      BY <2>2, <2>5 DEF KindOK
    <3>2. p \in Elements(drv[m].on) /\ p \in Elements(RecordedBelow(m))
      BY <2>5, <3>1, ElementsOfOne DEF RecordedBelow
    <3>3. Tracked(p) /\ p # Null
      BY <2>2, <3>2, ParentTracked, NotNull DEF KindOK
    <3>4. p \notin S
      BY <2>1, <2>2, <3>2
    <3>. QED  BY <2>2, <3>1, <3>3, <3>4
  <2>. QED  BY <2>3, <2>4, <2>5
<1>3. Tracked(drv[h].context)
  BY <1>2
<1>. QED  BY <1>1, <1>3 DEF KindOK, DriverHas

\* What a query on a tracked object can answer has a record.
LEMMA RelatedTracked ==
    ASSUME SysInv, Unlocked, NEW h \in Handles \ {Null}, Tracked(h), drv[h].type # "EVENT",
           NEW q, Related(h, q)
    PROVE  Tracked(q) /\ q \in Handles
<1>1. CASE q \in Elements(drv[h].on)
  BY <1>1, ParentTracked DEF RecordedBelow, Tracked
<1>2. CASE InContext(h) /\ q = drv[h].context
  BY <1>2, ContextTracked
<1>3. CASE InContext(h) /\ q \in Elements(drv[drv[h].context].on)
  <2>1. /\ Tracked(drv[h].context) /\ drv[h].context \in Handles \ {Null}
        /\ drv[drv[h].context].type = "CONTEXT"
    BY <1>3, ContextTracked, NotNull, InvParts
  <2>2. q \in Elements(RecordedBelow(drv[h].context))
    BY <1>3, <2>1 DEF RecordedBelow
  <2>. QED  BY <2>1, <2>2, ParentTracked DEF Tracked
<1>. QED  BY <1>1, <1>2, <1>3 DEF Related

\* It is alive as long as the object is.
LEMMA RelatedAlive ==
    ASSUME SysTypeOK, Structure, NEW h, Alive(h), NEW q, Related(h, q)
    PROVE  Alive(q) /\ DriverHas(q)
<1>1. DriverHas(h) /\ KindOK(h) /\ h \in Handles
  BY DEF Alive, Structure, DriverHas
<1>2. CASE q \in Elements(drv[h].on)
  BY <1>1, <1>2 DEF KindOK, Alive, InUse
<1>3. ASSUME InContext(h)
      PROVE  Alive(drv[h].context) /\ DriverHas(drv[h].context) /\ KindOK(drv[h].context)
  <2>1. DriverHas(drv[h].context) /\ KindOK(drv[h].context)
    BY <1>1, <1>3 DEF KindOK, Structure, DriverHas
  <2>2. CASE drv[h].type = "CONTEXT"
    BY <1>1, <2>1, <2>2 DEF KindOK
  <2>3. CASE drv[h].type # "CONTEXT"
    BY <1>1, <1>3, <2>1, <2>3, ContextInUse DEF Alive
  <2>. QED  BY <2>1, <2>2, <2>3
<1>4. CASE InContext(h) /\ q \in Elements(drv[drv[h].context].on)
  BY <1>3, <1>4 DEF KindOK, Alive, InUse, DriverHas
<1>. QED  BY <1>2, <1>3, <1>4 DEF Related

\* An object that only its maker knows is nobody else's.
LEMMA MadeAlone ==
    ASSUME SysInv, LegalUse, NEW u \in Threads, NEW h \in Pool, Making(u, h), Fresh(h), DriverHas(h),
           NEW t \in Threads, t # u
    PROVE  DriverShare(t, h) = 0 /\ own[t][h] = 0 /\ ~Requesting(t, "release", h)
           /\ ~Making(t, h) /\ ~Requesting(t, "retain", h)
<1>. SysTypeOK /\ Balance /\ h \in Handles
  BY InvParts, PoolAndRoots
<1>1. DriverShare(u, h) > 0
  BY OwnTyped DEF DriverShare, One
<1>2. Refs(h) = 1
  BY DEF Refs, Fresh
<1>3. DriverShare(t, h) = 0
  BY <1>1, <1>2, ShareAlone
<1>4. own[t][h] = 0 /\ ~Requesting(t, "release", h) /\ ~Making(t, h)
  BY <1>3, OwnTyped DEF DriverShare, One
<1>. QED  BY <1>3, <1>4, RequestedIsAlive

-----------------------------------------------------------------------------
(***************************************************************************)
(* Reading the invariant: the arguments of a call.                         *)
(***************************************************************************)

LEMMA AcceptedTypes ==
    /\ Accepted("MEM") = {"BUFFER", "IMAGE", "PIPE"}
    /\ Accepted("DEVICE") = {"DEVICE", "SUB_DEVICE"}
    /\ \A T : T # "MEM" /\ T # "DEVICE" => Accepted(T) = {T}
BY DEF Accepted

\* An entry point that makes or answers something checks an object for it.
LEMMA FirstArgument ==
    ASSUME LegalUse, NEW fn \in Used, fn.makes # NOTHING \/ QueryShape(fn)
    PROVE  /\ fn.arguments \in Seq(Plain) /\ fn.arguments # <<>> /\ 1 \in DOMAIN fn.arguments
           /\ fn.arguments[1].check = "exists" /\ ~fn.arguments[1].null
           /\ fn.arguments[1].type # "EVENT"
           /\ fn # clCreateContext => fn.arguments[1].type # "PLATFORM"
           /\ fn.makes # NOTHING => fn \in Special \/ CreateShape(fn)
<1>1. Shape(fn)
  BY UsedShapes
<1>2. CASE fn \in Special
  <2>1. /\ ExistsErrc("PLATFORM").type = "PLATFORM" /\ ExistsErrc("CONTEXT").type = "CONTEXT"
        /\ ExistsErrc("KERNEL").type = "KERNEL"
    BY DEF ExistsErrc, Argument
  <2>2. fn.arguments[1].type \in {"PLATFORM", "CONTEXT", "KERNEL"}
    BY <1>2, <2>1, ContextShape, CloneShape, ImageShapes, QueueShape DEF Special
  <2>3. fn # clCreateContext => fn.arguments[1].type # "PLATFORM"
    BY <1>2, <2>1, CloneShape, ImageShapes, QueueShape DEF Special
  <2>4. /\ fn.arguments \in Seq(Plain) /\ fn.arguments # <<>>
        /\ fn.arguments[1].check = "exists" /\ ~fn.arguments[1].null
    BY <1>2, SpecialShape
  <2>5. 1 \in DOMAIN fn.arguments
    BY <2>4
  <2>. QED  BY <1>2, <2>2, <2>3, <2>4, <2>5
<1>3. CASE CreateShape(fn)
  BY <1>3 DEF CreateShape, MadeBelow
<1>4. CASE QueryShape(fn)
  <2>1. PICK T \in QueriedTypes : fn.arguments = <<Exists(T)>>
    BY <1>4 DEF QueryShape
  <2>2. T \in ObjectTypes /\ T # "EVENT" /\ T # "PLATFORM"
    BY AllTypes DEF QueriedTypes
  <2>3. /\ Exists(T) \in Plain /\ Exists(T).check = "exists" /\ ~Exists(T).null
        /\ Exists(T).type = T
    BY <2>2, PlainArguments DEF Exists, Argument
  <2>4. <<Exists(T)>> \in Seq(Plain) /\ <<Exists(T)>> # <<>> /\ <<Exists(T)>>[1] = Exists(T)
    BY <2>3
  <2>5. fn.makes = NOTHING
    BY <1>4 DEF QueryShape
  <2>. QED  BY <2>1, <2>2, <2>3, <2>4, <2>5
<1>5. CASE CountingShape(fn) \/ UseShape(fn) \/ ListShape(fn)
  <2>1. fn.makes = NOTHING
    BY <1>5, CountingCalls DEF UseShape, ListShape
  <2>2. QueryShape(fn)
    BY <2>1
  <2>. QED  BY <1>4, <2>2
<1>. QED  BY <1>1, <1>2, <1>3, <1>4, <1>5 DEF Shape

\* What is passed and not released is held.
LEMMA PassedIsHeld ==
    ASSUME SysInv, NEW t \in Threads, call[t] # None, NEW i \in DOMAIN call[t].args,
           call[t].fn.arguments[i].check # "release", NEW h \in Elements(call[t].args[i]), h # None
    PROVE  h \in Handles /\ own[t][h] > 0 /\ DriverHas(h)
           /\ drv[h].type \in Accepted(call[t].fn.arguments[i].type)
<1>1. CallOK(t)
  BY InvParts DEF Calls
<1>2. ArgumentOK(t, call[t].fn.arguments[i], call[t].args[i])
  BY <1>1 DEF CallOK
<1>. QED  BY <1>2 DEF ArgumentOK, DriverHas

\* A call that makes or answers something holds its first argument.
LEMMA FirstIsHeld ==
    ASSUME SysInv, LegalUse, NEW t \in Threads, call[t] # None,
           call[t].stage # "check" \/ Len(call[t].args) = Len(call[t].fn.arguments),
           call[t].fn.makes # NOTHING \/ QueryShape(call[t].fn)
    PROVE  /\ 1 \in DOMAIN call[t].args /\ call[t].args # <<>>
           /\ call[t].args[1] = <<Argument1(t)>> /\ Argument1(t) \in Elements(call[t].args[1])
           /\ Argument1(t) # None =>
                /\ Argument1(t) \in Handles /\ own[t][Argument1(t)] > 0 /\ DriverHas(Argument1(t))
                /\ drv[Argument1(t)].type \in Accepted(call[t].fn.arguments[1].type)
           /\ call[t].fn # clCreateContext => Argument1(t) # None
<1> DEFINE fn == call[t].fn
           args == call[t].args
<1>1. SysTypeOK /\ CallOK(t)
  BY InvParts DEF Calls
<1>2. fn \in Used /\ args \in Seq(Seq(Handles \cup {None}))
  BY <1>1, CallTyped
<1>3. /\ fn.arguments \in Seq(Plain) /\ fn.arguments # <<>> /\ fn.arguments[1].check = "exists"
      /\ ~fn.arguments[1].null
      /\ fn # clCreateContext => fn.arguments[1].type # "PLATFORM"
  BY <1>2, FirstArgument
<1>4. Len(args) = Len(fn.arguments)
  BY <1>1 DEF CallOK
<1>5. 1 \in DOMAIN args /\ args # <<>>
  BY <1>2, <1>3, <1>4
<1>6. ArgumentOK(t, fn.arguments[1], args[1])
  BY <1>1, <1>5 DEF CallOK
<1>7. args[1] \in Seq(Handles \cup {None}) /\ Len(args[1]) = 1
  BY <1>3, <1>6 DEF ArgumentOK
<1>8. args[1] = <<args[1][1]>> /\ args[1][1] \in Elements(args[1])
  BY <1>7, ElementsOfSingle
<1>9. Argument1(t) = args[1][1]
  BY DEF Argument1
<1>10. Argument1(t) # None =>
          /\ Argument1(t) \in Handles /\ own[t][Argument1(t)] > 0 /\ DriverHas(Argument1(t))
          /\ drv[Argument1(t)].type \in Accepted(fn.arguments[1].type)
  BY <1>3, <1>5, <1>8, <1>9, PassedIsHeld
<1>11. fn # clCreateContext => Argument1(t) # None
  <2>1. None \notin Handles
    BY PoolAndRoots
  <2>. QED  BY <1>3, <1>6, <1>8, <1>9, <2>1 DEF ArgumentOK, DriverHas
<1>. QED  BY <1>5, <1>8, <1>9, <1>10, <1>11

\* What a call names is alive, until the driver has seen its release.
LEMMA ArgumentsAlive ==
    ASSUME SysInv, LegalUse, NEW t \in Threads, call[t] # None,
           NEW i \in DOMAIN call[t].args, NEW h \in Elements(call[t].args[i]), h # None
    PROVE  Alive(h) /\ h \in Handles /\ DriverHas(h)
<1>. SysTypeOK /\ CallOK(t) /\ RootsKept /\ NullOK
  BY InvParts DEF Calls
<1>1. CASE call[t].fn.arguments[i].check # "release"
  BY <1>1, PassedIsHeld, HeldIsAlive
<1>2. CASE call[t].fn.arguments[i].check = "release"
  <2> DEFINE fn == call[t].fn
             args == call[t].args
  <2>1. fn \in Used /\ args \in Seq(Seq(Handles \cup {None})) /\ call[t].stage \in Stages
    BY CallTyped
  <2>2. ArgumentOK(t, fn.arguments[i], args[i]) /\ Len(args) <= Len(fn.arguments)
    BY DEF CallOK
  <2>3. CountingShape(fn)
    <3>1. CASE fn.arguments \in Seq(Plain)
      <4>1. i \in DOMAIN fn.arguments
        BY <2>1, <2>2, <3>1
      <4>. QED  BY <1>2, <3>1, <4>1, PlainCall
    <3>. QED  BY <2>1, <3>1, UsedArguments
  <2>4. /\ DOMAIN fn.arguments = {1} /\ Len(fn.arguments) = 1 /\ fn.results = {}
        /\ ~fn.arguments[1].null /\ Counting(fn) = fn.arguments[1].check
    BY <2>1, <2>3, CountingCalls
  <2>5. i = 1 /\ args # <<>> /\ Len(args) = 1
    <3>1. i \in 1 .. Len(args) /\ Len(args) \in Nat /\ Len(args) <= 1
      BY <2>1, <2>2, <2>4
    <3>2. \A n \in Nat : \A j \in 1 .. n : n <= 1 => n = 1 /\ j = 1
      OBVIOUS
    <3>3. Len(args) = 1 /\ i = 1
      BY <3>1, <3>2, Zenon
    <3>4. args # <<>>
      BY <2>1, <3>3
    <3>. QED  BY <3>3, <3>4
  <2>6. Len(args[1]) = 1 /\ args[1] \in Seq(Handles \cup {None})
    BY <1>2, <2>2, <2>4, <2>5 DEF ArgumentOK
  <2>7. Argument1(t) = h
    BY <2>5, <2>6 DEF Argument1, Elements
  <2>8. call[t].stage = "check"
    BY <2>4 DEF CallOK
  <2>9. Requesting(t, "release", h)
    BY <1>2, <2>4, <2>5, <2>7, <2>8 DEF Requesting
  <2>10. DriverHas(h) /\ h \in Handles
    <3>1. h \in Handles
      BY <2>5, <2>6, ElementsOfSeq
    <3>2. fn.arguments[1].type # "PLATFORM"
      BY <2>1, <2>3, CountingCalls
    <3>. QED  BY <2>2, <2>5, <3>1 DEF ArgumentOK, DriverHas
  <2>. QED  BY <2>9, <2>10, RequestedIsAlive, RootIsAlive, NotNull
<1>. QED  BY <1>1, <1>2

\* So is what it made, and a root it met.
LEMMA MadeIsAlive ==
    ASSUME SysInv, LegalUse, NEW t \in Threads, NEW h, Making(t, h)
    PROVE  /\ h \in Pool /\ h \in Handles /\ DriverHas(h) /\ Alive(h) /\ drv[h].type = call[t].fn.makes
           /\ DriverShare(t, h) > 0
           /\ call[t].stage # "check"
<1>. SysTypeOK /\ Balance
  BY InvParts
<1>1. call[t] # None /\ call[t].fn.makes # NOTHING /\ h \in Elements(call[t].made) /\ CallOK(t)
  BY InvParts DEF Making, Calls
<1>2. call[t].stage # "check"
  BY <1>1, ElementsOfNone DEF CallOK
<1>3. h \in Pool /\ DriverHas(h) /\ drv[h].type = call[t].fn.makes
  BY <1>1, <1>2 DEF CallOK, MadeOK
<1>4. DriverShare(t, h) > 0
  BY <1>3, OwnTyped, PoolAndRoots DEF DriverShare, One
<1>. QED  BY <1>2, <1>3, <1>4, ShareIsCounted, PoolAndRoots

-----------------------------------------------------------------------------
(***************************************************************************)
(* A step seen from a call it is not part of.                              *)
(***************************************************************************)

\* What an object is does not change.
SameObject(h) ==
    /\ DriverHas(h)'
    /\ drv'[h].type = drv[h].type
    /\ drv'[h].on = drv[h].on
    /\ drv'[h].context = drv[h].context
    /\ drv'[h].default = drv[h].default

\* The driver takes back no object that is alive.
DriverKeeps == \A h \in Handles : Alive(h) => SameObject(h)

LEMMA RelatedKept ==
    ASSUME SysTypeOK, Structure, DriverKeeps, NEW h, Alive(h), NEW q, Related(h, q)
    PROVE  Related(h, q)'
<1>1. DriverHas(h) /\ KindOK(h) /\ h \in Handles /\ SameObject(h)
  BY DEF Alive, Structure, DriverHas, DriverKeeps
<1>2. CASE q \in Elements(drv[h].on)
  BY <1>1, <1>2 DEF Related, SameObject, Elements
<1>3. CASE InContext(h)
  <2>1. Related(h, drv[h].context) /\ drv[h].context \in Handles
    BY <1>1, <1>3 DEF Related, KindOK, DriverHas
  <2>2. SameObject(drv[h].context)
    BY <2>1, RelatedAlive DEF DriverKeeps
  <2>3. InContext(h)'
    BY <1>1, <1>3 DEF InContext, SameObject
  <2>. QED  BY <1>1, <1>3, <2>2, <2>3 DEF Related, SameObject, Elements
<1>. QED  BY <1>2, <1>3 DEF Related

LEMMA RecordedBelowKept ==
    ASSUME NEW h, SameObject(h)
    PROVE  RecordedBelow(h)' = RecordedBelow(h) /\ GetParent(h)' = GetParent(h)
BY DEF SameObject, RecordedBelow, GetParent

\* The parents a wrapper gives a record depend on the call and on what the
\* object and the first argument are.
LEMMA LayerParentsKept ==
    ASSUME NEW t, NEW r, NEW h, SameObject(h), call'[t] = call[t],
           r.parents = "get_parent(argument)" => SameObject(Argument1(t))
    PROVE  LayerParents(t, r, h)' = LayerParents(t, r, h)
<1>1. GetParent(h)' = GetParent(h)
  BY RecordedBelowKept
<1>2. r.parents = "get_parent(argument)" =>
         GetParent(call[t].args[1][1])' = GetParent(call[t].args[1][1])
  BY RecordedBelowKept DEF Argument1, SameObject, GetParent
<1>3. drv'[h].on = drv[h].on /\ drv'[h].type = drv[h].type
  BY DEF SameObject
<1>4. CASE r.parents = "get_parent(argument)"
  BY <1>2, <1>4 DEF LayerParents
<1>5. CASE r.parents # "get_parent(argument)"
  BY <1>1, <1>3, <1>5 DEF LayerParents
<1>. QED  BY <1>4, <1>5

\* Only a clone takes the parent of an argument.
LEMMA ClonesParent ==
    ASSUME LegalUse, NEW fn \in Used, fn.makes # NOTHING, NEW r \in fn.results,
           r.parents = "get_parent(argument)"
    PROVE  fn = clCloneKernel
<1>1. CASE fn \in Special
  <2>1. /\ Creation("CONTEXT", "device list").parents = "device list"
        /\ Creation("IMAGE", "get_parent").parents = "get_parent"
        /\ Creation("IMAGE", "image_desc").parents = "image_desc"
        /\ Creation("COMMAND_QUEUE", "argument").parents = "argument"
        /\ CreateOrExistsErrc("COMMAND_QUEUE", "argument").parents = "argument"
    BY DEF Creation, CreateOrExistsErrc, Result
  <2>2. CASE fn = clCreateContext
    BY <2>1, <2>2, ContextShape
  <2>3. CASE fn \in {clCreateImage, clCreateImageWithProperties}
    <3>1. r \in {Creation("IMAGE", "get_parent"), Creation("IMAGE", "image_desc")}
      BY <2>3, ImageShapes
    <3>. QED  BY <2>1, <3>1
  <2>4. CASE fn = clCreateCommandQueueWithProperties
    BY <2>1, <2>4, QueueShape
  <2>. QED  BY <1>1, <2>2, <2>3, <2>4 DEF Special
<1>2. CASE CreateShape(fn)
  BY <1>2 DEF CreateShape, MadeBelow
<1>. QED  BY <1>1, <1>2, FirstArgument

LEMMA CallKept ==
    ASSUME SysInv, LegalUse, NEW t \in Threads, call[t] # None, call'[t] = call[t],
           \A h \in Handles : own[t][h] > 0 => own'[t][h] > 0,
           DriverKeeps,
           \A h \in Roots : Tracked(h) => Tracked(h)',
           \A h \in Pool : Making(t, h) /\ Fresh(h) /\ call[t].stage = "post" => Fresh(h)'
    PROVE  CallOK(t)'
<1> DEFINE c == call[t]
           fn == c.fn
           r == c.result
<1>0. /\ SysTypeOK /\ CallOK(t) /\ Structure /\ RootsKept /\ fn \in Used
      /\ c.args \in Seq(Seq(Handles \cup {None})) /\ c.made \in Seq(Handles)
  BY InvParts, CallTyped DEF Calls
<1>1. \A i \in DOMAIN c.args : ArgumentOK(t, fn.arguments[i], c.args[i])'
  <2> SUFFICES ASSUME NEW i \in DOMAIN c.args
               PROVE  ArgumentOK(t, fn.arguments[i], c.args[i])'
    OBVIOUS
  <2>1. ArgumentOK(t, fn.arguments[i], c.args[i])
    BY <1>0 DEF CallOK
  <2>2. ASSUME NEW h \in Elements(c.args[i]), ~(h = None /\ fn.arguments[i].type = "PLATFORM")
        PROVE  /\ DriverHas(h)' /\ drv'[h].type \in Accepted(fn.arguments[i].type)
               /\ fn.arguments[i].check # "release" => own'[t][h] > 0
    <3>1. /\ DriverHas(h) /\ drv[h].type \in Accepted(fn.arguments[i].type)
          /\ fn.arguments[i].check # "release" => own[t][h] > 0
      BY <2>1, <2>2 DEF ArgumentOK
    <3>2. h \in Handles /\ h # None
      BY <3>1, PoolAndRoots DEF DriverHas
    <3>3. SameObject(h)
      BY <3>2, ArgumentsAlive DEF DriverKeeps
    <3>. QED  BY <3>1, <3>2, <3>3 DEF SameObject
  <2>. QED  BY <2>1, <2>2 DEF ArgumentOK
<1>2. ASSUME c.stage # "check", fn.makes # NOTHING \/ QueryShape(fn), NEW q \in Handles,
             Related(Argument1(t), q)
      PROVE  Related(Argument1(t), q)'
  <2>1. /\ 1 \in DOMAIN c.args /\ Argument1(t) \in Elements(c.args[1])
    BY <1>2, FirstIsHeld
  <2>2. Argument1(t) # None
    BY <1>2, PoolAndRoots DEF Related, DriverHas
  <2>3. Alive(Argument1(t))
    BY <2>1, <2>2, ArgumentsAlive
  <2>4. Related(Argument1(t), q)'  \/ Argument1(t)' # Argument1(t)
    BY <1>0, <1>2, <2>3, RelatedKept
  <2>. QED  BY <2>4 DEF Argument1
<1>3. c.stage # "check" => MadeOK(t)'
  <2> SUFFICES ASSUME c.stage # "check", fn.makes # NOTHING
               PROVE  MadeOK(t)'
    BY DEF MadeOK
  <2>1. MadeOK(t) /\ r \in fn.results
    BY <1>0 DEF CallOK
  <2>2. ASSUME NEW h \in Elements(c.made)
        PROVE  h \in Pool /\ h \in Handles /\ SameObject(h) /\ DriverHas(h)
               /\ drv[h].type = fn.makes /\ Making(t, h)
    <3>1. Making(t, h)
      BY <2>2 DEF Making
    <3>. QED  BY <3>1, MadeIsAlive DEF DriverKeeps
  <2>3. ASSUME NEW h \in Elements(c.made), c.stage = "post"
        PROVE  /\ LayerParents(t, r, h)' = RecordedBelow(h)'
               /\ \A p \in Elements(RecordedBelow(h)') :
                    own'[t][p] > 0 \/ Related(Argument1(t), p)'
               /\ r.check # "create or exists" => Fresh(h)'
    <3>1. /\ SameObject(h) /\ DriverHas(h) /\ h \in Pool /\ Making(t, h)
      BY <2>2, <2>3
    <3>2. RecordedBelow(h)' = RecordedBelow(h)
      BY <3>1, RecordedBelowKept
    <3>3. r.parents = "get_parent(argument)" => SameObject(Argument1(t))
      <4>1. CASE r.parents = "get_parent(argument)"
        <5>1. fn = clCloneKernel /\ fn # clCreateContext
          <6>1. fn = clCloneKernel
            BY <1>0, <2>1, <4>1, ClonesParent
          <6>2. clCloneKernel.makes # clCreateContext.makes
            BY CloneShape, ContextShape
          <6>. QED  BY <6>1, <6>2
        <5>2. 1 \in DOMAIN c.args /\ Argument1(t) \in Elements(c.args[1]) /\ Argument1(t) # None
          BY <5>1, FirstIsHeld
        <5>. QED  BY <5>2, ArgumentsAlive DEF DriverKeeps
      <4>. QED  BY <4>1
    <3>4. LayerParents(t, r, h)' = LayerParents(t, r, h)
      BY <3>1, <3>3, LayerParentsKept
    <3>5. LayerParents(t, r, h) = RecordedBelow(h)
      BY <2>1, <2>3 DEF MadeOK
    <3>6. ASSUME NEW p \in Elements(RecordedBelow(h))
          PROVE  own'[t][p] > 0 \/ Related(Argument1(t), p)'
      <4>1. own[t][p] > 0 \/ Related(Argument1(t), p)
        BY <2>1, <2>3, <3>6 DEF MadeOK
      <4>2. p \in Handles
        BY <1>0, <3>1, <3>6, BelowInUse DEF DriverHas
      <4>. QED  BY <1>2, <4>1, <4>2
    <3>7. r.check # "create or exists" => Fresh(h)'
      BY <2>1, <2>3, <3>1 DEF MadeOK
    <3>. QED  BY <3>2, <3>4, <3>5, <3>6, <3>7 DEF Elements
  <2>4. c.stage = "post" => IsInjective(c.made) /\ (r.check # "list" => Len(c.made) = 1)
    BY <2>1 DEF MadeOK
  <2>5. \A h \in Elements(c.made) : h \in Pool /\ DriverHas(h)' /\ drv'[h].type = fn.makes
    BY <2>2 DEF SameObject
  <2>. QED  BY <2>3, <2>4, <2>5, ZenonT(60) DEF MadeOK, Elements
<1>4. c.stage # "check" => AnswerOK(t)'
  <2> SUFFICES ASSUME c.stage # "check"
               PROVE  AnswerOK(t)'
    OBVIOUS
  <2>1. AnswerOK(t) /\ r \in fn.results
    BY <1>0 DEF CallOK
  <2>2. CASE r.check = "roots"
    <3>1. PICK h \in Roots : /\ c.made = <<h>> /\ drv[h].type = r.type
                             /\ c.stage = "return" => Tracked(h)
      BY <2>1, <2>2 DEF AnswerOK
    <3>2. drv'[h].type = drv[h].type
      BY <1>0, RootIsAlive, PoolAndRoots DEF DriverKeeps, SameObject
    <3>. QED  BY <2>2, <3>1, <3>2 DEF AnswerOK
  <2>3. CASE r.check = "add" /\ c.stage = "post"
    <3>1. QueryShape(fn)
      BY <1>0, <2>1, <2>3, UsedResults
    <3>2. ASSUME ~(c.made = <<Null>> /\ r = AddOrExists("BUFFER", "get_parent")),
                 NEW h \in Elements(c.made)
          PROVE  Related(Argument1(t), h)' /\ RecordedType(r, h)' = drv'[h].type
      <4>1. Related(Argument1(t), h) /\ RecordedType(r, h) = drv[h].type
        BY <2>1, <2>3, <3>2 DEF AnswerOK
      <4>2. h \in Handles
        BY <1>0, <3>2, ElementsOfSeq
      <4>3. 1 \in DOMAIN c.args /\ Argument1(t) \in Elements(c.args[1])
        BY <3>1, FirstIsHeld
      <4>4. Argument1(t) # None
        BY <4>1, PoolAndRoots DEF Related, DriverHas
      <4>5. Alive(h)
        BY <1>0, <4>1, <4>3, <4>4, ArgumentsAlive, RelatedAlive
      <4>6. drv'[h].type = drv[h].type
        BY <4>2, <4>5 DEF DriverKeeps, SameObject
      <4>. QED  BY <1>2, <3>1, <4>1, <4>2, <4>6 DEF RecordedType
    <3>. QED  BY <2>3, <3>2 DEF AnswerOK
  <2>4. CASE r.check # "roots" /\ ~(r.check = "add" /\ c.stage = "post")
    BY <2>4 DEF AnswerOK
  <2>. QED  BY <2>2, <2>3, <2>4
<1>5. /\ c.stage # "crashed" /\ Len(c.args) <= Len(fn.arguments)
      /\ c.stage = "check" => c.result = None /\ c.made = <<>>
      /\ c.stage # "check" => /\ Len(c.args) = Len(fn.arguments)
                              /\ c.result \in fn.results /\ c.made # <<>>
  BY <1>0 DEF CallOK
<1>. QED  BY <1>1, <1>3, <1>4, <1>5 DEF CallOK

-----------------------------------------------------------------------------
(***************************************************************************)
(* A step and the balance.                                                 *)
(***************************************************************************)

LEMMA SharePrimed ==
    ASSUME SysTypeOK', NEW t \in Threads, NEW h \in Handles
    PROVE  DriverShare(t, h)' \in Nat /\ TrackerShare(t, h)' \in Nat
<1>1. own'[t][h] \in Nat
  BY DEF SysTypeOK
<1>2. \A b \in BOOLEAN : One(b) \in Nat
  BY DEF One
<1>3. One(Requesting(t, "release", h))' \in Nat /\ One(Requesting(t, "retain", h))' \in Nat
  BY DEF One
<1>4. One(Making(t, h))' \in Nat /\ One(Making(t, h) /\ ~ToRegister(t, h))' \in Nat
  BY DEF One
<1>. QED  BY <1>1, <1>3, <1>4 DEF DriverShare, TrackerShare

\* A thread that does nothing keeps its shares.
LEMMA ShareKept ==
    ASSUME NEW u, NEW h, call'[u] = call[u], own'[u][h] = own[u][h]
    PROVE  /\ Requesting(u, "release", h)' <=> Requesting(u, "release", h)
           /\ Requesting(u, "retain", h)' <=> Requesting(u, "retain", h)
           /\ Making(u, h)' <=> Making(u, h)
           /\ DriverShare(u, h)' = DriverShare(u, h)
           /\ mutex' = mutex \/ (~Holds(u) /\ ~Holds(u)') =>
                TrackerShare(u, h)' = TrackerShare(u, h)
<1>1. /\ Requesting(u, "release", h)' <=> Requesting(u, "release", h)
      /\ Requesting(u, "retain", h)' <=> Requesting(u, "retain", h)
  BY DEF Requesting, Argument1
<1>2. Making(u, h)' <=> Making(u, h)
  BY DEF Making, Elements
<1>3. mutex' = mutex \/ (~Holds(u) /\ ~Holds(u)') =>
         (ToRegister(u, h)' <=> ToRegister(u, h))
  BY <1>2 DEF ToRegister, Holds, Elements
<1>. QED  BY <1>1, <1>2, <1>3 DEF DriverShare, TrackerShare, One

LEMMA BalanceMoves ==
    ASSUME SysTypeOK, SysTypeOK', Balance, NEW t \in Threads, leaks' = leaks,
           \A u \in Threads \ {t} :
              /\ call'[u] = call[u] /\ \A h \in Handles : own'[u][h] = own[u][h]
              /\ mutex' = mutex \/ (~Holds(u) /\ ~Holds(u)'),
           \A h \in Pool :
              /\ Refs(h)' - Refs(h) = DriverShare(t, h)' - DriverShare(t, h)
              /\ leaks = None =>
                   CountOf(h)' - CountOf(h) = TrackerShare(t, h)' - TrackerShare(t, h)
    PROVE  Balance'
<1> SUFFICES ASSUME NEW h \in Pool
             PROVE  DriverBalance(h)' /\ (leaks' = None => TrackerBalance(h)')
  BY DEF Balance
<1>0. h \in Handles /\ IsFiniteSet(Threads)
  BY PoolAndRoots
<1>1. DriverBalance(h) /\ (leaks = None => TrackerBalance(h))
  BY DEF Balance
<1>2. \A u \in Threads \ {t} : DriverShare(u, h)' = DriverShare(u, h)
                               /\ TrackerShare(u, h)' = TrackerShare(u, h)
  BY <1>0, ShareKept
<1>3. \A u \in Threads : /\ DriverShare(u, h) \in Nat /\ TrackerShare(u, h) \in Nat
                         /\ DriverShare(u, h)' \in Nat /\ TrackerShare(u, h)' \in Nat
  BY <1>0, ShareTyped, SharePrimed
<1>4. /\ Refs(h) \in Int /\ Refs(h)' \in Int
      /\ CountOf(h) \in Int /\ CountOf(h)' \in Int
  <2>1. Refs(h) \in Int
    BY ObjectTyped DEF Refs
  <2>2. CountOf(h) \in Int
    BY RecordTyped DEF CountOf
  <2>3. Refs(h)' \in Int
    <3>1. CASE DriverHas(h)'
      <4>1. drv'[h] \in DriverObject
        BY <3>1 DEF DriverHas, SysTypeOK
      <4>. QED  BY <3>1, <4>1 DEF Refs, DriverObject
    <3>. QED  BY <3>1 DEF Refs
  <2>4. CountOf(h)' \in Int
    <3>1. CASE Tracked(h)'
      <4>1. objects'[h] \in Record
        BY <3>1 DEF Tracked, SysTypeOK, TypeOK
      <4>. QED  BY <3>1, <4>1 DEF CountOf, Record
    <3>. QED  BY <3>1 DEF CountOf
  <2>. QED  BY <2>1, <2>2, <2>3, <2>4
<1>5. DriverBalance(h)'
  <2> DEFINE f == [u \in Threads |-> DriverShare(u, h)]
             g == [u \in Threads |-> DriverShare(u, h)']
  <2>1. Refs(h) = SumFunctionOnSet(f, Threads)
    BY <1>1 DEF DriverBalance, Total
  <2>2. \A x \in Threads : f[x] \in Int /\ g[x] \in Int
    BY <1>3
  <2>3. \A x \in Threads \ {t} : g[x] = f[x]
    BY <1>2
  <2>4. g[t] - f[t] = Refs(h)' - Refs(h)
    OBVIOUS
  <2>5. g[t] \in Int /\ f[t] \in Int
    BY <2>2
  <2> HIDE DEF f, g
  <2>6. /\ SumFunctionOnSet(f, Threads) \in Int
        /\ SumFunctionOnSet(g, Threads) = SumFunctionOnSet(f, Threads) + g[t] - f[t]
    <3> SUFFICES ASSUME NEW a, NEW b, a = f, b = g
                 PROVE  /\ SumFunctionOnSet(a, Threads) \in Int
                        /\ SumFunctionOnSet(b, Threads)
                             = SumFunctionOnSet(a, Threads) + b[t] - a[t]
      OBVIOUS
    <3>1. \A x \in Threads : a[x] \in Int /\ b[x] \in Int
      BY <2>2
    <3>2. \A x \in Threads \ {t} : b[x] = a[x]
      BY <2>3
    <3>. QED  BY <1>0, <3>1, <3>2, SumMoves
  <2>7. Refs(h)' = SumFunctionOnSet(g, Threads)
    BY <1>4, <2>1, <2>4, <2>5, <2>6
  <2>. QED  BY <2>7 DEF g, DriverBalance, Total
<1>6. ASSUME leaks = None
      PROVE  TrackerBalance(h)'
  <2> DEFINE f == [u \in Threads |-> TrackerShare(u, h)]
             g == [u \in Threads |-> TrackerShare(u, h)']
  <2>1. CountOf(h) = SumFunctionOnSet(f, Threads)
    BY <1>1, <1>6 DEF TrackerBalance, Total
  <2>2. \A x \in Threads : f[x] \in Int /\ g[x] \in Int
    BY <1>3
  <2>3. \A x \in Threads \ {t} : g[x] = f[x]
    BY <1>2
  <2>4. g[t] - f[t] = CountOf(h)' - CountOf(h)
    BY <1>6
  <2>5. g[t] \in Int /\ f[t] \in Int
    BY <2>2
  <2> HIDE DEF f, g
  <2>6. /\ SumFunctionOnSet(f, Threads) \in Int
        /\ SumFunctionOnSet(g, Threads) = SumFunctionOnSet(f, Threads) + g[t] - f[t]
    <3> SUFFICES ASSUME NEW a, NEW b, a = f, b = g
                 PROVE  /\ SumFunctionOnSet(a, Threads) \in Int
                        /\ SumFunctionOnSet(b, Threads)
                             = SumFunctionOnSet(a, Threads) + b[t] - a[t]
      OBVIOUS
    <3>1. \A x \in Threads : a[x] \in Int /\ b[x] \in Int
      BY <2>2
    <3>2. \A x \in Threads \ {t} : b[x] = a[x]
      BY <2>3
    <3>. QED  BY <1>0, <3>1, <3>2, SumMoves
  <2>7. CountOf(h)' = SumFunctionOnSet(g, Threads)
    BY <1>4, <2>1, <2>4, <2>5, <2>6
  <2>. QED  BY <2>7 DEF g, TrackerBalance, Total
<1>. QED  BY <1>5, <1>6

\* Nobody acts but the driver, or report.
LEMMA BalanceSame ==
    ASSUME SysTypeOK, Balance, UNCHANGED <<mutex, call, own>>,
           leaks' = leaks \/ leaks' # None,
           \A h \in Pool : Refs(h)' = Refs(h) /\ (leaks' = None => CountOf(h)' = CountOf(h))
    PROVE  Balance'
<1> SUFFICES ASSUME NEW h \in Pool
             PROVE  DriverBalance(h)' /\ (leaks' = None => TrackerBalance(h)')
  BY DEF Balance
<1>1. DriverBalance(h) /\ (leaks' = None => TrackerBalance(h))
  BY DEF Balance
<1>2. \A u \in Threads : DriverShare(u, h)' = DriverShare(u, h)
                         /\ TrackerShare(u, h)' = TrackerShare(u, h)
  BY ShareKept
<1>3. [u \in Threads |-> DriverShare(u, h)'] = [u \in Threads |-> DriverShare(u, h)]
  BY <1>2, Zenon
<1>4. [u \in Threads |-> TrackerShare(u, h)'] = [u \in Threads |-> TrackerShare(u, h)]
  BY <1>2, Zenon
<1>5. Total([u \in Threads |-> DriverShare(u, h)])' = Total([u \in Threads |-> DriverShare(u, h)])
  BY <1>3 DEF Total
<1>6. Total([u \in Threads |-> TrackerShare(u, h)])' = Total([u \in Threads |-> TrackerShare(u, h)])
  BY <1>4 DEF Total
<1>. QED  BY <1>1, <1>5, <1>6 DEF DriverBalance, TrackerBalance

-----------------------------------------------------------------------------
(***************************************************************************)
(* The two kinds of steps.  On the driver's side the tracker stands still: *)
(* the threads of `acting` and the driver move.                            *)
(***************************************************************************)

LEMMA DriverSide ==
    ASSUME SysInv, LegalUse, UNCHANGED vars, SysTypeOK', Structure', Balance', NullOK',
           DriverKeeps, NEW acting \in SUBSET Threads,
           \A u \in Threads \ acting :
              call'[u] = call[u] /\ \A h \in Handles : own[u][h] > 0 => own'[u][h] > 0,
           \A h \in Roots :
              /\ drv'[h] = drv[h]
              /\ \A t \in Threads : own'[t][h] > 0 => own[t][h] > 0 \/ Tracked(h),
           \A u \in Threads \ acting : \A h \in Pool :
              Making(u, h) /\ Fresh(h) /\ call[u].stage = "post" => Fresh(h)',
           \A t \in acting : call'[t] # None => CallOK(t)',
           mutex # None => mutex.owner \notin acting,
           leaks = None \/ UNCHANGED <<call, own>>
    PROVE  SysInv'
<1>0. /\ ExactInv({Null}) /\ Inv /\ TypeOK /\ SysTypeOK /\ NoFalsePositive /\ Structure /\ RootsKept
      /\ Links /\ Calls /\ MutexOK /\ AfterExit /\ PendingFresh
  BY InvParts
<1>1. UNCHANGED <<objects, deleted, frames, mutex, ret, leaks>>
  BY DEF vars
<1>2. ExactInv({Null})'
  <2>1. Inv'
    BY <1>0, StutterInv
  <2>. QED  BY <1>0, <1>1, <2>1, IdleExact
<1>3. NoFalsePositive'
  BY <1>0, <1>1 DEF NoFalsePositive
<1>4. \A h : (Tracked(h)' <=> Tracked(h)) /\ (Framed(h)' <=> Framed(h)) /\ (Known(h)' <=> Known(h))
  BY <1>1 DEF Tracked, Framed, Known
<1>5. RootsKept'
  <2>1. \A h : RootObject(h)' = RootObject(h)
    BY DEF RootObject
  <2>. QED  BY <1>0, <1>1, <1>4, <2>1 DEF RootsKept
<1>6. Links'
  <2> SUFFICES ASSUME NEW h \in Handles \ {Null}
               PROVE  Linked(h)'
    BY DEF Links
  <2>1. Linked(h)
    BY <1>0 DEF Links
  <2>2. CASE Known(h)
    <3>1. SameObject(h)
      BY <2>2, KnownIsAlive DEF DriverKeeps
    <3>2. RecordedBelow(h)' = RecordedBelow(h) /\ DriverHas(h)' /\ drv'[h].type = drv[h].type
      BY <3>1, RecordedBelowKept DEF SameObject
    <3>. QED  BY <1>1, <1>4, <2>1, <3>2 DEF Linked
  <2>3. CASE ~Known(h)
    BY <1>4, <2>3 DEF Linked, Known
  <2>. QED  BY <2>2, <2>3
<1>7. Calls'
  <2> SUFFICES ASSUME NEW u \in Threads, call'[u] # None
               PROVE  CallOK(u)'
    BY DEF Calls
  <2>1. CASE u \in acting
    BY <2>1
  <2>2. CASE u \notin acting
    <3>1. call'[u] = call[u] /\ call[u] # None
      BY <2>2
    <3>2. \A h \in Handles : own[u][h] > 0 => own'[u][h] > 0
      BY <2>2
    <3>. QED  BY <1>4, <2>2, <3>1, <3>2, CallKept
  <2>. QED  BY <2>1, <2>2
<1>8. MutexOK'
  <2> SUFFICES ASSUME mutex # None
               PROVE  MutexOK'
    BY <1>1 DEF MutexOK
  <2> DEFINE t == mutex.owner
  <2>1. t \in Threads /\ mutex.stack \in Seq(Handles) /\ mutex.todo \in Seq(Pending)
    BY <1>0, HeldType
  <2>2. call'[t] = call[t] /\ call[t] # None
    BY <1>0, <2>1 DEF MutexOK
  <2>3. mutex.stack # <<>> => /\ mutex.stack[1] \in Pool
                              /\ Requesting(t, "release", mutex.stack[1])'
    BY <1>0, <1>1, <2>2 DEF MutexOK, Requesting, Argument1
  <2>4. ASSUME NEW i \in DOMAIN mutex.todo
        PROVE  PendingOK(t, mutex.todo[i])'
    <3>1. PendingOK(t, mutex.todo[i])
      BY <1>0 DEF MutexOK
    <3>2. mutex.stack = <<>>
      BY <1>0, <2>1, <2>4 DEF PendingFresh
    <3>3. Making(t, mutex.todo[i].handle)
      BY <1>0, <2>2, <3>1, <3>2 DEF MutexOK, PendingOK, Making
    <3>4. SameObject(mutex.todo[i].handle)
      BY <2>1, <3>3, MadeIsAlive DEF DriverKeeps
    <3>5. /\ RecordedBelow(mutex.todo[i].handle)' = RecordedBelow(mutex.todo[i].handle)
          /\ drv'[mutex.todo[i].handle].type = drv[mutex.todo[i].handle].type
      <4>1. PICK g : g = mutex.todo[i].handle
        OBVIOUS
      <4>2. g = mutex'.todo[i].handle
        BY <1>1, <4>1
      <4>3. SameObject(g)
        BY <3>4, <4>1
      <4>4. RecordedBelow(g)' = RecordedBelow(g) /\ drv'[g].type = drv[g].type
        BY <4>3, RecordedBelowKept DEF SameObject
      <4>. QED  BY <4>1, <4>2, <4>4 DEF RecordedBelow
    <3>. QED  BY <1>1, <2>2, <3>1, <3>5 DEF PendingOK, Elements
  <2>5. mutex.stack = <<>> => call'[t].stage = "return" /\ call'[t].fn.makes # NOTHING
    BY <1>0, <2>2 DEF MutexOK
  <2>6. \A i \in DOMAIN mutex.stack :
             i > 1 => mutex.stack[i] \in Elements(frames[mutex.stack[i - 1]].parents)
    BY <1>0 DEF MutexOK
  <2>. QED  BY <1>1, <2>2, <2>3, <2>4, <2>5, <2>6 DEF MutexOK, Elements
<1>9. AfterExit'
  BY <1>0, <1>1, <1>4 DEF AfterExit, LeakReportExact
<1>. QED  BY <1>2, <1>3, <1>5, <1>6, <1>7, <1>8, <1>9 DEF SysInv

\* An object keeps its place among the others as long as what is in use stays.
LEMMA KindKept ==
    ASSUME SysTypeOK, Structure, NEW h, DriverHas(h), SameObject(h),
           \A g \in Handles : InUse(g) /\ DriverHas(g) => SameObject(g)
    PROVE  KindOK(h)'
<1>1. KindOK(h) /\ h \in Handles
  BY DEF Structure, DriverHas
<1>2. /\ drv'[h].type = drv[h].type /\ drv'[h].on = drv[h].on
      /\ drv'[h].context = drv[h].context /\ drv'[h].default = drv[h].default
      /\ InContext(h)' <=> InContext(h)
  BY DEF SameObject, InContext
<1>3. \A p \in Elements(drv[h].on) : InUse(p) /\ DriverHas(p) /\ SameObject(p)
  <2> SUFFICES ASSUME NEW p \in Elements(drv[h].on)
               PROVE  InUse(p) /\ DriverHas(p) /\ SameObject(p)
    OBVIOUS
  <2>1. DriverHas(p) /\ p \in Handles
    BY <1>1 DEF KindOK, DriverHas
  <2>2. InUse(p)
    BY <1>1 DEF InUse
  <2>. QED  BY <2>1, <2>2
<1>4. drv[h].type \in RootTypes <=> h \in Roots
  BY <1>1 DEF KindOK
<1>5. drv[h].on \in ParentLists
  BY <1>1 DEF KindOK
<1>6. \A p \in Elements(drv[h].on) : DriverHas(p)'
  BY <1>3 DEF SameObject
<1>7. drv[h].type = "CONTEXT" => drv[h].context = h /\ drv[h].on # <<>>
  BY <1>1 DEF KindOK
<1>8. InContext(h) => /\ DriverHas(drv[h].context)' /\ drv'[drv[h].context].type = "CONTEXT"
  <2>1. CASE drv[h].type = "CONTEXT"
    BY <1>2, <1>7, <2>1 DEF SameObject
  <2>2. CASE InContext(h) /\ drv[h].type # "CONTEXT"
    <3>1. DriverHas(drv[h].context) /\ drv[drv[h].context].type = "CONTEXT"
      BY <1>1, <2>2 DEF KindOK
    <3>2. InUse(drv[h].context)
      BY <2>2, ContextInUse
    <3>3. PICK k : k = drv[h].context
      OBVIOUS
    <3>4. SameObject(k)
      BY <3>1, <3>2, <3>3 DEF DriverHas, InUse
    <3>5. DriverHas(k)' /\ drv'[k].type = "CONTEXT"
      BY <3>1, <3>3, <3>4 DEF SameObject
    <3>. QED  BY <1>2, <3>3, <3>5 DEF DriverHas
  <2>. QED  BY <2>1, <2>2
<1>9. InContext(h) /\ drv[h].type # "CONTEXT" =>
         \E p \in Handles : drv[h].on = <<p>> /\ InContext(p)' /\ drv[h].context = drv'[p].context
  <2> SUFFICES ASSUME InContext(h), drv[h].type # "CONTEXT"
               PROVE  \E p \in Handles : /\ drv[h].on = <<p>> /\ InContext(p)'
                                         /\ drv[h].context = drv'[p].context
    OBVIOUS
  <2>1. PICK p \in Handles : drv[h].on = <<p>> /\ InContext(p) /\ drv[h].context = drv[p].context
    BY <1>1 DEF KindOK
  <2>2. SameObject(p)
    BY <1>3, <2>1, ElementsOfOne
  <2>. QED  BY <2>1, <2>2 DEF SameObject, InContext
<1>10. ~InContext(h) => drv[h].context = None
  BY <1>1 DEF KindOK
<1>11. drv[h].type = "SUB_DEVICE" => \E p \in Handles : drv[h].on = <<p>>
  BY <1>1 DEF KindOK
<1>12. drv[h].type \in {"EVENT", "COMMAND_QUEUE"} => drv'[drv[h].on[1]].type = drv[drv[h].on[1]].type
  <2> SUFFICES ASSUME drv[h].type \in {"EVENT", "COMMAND_QUEUE"}
               PROVE  drv'[drv[h].on[1]].type = drv[drv[h].on[1]].type
    OBVIOUS
  <2>1. InContext(h) /\ drv[h].type # "CONTEXT"
    BY DEF InContext, DeviceTypes
  <2>2. PICK p \in Handles : drv[h].on = <<p>>
    BY <1>1, <2>1 DEF KindOK
  <2>3. drv[h].on[1] = p /\ p \in Elements(drv[h].on)
    BY <2>2, ElementsOfOne
  <2>. QED  BY <1>3, <2>3 DEF SameObject
<1>13. /\ drv[h].type = "EVENT" => drv[drv[h].on[1]].type \in {"CONTEXT", "COMMAND_QUEUE"}
       /\ drv[h].type = "COMMAND_QUEUE" => drv[drv[h].on[1]].type = "CONTEXT"
       /\ drv[h].default => drv[h].type = "COMMAND_QUEUE"
  BY <1>1 DEF KindOK
<1>14. \A x : Elements(drv'[h].on) = Elements(drv[h].on)
  BY <1>2 DEF Elements
<1>. QED
  BY <1>2, <1>4, <1>5, <1>6, <1>7, <1>8, <1>9, <1>10, <1>11, <1>12, <1>13, <1>14
  DEF KindOK, Elements

LEMMA StructureKept ==
    ASSUME SysTypeOK, Structure, DriverKeeps,
           \A h \in Handles : DriverHas(h)' => DriverHas(h) /\ SameObject(h)
    PROVE  Structure'
<1>1. WellFounded'
  <2> SUFFICES ASSUME NEW S \in SUBSET Handles, S # {}
               PROVE  \E m \in S : DriverHas(m)' => Elements(drv'[m].on) \cap S = {}
    BY DEF WellFounded, Elements
  <2>1. PICK m \in S : DriverHas(m) => Elements(drv[m].on) \cap S = {}
    BY DEF Structure, WellFounded
  <2>2. DriverHas(m)' => DriverHas(m) /\ Elements(drv'[m].on) = Elements(drv[m].on)
    BY DEF SameObject, Elements
  <2>. QED  BY <2>1, <2>2
<1>2. ASSUME NEW h \in Handles, DriverHas(h)'
      PROVE  KindOK(h)'
  <2>1. DriverHas(h) /\ SameObject(h)
    BY <1>2
  <2>2. \A g \in Handles : InUse(g) /\ DriverHas(g) => SameObject(g)
    BY DEF DriverKeeps, Alive
  <2>. QED  BY <2>1, <2>2, KindKept
<1>. QED  BY <1>1, <1>2 DEF Structure

\* On the tracker's side the driver stands still: thread t acts on the map.
LEMMA TrackerSide ==
    ASSUME SysInv, LegalUse, UNCHANGED <<drv, leaks>>, leaks = None, NEW t \in Threads,
           ExactInv({Null})', SysTypeOK', NoFalsePositive', MutexOK', NullOK',
           \A u \in Threads \ {t} :
              call'[u] = call[u] /\ \A h \in Handles : own'[u][h] = own[u][h],
           \A h \in Handles \ {Null} : Linked(h)',
           \A h \in Roots : /\ Tracked(h) => Tracked(h)'
                            /\ Tracked(h)' => objects'[h].refcount = 0
                            /\ own'[t][h] > 0 => own[t][h] > 0 \/ Tracked(h),
           \A h \in Pool : Known(h)' => Known(h) \/ DriverShare(t, h) > 0,
           call'[t] # None => CallOK(t)',
           mutex # None => mutex.owner = t, mutex' # None => mutex'.owner = t,
           \A h \in Pool : /\ DriverShare(t, h)' = DriverShare(t, h)
                           /\ CountOf(h)' - CountOf(h) = TrackerShare(t, h)' - TrackerShare(t, h)
    PROVE  SysInv'
<1>0. /\ ExactInv({Null}) /\ SysTypeOK /\ Structure /\ RootsKept /\ Links /\ Calls /\ Balance
  BY InvParts
<1>1. DriverKeeps
  BY DEF DriverKeeps, SameObject, Alive, DriverHas
<1>2. Structure'
  <2>1. \A h \in Handles : DriverHas(h)' => DriverHas(h) /\ SameObject(h)
    BY DEF SameObject, DriverHas
  <2>. QED  BY <1>0, <1>1, <2>1, StructureKept
<1>3. RootsKept'
  <2> SUFFICES ASSUME NEW h \in Roots
               PROVE  /\ drv'[h] = RootObject(h)
                      /\ Tracked(h)' => objects'[h].refcount = 0
                      /\ (\E u \in Threads : own'[u][h] > 0) => Tracked(h)'
    BY DEF RootsKept, RootObject
  <2>1. h \in Handles /\ drv[h] = RootObject(h)
    BY <1>0, PoolAndRoots DEF RootsKept
  <2>2. ASSUME NEW u \in Threads, own'[u][h] > 0
        PROVE  Tracked(h)
    <3>1. own[u][h] > 0 \/ Tracked(h)
      BY <2>1, <2>2
    <3>. QED  BY <1>0, <3>1 DEF RootsKept
  <2>. QED  BY <2>1, <2>2
<1>4. Links'
  BY DEF Links
<1>5. Calls'
  <2> SUFFICES ASSUME NEW u \in Threads, call'[u] # None
               PROVE  CallOK(u)'
    BY DEF Calls
  <2>1. CASE u = t
    BY <2>1
  <2>2. CASE u # t
    <3>1. call'[u] = call[u] /\ call[u] # None
      BY <2>2
    <3>2. \A h \in Handles : own[u][h] > 0 => own'[u][h] > 0
      BY <2>2
    <3>3. ASSUME NEW h \in Pool, Making(u, h), Fresh(h)
          PROVE  Fresh(h)'
      <4>1. DriverHas(h) /\ h \in Pool
        BY <3>3, MadeIsAlive
      <4>2. DriverShare(t, h) = 0
        BY <2>2, <3>3, <4>1, MadeAlone
      <4>3. ~Known(h)'
        BY <3>3, <4>2 DEF Fresh
      <4>. QED  BY <3>3, <4>3 DEF Fresh, InUse, DriverHas, Elements
    <3>. QED  BY <1>1, <2>2, <3>1, <3>2, <3>3, CallKept
  <2>. QED  BY <2>1, <2>2
<1>6. Balance'
  <2>1. \A u \in Threads \ {t} : ~Holds(u) /\ ~Holds(u)'
    BY DEF Holds
  <2>2. \A h \in Pool : Refs(h)' - Refs(h) = DriverShare(t, h)' - DriverShare(t, h)
    <3> SUFFICES ASSUME NEW h \in Pool
                 PROVE  Refs(h)' - Refs(h) = DriverShare(t, h)' - DriverShare(t, h)
      OBVIOUS
    <3>1. Refs(h)' = Refs(h) /\ Refs(h) \in Int
      <4>1. Refs(h) \in Int
        BY <1>0, ObjectTyped DEF Refs
      <4>. QED  BY <4>1 DEF Refs, DriverHas
    <3>2. DriverShare(t, h) \in Int
      BY <1>0, PoolAndRoots, ShareTyped
    <3>. QED  BY <3>1, <3>2
  <2>. QED  BY <1>0, <2>1, <2>2, BalanceMoves
<1>7. AfterExit'
  BY DEF AfterExit
<1>. QED  BY <1>2, <1>3, <1>4, <1>5, <1>6, <1>7 DEF SysInv

-----------------------------------------------------------------------------
(***************************************************************************)
(* The checks of a legal call.                                             *)
(***************************************************************************)

\* What a legal application passes.
LEMMA Passed ==
    ASSUME SysInv, LegalUse, NEW t \in Threads, NEW a, NEW hs \in Passable(t, a)
    PROVE  /\ hs \in Seq(Handles \cup {None})
           /\ a.check = "list" => Len(hs) <= MaxList /\ None \notin Elements(hs)
           /\ a.check # "list" => Len(hs) = 1 \/ (a.null /\ hs = <<>>)
           /\ \A h \in Elements(hs) :
                \/ h = None /\ a.type = "PLATFORM"
                \/ /\ h \in Handles /\ own[t][h] > 0 /\ DriverHas(h)
                   /\ drv[h].type \in Accepted(a.type)
<1> DEFINE passed == {h \in Handles : MayPass(t, a.type, h)}
<1>0. Legal
  BY DEF LegalUse
<1>1. \A h \in passed : /\ h \in Handles /\ own[t][h] > 0 /\ DriverHas(h) /\ h # None
                        /\ drv[h].type \in Accepted(a.type)
  BY <1>0, HeldIsAlive, PoolAndRoots DEF MayPass
<1>2. CASE a.check = "list"
  <2>1. hs \in BoundedSeq(passed, MaxList)
    BY <1>2 DEF Passable
  <2>2. PICK m \in 0..MaxList : hs \in [1..m -> passed]
    BY <2>1 DEF BoundedSeq, SeqOf
  <2>3. MaxList \in Nat
    BY SystemConstants DEF SystemAssumption
  <2>4. /\ hs \in Seq(passed) /\ Len(hs) <= MaxList
    BY <2>2, <2>3
  <2>5. Elements(hs) \subseteq passed
    BY <2>4, ElementsOfSeq
  <2>6. hs \in Seq(Handles \cup {None})
    BY <2>2, <2>3
  <2>. QED  BY <1>1, <1>2, <2>4, <2>5, <2>6
<1>3. CASE a.check # "list"
  <2>1. \/ \E h \in passed : hs = <<h>>
        \/ a.type = "PLATFORM" /\ hs = <<None>>
        \/ a.null /\ hs = <<>>
    BY <1>3 DEF Passable
  <2>2. ASSUME NEW h \in passed, hs = <<h>>
        PROVE  /\ hs \in Seq(Handles \cup {None}) /\ Len(hs) = 1 /\ Elements(hs) = {h}
    BY <1>1, <2>2, ElementsOfOne
  <2>3. CASE a.type = "PLATFORM" /\ hs = <<None>>
    <3>1. hs \in Seq(Handles \cup {None}) /\ Len(hs) = 1 /\ Elements(hs) = {None}
      BY <2>3, ElementsOfOne
    <3>. QED  BY <1>3, <2>3, <3>1
  <2>4. CASE a.null /\ hs = <<>>
    <3>1. hs \in Seq(Handles \cup {None}) /\ Elements(hs) = {}
      BY <2>4, ElementsOfNone
    <3>. QED  BY <1>3, <2>4, <3>1
  <2>. QED  BY <1>1, <1>3, <2>1, <2>2, <2>3, <2>4
<1>. QED  BY <1>2, <1>3

\* What is held passes the check.
LEMMA HeldPasses ==
    ASSUME SysInv, leaks = None, NEW t \in Threads, NEW T, NEW h,
           \/ h = None /\ T = "PLATFORM"
           \/ h \in Handles /\ own[t][h] > 0 /\ drv[h].type \in Accepted(T)
    PROVE  ExistsResult(T, h) = CL_SUCCESS
<1>1. CASE h = None /\ T = "PLATFORM"
  BY <1>1, PoolAndRoots DEF ExistsResult, Tracked
<1>2. CASE h \in Handles /\ own[t][h] > 0 /\ drv[h].type \in Accepted(T)
  <2>1. Tracked(h) /\ objects[h].type \in Accepted(T) /\ h # None
    BY <1>2, HeldIsTracked, PoolAndRoots
  <2>2. Usable(objects[h], FALSE)
    BY <1>2, HeldIsTracked, NotNull, InvParts DEF Usable
  <2>. QED  BY <2>1, <2>2 DEF ExistsResult
<1>. QED  BY <1>1, <1>2

\* A check of what is not counted changes nothing.
LEMMA PlainPasses ==
    ASSUME SysInv, LegalUse, leaks = None, NEW t \in Threads, NEW a,
           a.check \in {"exists", "list", "unchecked"},
           NEW hs \in Passable(t, a), Check(t, a, hs)
    PROVE  UNCHANGED vars
<1>0. ret \in [Threads -> Results] /\ ret[t] = CL_SUCCESS
  BY InvParts DEF TypeOK, NoFalsePositive
<1>1. Return(t, CL_SUCCESS) => UNCHANGED ret
  BY <1>0 DEF Return
<1>2. \A h \in Elements(hs) : ExistsResult(a.type, h) = CL_SUCCESS
  BY Passed, HeldPasses
<1>3. hs \in Seq(Handles \cup {None})
  BY Passed
<1>4. \A i \in DOMAIN hs : ExistsResult(a.type, hs[i]) = CL_SUCCESS
  BY <1>2 DEF Elements
<1>5. CASE a.check = "unchecked" \/ hs = <<>>
  BY <1>1, <1>5 DEF Check, vars
<1>6. CASE a.check = "exists" /\ hs # <<>>
  <2>1. CheckExists(t, a.type, hs[1])
    BY <1>6 DEF Check
  <2>2. 1 \in DOMAIN hs
    BY <1>3, <1>6
  <2>. QED  BY <1>1, <1>4, <2>1, <2>2 DEF CheckExists, vars
<1>7. CASE a.check = "list" /\ hs # <<>>
  <2>1. CheckExistList(t, a.type, hs)
    BY <1>7 DEF Check
  <2>2. {i \in DOMAIN hs : ExistsResult(a.type, hs[i]) # CL_SUCCESS} = {}
    BY <1>4
  <2>. QED  BY <1>1, <2>1, <2>2 DEF CheckExistList, vars
<1>. QED  BY <1>5, <1>6, <1>7

-----------------------------------------------------------------------------
(***************************************************************************)
(* A call takes an argument.                                               *)
(***************************************************************************)

Takes(t, c, hs) == call' = [call EXCEPT ![t] = [c EXCEPT !.args = Append(@, hs)]]

LEMMA NextCall ==
    ASSUME SysTypeOK, NEW t \in Threads, NEW c \in Call, NEW hs \in Seq(Handles \cup {None}),
           Takes(t, c, hs)
    PROVE  /\ call' \in [Threads -> Call \cup {None}] /\ call'[t] # None
           /\ call'[t].fn = c.fn /\ call'[t].stage = c.stage
           /\ call'[t].result = c.result /\ call'[t].made = c.made
           /\ call'[t].args = Append(c.args, hs)
           /\ Len(call'[t].args) = Len(c.args) + 1 /\ call'[t].args # <<>>
           /\ DOMAIN call'[t].args = 1 .. Len(c.args) + 1 /\ Len(c.args) \in Nat
           /\ \A i \in DOMAIN c.args : call'[t].args[i] = c.args[i]
           /\ call'[t].args[Len(c.args) + 1] = hs
           /\ \A u \in Threads \ {t} : call'[u] = call[u]
<1> DEFINE next == [c EXCEPT !.args = Append(@, hs)]
<1>1. call \in [Threads -> Call \cup {None}]
  BY DEF SysTypeOK
<1>2. /\ c.args \in Seq(Seq(Handles \cup {None})) /\ c.fn \in Used /\ c.stage \in Stages
      /\ c.result \in (UNION {fn.results : fn \in Used}) \cup {None} /\ c.made \in Seq(Handles)
  BY DEF Call
<1>3. Append(c.args, hs) \in Seq(Seq(Handles \cup {None}))
  BY <1>2
<1>4. /\ next.fn = c.fn /\ next.stage = c.stage /\ next.result = c.result
      /\ next.made = c.made /\ next.args = Append(c.args, hs)
  BY DEF Call
<1>5. next \in Call
  BY <1>2, <1>3 DEF Call
<1>6. next # None
  BY <1>5, NoCallAssumption
<1> HIDE DEF next
<1>7. call' = [call EXCEPT ![t] = next]
  BY DEF next, Takes
<1>8. call' \in [Threads -> Call \cup {None}] /\ call'[t] = next
      /\ \A u \in Threads \ {t} : call'[u] = call[u]
  BY <1>1, <1>5, <1>7
<1>9. /\ Len(Append(c.args, hs)) = Len(c.args) + 1 /\ Append(c.args, hs) # <<>>
      /\ DOMAIN Append(c.args, hs) = 1 .. Len(c.args) + 1 /\ Len(c.args) \in Nat
      /\ \A i \in DOMAIN c.args : Append(c.args, hs)[i] = c.args[i]
      /\ Append(c.args, hs)[Len(c.args) + 1] = hs
  <2> SUFFICES ASSUME NEW s \in Seq(Seq(Handles \cup {None}))
               PROVE  /\ Len(Append(s, hs)) = Len(s) + 1 /\ Append(s, hs) # <<>>
                      /\ DOMAIN Append(s, hs) = 1 .. Len(s) + 1 /\ Len(s) \in Nat
                      /\ \A i \in DOMAIN s : Append(s, hs)[i] = s[i]
                      /\ Append(s, hs)[Len(s) + 1] = hs
    BY <1>2
  <2>1. Len(s) \in Nat /\ Len(Append(s, hs)) = Len(s) + 1
    OBVIOUS
  <2>2. Append(s, hs)[Len(s) + 1] = hs /\ Append(s, hs) # <<>>
    BY SMTT(30)
  <2>3. \A i \in DOMAIN s : Append(s, hs)[i] = s[i]
    OBVIOUS
  <2>4. DOMAIN Append(s, hs) = 1 .. Len(s) + 1
    BY <2>1
  <2>. QED  BY <2>1, <2>2, <2>3, <2>4
<1>. QED  BY <1>4, <1>6, <1>8, <1>9

LEMMA NextCallOK ==
    ASSUME SysTypeOK, NEW t \in Threads, NEW c \in Call, NEW hs \in Seq(Handles \cup {None}),
           Takes(t, c, hs),
           c.stage = "check", c.result = None, c.made = <<>>,
           Len(c.args) < Len(c.fn.arguments),
           \A i \in DOMAIN c.args : ArgumentOK(t, c.fn.arguments[i], c.args[i])',
           ArgumentOK(t, c.fn.arguments[Len(c.args) + 1], hs)',
           c.fn.arguments \in Seq(Plain) \/ Len(c.fn.arguments) = 1
    PROVE  CallOK(t)'
<1>1. /\ call'[t].fn = c.fn /\ call'[t].stage = c.stage
      /\ call'[t].result = c.result /\ call'[t].made = c.made
      /\ Len(call'[t].args) = Len(c.args) + 1 /\ Len(c.args) \in Nat
      /\ DOMAIN call'[t].args = 1 .. Len(c.args) + 1
      /\ \A i \in DOMAIN c.args : call'[t].args[i] = c.args[i]
      /\ call'[t].args[Len(c.args) + 1] = hs
  BY NextCall
<1>2. DOMAIN c.args = 1 .. Len(c.args)
  BY DEF Call
<1>3. ASSUME NEW i \in DOMAIN call'[t].args
      PROVE  ArgumentOK(t, call[t].fn.arguments[i], call[t].args[i])'
  <2>1. i \in DOMAIN c.args \/ i = Len(c.args) + 1
    BY <1>1, <1>2, <1>3
  <2>2. CASE i \in DOMAIN c.args
    <3>1. PICK a, ps : a = c.fn.arguments[i] /\ ps = c.args[i]
      OBVIOUS
    <3>2. ArgumentOK(t, a, ps)'
      BY <2>2, <3>1
    <3>3. call'[t].fn.arguments[i] = a /\ call'[t].args[i] = ps
      BY <1>1, <2>2, <3>1
    <3>4. ArgumentOK(t, a, ps)' => ArgumentOK(t, call[t].fn.arguments[i], call[t].args[i])'
      BY <3>3, Zenon DEF ArgumentOK
    <3>. QED  BY <3>2, <3>4
  <2>3. CASE i = Len(c.args) + 1
    BY <1>1, <2>3, SMTT(30) DEF ArgumentOK, Elements
  <2>. QED  BY <2>1, <2>2, <2>3
<1>4. Len(c.fn.arguments) \in Nat
  <2>1. CASE c.fn.arguments \in Seq(Plain)
    BY <2>1
  <2>. QED  BY <2>1
<1>5. Len(c.args) + 1 <= Len(c.fn.arguments)
  BY <1>1, <1>4
<1>. QED  BY <1>1, <1>3, <1>5 DEF CallOK

\* A sound argument is one of a legal application.
LEMMA PassedOK ==
    ASSUME SysInv, LegalUse, NEW t \in Threads, NEW a, NEW hs \in Passable(t, a)
    PROVE  ArgumentOK(t, a, hs)
BY Passed DEF ArgumentOK

\* A call in front of the driver that counts nothing and made nothing has no
\* share but what its thread holds.
LEMMA PlainShare ==
    ASSUME NEW t, call[t] # None => Counting(call[t].fn) = "nothing" \/ call[t].args = <<>>,
           call[t] # None => call[t].made = <<>> \/ call[t].fn.makes = NOTHING, NEW h, own[t][h] \in Int
    PROVE  DriverShare(t, h) = own[t][h] /\ TrackerShare(t, h) = own[t][h]
<1>1. ~Requesting(t, "release", h) /\ ~Requesting(t, "retain", h)
  BY DEF Requesting
<1>2. ~Making(t, h)
  BY ElementsOfNone DEF Making
<1>. QED  BY <1>1, <1>2 DEF DriverShare, TrackerShare, One

LEMMA PlainShareAfter ==
    ASSUME NEW t, call'[t] # None => Counting(call'[t].fn) = "nothing" \/ call'[t].args = <<>>,
           call'[t] # None => call'[t].made = <<>> \/ call'[t].fn.makes = NOTHING, NEW h, own'[t][h] \in Int
    PROVE  DriverShare(t, h)' = own'[t][h] /\ TrackerShare(t, h)' = own'[t][h]
<1>1. ~Requesting(t, "release", h)' /\ ~Requesting(t, "retain", h)'
  BY DEF Requesting
<1>2. ~Making(t, h)'
  <2>1. call'[t] # None /\ call'[t].made = <<>> => h \notin Elements(call'[t].made)
    BY ElementsOfNone
  <2>2. h \in Elements(call[t].made)' <=> h \in Elements(call'[t].made)
    BY DEF Elements
  <2>. QED  BY <2>1, <2>2 DEF Making
<1>. QED  BY <1>1, <1>2 DEF DriverShare, TrackerShare, One

\* One thread's call moves on, and nothing else.
LEMMA CallMoves ==
    ASSUME SysInv, LegalUse, NEW t \in Threads, UNCHANGED vars, UNCHANGED <<drv, own>>,
           leaks = None, mutex # None => mutex.owner # t,
           call' \in [Threads -> Call \cup {None}],
           \A u \in Threads \ {t} : call'[u] = call[u],
           call'[t] # None => CallOK(t)',
           \A h \in Pool : /\ DriverShare(t, h)' = DriverShare(t, h)
                           /\ TrackerShare(t, h)' = TrackerShare(t, h)
    PROVE  SysInv'
<1>0. /\ SysTypeOK /\ Structure /\ Balance /\ leaks' = leaks /\ mutex' = mutex
      /\ objects' = objects /\ NullOK'
  BY InvParts, NullKept DEF vars
<1>1. SysTypeOK'
  BY <1>0 DEF SysTypeOK, TypeOK, vars
<1>2. DriverKeeps /\ \A h \in Handles : DriverHas(h)' => DriverHas(h) /\ SameObject(h)
  BY DEF DriverKeeps, SameObject, Alive, DriverHas
<1>3. Structure'
  BY <1>0, <1>2, StructureKept
<1>4. Balance'
  <2>1. \A u \in Threads \ {t} :
              /\ call'[u] = call[u] /\ \A h \in Handles : own'[u][h] = own[u][h]
              /\ mutex' = mutex \/ (~Holds(u) /\ ~Holds(u)')
    BY <1>0
  <2>2. \A h \in Pool :
              /\ Refs(h)' - Refs(h) = DriverShare(t, h)' - DriverShare(t, h)
              /\ leaks = None =>
                   CountOf(h)' - CountOf(h) = TrackerShare(t, h)' - TrackerShare(t, h)
    <3> SUFFICES ASSUME NEW h \in Pool
                 PROVE  /\ Refs(h)' - Refs(h) = DriverShare(t, h)' - DriverShare(t, h)
                        /\ CountOf(h)' - CountOf(h) = TrackerShare(t, h)' - TrackerShare(t, h)
      OBVIOUS
    <3>1. Refs(h)' = Refs(h) /\ CountOf(h)' = CountOf(h)
      BY <1>0 DEF Refs, CountOf, DriverHas, Tracked
    <3>2. Refs(h) \in Int /\ CountOf(h) \in Int
      BY <1>0, ObjectTyped, RecordTyped DEF Refs, CountOf
    <3>3. DriverShare(t, h) \in Int /\ TrackerShare(t, h) \in Int
      BY <1>0, PoolAndRoots, ShareTyped
    <3>. QED  BY <3>1, <3>2, <3>3
  <2>. QED  BY <1>0, <1>1, <2>1, <2>2, BalanceMoves
<1>5. \A h \in Roots : /\ drv'[h] = drv[h]
                       /\ \A u \in Threads : own'[u][h] > 0 => own[u][h] > 0 \/ Tracked(h)
  OBVIOUS
<1>6. \A u \in Threads \ {t} : \A h \in Pool :
              Making(u, h) /\ Fresh(h) /\ call[u].stage = "post" => Fresh(h)'
  BY DEF vars, Fresh, InUse, DriverHas, Known, Tracked, Framed, Elements
<1>7. \A u \in Threads \ {t} : call'[u] = call[u] /\ \A h \in Handles : own'[u][h] = own[u][h]
  OBVIOUS
<1>8. mutex # None => mutex.owner \notin {t}
  OBVIOUS
<1>. QED
  BY <1>0, <1>1, <1>2, <1>3, <1>4, <1>5, <1>6, <1>7, <1>8, DriverSide

\* Thread t is about to take an argument of call c.
TakingOK(t, c) ==
    /\ c \in Call /\ c.stage = "check" /\ c.result = None /\ c.made = <<>>
    /\ Len(c.args) < Len(c.fn.arguments)
    /\ \A i \in DOMAIN c.args : ArgumentOK(t, c.fn.arguments[i], c.args[i])
    /\ (call[t] = None /\ c.args = <<>>) \/ call[t] = c
    /\ mutex # None => mutex.owner # t
    /\ leaks = None

LEMMA TakingShare ==
    ASSUME SysInv, LegalUse, NEW t \in Threads, NEW c, TakingOK(t, c), NEW h \in Handles
    PROVE  /\ DriverShare(t, h) = own[t][h] /\ TrackerShare(t, h) = own[t][h]
           /\ own[t][h] \in Nat
<1>1. own[t][h] \in Nat
  BY InvParts, OwnTyped
<1>2. c \in Call /\ c.fn \in Used /\ c.args \in Seq(Seq(Handles \cup {None})) /\ c.made = <<>>
  BY DEF TakingOK, Call
<1>3. Counting(c.fn) = "nothing" \/ c.args = <<>>
  <2>1. CASE CountingShape(c.fn)
    <3>1. Len(c.fn.arguments) = 1
      BY <1>2, <2>1, CountingCalls
    <3>2. Len(c.args) = 0
      BY <1>2, <3>1 DEF TakingOK
    <3>. QED  BY <1>2, <3>2
  <2>. QED  BY <1>2, <2>1, UsedArguments
<1>4. call[t] # None => call[t] = c
  BY DEF TakingOK
<1>. QED  BY <1>1, <1>2, <1>3, <1>4, PlainShare

\* A call takes its only argument when it counts.
LEMMA CountingTaken ==
    ASSUME SysInv, LegalUse, NEW t \in Threads, NEW c, TakingOK(t, c), CountingShape(c.fn),
           NEW hs \in Passable(t, c.fn.arguments[Len(c.args) + 1]), Takes(t, c, hs)
    PROVE  /\ c.args = <<>> /\ Len(c.args) = 0
           /\ hs[1] \in Handles /\ own[t][hs[1]] > 0 /\ DriverHas(hs[1]) /\ Elements(hs) = {hs[1]}
           /\ hs # <<>> /\ hs \in Seq(Handles \cup {None})
           /\ drv[hs[1]].type \in Accepted(c.fn.arguments[1].type)
           /\ c.fn.arguments[1].check = Counting(c.fn)
           /\ Counting(c.fn) \in {"retain", "release"} /\ c.fn.arguments[1].type \in ObjectTypes
           /\ \A h : /\ Requesting(t, "retain", h)' <=> Counting(c.fn) = "retain" /\ h = hs[1]
                     /\ Requesting(t, "release", h)' <=> Counting(c.fn) = "release" /\ h = hs[1]
                     /\ ~Making(t, h)'
<1>1. c \in Call /\ c.fn \in Used /\ c.args \in Seq(Seq(Handles \cup {None})) /\ c.made = <<>>
      /\ c.stage = "check"
  BY DEF TakingOK, Call
<1>2. /\ Len(c.fn.arguments) = 1 /\ c.fn.arguments[1].check = Counting(c.fn)
      /\ Counting(c.fn) \in {"retain", "release"} /\ ~c.fn.arguments[1].null
      /\ c.fn.arguments[1].type # "PLATFORM" /\ c.fn.arguments[1].type \in ObjectTypes
      /\ c.fn.makes = NOTHING
  BY <1>1, CountingCalls
<1>3. Len(c.args) = 0 /\ c.args = <<>>
  <2>1. Len(c.args) = 0
    BY <1>1, <1>2 DEF TakingOK
  <2>. QED  BY <1>1, <2>1
<1>4. hs \in Passable(t, c.fn.arguments[1])
  BY <1>3
<1>5. hs \in Seq(Handles \cup {None}) /\ Len(hs) = 1
  BY <1>2, <1>4, Passed
<1>6. hs # <<>> /\ Elements(hs) = {hs[1]}
  BY <1>5, ElementsOfSingle
<1>7. /\ hs[1] \in Handles /\ own[t][hs[1]] > 0 /\ DriverHas(hs[1])
      /\ drv[hs[1]].type \in Accepted(c.fn.arguments[1].type)
  BY <1>2, <1>4, <1>6, Passed
<1>8. /\ call'[t] # None /\ call'[t].fn = c.fn /\ call'[t].stage = "check"
      /\ call'[t].args # <<>> /\ call'[t].args[1] = hs
  <2>1. SysTypeOK
    BY InvParts
  <2>2. /\ call'[t] # None /\ call'[t].fn = c.fn /\ call'[t].stage = c.stage
        /\ call'[t].args # <<>> /\ call'[t].args[Len(c.args) + 1] = hs
    BY <1>1, <1>5, <2>1, NextCall
  <2>. QED  BY <1>1, <1>3, <2>2
<1>9. Argument1(t)' = hs[1]
  BY <1>8 DEF Argument1
<1>10. ASSUME NEW h
       PROVE  /\ Requesting(t, "retain", h)' <=> Counting(c.fn) = "retain" /\ h = hs[1]
              /\ Requesting(t, "release", h)' <=> Counting(c.fn) = "release" /\ h = hs[1]
              /\ ~Making(t, h)'
  <2>1. Counting(call[t].fn)' = Counting(c.fn)
    BY <1>8 DEF Counting
  <2>. QED  BY <1>2, <1>8, <1>9, <2>1 DEF Requesting, Making
<1>. QED  BY <1>2, <1>3, <1>5, <1>6, <1>7, <1>10

\* An argument that is not counted, in the map or anywhere.
LEMMA UncountedArgument ==
    ASSUME SysInv, LegalUse, NEW t \in Threads, NEW c, TakingOK(t, c),
           NEW hs \in Passable(t, c.fn.arguments[Len(c.args) + 1]), Takes(t, c, hs),
           UNCHANGED vars, UNCHANGED <<drv, own>>,
           \/ c.fn.arguments \in Seq(Plain) /\ Counting(c.fn) = "nothing"
           \/ CountingShape(c.fn) /\ hs[1] \in Roots
    PROVE  SysInv'
<1>0. /\ SysTypeOK /\ Structure /\ Balance /\ TypeOK
  BY InvParts
<1>1. c \in Call /\ c.fn \in Used /\ c.stage = "check" /\ c.result = None /\ c.made = <<>>
      /\ Len(c.args) < Len(c.fn.arguments) /\ leaks = None /\ leaks' = leaks /\ mutex' = mutex
      /\ objects' = objects
  BY DEF TakingOK, Call, vars
<1>2. hs \in Seq(Handles \cup {None}) /\ ArgumentOK(t, c.fn.arguments[Len(c.args) + 1], hs)
  BY Passed, PassedOK
<1>3. /\ call' \in [Threads -> Call \cup {None}] /\ call'[t].fn = c.fn /\ call'[t].made = <<>>
      /\ \A u \in Threads \ {t} : call'[u] = call[u]
  BY <1>0, <1>1, <1>2, NextCall
<1>7. CallOK(t)'
  <2>1. \A a, ps : ArgumentOK(t, a, ps) => ArgumentOK(t, a, ps)'
    BY DEF ArgumentOK, DriverHas
  <2>2. \A i \in DOMAIN c.args : ArgumentOK(t, c.fn.arguments[i], c.args[i])'
    BY <2>1 DEF TakingOK
  <2>3. ArgumentOK(t, c.fn.arguments[Len(c.args) + 1], hs)'
    BY <1>2, <2>1
  <2>4. c.fn.arguments \in Seq(Plain) \/ Len(c.fn.arguments) = 1
    BY <1>1, CountingCalls
  <2>. QED  BY <1>0, <1>1, <1>2, <2>2, <2>3, <2>4, NextCallOK
<1>8. ASSUME NEW h \in Pool
      PROVE  DriverShare(t, h)' = DriverShare(t, h) /\ TrackerShare(t, h)' = TrackerShare(t, h)
  <2>1. /\ DriverShare(t, h) = own[t][h] /\ TrackerShare(t, h) = own[t][h]
        /\ own[t][h] \in Nat /\ own'[t][h] = own[t][h]
    BY PoolAndRoots, TakingShare
  <2>2. CASE Counting(c.fn) = "nothing"
    <3>1. Counting(call[t].fn)' = "nothing"
      BY <1>3, <2>2 DEF Counting
    <3>2. DriverShare(t, h)' = own'[t][h] /\ TrackerShare(t, h)' = own'[t][h]
      BY <1>3, <2>1, <3>1, PlainShareAfter
    <3>. QED  BY <2>1, <3>2
  <2>3. CASE CountingShape(c.fn) /\ hs[1] \in Roots
    <3>1. h # hs[1]
      BY <2>3, PoolAndRoots
    <3>2. ~Requesting(t, "retain", h)' /\ ~Requesting(t, "release", h)' /\ ~Making(t, h)'
      BY <2>3, <3>1, CountingTaken
    <3>. QED  BY <2>1, <3>2 DEF DriverShare, TrackerShare, One
  <2>. QED  BY <2>2, <2>3
<1>9. mutex # None => mutex.owner # t
  BY DEF TakingOK
<1>. QED
  BY <1>1, <1>3, <1>7, <1>8, <1>9, CallMoves

\* A record that stays what it is, or whose deletion begins, is still that of
\* the driver's object.
LEMMA LinkedKept ==
    ASSUME SysInv, UNCHANGED drv, NEW h \in Handles \ {Null},
           Tracked(h)' => /\ Tracked(h) /\ objects'[h].type = objects[h].type
                          /\ objects'[h].parents = objects[h].parents,
           Framed(h)' => \/ Framed(h) /\ frames'[h].parents = frames[h].parents
                         \/ Tracked(h) /\ frames'[h].parents = objects[h].parents
    PROVE  Linked(h)' /\ (Known(h)' => Known(h))
<1>1. Linked(h)
  BY InvParts DEF Links
<1>2. RecordedBelow(h)' = RecordedBelow(h) /\ (DriverHas(h)' <=> DriverHas(h))
  BY DEF RecordedBelow, DriverHas
<1>3. Known(h)' => Known(h)
  BY DEF Known
<1>. QED  BY <1>1, <1>2, <1>3 DEF Linked, Known

LEMMA ReturnsSuccess ==
    ASSUME SysInv, NEW t \in Threads, Return(t, CL_SUCCESS)
    PROVE  NoFalsePositive' /\ UNCHANGED ret
<1>1. ret \in [Threads -> Results] /\ \A u \in Threads : ret[u] = CL_SUCCESS
  BY InvParts DEF TypeOK, NoFalsePositive
<1>. QED  BY <1>1 DEF Return, NoFalsePositive

\* The count of h changes by one, and nothing else a reader of the map sees.
LEMMA RecountedRecord ==
    ASSUME SysInv, Unlocked, NEW h \in Handles, Counts(h), NEW n \in Int,
           objects' = [objects EXCEPT ![h].refcount = n],
           TypeOK'
    PROVE  /\ Tracked(h)' /\ objects'[h].refcount = n
           /\ \A g \in Handles : /\ Tracked(g)' <=> Tracked(g)
                                 /\ Tracked(g) => /\ objects'[g].type = objects[g].type
                                                  /\ objects'[g].parents = objects[g].parents
                                 /\ g # h => CountOf(g)' = CountOf(g)
                                             /\ (Tracked(g) => objects'[g].refcount = objects[g].refcount)
           /\ CountOf(h) = objects[h].refcount /\ CountOf(h)' = n
<1>1. TypeOK /\ NoWalk
  BY InvParts, NoWalkFree
<1>2. /\ Recounted(h, n)
      /\ \A g \in Handles \ {h} : SameRecord(g)
  BY <1>1, RecountEffect
<1>3. Tracked(h) /\ Tracked(h)' /\ objects'[h].refcount = n
      /\ objects'[h].type = objects[h].type /\ objects'[h].parents = objects[h].parents
  BY <1>2 DEF Recounted, Counts
<1>4. CountOf(h) = objects[h].refcount /\ CountOf(h)' = n
  BY <1>3 DEF CountOf
<1>5. \A g \in Handles \ {h} : CountOf(g)' = CountOf(g)
  BY <1>2 DEF SameRecord, CountOf
<1>. QED  BY <1>2, <1>3, <1>4, <1>5 DEF SameRecord

LEMMA RetainTaken ==
    ASSUME SysInv, LegalUse, NEW t \in Threads, NEW c, TakingOK(t, c), CountingShape(c.fn),
           NEW hs \in Passable(t, c.fn.arguments[Len(c.args) + 1]), Takes(t, c, hs),
           Counting(c.fn) = "retain", UNCHANGED <<drv, own>>,
           CheckRetain(t, c.fn.arguments[Len(c.args) + 1].type, hs[1])
    PROVE  SysInv'
<1> DEFINE h == hs[1]
           T == c.fn.arguments[1].type
<1>0. /\ SysTypeOK /\ TypeOK /\ ExactInv({Null}) /\ RootsKept /\ NullOK
      /\ c \in Call /\ c.fn \in Used /\ leaks = None /\ c.made = <<>> /\ c.stage = "check"
      /\ c.result = None /\ Len(c.args) < Len(c.fn.arguments)
  BY InvParts DEF TakingOK, Call
<1>1. /\ c.args = <<>> /\ Len(c.args) = 0 /\ h \in Handles /\ own[t][h] > 0 /\ DriverHas(h)
      /\ hs # <<>> /\ hs \in Seq(Handles \cup {None})
      /\ drv[h].type \in Accepted(T) /\ T \in ObjectTypes
  BY CountingTaken
<1>2. CheckRetain(t, T, h)
  BY <1>1
<1>3. /\ Tracked(h) /\ objects[h].type = drv[h].type
      /\ h \in Pool => objects[h].refcount > 0 /\ IsCounted(objects[h])
      /\ h \in Roots => ~IsCounted(objects[h])
  BY <1>0, <1>1, HeldIsTracked
<1>4. Matches(T, h) /\ Usable(objects[h], TRUE)
  BY <1>0, <1>1, <1>3, NotNull DEF Matches, Usable
<1>5. /\ Unlocked /\ Return(t, CL_SUCCESS) /\ UNCHANGED <<deleted, frames, mutex, leaks>>
      /\ objects' = IF IsCounted(objects[h])
                    THEN [objects EXCEPT ![h].refcount = @ + 1] ELSE objects
  BY <1>2, <1>4 DEF CheckRetain
<1>6. NoFalsePositive' /\ UNCHANGED ret
  BY <1>5, ReturnsSuccess
<1>7. CASE h \in Roots
  <2>1. UNCHANGED vars
    BY <1>3, <1>5, <1>6, <1>7 DEF vars
  <2>. QED  BY <1>7, <2>1, UncountedArgument
<1>8. CASE h \in Pool
  <2>1. ExactInv({Null})'
    BY <1>0, <1>1, <1>2, CheckRetainExact
  <2>2. TypeOK'
    BY <2>1 DEF ExactInv, Inv
  <2>3. Counts(h) /\ objects[h].refcount \in Int /\ objects[h].refcount + 1 \in Int
    BY <1>0, <1>3, <1>8, RecordTyped DEF Counts
  <2>4. objects' = [objects EXCEPT ![h].refcount = objects[h].refcount + 1]
    BY <1>3, <1>5, <1>8
  <2>5. /\ CountOf(h) = objects[h].refcount /\ CountOf(h)' = objects[h].refcount + 1
        /\ \A g \in Handles : /\ Tracked(g)' <=> Tracked(g)
                              /\ Tracked(g) => /\ objects'[g].type = objects[g].type
                                               /\ objects'[g].parents = objects[g].parents
                              /\ g # h => CountOf(g)' = CountOf(g)
                                          /\ (Tracked(g) => objects'[g].refcount = objects[g].refcount)
    BY <1>1, <1>5, <2>2, <2>3, <2>4, RecountedRecord, ZenonT(40)
  <2>6. \A g \in Handles \ {Null} : Linked(g)' /\ (Known(g)' => Known(g))
    BY <1>5, <2>5, LinkedKept DEF Framed
  <2>7. \A g \in Roots : /\ Tracked(g) => Tracked(g)'
                         /\ Tracked(g)' => objects'[g].refcount = 0
                         /\ own'[t][g] > 0 => own[t][g] > 0 \/ Tracked(g)
    BY <1>0, <1>8, <2>5, PoolAndRoots DEF RootsKept
  <2>8. /\ call' \in [Threads -> Call \cup {None}]
        /\ \A u \in Threads \ {t} : call'[u] = call[u]
    BY <1>0, <1>1, NextCall
  <2>9. SysTypeOK'
    BY <1>0, <2>2, <2>8 DEF SysTypeOK
  <2>10. CallOK(t)'
    <3>1. \A a, ps : ArgumentOK(t, a, ps) => ArgumentOK(t, a, ps)'
      BY DEF ArgumentOK, DriverHas
    <3>2. \A i \in DOMAIN c.args : ArgumentOK(t, c.fn.arguments[i], c.args[i])'
      BY <3>1 DEF TakingOK
    <3>3. ArgumentOK(t, c.fn.arguments[Len(c.args) + 1], hs)'
      BY <3>1, PassedOK
    <3>4. Len(c.fn.arguments) = 1
      BY <1>0, CountingCalls
    <3>. QED  BY <1>0, <1>1, <3>2, <3>3, <3>4, NextCallOK
  <2>11. MutexOK' /\ mutex = None /\ mutex' = None
    BY <1>5 DEF MutexOK, Unlocked
  <2>12. ASSUME NEW g \in Pool
         PROVE  /\ DriverShare(t, g)' = DriverShare(t, g)
                /\ CountOf(g)' - CountOf(g) = TrackerShare(t, g)' - TrackerShare(t, g)
    <3>1. /\ DriverShare(t, g) = own[t][g] /\ TrackerShare(t, g) = own[t][g]
          /\ own[t][g] \in Nat /\ own'[t][g] = own[t][g] /\ g \in Handles
      BY PoolAndRoots, TakingShare
    <3>2. /\ Requesting(t, "retain", g)' <=> g = h
          /\ ~Requesting(t, "release", g)' /\ ~Making(t, g)'
      BY CountingTaken
    <3>3. DriverShare(t, g)' = own[t][g]
      BY <3>1, <3>2 DEF DriverShare, One
    <3>4. TrackerShare(t, g)' = own[t][g] + (IF g = h THEN 1 ELSE 0)
      BY <3>1, <3>2 DEF TrackerShare, One
    <3>5. CASE g = h
      BY <2>3, <2>5, <3>1, <3>3, <3>4, <3>5
    <3>6. CASE g # h
      <4>1. CountOf(g)' = CountOf(g) /\ CountOf(g) \in Int
        BY <1>0, <2>5, <3>1, <3>6, RecordTyped DEF CountOf
      <4>. QED  BY <3>1, <3>3, <3>4, <3>6, <4>1
    <3>. QED  BY <3>5, <3>6
  <2>13. \A u \in Threads \ {t} : call'[u] = call[u] /\ \A g \in Handles : own'[u][g] = own[u][g]
    BY <2>8
  <2>14. NullOK'
    <3>1. Null \in Handles /\ Null # h
      BY <1>8, PoolAndRoots
    <3>. QED  BY <1>0, <1>5, <2>5, <3>1, NullUntouched
  <2>. QED
    BY <1>0, <1>5, <1>6, <2>1, <2>6, <2>7, <2>9, <2>10, <2>11, <2>12, <2>13, <2>14, PoolAndRoots,
       TrackerSide
<1>. QED  BY <1>0, <1>1, <1>7, <1>8, NotNull

LEMMA ReleaseTaken ==
    ASSUME SysInv, LegalUse, NEW t \in Threads, NEW c, TakingOK(t, c), CountingShape(c.fn),
           NEW hs \in Passable(t, c.fn.arguments[Len(c.args) + 1]), Takes(t, c, hs),
           Counting(c.fn) = "release", UNCHANGED drv,
           own' = GivenUp(t, c.fn.arguments[Len(c.args) + 1], hs),
           CheckRelease(t, c.fn.arguments[Len(c.args) + 1].type, hs[1])
    PROVE  SysInv'
<1> DEFINE h == hs[1]
           T == c.fn.arguments[1].type
<1>0. /\ SysTypeOK /\ TypeOK /\ ExactInv({Null}) /\ RootsKept /\ NullOK
      /\ c \in Call /\ c.fn \in Used /\ leaks = None /\ c.made = <<>> /\ c.stage = "check"
      /\ c.result = None /\ Len(c.args) < Len(c.fn.arguments)
  BY InvParts DEF TakingOK, Call
<1>1. /\ c.args = <<>> /\ Len(c.args) = 0 /\ h \in Handles /\ own[t][h] > 0 /\ DriverHas(h)
      /\ hs # <<>> /\ hs \in Seq(Handles \cup {None}) /\ Elements(hs) = {h}
      /\ drv[h].type \in Accepted(T) /\ T \in ObjectTypes
      /\ c.fn.arguments[1].check = "release"
  BY CountingTaken
<1>2. CheckRelease(t, T, h)
  BY <1>1
<1>3. /\ Tracked(h) /\ objects[h].type = drv[h].type
      /\ h \in Pool => objects[h].refcount > 0 /\ IsCounted(objects[h])
      /\ h \in Roots => ~IsCounted(objects[h])
  BY <1>0, <1>1, HeldIsTracked
<1>4. Matches(T, h)
  BY <1>1, <1>3 DEF Matches
<1>5. Unlocked /\ UNCHANGED <<deleted, leaks>>
  BY <1>2 DEF CheckRelease
<1>6. own' = IF h \in Pool THEN [own EXCEPT ![t][h] = @ - 1] ELSE own
  BY <1>1 DEF GivenUp
<1>7. CASE h \in Roots
  <2>1. Return(t, CL_SUCCESS) /\ UNCHANGED <<objects, frames, mutex>> /\ UNCHANGED own
    BY <1>2, <1>3, <1>4, <1>6, <1>7, PoolAndRoots DEF CheckRelease
  <2>2. UNCHANGED vars
    BY <1>5, <2>1, ReturnsSuccess DEF vars
  <2>. QED  BY <1>7, <2>1, <2>2, UncountedArgument
<1>8. CASE h \in Pool
  <2>1. ExactInv({Null})'
    BY <1>0, <1>1, <1>2, CheckReleaseExact
  <2>2. TypeOK'
    BY <2>1 DEF ExactInv, Inv
  <2>3. Counts(h) /\ objects[h].refcount \in Int /\ objects[h].refcount - 1 \in Int
    BY <1>0, <1>3, <1>8, RecordTyped DEF Counts
  <2>4. /\ Return(t, CL_SUCCESS)
        /\ objects' = [objects EXCEPT ![h].refcount = objects[h].refcount - 1]
        /\ UNCHANGED <<frames, mutex>> \/ DeleteObjectRecord(t, h, <<>>)
    BY <1>2, <1>3, <1>4, <1>8, <2>3 DEF CheckRelease, ReleaseObject
  <2>5. /\ CountOf(h) = objects[h].refcount /\ CountOf(h)' = objects[h].refcount - 1
        /\ \A g \in Handles : /\ Tracked(g)' <=> Tracked(g)
                              /\ Tracked(g) => /\ objects'[g].type = objects[g].type
                                               /\ objects'[g].parents = objects[g].parents
                              /\ g # h => CountOf(g)' = CountOf(g)
                                          /\ (Tracked(g) => objects'[g].refcount = objects[g].refcount)
    BY <1>1, <1>5, <2>2, <2>3, <2>4, RecountedRecord
  <2>6. \A g \in Handles : Framed(g)' => \/ Framed(g) /\ frames'[g].parents = frames[g].parents
                                         \/ Tracked(g) /\ frames'[g].parents = objects[g].parents
    <3>1. CASE UNCHANGED <<frames, mutex>>
      BY <3>1 DEF Framed
    <3>2. CASE DeleteObjectRecord(t, h, <<>>)
      <4>1. frames \in [Handles -> Frame \cup {None}]
        BY <1>0 DEF TypeOK
      <4>2. frames' = [frames EXCEPT ![h] = NewFrame(h)]
        BY <3>2 DEF DeleteObjectRecord
      <4>3. NewFrame(h).parents = objects[h].parents
        BY NewFrameIs
      <4>. QED  BY <1>1, <1>3, <4>1, <4>2, <4>3 DEF Framed
    <3>. QED  BY <2>4, <3>1, <3>2
  <2>7. \A g \in Handles \ {Null} : Linked(g)' /\ (Known(g)' => Known(g))
    BY <2>5, <2>6, LinkedKept
  <2>8. /\ call' \in [Threads -> Call \cup {None}] /\ call'[t] # None
        /\ \A u \in Threads \ {t} : call'[u] = call[u]
    BY <1>0, <1>1, NextCall
  <2>9. /\ own' = [own EXCEPT ![t][h] = @ - 1]
        /\ own' \in [Threads -> [Handles -> Nat]]
        /\ own'[t][h] = own[t][h] - 1
        /\ \A g \in Handles \ {h} : own'[t][g] = own[t][g]
        /\ \A u \in Threads \ {t} : own'[u] = own[u]
    <3>1. own \in [Threads -> [Handles -> Nat]] /\ own[t][h] - 1 \in Nat
      BY <1>0, <1>1 DEF SysTypeOK
    <3>2. own[t] \in [Handles -> Nat]
      BY <3>1
    <3> DEFINE row == [own[t] EXCEPT ![h] = @ - 1]
    <3>3. /\ row \in [Handles -> Nat] /\ row[h] = own[t][h] - 1
          /\ \A g \in Handles \ {h} : row[g] = own[t][g]
      BY <1>1, <3>1, <3>2
    <3>4. own' = [own EXCEPT ![t][h] = @ - 1] /\ own' = [own EXCEPT ![t] = row]
      BY <1>6, <1>8
    <3> HIDE DEF row
    <3>5. /\ own' \in [Threads -> [Handles -> Nat]] /\ own'[t] = row
          /\ \A u \in Threads \ {t} : own'[u] = own[u]
      BY <3>1, <3>3, <3>4
    <3>. QED  BY <3>3, <3>4, <3>5
  <2>10. SysTypeOK'
    BY <1>0, <2>2, <2>8, <2>9 DEF SysTypeOK
  <2>11. CallOK(t)'
    <3>1. ArgumentOK(t, c.fn.arguments[1], hs)
      BY <1>1, PassedOK
    <3>2. ArgumentOK(t, c.fn.arguments[Len(c.args) + 1], hs)'
      BY <1>1, <3>1 DEF ArgumentOK, DriverHas
    <3>3. \A i \in DOMAIN c.args : ArgumentOK(t, c.fn.arguments[i], c.args[i])'
      BY <1>1
    <3>4. Len(c.fn.arguments) = 1
      BY <1>0, CountingCalls
    <3>. QED  BY <1>0, <1>1, <3>2, <3>3, <3>4, NextCallOK
  <2>12. MutexOK' /\ mutex = None /\ (mutex' # None => mutex'.owner = t)
    <3>1. mutex = None
      BY <1>5 DEF Unlocked
    <3>2. CASE UNCHANGED <<frames, mutex>>
      BY <3>1, <3>2 DEF MutexOK
    <3>3. CASE DeleteObjectRecord(t, h, <<>>)
      <4>1. mutex' = [owner |-> t, stack |-> <<h>>, todo |-> <<>>]
        BY <3>3 DEF DeleteObjectRecord
      <4>2. /\ mutex'.owner = t /\ mutex'.stack = <<h>> /\ mutex'.todo = <<>>
            /\ mutex'.stack # <<>> /\ mutex'.stack[1] = h
            /\ DOMAIN mutex'.stack = {1} /\ DOMAIN mutex'.todo = {}
        BY <4>1
      <4>3. Requesting(t, "release", h)'
        BY CountingTaken
      <4>4. Requesting(mutex.owner, "release", mutex.stack[1])'
        BY <4>2, <4>3 DEF Requesting
      <4>. QED  BY <1>8, <2>8, <3>1, <4>2, <4>4 DEF MutexOK
    <3>. QED  BY <2>4, <3>1, <3>2, <3>3
  <2>13. ASSUME NEW g \in Pool
         PROVE  /\ DriverShare(t, g)' = DriverShare(t, g)
                /\ CountOf(g)' - CountOf(g) = TrackerShare(t, g)' - TrackerShare(t, g)
    <3>1. /\ DriverShare(t, g) = own[t][g] /\ TrackerShare(t, g) = own[t][g]
          /\ own[t][g] \in Nat /\ g \in Handles
      BY PoolAndRoots, TakingShare
    <3>2. /\ Requesting(t, "release", g)' <=> g = h
          /\ ~Requesting(t, "retain", g)' /\ ~Making(t, g)'
      BY CountingTaken
    <3>3. DriverShare(t, g)' = own'[t][g] + (IF g = h THEN 1 ELSE 0)
      BY <2>9, <3>1, <3>2 DEF DriverShare, One
    <3>4. own'[t][g] \in Nat
      BY <2>9, <3>1
    <3>5. TrackerShare(t, g)' = own'[t][g]
      BY <3>4, <3>2 DEF TrackerShare, One
    <3>6. CASE g = h
      BY <2>3, <2>5, <2>9, <3>1, <3>3, <3>5, <3>6
    <3>7. CASE g # h
      <4>1. CountOf(g)' = CountOf(g) /\ CountOf(g) \in Int
        BY <1>0, <2>5, <3>1, <3>7, RecordTyped DEF CountOf
      <4>. QED  BY <2>9, <3>1, <3>3, <3>5, <3>7, <4>1
    <3>. QED  BY <3>6, <3>7
  <2>14. \A u \in Threads \ {t} : call'[u] = call[u] /\ \A g \in Handles : own'[u][g] = own[u][g]
    BY <2>8, <2>9
  <2>15. \A g \in Roots : /\ Tracked(g) => Tracked(g)'
                          /\ Tracked(g)' => objects'[g].refcount = 0
                          /\ own'[t][g] > 0 => own[t][g] > 0 \/ Tracked(g)
    BY <1>0, <1>8, <2>5, <2>9, PoolAndRoots DEF RootsKept
  <2>16. NullOK'
    <3>1. Null \in Handles /\ Null # h
      BY <1>8, PoolAndRoots
    <3>2. frames'[Null] = frames[Null]
      <4>1. CASE UNCHANGED <<frames, mutex>>
        BY <4>1
      <4>2. CASE DeleteObjectRecord(t, h, <<>>)
        BY <1>0, <3>1, <4>2 DEF DeleteObjectRecord, TypeOK
      <4>. QED  BY <2>4, <4>1, <4>2
    <3>3. \A u \in Threads : own'[u][Null] = own[u][Null]
      BY <2>9, <3>1
    <3>. QED  BY <1>0, <2>5, <3>1, <3>2, <3>3, NullUntouched
  <2>. QED
    BY <1>0, <1>5, <2>1, <2>4, <2>7, <2>10, <2>11, <2>12, <2>13, <2>14, <2>15, <2>16, PoolAndRoots,
       ReturnsSuccess, TrackerSide
<1>. QED  BY <1>0, <1>1, <1>7, <1>8, NotNull

LEMMA TakeArgumentStep ==
    ASSUME SysInv, LegalUse, NEW t \in Threads, NEW c, TakingOK(t, c), TakeArgument(t, c)
    PROVE  SysInv'
<1> DEFINE a == c.fn.arguments[Len(c.args) + 1]
<1>0. c \in Call /\ c.fn \in Used /\ leaks = None /\ Len(c.args) \in Nat
      /\ Len(c.args) < Len(c.fn.arguments)
  BY DEF TakingOK, Call
<1>1. PICK hs \in Passable(t, a) :
         /\ Check(t, a, hs) /\ Takes(t, c, hs) /\ own' = GivenUp(t, a, hs) /\ UNCHANGED drv
  BY DEF TakeArgument, Takes
<1>2. CASE CountingShape(c.fn)
  <2>1. /\ Len(c.args) = 0 /\ a.check = Counting(c.fn) /\ hs # <<>>
        /\ Counting(c.fn) \in {"retain", "release"}
    BY <1>1, <1>2, CountingTaken
  <2>2. CASE Counting(c.fn) = "retain"
    <3>1. CheckRetain(t, a.type, hs[1]) /\ UNCHANGED own
      BY <1>1, <2>1, <2>2 DEF Check, GivenUp
    <3>. QED  BY <1>1, <1>2, <2>2, <3>1, RetainTaken
  <2>3. CASE Counting(c.fn) = "release"
    <3>1. CheckRelease(t, a.type, hs[1])
      BY <1>1, <2>1, <2>3 DEF Check
    <3>. QED  BY <1>1, <1>2, <2>3, <3>1, ReleaseTaken
  <2>. QED  BY <2>1, <2>2, <2>3
<1>3. CASE c.fn.arguments \in Seq(Plain) /\ Counting(c.fn) = "nothing"
  <2>1. Len(c.args) + 1 \in DOMAIN c.fn.arguments
    BY <1>0, <1>3
  <2>2. a.check \in {"exists", "list", "unchecked"}
    BY <1>3, <2>1, PlainCall
  <2>3. UNCHANGED vars
    BY <1>0, <1>1, <2>2, PlainPasses
  <2>4. UNCHANGED own
    BY <1>1, <2>2 DEF GivenUp
  <2>. QED  BY <1>1, <1>3, <2>3, <2>4, UncountedArgument
<1>. QED  BY <1>0, <1>2, <1>3, UsedArguments

\* A thread outside a call does not hold the mutex.
LEMMA IdleHoldsNothing ==
    ASSUME SysInv, NEW t \in Threads, call[t] = None
    PROVE  mutex # None => mutex.owner # t
BY InvParts DEF MutexOK

LEMMA BeginStep ==
    ASSUME SysInv, LegalUse, NEW t \in Threads, NEW fn \in Used, Begin(t, fn)
    PROVE  SysInv'
<1>0. /\ SysTypeOK /\ call[t] = None /\ leaks = None
  BY InvParts DEF Begin
<1> DEFINE c == NewCall(fn)
<1>1. /\ c.fn = fn /\ c.args = <<>> /\ c.stage = "check" /\ c.result = None /\ c.made = <<>>
      /\ Len(c.args) = 0 /\ DOMAIN c.args = {}
  BY DEF NewCall
<1>2. c \in Call
  <2>1. <<>> \in Seq(Seq(Handles \cup {None})) /\ <<>> \in Seq(Handles)
    OBVIOUS
  <2>2. "check" \in Stages
    BY DEF Stages
  <2>3. None \in (UNION {f.results : f \in Used}) \cup {None}
    OBVIOUS
  <2> DEFINE R == (UNION {f.results : f \in Used}) \cup {None}
  <2> HIDE DEF R
  <2>4. None \in R
    BY <2>3 DEF R
  <2>5. NewCall(fn) \in [fn: Used, args: Seq(Seq(Handles \cup {None})), stage: Stages,
                        result: R, made: Seq(Handles)]
    BY <2>1, <2>2, <2>4 DEF NewCall
  <2>. QED  BY <2>5 DEF Call, R
<1>3. fn.arguments \in Seq(Plain) \/ Len(fn.arguments) = 1
  BY UsedArguments, CountingCalls
<1>4. mutex # None => mutex.owner # t
  BY <1>0, IdleHoldsNothing
<1>5. CASE fn.arguments # <<>>
  <2>1. TakeArgument(t, c)
    BY <1>5 DEF Begin
  <2>2. Len(c.args) < Len(c.fn.arguments)
    <3>1. CASE fn.arguments \in Seq(Plain)
      <4>1. Len(fn.arguments) \in Nat /\ Len(fn.arguments) # 0
        BY <1>5, <3>1
      <4>. QED  BY <1>1, <4>1
    <3>2. CASE Len(fn.arguments) = 1
      BY <1>1, <3>2
    <3>. QED  BY <1>3, <3>1, <3>2
  <2>3. TakingOK(t, c)
    BY <1>0, <1>1, <1>2, <1>4, <2>2 DEF TakingOK
  <2>. QED  BY <2>1, <2>3, TakeArgumentStep
<1>6. CASE fn.arguments = <<>>
  <2>1. /\ call' = [call EXCEPT ![t] = c] /\ Return(t, CL_SUCCESS)
        /\ UNCHANGED <<objects, deleted, frames, mutex, leaks, drv, own>>
    BY <1>6 DEF Begin
  <2>2. UNCHANGED vars
    BY <2>1, ReturnsSuccess DEF vars
  <2>3. call \in [Threads -> Call \cup {None}]
    BY <1>0 DEF SysTypeOK
  <2>4. /\ call' \in [Threads -> Call \cup {None}] /\ call'[t] = c
        /\ \A u \in Threads \ {t} : call'[u] = call[u]
    BY <1>2, <2>1, <2>3
  <2>5. CallOK(t)'
    <3>1. Len(c.args) <= Len(c.fn.arguments)
      BY <1>1, <1>6
    <3>. QED  BY <1>1, <2>4, <3>1 DEF CallOK
  <2>6. ASSUME NEW h \in Pool
        PROVE  DriverShare(t, h)' = DriverShare(t, h) /\ TrackerShare(t, h)' = TrackerShare(t, h)
    <3>1. own[t][h] \in Int /\ own'[t][h] = own[t][h]
      BY <1>0, <2>1, OwnTyped, PoolAndRoots
    <3>2. DriverShare(t, h) = own[t][h] /\ TrackerShare(t, h) = own[t][h]
      BY <1>0, <3>1, PlainShare
    <3>3. DriverShare(t, h)' = own'[t][h] /\ TrackerShare(t, h)' = own'[t][h]
      BY <1>1, <2>4, <3>1, PlainShareAfter
    <3>. QED  BY <3>1, <3>2, <3>3
  <2>. QED  BY <1>0, <1>4, <2>1, <2>2, <2>4, <2>5, <2>6, CallMoves
<1>. QED  BY <1>5, <1>6

LEMMA NextArgumentStep ==
    ASSUME SysInv, LegalUse, NEW t \in Threads, NextArgument(t)
    PROVE  SysInv'
<1> DEFINE c == call[t]
<1>0. /\ c # None /\ c.stage = "check" /\ ~Holds(t) /\ TakeArgument(t, c)
      /\ Len(c.args) < Len(c.fn.arguments)
  BY DEF NextArgument, At
<1>1. c \in Call /\ CallOK(t) /\ leaks = None
  BY <1>0, InvParts, CallTyped DEF Calls, AfterExit
<1>2. TakingOK(t, c)
  BY <1>0, <1>1 DEF TakingOK, CallOK, Holds
<1>. QED  BY <1>0, <1>2, TakeArgumentStep

\* Nothing of a legal use fails.
LEMMA NothingFails ==
    ASSUME SysInv, LegalUse, NEW t \in Threads
    PROVE  ~RejectedCall(t) /\ ~Crash(t) /\ ~DriverRefuses(t)
<1>1. ~RejectedCall(t)
  BY InvParts DEF RejectedCall, NoFalsePositive
<1>2. ~Crash(t)
  BY DEF LegalUse, Crash
<1>3. ~DriverRefuses(t)
  BY DEF LegalUse, DriverRefuses
<1>. QED  BY <1>1, <1>2, <1>3

\* A call in progress.
LEMMA InProgress ==
    ASSUME SysInv, NEW t \in Threads, call[t] # None
    PROVE  /\ leaks = None /\ CallOK(t) /\ call[t].fn \in Used /\ call[t] \in Call
           /\ ~Holds(t) => (mutex # None => mutex.owner # t)
<1>1. leaks = None
  BY InvParts DEF AfterExit
<1>. QED  BY <1>1, InvParts, CallTyped DEF Calls, Holds

LEMMA Finished ==
    ASSUME SysTypeOK, NEW t \in Threads, Finish(t)
    PROVE  /\ call' \in [Threads -> Call \cup {None}] /\ call'[t] = None
           /\ \A u \in Threads \ {t} : call'[u] = call[u]
BY DEF SysTypeOK, Finish

LEMMA DriverReturnsStep ==
    ASSUME SysInv, LegalUse, NEW t \in Threads, DriverReturns(t)
    PROVE  SysInv'
<1>0. /\ SysTypeOK /\ call[t] # None /\ call[t].stage = "check" /\ ~Holds(t)
      /\ Counting(call[t].fn) = "nothing" /\ Finish(t) /\ UNCHANGED vars /\ UNCHANGED <<drv, own>>
  BY InvParts DEF DriverReturns, AtDriver, At
<1>1. /\ leaks = None /\ CallOK(t) /\ (mutex # None => mutex.owner # t)
  BY <1>0, InProgress
<1>2. call[t].made = <<>>
  BY <1>0, <1>1 DEF CallOK
<1>3. /\ call' \in [Threads -> Call \cup {None}] /\ call'[t] = None
      /\ \A u \in Threads \ {t} : call'[u] = call[u]
  BY <1>0, Finished
<1>4. ASSUME NEW h \in Pool
      PROVE  DriverShare(t, h)' = DriverShare(t, h) /\ TrackerShare(t, h)' = TrackerShare(t, h)
  <2>1. own[t][h] \in Int /\ own'[t][h] = own[t][h]
    BY <1>0, OwnTyped, PoolAndRoots
  <2>2. DriverShare(t, h) = own[t][h] /\ TrackerShare(t, h) = own[t][h]
    BY <1>0, <1>2, <2>1, PlainShare
  <2>3. DriverShare(t, h)' = own'[t][h] /\ TrackerShare(t, h)' = own'[t][h]
    BY <1>3, <2>1, PlainShareAfter
  <2>. QED  BY <2>1, <2>2, <2>3
<1>. QED  BY <1>0, <1>1, <1>3, <1>4, CallMoves

-----------------------------------------------------------------------------
(***************************************************************************)
(* The driver counts.                                                      *)
(***************************************************************************)

\* An object with another count is the same object.
LEMMA CountMoves ==
    ASSUME SysTypeOK, NEW A \in Handles, DriverHas(A), NEW n \in Nat,
           drv' = [drv EXCEPT ![A].refs = n]
    PROVE  /\ drv' \in [Handles -> DriverObject \cup {None}]
           /\ \A h : DriverHas(h)' <=> DriverHas(h)
           /\ \A h : DriverHas(h) => SameObject(h)
           /\ \A h : InUse(h)' <=> InUse(h)
           /\ drv'[A].refs = n
           /\ \A h \in Handles \ {A} : drv'[h] = drv[h]
<1>1. drv \in [Handles -> DriverObject \cup {None}] /\ drv[A] \in DriverObject
  BY ObjectTyped DEF SysTypeOK
<1> DEFINE new == [drv[A] EXCEPT !.refs = n]
<1>2. /\ new \in DriverObject /\ new.refs = n /\ new.type = drv[A].type /\ new.on = drv[A].on
      /\ new.context = drv[A].context /\ new.default = drv[A].default
  BY <1>1 DEF DriverObject
<1>3. drv' = [drv EXCEPT ![A] = new]
  OBVIOUS
<1>4. new # None
  BY <1>2, NoCallAssumption
<1> HIDE DEF new
<1>5. /\ drv' \in [Handles -> DriverObject \cup {None}] /\ drv'[A] = new
      /\ \A h \in Handles \ {A} : drv'[h] = drv[h]
  BY <1>1, <1>2, <1>3
<1>6. \A h : DriverHas(h)' <=> DriverHas(h)
  BY <1>4, <1>5 DEF DriverHas
<1>7. \A h : DriverHas(h) => SameObject(h)
  <2> SUFFICES ASSUME NEW h, DriverHas(h)
               PROVE  SameObject(h)
    OBVIOUS
  <2>1. h \in Handles
    BY DEF DriverHas
  <2>2. CASE h = A
    BY <1>2, <1>5, <1>6, <2>2 DEF SameObject
  <2>3. CASE h # A
    BY <1>5, <1>6, <2>1, <2>3 DEF SameObject
  <2>. QED  BY <2>2, <2>3
<1>8. \A h : InUse(h)' <=> InUse(h)
  <2>1. \A c : DriverHas(c) => Elements(drv'[c].on) = Elements(drv[c].on)
    BY <1>7 DEF SameObject
  <2>2. \A h : InUse(h)' <=> \E c \in Handles : DriverHas(c)' /\ h \in Elements(drv'[c].on)
    BY DEF InUse, Elements
  <2>. QED  BY <1>6, <2>1, <2>2 DEF InUse
<1>. QED  BY <1>2, <1>5, <1>6, <1>7, <1>8

LEMMA RefsMove ==
    ASSUME SysInv, LegalUse, NEW t \in Threads, UNCHANGED vars, leaks = None,
           mutex # None => mutex.owner # t,
           NEW A \in Pool, DriverHas(A), NEW n \in Nat, drv' = [drv EXCEPT ![A].refs = n],
           call' \in [Threads -> Call \cup {None}], own' \in [Threads -> [Handles -> Nat]],
           \A u \in Threads \ {t} :
              call'[u] = call[u] /\ \A h \in Handles : own'[u][h] = own[u][h],
           \A h \in Roots \cup {Null} : own'[t][h] = own[t][h],
           \A u \in Threads \ {t} : ~(Making(u, A) /\ Fresh(A)),
           call'[t] # None => CallOK(t)',
           \A h \in Pool : /\ DriverShare(t, h)' - DriverShare(t, h)
                                = IF h = A THEN n - drv[A].refs ELSE 0
                           /\ TrackerShare(t, h)' = TrackerShare(t, h)
    PROVE  SysInv'
<1>0. /\ SysTypeOK /\ Structure /\ Balance /\ leaks' = leaks /\ mutex' = mutex
      /\ objects' = objects /\ A \in Handles
  BY InvParts, PoolAndRoots DEF vars
<1>1. /\ drv' \in [Handles -> DriverObject \cup {None}]
      /\ \A h : DriverHas(h)' <=> DriverHas(h)
      /\ \A h : DriverHas(h) => SameObject(h)
      /\ \A h : InUse(h)' <=> InUse(h)
      /\ drv'[A].refs = n
      /\ \A h \in Handles \ {A} : drv'[h] = drv[h]
  BY <1>0, CountMoves
<1>2. SysTypeOK'
  BY <1>0, <1>1 DEF SysTypeOK, TypeOK, vars
<1>3. DriverKeeps
  BY <1>1 DEF DriverKeeps, Alive
<1>4. Structure'
  BY <1>0, <1>1, <1>3, StructureKept
<1>5. Balance'
  <2>1. \A u \in Threads \ {t} :
              /\ call'[u] = call[u] /\ \A h \in Handles : own'[u][h] = own[u][h]
              /\ mutex' = mutex \/ (~Holds(u) /\ ~Holds(u)')
    BY <1>0
  <2>2. \A h \in Pool :
              /\ Refs(h)' - Refs(h) = DriverShare(t, h)' - DriverShare(t, h)
              /\ leaks = None =>
                   CountOf(h)' - CountOf(h) = TrackerShare(t, h)' - TrackerShare(t, h)
    <3> SUFFICES ASSUME NEW h \in Pool
                 PROVE  /\ Refs(h)' - Refs(h) = DriverShare(t, h)' - DriverShare(t, h)
                        /\ CountOf(h)' - CountOf(h) = TrackerShare(t, h)' - TrackerShare(t, h)
      OBVIOUS
    <3>1. CountOf(h)' = CountOf(h)
      BY <1>0 DEF CountOf, Tracked
    <3>2. CountOf(h) \in Int /\ Refs(h) \in Int
      BY <1>0, ObjectTyped, RecordTyped DEF Refs, CountOf
    <3>3. TrackerShare(t, h) \in Int
      BY <1>0, PoolAndRoots, ShareTyped
    <3>4. Refs(h)' - Refs(h) = DriverShare(t, h)' - DriverShare(t, h)
      <4>1. CASE h = A
        <5>1. Refs(A)' = n /\ Refs(A) = drv[A].refs
          BY <1>1 DEF Refs
        <5>. QED  BY <4>1, <5>1
      <4>2. CASE h # A
        <5>1. Refs(h)' = Refs(h)
          BY <1>1, <4>2, PoolAndRoots DEF Refs
        <5>. QED  BY <3>2, <4>2, <5>1
      <4>. QED  BY <4>1, <4>2
    <3>. QED  BY <3>1, <3>2, <3>3, <3>4
  <2>. QED  BY <1>0, <1>2, <2>1, <2>2, BalanceMoves
<1>6. \A h \in Roots : /\ drv'[h] = drv[h]
                       /\ \A u \in Threads : own'[u][h] > 0 => own[u][h] > 0 \/ Tracked(h)
  <2> SUFFICES ASSUME NEW h \in Roots
               PROVE  /\ drv'[h] = drv[h]
                      /\ \A u \in Threads : own'[u][h] = own[u][h]
    OBVIOUS
  <2>1. h \in Handles /\ h # A
    BY PoolAndRoots
  <2>. QED  BY <1>1, <2>1
<1>7. \A u \in Threads \ {t} : \A h \in Pool :
              Making(u, h) /\ Fresh(h) /\ call[u].stage = "post" => Fresh(h)'
  <2> SUFFICES ASSUME NEW u \in Threads \ {t}, NEW h \in Pool, Making(u, h), Fresh(h)
               PROVE  Fresh(h)'
    OBVIOUS
  <2>1. h # A /\ h \in Handles
    BY PoolAndRoots
  <2>2. drv'[h] = drv[h]
    BY <1>1, <2>1
  <2>3. Known(h)' <=> Known(h)
    BY DEF vars, Known, Tracked, Framed
  <2>. QED  BY <1>1, <2>2, <2>3 DEF Fresh
<1>8. /\ mutex # None => mutex.owner \notin {t}
      /\ \A u \in Threads \ {t} :
            call'[u] = call[u] /\ \A h \in Handles : own[u][h] > 0 => own'[u][h] > 0
      /\ leaks = None \/ UNCHANGED <<call, own>>
  OBVIOUS
<1>9. NullOK'
  <2>1. /\ NullOK /\ drv'[Null] = drv[Null] /\ objects' = objects /\ frames' = frames
        /\ \A u \in Threads : own'[u][Null] = own[u][Null]
    BY <1>1, InvParts, PoolAndRoots DEF vars
  <2>. QED  BY <2>1, NullKept
<1>10. \A u \in {t} : call'[u] # None => CallOK(u)'
  OBVIOUS
<1>. QED
  BY <1>2, <1>3, <1>4, <1>5, <1>6, <1>7, <1>8, <1>9, <1>10, DriverSide, ZenonT(40)

\* A call in front of the driver that counts.
LEMMA CountingCall ==
    ASSUME SysInv, LegalUse, NEW t \in Threads, AtDriver(t),
           Counting(call[t].fn) \in {"retain", "release"}
    PROVE  /\ Argument1(t) \in Handles /\ DriverHas(Argument1(t)) /\ Alive(Argument1(t))
           /\ call[t].fn.makes = NOTHING
           /\ Counting(call[t].fn) = "retain" => own[t][Argument1(t)] > 0
           /\ \A h : /\ Requesting(t, "retain", h) <=>
                          Counting(call[t].fn) = "retain" /\ h = Argument1(t)
                     /\ Requesting(t, "release", h) <=>
                          Counting(call[t].fn) = "release" /\ h = Argument1(t)
                     /\ ~Making(t, h)
<1>0. /\ call[t] # None /\ call[t].stage = "check" /\ call[t].fn \in Used /\ CallOK(t)
      /\ Len(call[t].args) = Len(call[t].fn.arguments)
      /\ call[t].args \in Seq(Seq(Handles \cup {None}))
  BY InvParts, InProgress, CallTyped DEF AtDriver, At
<1>1. CountingShape(call[t].fn)
  BY <1>0, UsedArguments
<1>2. /\ Len(call[t].fn.arguments) = 1 /\ call[t].fn.arguments[1].check = Counting(call[t].fn)
      /\ ~call[t].fn.arguments[1].null /\ call[t].fn.arguments[1].type # "PLATFORM"
      /\ call[t].fn.makes = NOTHING
  BY <1>0, <1>1, CountingCalls
<1>3. call[t].args # <<>> /\ 1 \in DOMAIN call[t].args
  BY <1>0, <1>2
<1>4. ArgumentOK(t, call[t].fn.arguments[1], call[t].args[1])
  BY <1>0, <1>3 DEF CallOK
<1>5. Len(call[t].args[1]) = 1 /\ call[t].args[1] \in Seq(Handles \cup {None})
  BY <1>2, <1>4 DEF ArgumentOK
<1>6. Argument1(t) \in Elements(call[t].args[1])
  BY <1>5, ElementsOfSingle DEF Argument1
<1>7. /\ DriverHas(Argument1(t))
      /\ call[t].fn.arguments[1].check # "release" => own[t][Argument1(t)] > 0
  BY <1>2, <1>4, <1>6 DEF ArgumentOK
<1>8. Argument1(t) \in Handles /\ Argument1(t) # None
  BY <1>7, PoolAndRoots DEF DriverHas
<1>9. Alive(Argument1(t))
  BY <1>0, <1>3, <1>6, <1>8, ArgumentsAlive
<1>10. ASSUME NEW h
       PROVE  /\ Requesting(t, "retain", h) <=>
                   Counting(call[t].fn) = "retain" /\ h = Argument1(t)
              /\ Requesting(t, "release", h) <=>
                   Counting(call[t].fn) = "release" /\ h = Argument1(t)
              /\ ~Making(t, h)
  BY <1>0, <1>2, <1>3 DEF Requesting, Making
<1>. QED  BY <1>2, <1>7, <1>8, <1>9, <1>10

\* What another thread has a share of is not new.
LEMMA SharedIsNotFresh ==
    ASSUME SysInv, LegalUse, NEW t \in Threads, NEW A \in Pool, DriverShare(t, A) > 0
    PROVE  \A u \in Threads \ {t} : ~(Making(u, A) /\ Fresh(A))
<1> SUFFICES ASSUME NEW u \in Threads \ {t}, Making(u, A), Fresh(A)
             PROVE  FALSE
  OBVIOUS
<1>1. DriverHas(A)
  BY MadeIsAlive
<1>2. DriverShare(t, A) = 0
  BY <1>1, MadeAlone
<1>. QED  BY <1>2

\* Counting by nothing changes nothing.
LEMMA CountedByNothing ==
    ASSUME NEW S, NEW f \in [S -> DriverObject \cup {None}], NEW A \in S, f[A] \in DriverObject,
           NEW n, n = f[A].refs
    PROVE  [f EXCEPT ![A].refs = n] = f
<1> DEFINE new == [f[A] EXCEPT !.refs = n]
<1>1. /\ new \in DriverObject /\ new.refs = f[A].refs /\ new.type = f[A].type
      /\ new.on = f[A].on /\ new.context = f[A].context /\ new.default = f[A].default
  BY DEF DriverObject
<1>2. [f EXCEPT ![A].refs = n] = [f EXCEPT ![A] = new]
  OBVIOUS
<1> HIDE DEF new
<1>3. new = f[A]
  BY <1>1 DEF DriverObject
<1>. QED  BY <1>2, <1>3

LEMMA AfterCall ==
    ASSUME NEW t, call'[t] = None, NEW h
    PROVE  ~Requesting(t, "retain", h)' /\ ~Requesting(t, "release", h)' /\ ~Making(t, h)'
BY DEF Requesting, Making

LEMMA DriverRetainStep ==
    ASSUME SysInv, LegalUse, NEW t \in Threads, DriverRetain(t)
    PROVE  SysInv'
<1>a. PICK A : A = Argument1(t)
  OBVIOUS
<1>0. /\ SysTypeOK /\ AtDriver(t) /\ call[t] # None /\ ~Holds(t)
      /\ Counting(call[t].fn) = "retain" /\ Finish(t) /\ UNCHANGED vars
      /\ drv' = [drv EXCEPT ![A].refs = @ + Counted(t, 1)]
      /\ own' = [own EXCEPT ![t][A] = @ + Counted(t, 1)]
  BY <1>a, InvParts DEF DriverRetain, Works, AtDriver, At
<1>1. /\ leaks = None /\ (mutex # None => mutex.owner # t)
  BY <1>0, InProgress
<1>2. /\ A \in Handles /\ DriverHas(A) /\ Alive(A) /\ own[t][A] > 0
      /\ \A h : /\ Requesting(t, "retain", h) <=> h = A
                /\ ~Requesting(t, "release", h) /\ ~Making(t, h)
  BY <1>0, <1>a, CountingCall
<1>3. /\ call' \in [Threads -> Call \cup {None}] /\ call'[t] = None
      /\ \A u \in Threads \ {t} : call'[u] = call[u]
  BY <1>0, Finished
<1>4. \A h : ~Requesting(t, "retain", h)' /\ ~Requesting(t, "release", h)' /\ ~Making(t, h)'
  BY <1>3, AfterCall
<1>5. own \in [Threads -> [Handles -> Nat]] /\ drv \in [Handles -> DriverObject \cup {None}]
      /\ drv[A] \in DriverObject /\ drv[A].refs \in Nat
  BY <1>0, <1>2, ObjectTyped DEF SysTypeOK
<1>6. CASE A \notin Pool
  <2>1. Counted(t, 1) = 0
    BY <1>6, <1>a DEF Counted
  <2>2. drv' = drv
    <3> DEFINE n == drv[A].refs + Counted(t, 1)
    <3>1. n = drv[A].refs
      BY <1>5, <2>1
    <3>2. drv' = [drv EXCEPT ![A].refs = n]
      BY <1>0, Zenon
    <3> HIDE DEF n
    <3>. QED  BY <1>2, <1>5, <3>1, <3>2, CountedByNothing
  <2>3. own' = own
    <3> DEFINE row == [own[t] EXCEPT ![A] = @ + 0]
    <3>1. row = own[t]
      BY <1>2, <1>5
    <3>2. own' = [own EXCEPT ![t] = row]
      BY <1>0, <2>1
    <3> HIDE DEF row
    <3>. QED  BY <1>5, <3>1, <3>2
  <2>4. ASSUME NEW h \in Pool
        PROVE  DriverShare(t, h)' = DriverShare(t, h) /\ TrackerShare(t, h)' = TrackerShare(t, h)
    <3>1. h # A
      BY <1>6
    <3>. QED  BY <1>2, <1>4, <2>3, <3>1 DEF DriverShare, TrackerShare, One
  <2>. QED  BY <1>0, <1>1, <1>3, <2>2, <2>3, <2>4, CallMoves
<1>7. CASE A \in Pool
  <2>1. Counted(t, 1) = 1
    BY <1>7, <1>a DEF Counted
  <2> DEFINE n == drv[A].refs + Counted(t, 1)
  <2>2. drv' = [drv EXCEPT ![A].refs = n]
    BY <1>0, Zenon
  <2>10. n \in Nat /\ n - drv[A].refs = 1
    BY <1>5, <2>1
  <2>3. /\ own' \in [Threads -> [Handles -> Nat]]
        /\ own'[t][A] = own[t][A] + 1
        /\ \A h \in Handles \ {A} : own'[t][h] = own[t][h]
        /\ \A u \in Threads \ {t} : own'[u] = own[u]
    <3> DEFINE row == [own[t] EXCEPT ![A] = @ + 1]
    <3>1. /\ row \in [Handles -> Nat] /\ row[A] = own[t][A] + 1
          /\ \A h \in Handles \ {A} : row[h] = own[t][h]
      BY <1>2, <1>5
    <3>2. own' = [own EXCEPT ![t] = row]
      BY <1>0, <2>1
    <3> HIDE DEF row
    <3>. QED  BY <1>5, <3>1, <3>2
  <2>4. \A h \in Roots \cup {Null} : own'[t][h] = own[t][h]
    BY <1>7, <2>3, PoolAndRoots
  <2>5. \A u \in Threads \ {t} : ~(Making(u, A) /\ Fresh(A))
    <3>1. DriverShare(t, A) > 0
      BY <1>2, <1>5 DEF DriverShare, One
    <3>. QED  BY <1>7, <3>1, SharedIsNotFresh
  <2>6. ASSUME NEW h \in Pool
        PROVE  /\ DriverShare(t, h)' - DriverShare(t, h) = IF h = A THEN n - drv[A].refs ELSE 0
               /\ TrackerShare(t, h)' = TrackerShare(t, h)
    <3>1. h \in Handles /\ own[t][h] \in Nat
      BY <1>5, PoolAndRoots
    <3>2. CASE h = A
      <4>1. /\ DriverShare(t, A) = own[t][A] /\ TrackerShare(t, A) = own[t][A] + 1
            /\ DriverShare(t, A)' = own'[t][A] /\ TrackerShare(t, A)' = own'[t][A]
        BY <1>2, <1>4, <1>5, <2>3 DEF DriverShare, TrackerShare, One
      <4>. QED  BY <1>5, <2>3, <2>10, <3>1, <3>2, <4>1
    <3>3. CASE h # A
      <4>1. /\ DriverShare(t, h) = own[t][h] /\ TrackerShare(t, h) = own[t][h]
            /\ DriverShare(t, h)' = own'[t][h] /\ TrackerShare(t, h)' = own'[t][h]
        BY <1>2, <1>4, <2>3, <3>1, <3>3 DEF DriverShare, TrackerShare, One
      <4>. QED  BY <2>3, <3>1, <3>3, <4>1
    <3>. QED  BY <3>2, <3>3
  <2>7. \A u \in Threads \ {t} :
              call'[u] = call[u] /\ \A h \in Handles : own'[u][h] = own[u][h]
    BY <1>3, <2>3
  <2> HIDE DEF n
  <2>8. \A h \in Pool :
          /\ DriverShare(t, h)' - DriverShare(t, h) = IF h = A THEN n - drv[A].refs ELSE 0
          /\ TrackerShare(t, h)' = TrackerShare(t, h)
    BY <2>6
  <2>9. call'[t] # None => CallOK(t)'
    BY <1>3
  <2>11. UNCHANGED vars /\ own' \in [Threads -> [Handles -> Nat]]
    BY <1>0, <2>3
  <2>. QED
    BY <1>1, <1>2, <1>3, <1>7, <2>2, <2>4, <2>5, <2>7, <2>8, <2>9, <2>10, <2>11, RefsMove
<1>. QED  BY <1>6, <1>7

LEMMA DriverReleaseStep ==
    ASSUME SysInv, LegalUse, NEW t \in Threads, DriverRelease(t)
    PROVE  SysInv'
<1>a. PICK A : A = Argument1(t)
  OBVIOUS
<1>0. /\ SysTypeOK /\ Balance /\ AtDriver(t) /\ call[t] # None /\ ~Holds(t)
      /\ Counting(call[t].fn) = "release" /\ Finish(t) /\ UNCHANGED vars /\ own' = own
      /\ drv' = [drv EXCEPT ![A].refs = @ - Counted(t, 1)]
  BY <1>a, InvParts DEF DriverRelease, Works, AtDriver, At
<1>1. /\ leaks = None /\ (mutex # None => mutex.owner # t)
  BY <1>0, InProgress
<1>2. /\ A \in Handles /\ DriverHas(A) /\ Alive(A)
      /\ \A h : /\ Requesting(t, "release", h) <=> h = A
                /\ ~Requesting(t, "retain", h) /\ ~Making(t, h)
  BY <1>0, <1>a, CountingCall
<1>3. /\ call' \in [Threads -> Call \cup {None}] /\ call'[t] = None
      /\ \A u \in Threads \ {t} : call'[u] = call[u]
  BY <1>0, Finished
<1>4. \A h : ~Requesting(t, "retain", h)' /\ ~Requesting(t, "release", h)' /\ ~Making(t, h)'
  BY <1>3, AfterCall
<1>5. own \in [Threads -> [Handles -> Nat]] /\ drv \in [Handles -> DriverObject \cup {None}]
      /\ drv[A] \in DriverObject /\ drv[A].refs \in Nat
  BY <1>0, <1>2, ObjectTyped DEF SysTypeOK
<1>6. CASE A \notin Pool
  <2>1. Counted(t, 1) = 0
    BY <1>6, <1>a DEF Counted
  <2>2. drv' = drv
    <3> DEFINE n == drv[A].refs - Counted(t, 1)
    <3>1. n = drv[A].refs
      BY <1>5, <2>1
    <3>2. drv' = [drv EXCEPT ![A].refs = n]
      BY <1>0, Zenon
    <3> HIDE DEF n
    <3>. QED  BY <1>2, <1>5, <3>1, <3>2, CountedByNothing
  <2>4. ASSUME NEW h \in Pool
        PROVE  DriverShare(t, h)' = DriverShare(t, h) /\ TrackerShare(t, h)' = TrackerShare(t, h)
    <3>1. h # A
      BY <1>6
    <3>. QED  BY <1>0, <1>2, <1>4, <3>1 DEF DriverShare, TrackerShare, One
  <2>. QED  BY <1>0, <1>1, <1>3, <2>2, <2>4, CallMoves
<1>7. CASE A \in Pool
  <2>1. Counted(t, 1) = 1
    BY <1>7, <1>a DEF Counted
  <2>2. DriverShare(t, A) = own[t][A] + 1 /\ own[t][A] \in Nat
    BY <1>2, <1>5 DEF DriverShare, One
  <2>3. drv[A].refs > 0
    BY <1>0, <1>7, <2>2, ShareIsCounted
  <2> DEFINE n == drv[A].refs - Counted(t, 1)
  <2>4. drv' = [drv EXCEPT ![A].refs = n]
    BY <1>0, Zenon
  <2>10. n \in Nat /\ n - drv[A].refs = -1
    BY <1>5, <2>1, <2>3
  <2>5. \A u \in Threads \ {t} : ~(Making(u, A) /\ Fresh(A))
    BY <1>7, <2>2, SharedIsNotFresh
  <2>6. ASSUME NEW h \in Pool
        PROVE  /\ DriverShare(t, h)' - DriverShare(t, h) = IF h = A THEN n - drv[A].refs ELSE 0
               /\ TrackerShare(t, h)' = TrackerShare(t, h)
    <3>1. h \in Handles /\ own[t][h] \in Nat
      BY <1>5, PoolAndRoots
    <3>2. /\ TrackerShare(t, h) = own[t][h] /\ TrackerShare(t, h)' = own[t][h]
          /\ DriverShare(t, h)' = own[t][h]
      BY <1>0, <1>2, <1>4, <3>1 DEF DriverShare, TrackerShare, One
    <3>3. CASE h = A
      BY <2>2, <2>10, <3>2, <3>3
    <3>4. CASE h # A
      <4>1. DriverShare(t, h) = own[t][h]
        BY <1>2, <3>1, <3>4 DEF DriverShare, One
      <4>. QED  BY <3>1, <3>2, <3>4, <4>1
    <3>. QED  BY <3>3, <3>4
  <2>7. \A u \in Threads \ {t} :
              call'[u] = call[u] /\ \A h \in Handles : own'[u][h] = own[u][h]
    BY <1>0, <1>3
  <2> HIDE DEF n
  <2>8. \A h \in Pool :
          /\ DriverShare(t, h)' - DriverShare(t, h) = IF h = A THEN n - drv[A].refs ELSE 0
          /\ TrackerShare(t, h)' = TrackerShare(t, h)
    BY <2>6
  <2>9. /\ call'[t] # None => CallOK(t)'
        /\ own' \in [Threads -> [Handles -> Nat]] /\ \A h \in Roots \cup {Null} : own'[t][h] = own[t][h]
    BY <1>0, <1>3, <1>5
  <2>. QED
    BY <1>0, <1>1, <1>2, <1>3, <1>7, <2>4, <2>5, <2>7, <2>8, <2>9, <2>10, RefsMove
<1>. QED  BY <1>6, <1>7

-----------------------------------------------------------------------------
(***************************************************************************)
(* The driver makes objects.                                               *)
(***************************************************************************)

\* What is asked of the objects an object of type T is made from.
MadeOn(t, T, on) ==
    /\ T \in ObjectTypes \ RootTypes
    /\ on \in ParentLists /\ on # <<>>
    /\ \A p \in Elements(on) :
         DriverHas(p) /\ (own[t][p] > 0 \/ Related(Argument1(t), p))
    /\ T # "CONTEXT" =>
         \E p \in Handles :
            /\ on = <<p>> /\ DriverHas(p)
            /\ T = "SUB_DEVICE" <=> ~InContext(p)
            /\ T = "EVENT" => drv[p].type \in {"CONTEXT", "COMMAND_QUEUE"}
            /\ T = "COMMAND_QUEUE" => drv[p].type = "CONTEXT"

\* The objects `hs` are there now, as new ones of type T made from `on`.
NewObjects(hs, T, on, default) ==
    /\ \A h \in Elements(hs) :
         /\ h \in Pool /\ ~DriverHas(h) /\ DriverHas(h)'
         /\ drv'[h].type = T /\ drv'[h].refs = 1 /\ drv'[h].on = on
         /\ drv'[h].default = default
         /\ drv'[h].context = IF T = "CONTEXT" THEN h ELSE drv[on[1]].context
    /\ \A h \in Handles : h \notin Elements(hs) => drv'[h] = drv[h]
    /\ drv' \in [Handles -> DriverObject \cup {None}]

LEMMA ObjectsMade ==
    ASSUME SysTypeOK, Structure, NEW t \in Threads, NEW T, NEW on, MadeOn(t, T, on),
           NEW hs, NEW default \in BOOLEAN, DriverMake(hs, T, on, default)
    PROVE  NewObjects(hs, T, on, default)
<1>1. /\ drv \in [Handles -> DriverObject \cup {None}] /\ on \in Seq(Handles)
      /\ T \in ObjectTypes /\ on # <<>>
  BY ParentListsAssumption DEF SysTypeOK, MadeOn
<1>2. on[1] \in Elements(on)
  BY <1>1, ElementsOfSeq
<1>3. DriverHas(on[1])
  BY <1>2 DEF MadeOn
<1>4. drv[on[1]].context \in Handles \cup {None}
  BY <1>3, ObjectTyped
<1> DEFINE new(h) == [type |-> T, refs |-> 1, on |-> on, default |-> default,
                      context |-> IF T = "CONTEXT" THEN h ELSE drv[on[1]].context]
<1>5. ASSUME NEW h \in Handles
      PROVE  /\ new(h) \in DriverObject /\ new(h) # None
             /\ new(h).type = T /\ new(h).refs = 1 /\ new(h).on = on /\ new(h).default = default
             /\ new(h).context = IF T = "CONTEXT" THEN h ELSE drv[on[1]].context
  <2>1. (IF T = "CONTEXT" THEN h ELSE drv[on[1]].context) \in Handles \cup {None}
    BY <1>4
  <2>2. new(h) \in DriverObject
    BY <1>1, <2>1 DEF DriverObject
  <2>. QED  BY <2>2, NoCallAssumption
<1>6. drv' = [h \in Handles |-> IF h \in Elements(hs) THEN new(h) ELSE drv[h]]
  BY DEF DriverMake
<1>7. \A h \in Elements(hs) : h \in Pool /\ ~DriverHas(h)
  BY DEF DriverMake
<1> HIDE DEF new
<1>8. drv' \in [Handles -> DriverObject \cup {None}]
  <2>1. \A h \in Handles : drv[h] \in DriverObject \cup {None}
    BY <1>1
  <2>. QED  BY <1>5, <1>6, <2>1
<1>9. \A h \in Handles : drv'[h] = IF h \in Elements(hs) THEN new(h) ELSE drv[h]
  BY <1>6
<1>10. \A h \in Elements(hs) : h \in Handles /\ drv'[h] = new(h)
  BY <1>7, <1>9, PoolAndRoots
<1>11. \A h \in Elements(hs) : DriverHas(h)'
  BY <1>5, <1>10 DEF DriverHas
<1>. QED  BY <1>5, <1>7, <1>8, <1>9, <1>10, <1>11 DEF NewObjects

\* The others are what they were, and in use as they were but for `on`.
LEMMA OthersStand ==
    ASSUME SysTypeOK, Structure, NEW hs, NEW T, NEW on, NEW default,
           NewObjects(hs, T, on, default), \A p \in Elements(on) : DriverHas(p)
    PROVE  /\ \A h : DriverHas(h) => SameObject(h) /\ drv'[h] = drv[h] /\ h \notin Elements(hs)
           /\ \A h : DriverHas(h)' => DriverHas(h) \/ h \in Elements(hs)
           /\ \A h : InUse(h)' => InUse(h) \/ h \in Elements(on)
           /\ \A h \in Elements(hs) : ~InUse(h) /\ ~InUse(h)'
           /\ DriverKeeps
<1>1. \A h : DriverHas(h) => SameObject(h) /\ drv'[h] = drv[h] /\ h \notin Elements(hs)
  BY DEF NewObjects, SameObject, DriverHas
<1>2. \A h : DriverHas(h)' => DriverHas(h) \/ h \in Elements(hs)
  BY DEF NewObjects, DriverHas
<1>3. ASSUME NEW h, InUse(h)'
      PROVE  InUse(h) \/ h \in Elements(on)
  <2>1. PICK c \in Handles : DriverHas(c)' /\ h \in Elements(drv'[c].on)
    BY <1>3 DEF InUse, Elements
  <2>2. CASE DriverHas(c)
    BY <1>1, <2>1, <2>2 DEF InUse
  <2>3. CASE c \in Elements(hs)
    BY <2>1, <2>3 DEF NewObjects
  <2>. QED  BY <1>2, <2>1, <2>2, <2>3
<1>4. ASSUME NEW h \in Elements(hs)
      PROVE  ~InUse(h) /\ ~InUse(h)'
  <2>1. ~DriverHas(h)
    BY DEF NewObjects
  <2>2. ~InUse(h)
    BY <2>1 DEF InUse, Structure, KindOK
  <2>. QED  BY <1>3, <2>1, <2>2
<1>5. DriverKeeps
  BY <1>1 DEF DriverKeeps, Alive
<1>. QED  BY <1>1, <1>2, <1>3, <1>4, <1>5

LEMMA NewKindOK ==
    ASSUME SysTypeOK, Structure, NEW t \in Threads, NEW T, NEW on, MadeOn(t, T, on),
           NEW hs, NEW default \in BOOLEAN, default => T = "COMMAND_QUEUE",
           NewObjects(hs, T, on, default), NEW h \in Elements(hs)
    PROVE  KindOK(h)'
<1>1. /\ h \in Pool /\ h \in Handles /\ h \notin Roots /\ DriverHas(h)'
      /\ drv'[h].type = T /\ drv'[h].on = on /\ drv'[h].default = default
      /\ drv'[h].context = IF T = "CONTEXT" THEN h ELSE drv[on[1]].context
  BY PoolAndRoots DEF NewObjects
<1>2. /\ T \in ObjectTypes /\ T \notin RootTypes /\ on \in ParentLists /\ on # <<>>
      /\ \A p \in Elements(on) : DriverHas(p)
  BY DEF MadeOn
<1>3. \A g : DriverHas(g) => SameObject(g) /\ drv'[g] = drv[g]
  BY <1>2, OthersStand
<1>4. \A p \in Elements(on) : DriverHas(p)'
  BY <1>2, <1>3 DEF SameObject
<1>5. InContext(h)' <=> T \notin {"DEVICE", "SUB_DEVICE", "PLATFORM"}
  BY <1>1 DEF InContext, DeviceTypes
<1>6. T # "PLATFORM" /\ T # "DEVICE"
  BY <1>2 DEF RootTypes
<1>7. CASE T = "CONTEXT"
  <2>1. drv'[h].context = h
    BY <1>1, <1>7
  <2>2. DriverHas(drv[h].context)' /\ (drv[drv[h].context].type)' = "CONTEXT"
    BY <1>1, <1>7, <2>1
  <2>3. T \notin {"SUB_DEVICE", "EVENT", "COMMAND_QUEUE"}
    BY <1>7
  <2>. QED  BY <1>1, <1>2, <1>4, <1>5, <1>6, <1>7, <2>1, <2>2, <2>3 DEF KindOK
<1>8. CASE T # "CONTEXT"
  <2>1. PICK p \in Handles :
            /\ on = <<p>> /\ DriverHas(p)
            /\ T = "SUB_DEVICE" <=> ~InContext(p)
            /\ T = "EVENT" => drv[p].type \in {"CONTEXT", "COMMAND_QUEUE"}
            /\ T = "COMMAND_QUEUE" => drv[p].type = "CONTEXT"
    BY <1>8 DEF MadeOn
  <2>2. on[1] = p /\ drv'[p] = drv[p] /\ KindOK(p)
    BY <1>3, <2>1 DEF Structure
  <2>3. PICK k : k = drv[p].context
    OBVIOUS
  <2>4. drv'[h].context = k /\ drv'[p].context = k
    BY <1>1, <1>8, <2>2, <2>3
  <2>5. InContext(p) => DriverHas(k)' /\ drv'[k].type = "CONTEXT"
    BY <1>3, <2>2, <2>3 DEF KindOK, SameObject
  <2>6. ~InContext(p) => k = None
    BY <2>2, <2>3 DEF KindOK
  <2>7. InContext(p)' <=> InContext(p)
    BY <2>2 DEF InContext
  <2>8. InContext(h)' <=> InContext(p)
    BY <1>5, <1>6, <2>1
  <2>9. InContext(h)' => /\ DriverHas(drv[h].context)' /\ (drv[drv[h].context].type)' = "CONTEXT"
    BY <2>4, <2>5, <2>8 DEF DriverHas
  <2>10. InContext(h)' => \E q \in Handles : /\ drv'[h].on = <<q>> /\ InContext(q)'
                                             /\ drv'[h].context = drv'[q].context
    BY <1>1, <2>1, <2>4, <2>7, <2>8
  <2>11. ~InContext(h)' => drv'[h].context = None
    BY <2>4, <2>6, <2>8
  <2>12. \E q \in Handles : drv'[h].on = <<q>>
    BY <1>1, <2>1
  <2>13. /\ T = "EVENT" => drv'[drv'[h].on[1]].type \in {"CONTEXT", "COMMAND_QUEUE"}
         /\ T = "COMMAND_QUEUE" => drv'[drv'[h].on[1]].type = "CONTEXT"
    BY <1>1, <2>1, <2>2
  <2>. QED
    BY <1>1, <1>2, <1>4, <1>8, <2>9, <2>10, <2>11, <2>12, <2>13 DEF KindOK
<1>. QED  BY <1>7, <1>8

LEMMA StructureGrows ==
    ASSUME SysTypeOK, Structure, NEW t \in Threads, NEW T, NEW on, MadeOn(t, T, on),
           NEW hs, NEW default \in BOOLEAN, default => T = "COMMAND_QUEUE",
           NewObjects(hs, T, on, default)
    PROVE  Structure'
<1>1. \A p \in Elements(on) : DriverHas(p)
  BY DEF MadeOn
<1>2. /\ \A h : DriverHas(h) => SameObject(h) /\ drv'[h] = drv[h] /\ h \notin Elements(hs)
      /\ \A h : DriverHas(h)' => DriverHas(h) \/ h \in Elements(hs)
  BY <1>1, OthersStand
<1>3. \A h \in Handles : DriverHas(h)' => KindOK(h)'
  <2> SUFFICES ASSUME NEW h \in Handles, DriverHas(h)'
               PROVE  KindOK(h)'
    OBVIOUS
  <2>1. CASE DriverHas(h)
    BY <1>2, <2>1, KindKept
  <2>2. CASE h \in Elements(hs)
    BY <2>2, NewKindOK
  <2>. QED  BY <1>2, <2>1, <2>2
<1>4. WellFounded'
  <2> SUFFICES ASSUME NEW S \in SUBSET Handles, S # {}
               PROVE  \E m \in S : DriverHas(m)' => Elements(drv'[m].on) \cap S = {}
    BY DEF WellFounded, Elements
  <2>1. \A m : DriverHas(m) => \A p \in Elements(drv[m].on) : DriverHas(p)
    BY DEF Structure, KindOK, DriverHas
  <2>2. CASE S \ Elements(hs) # {}
    <3>1. PICK m \in S \ Elements(hs) :
             DriverHas(m) => Elements(drv[m].on) \cap (S \ Elements(hs)) = {}
      BY <2>2 DEF Structure, WellFounded
    <3>2. DriverHas(m)' => Elements(drv'[m].on) \cap S = {}
      <4> SUFFICES ASSUME DriverHas(m)'
                   PROVE  Elements(drv'[m].on) \cap S = {}
        OBVIOUS
      <4>1. DriverHas(m) /\ drv'[m] = drv[m]
        BY <1>2, <3>1
      <4>. QED  BY <1>2, <2>1, <3>1, <4>1
    <3>. QED  BY <3>1, <3>2
  <2>3. CASE S \subseteq Elements(hs)
    <3>1. PICK m \in S : TRUE
      OBVIOUS
    <3>2. drv'[m].on = on
      BY <2>3, <3>1 DEF NewObjects
    <3>3. Elements(on) \cap S = {}
      BY <1>1, <1>2, <2>3
    <3>. QED  BY <3>1, <3>2, <3>3
  <2>. QED  BY <2>2, <2>3
<1>. QED  BY <1>3, <1>4 DEF Structure

\* What a query can answer is in use, or is the context asked about.
LEMMA RelatedIsUsed ==
    ASSUME Structure, NEW h, DriverHas(h), NEW q, Related(h, q)
    PROVE  q = h \/ InUse(q)
<1>1. CASE q \in Elements(drv[h].on)
  BY <1>1 DEF InUse, DriverHas
<1>2. CASE InContext(h) /\ q = drv[h].context
  BY <1>2, ContextInUse DEF Structure, KindOK, DriverHas
<1>3. CASE InContext(h) /\ q \in Elements(drv[drv[h].context].on)
  <2>1. DriverHas(drv[h].context)
    BY <1>3 DEF Structure, KindOK, DriverHas
  <2>. QED  BY <1>3, <2>1 DEF InUse, DriverHas
<1>. QED  BY <1>1, <1>2, <1>3 DEF Related

\* The call goes on with what came back.
LEMMA Proceeded ==
    ASSUME SysTypeOK, NEW t \in Threads, call[t] # None, NEW r \in call[t].fn.results,
           NEW hs \in Seq(Handles), Proceed(t, r, hs)
    PROVE  /\ call' \in [Threads -> Call \cup {None}] /\ call'[t] # None
           /\ call'[t].fn = call[t].fn /\ call'[t].args = call[t].args
           /\ call'[t].stage = "post" /\ call'[t].result = r /\ call'[t].made = hs
           /\ \A u \in Threads \ {t} : call'[u] = call[u]
<1> DEFINE c == [call[t] EXCEPT !.stage = "post", !.result = r, !.made = hs]
<1>1. call \in [Threads -> Call \cup {None}] /\ call[t] \in Call
  BY CallTyped DEF SysTypeOK
<1>2. call' = [call EXCEPT ![t] = c]
  BY DEF Proceed
<1>3. /\ c.fn = call[t].fn /\ c.args = call[t].args
      /\ c.stage = "post" /\ c.result = r /\ c.made = hs
  BY <1>1 DEF Call
<1>4. c \in Call
  <2> DEFINE R == (UNION {f.results : f \in Used}) \cup {None}
  <2>1. r \in R
    <3>1. call[t].fn \in Used
      BY CallTyped
    <3>. QED  BY <3>1
  <2>2. "post" \in Stages
    BY DEF Stages
  <2> HIDE DEF R
  <2>3. call[t] \in [fn: Used, args: Seq(Seq(Handles \cup {None})), stage: Stages,
                     result: R, made: Seq(Handles)]
    BY <1>1 DEF Call, R
  <2>4. c \in [fn: Used, args: Seq(Seq(Handles \cup {None})), stage: Stages,
               result: R, made: Seq(Handles)]
    BY <2>1, <2>2, <2>3
  <2>. QED  BY <2>4 DEF Call, R
<1>5. c # None
  BY <1>4, NoCallAssumption
<1> HIDE DEF c
<1>. QED  BY <1>1, <1>2, <1>3, <1>4, <1>5

\* A call in front of the driver that counts nothing.
LEMMA BeforeProceeding ==
    ASSUME SysInv, LegalUse, NEW t \in Threads, AtDriver(t), Counting(call[t].fn) = "nothing"
    PROVE  /\ call[t] # None /\ call[t].fn \in Used /\ call[t].made = <<>> /\ CallOK(t)
           /\ leaks = None /\ (mutex # None => mutex.owner # t) /\ ~Holds(t)
           /\ Len(call[t].args) = Len(call[t].fn.arguments)
           /\ \A h \in Handles : /\ DriverShare(t, h) = own[t][h] /\ TrackerShare(t, h) = own[t][h]
                                 /\ own[t][h] \in Nat
<1>1. call[t] # None /\ call[t].stage = "check" /\ ~Holds(t) /\ SysTypeOK
      /\ Len(call[t].args) = Len(call[t].fn.arguments)
  BY InvParts DEF AtDriver, At
<1>2. call[t].fn \in Used /\ CallOK(t) /\ leaks = None /\ (mutex # None => mutex.owner # t)
  BY <1>1, InProgress
<1>3. call[t].made = <<>>
  BY <1>1, <1>2 DEF CallOK
<1>. QED  BY <1>1, <1>2, <1>3, PlainShare, OwnTyped

\* What is made counts nothing.
LEMMA MakersCountNothing ==
    ASSUME LegalUse, NEW fn \in Used, fn.makes # NOTHING \/ fn.results # {}
    PROVE  Counting(fn) = "nothing"
BY UsedArguments, CountingCalls

\* The arguments of a call that goes on are those it had.
LEMMA ArgumentsStand ==
    ASSUME NEW t, CallOK(t), call[t] # None, DriverKeeps, own' = own,
           SysInv, LegalUse, t \in Threads,
           call'[t].fn = call[t].fn, call'[t].args = call[t].args
    PROVE  \A i \in DOMAIN call[t].args :
              ArgumentOK(t, call[t].fn.arguments[i], call[t].args[i])'
<1> SUFFICES ASSUME NEW i \in DOMAIN call[t].args
             PROVE  ArgumentOK(t, call[t].fn.arguments[i], call[t].args[i])'
  OBVIOUS
<1>0. call'[t].fn.arguments[i] = call[t].fn.arguments[i] /\ call'[t].args[i] = call[t].args[i]
  OBVIOUS
<1>1. ArgumentOK(t, call[t].fn.arguments[i], call[t].args[i])
  BY DEF CallOK
<1>2. \A h \in Elements(call[t].args[i]) : h # None => DriverHas(h)' /\ drv'[h].type = drv[h].type
  BY ArgumentsAlive DEF DriverKeeps, SameObject
<1>4. PICK a, hs : a = call[t].fn.arguments[i] /\ hs = call[t].args[i]
  OBVIOUS
<1>7. ~DriverHas(None)
  BY PoolAndRoots DEF DriverHas
<1>5. \A h \in Elements(hs) :
         \/ h = None /\ a.type = "PLATFORM"
         \/ /\ DriverHas(h)' /\ drv'[h].type \in Accepted(a.type)
            /\ a.check # "release" => own'[t][h] > 0
  BY <1>1, <1>2, <1>4, <1>7 DEF ArgumentOK
<1>6. ArgumentOK(t, a, hs)'
  BY <1>1, <1>4, <1>5 DEF ArgumentOK
<1>. QED  BY <1>0, <1>4, <1>6

\* The driver makes the objects of a call of thread t.
Makes(t, T, on, r, hs, default) ==
    /\ AtDriver(t) /\ call[t].fn.makes = T /\ r \in call[t].fn.results
    /\ hs \in Seq(Handles) /\ hs # <<>> /\ (Len(hs) > 1 => r.check = "list")
    /\ DriverMake(hs, T, on, default) /\ Proceed(t, r, hs)
    /\ default \in BOOLEAN /\ (default => r.check = "create or exists" /\ T = "COMMAND_QUEUE")
    /\ MadeOn(t, T, on)
    /\ UNCHANGED vars /\ UNCHANGED own

\* A list that is not empty has one element or more.
LEMMA OneOrMore ==
    ASSUME NEW n \in Nat, n # 0
    PROVE  n > 1 \/ n = 1
  OBVIOUS

\* What a call makes is new to all, and recorded below what it is made from.
LEMMA MadeCallOK ==
    ASSUME SysInv, LegalUse, NEW t \in Threads, NEW T, NEW on, NEW r, NEW hs, NEW default,
           Makes(t, T, on, r, hs, default),
           \A h \in Elements(hs) :
              /\ LayerParents(t, r, h)' = RecordedBelow(h)'
              /\ \A p \in Elements(RecordedBelow(h)') :
                    own[t][p] > 0 \/ Related(Argument1(t), p),
           Argument1(t) # None => Alive(Argument1(t))
    PROVE  CallOK(t)'
<1>0. /\ SysTypeOK /\ Structure /\ Links /\ call[t].fn \in Used /\ call[t] # None
      /\ CallOK(t) /\ Len(call[t].args) = Len(call[t].fn.arguments) /\ T # NOTHING
  <2>1. T # NOTHING
    BY DEF Makes, MadeOn, ObjectTypes, NOTHING
  <2>2. call[t] # None
    BY DEF Makes, AtDriver, At
  <2>3. call[t].fn \in Used
    BY <2>2, InProgress
  <2>4. Counting(call[t].fn) = "nothing"
    BY <2>1, <2>3, MakersCountNothing DEF Makes
  <2>. QED  BY <2>1, <2>4, InvParts, BeforeProceeding DEF Makes
<1>1. NewObjects(hs, T, on, default)
  BY <1>0, ObjectsMade DEF Makes
<1>2. hs \in Seq(Handles) /\ r \in call[t].fn.results /\ Pool \subseteq Handles
  BY PoolAndRoots DEF Makes, Pool
<1>3. /\ call'[t] # None /\ call'[t].fn = call[t].fn /\ call'[t].args = call[t].args
      /\ call'[t].stage = "post" /\ call'[t].result = r /\ call'[t].made = hs
  BY <1>0, <1>2, Proceeded DEF Makes
<1>4. /\ \A h : DriverHas(h) => SameObject(h) /\ drv'[h] = drv[h] /\ h \notin Elements(hs)
      /\ \A h \in Elements(hs) : ~InUse(h)'
      /\ DriverKeeps
  BY <1>0, <1>1, OthersStand DEF Makes, MadeOn
<1>5. \A i \in DOMAIN call[t].args :
              ArgumentOK(t, call[t].fn.arguments[i], call[t].args[i])'
  BY <1>0, <1>3, <1>4, ArgumentsStand DEF Makes
<1>6. /\ r.check \in {"creation", "list", "create or exists"}
  BY <1>0, <1>2, UsedResults DEF Makes
<1>7. ASSUME NEW h \in Elements(hs)
      PROVE  ~Known(h)' /\ drv'[h].refs = 1 /\ drv'[h].default = default
  <2>1. h \in Handles /\ ~DriverHas(h) /\ drv'[h].refs = 1 /\ drv'[h].default = default
    BY <1>1, PoolAndRoots DEF NewObjects
  <2>2. ~Known(h)
    <3>1. h # Null
      BY <1>1, PoolAndRoots DEF NewObjects
    <3>. QED  BY <1>0, <2>1, <3>1 DEF Links, Linked
  <2>. QED  BY <2>1, <2>2 DEF Makes, vars, Known, Tracked, Framed
<1>8. \A h \in Elements(hs) : h \in Pool /\ DriverHas(h)' /\ drv'[h].type = T
  BY <1>1 DEF NewObjects
<1>9. IsInjective(hs)
  BY DEF Makes, DriverMake
<1>10. r.check # "list" => Len(hs) = 1
  <2>1. hs # <<>> /\ (Len(hs) > 1 => r.check = "list")
    BY DEF Makes
  <2>2. Len(hs) \in Nat /\ Len(hs) # 0
    BY <1>2, <2>1
  <2>3. Len(hs) > 1 \/ Len(hs) = 1
    BY <2>2, OneOrMore
  <2>. QED  BY <2>1, <2>3
<1>11. \A h \in Elements(hs) : \A p \in Elements(RecordedBelow(h)') :
            own'[t][p] > 0 \/ Related(Argument1(t), p)'
  <2> SUFFICES ASSUME NEW h \in Elements(hs), NEW p \in Elements(RecordedBelow(h)')
               PROVE  own'[t][p] > 0 \/ Related(Argument1(t), p)'
    OBVIOUS
  <2>1. PICK A : A = Argument1(t)
    OBVIOUS
  <2>2. Argument1(t)' = A
    BY <1>3, <2>1 DEF Argument1
  <2>3. CASE own[t][p] > 0
    BY <2>3 DEF Makes
  <2>4. CASE Related(A, p)
    <3>1. Alive(A)
      <4>1. A # None
        BY <2>4, PoolAndRoots DEF Related, DriverHas
      <4>. QED  BY <2>1, <4>1
    <3>2. Related(A, p)'
      BY <1>0, <1>4, <2>4, <3>1, RelatedKept
    <3>. QED  BY <2>2, <3>2
  <2>. QED  BY <2>1, <2>3, <2>4
<1>12. r.check # "create or exists" => ~default
  BY DEF Makes
<1>13. MadeOK(t)'
  <2>1. \A h : Fresh(h)' <=> drv'[h].refs = 1 /\ ~drv'[h].default /\ ~InUse(h)' /\ ~Known(h)'
    BY DEF Fresh
  <2>2. \A h \in Elements(hs) :
          /\ LayerParents(t, r, h)' = RecordedBelow(h)'
          /\ \A p \in Elements(RecordedBelow(h)') : own'[t][p] > 0 \/ Related(Argument1(t), p)'
          /\ r.check # "create or exists" => Fresh(h)'
    BY <1>4, <1>7, <1>11, <1>12, <2>1
  <2>3. IsInjective(hs)' <=> IsInjective(hs)
    BY DEF IsInjective
  <2>4. \A h \in Elements(call'[t].made) :
          /\ LayerParents(t, call[t].result, h)' = RecordedBelow(h)'
          /\ \A p \in Elements(RecordedBelow(h)') : own'[t][p] > 0 \/ Related(Argument1(t), p)'
          /\ call'[t].result.check # "create or exists" => Fresh(h)'
    BY <1>3, <2>2
  <2>5. \A h \in Elements(call'[t].made) : h \in Pool /\ DriverHas(h)' /\ drv'[h].type = call'[t].fn.makes
    BY <1>3, <1>8 DEF Makes
  <2>6. IsInjective(call[t].made)' /\ (call'[t].result.check # "list" => Len(call'[t].made) = 1)
    BY <1>3, <1>9, <1>10 DEF IsInjective
  <2>. QED  BY <2>4, <2>5, <2>6 DEF MadeOK, Elements
<1>14. AnswerOK(t)'
  BY <1>3, <1>6 DEF AnswerOK
<1>. QED  BY <1>0, <1>2, <1>3, <1>5, <1>13, <1>14 DEF CallOK, Makes

LEMMA MakeStep ==
    ASSUME SysInv, LegalUse, NEW t \in Threads, NEW T, NEW on, NEW r, NEW hs, NEW default,
           Makes(t, T, on, r, hs, default), CallOK(t)',
           own[t][Argument1(t)] > 0 \/ \A p : ~Related(Argument1(t), p)
    PROVE  SysInv'
<1>0. /\ SysTypeOK /\ Structure /\ Links /\ Balance /\ call[t].fn \in Used /\ call[t] # None
      /\ T # NOTHING /\ leaks = None /\ (mutex # None => mutex.owner # t)
      /\ \A h \in Handles : /\ DriverShare(t, h) = own[t][h] /\ TrackerShare(t, h) = own[t][h]
                            /\ own[t][h] \in Nat
  <2>1. T # NOTHING
    BY DEF Makes, MadeOn, ObjectTypes, NOTHING
  <2>2. call[t] # None
    BY DEF Makes, AtDriver, At
  <2>3. call[t].fn \in Used
    BY <2>2, InProgress
  <2>4. Counting(call[t].fn) = "nothing"
    BY <2>1, <2>3, MakersCountNothing DEF Makes
  <2>. QED  BY <2>1, <2>4, InvParts, BeforeProceeding DEF Makes
<1>1. NewObjects(hs, T, on, default)
  BY <1>0, ObjectsMade DEF Makes
<1>2. hs \in Seq(Handles) /\ r \in call[t].fn.results /\ Pool \subseteq Handles
  BY PoolAndRoots DEF Makes, Pool
<1>3. /\ call' \in [Threads -> Call \cup {None}]
      /\ call'[t] # None /\ call'[t].fn = call[t].fn /\ call'[t].stage = "post" /\ call'[t].made = hs
      /\ \A u \in Threads \ {t} : call'[u] = call[u]
  BY <1>0, <1>2, Proceeded DEF Makes
<1>4. /\ \A h : DriverHas(h) => SameObject(h) /\ drv'[h] = drv[h] /\ h \notin Elements(hs)
      /\ \A h : DriverHas(h)' => DriverHas(h) \/ h \in Elements(hs)
      /\ \A h : InUse(h)' => InUse(h) \/ h \in Elements(on)
      /\ DriverKeeps
  BY <1>0, <1>1, OthersStand DEF Makes, MadeOn
<1>5. SysTypeOK'
  BY <1>0, <1>1, <1>3 DEF SysTypeOK, TypeOK, vars, Makes, NewObjects
<1>6. Structure'
  BY <1>0, <1>1, StructureGrows DEF Makes
<1>7. /\ mutex' = mutex /\ leaks' = leaks /\ objects' = objects /\ frames' = frames /\ own' = own
  BY DEF Makes, vars
<1>8. Balance'
  <2>1. ASSUME NEW h \in Pool
        PROVE  /\ Refs(h)' - Refs(h) = DriverShare(t, h)' - DriverShare(t, h)
               /\ CountOf(h)' - CountOf(h) = TrackerShare(t, h)' - TrackerShare(t, h)
    <3>1. h \in Handles /\ own'[t][h] = own[t][h]
      BY <1>2, <1>7
    <3>2. CountOf(h)' = CountOf(h) /\ CountOf(h) \in Int
      BY <1>0, <1>7, RecordTyped DEF CountOf, Tracked
    <3>3. /\ ~Requesting(t, "release", h)' /\ ~Requesting(t, "retain", h)'
          /\ Making(t, h)' <=> h \in Elements(hs)
          /\ Making(t, h)' => ToRegister(t, h)'
      BY <1>0, <1>3 DEF Makes, Requesting, Making, ToRegister, Elements
    <3>4. TrackerShare(t, h)' = own'[t][h]
      BY <1>0, <3>1, <3>3 DEF TrackerShare, One
    <3>5. CASE h \in Elements(hs)
      <4>1. Refs(h) = 0 /\ Refs(h)' = 1
        BY <1>1, <3>5 DEF NewObjects, Refs
      <4>2. DriverShare(t, h)' = own'[t][h] + 1
        BY <1>0, <3>1, <3>3, <3>5 DEF DriverShare, One
      <4>. QED  BY <1>0, <3>1, <3>2, <3>4, <4>1, <4>2
    <3>6. CASE h \notin Elements(hs)
      <4>1. Refs(h)' = Refs(h)
        BY <1>1, <3>1, <3>6 DEF NewObjects, Refs, DriverHas
      <4>2. Refs(h) \in Int
        BY <1>0, ObjectTyped DEF Refs
      <4>3. DriverShare(t, h)' = own'[t][h]
        BY <1>0, <3>1, <3>3, <3>6 DEF DriverShare, One
      <4>. QED  BY <1>0, <3>1, <3>2, <3>4, <4>1, <4>2, <4>3
    <3>. QED  BY <3>5, <3>6
  <2>. QED  BY <1>0, <1>3, <1>5, <1>7, <2>1, BalanceMoves
<1>9. \A h \in Roots : /\ drv'[h] = drv[h]
                       /\ \A u \in Threads : own'[u][h] > 0 => own[u][h] > 0 \/ Tracked(h)
  <2>1. \A h \in Roots : h \in Handles /\ h \notin Elements(hs)
    BY <1>1, PoolAndRoots DEF NewObjects
  <2>. QED  BY <1>1, <1>7, <2>1 DEF NewObjects
<1>10. ASSUME NEW u \in Threads \ {t}, NEW h \in Pool, Making(u, h), Fresh(h)
       PROVE  Fresh(h)'
  <2>1. DriverHas(h)
    BY <1>10, MadeIsAlive
  <2>2. drv'[h] = drv[h]
    BY <1>4, <2>1
  <2>3. Known(h)' <=> Known(h)
    BY <1>7 DEF Known, Tracked, Framed
  <2>4. own[t][h] = 0
    BY <1>10, <2>1, MadeAlone
  <2>5. h \notin Elements(on)
    <3> SUFFICES ASSUME h \in Elements(on)
                 PROVE  FALSE
      OBVIOUS
    <3>1. Related(Argument1(t), h)
      <4>1. own[t][h] > 0 \/ Related(Argument1(t), h)
        BY DEF Makes, MadeOn
      <4>. QED  BY <2>4, <4>1
    <3>2. h = Argument1(t) \/ InUse(h)
      BY <1>0, <3>1, RelatedIsUsed DEF Related
    <3>3. h = Argument1(t)
      BY <1>10, <3>2 DEF Fresh
    <3>. QED  BY <2>4, <3>1, <3>3
  <2>6. ~InUse(h)'
    BY <1>4, <1>10, <2>5 DEF Fresh
  <2>. QED  BY <1>10, <2>2, <2>3, <2>6 DEF Fresh
<1>11. /\ UNCHANGED vars
       /\ \A u \in Threads \ {t} :
             call'[u] = call[u] /\ \A h \in Handles : own'[u][h] = own[u][h]
       /\ mutex # None => mutex.owner \notin {t}
  BY <1>0, <1>3, <1>7 DEF Makes
<1>12. NullOK'
  <2>1. NullOK /\ drv'[Null] = drv[Null]
    BY <1>1, InvParts, PoolAndRoots DEF NewObjects
  <2>. QED  BY <1>7, <2>1, NullKept
<1>. QED  BY <1>0, <1>4, <1>5, <1>6, <1>8, <1>9, <1>10, <1>11, <1>12, DriverSide

-----------------------------------------------------------------------------
(***************************************************************************)
(* What each entry point makes its object from, and where the wrapper puts *)
(* the record.                                                             *)
(***************************************************************************)

RecordedFor(T, on) == IF T = "EVENT" THEN <<drv[on[1]].context>> ELSE on

\* The wrapper of t puts a record of result r where the driver puts the object.
Below(t, r, T, on) ==
    /\ r.parents \in {"argument", "device list", "get_parent", "get_parent(argument)", "image_desc"}
    /\ r.parents = "argument" => call[t].args[1] = RecordedFor(T, on)
    /\ r.parents = "device list" => call[t].args[2] = RecordedFor(T, on)
    /\ r.parents = "get_parent" /\ T # "EVENT" => on = <<on[1]>>
    /\ r.parents = "get_parent(argument)" =>
         /\ DriverHas(Argument1(t)) /\ Argument1(t) # Null
         /\ GetParent(Argument1(t)) = RecordedFor(T, on)
    /\ r.parents = "image_desc" =>
         RecordedFor(T, on) = IF call[t].args[2] # <<>> THEN call[t].args[2] ELSE call[t].args[1]
    /\ T = "EVENT" => LET c == drv[on[1]].context
                      IN  own[t][c] > 0 \/ Related(Argument1(t), c)

LEMMA BelowNew ==
    ASSUME SysTypeOK, Structure, NEW t \in Threads, NEW T, NEW on, MadeOn(t, T, on),
           NEW hs, NEW default, NewObjects(hs, T, on, default), NEW r, Below(t, r, T, on),
           call'[t].args = call[t].args, NEW h \in Elements(hs)
    PROVE  /\ LayerParents(t, r, h)' = RecordedBelow(h)'
           /\ \A p \in Elements(RecordedBelow(h)') :
                    own[t][p] > 0 \/ Related(Argument1(t), p)
<1>1. /\ drv'[h].type = T /\ drv'[h].on = on
      /\ T # "CONTEXT" => drv'[h].context = drv[on[1]].context
      /\ \A g : DriverHas(g) => drv'[g] = drv[g]
  <2>1. \A p \in Elements(on) : DriverHas(p)
    BY DEF MadeOn
  <2>2. \A g : DriverHas(g) => drv'[g] = drv[g]
    BY <2>1, OthersStand
  <2>. QED  BY <2>2 DEF NewObjects
<1>2. PICK below : below = RecordedFor(T, on)
  OBVIOUS
<1>3. RecordedBelow(h)' = below
  <2>1. CASE T = "EVENT"
    BY <1>1, <1>2, <2>1 DEF RecordedBelow, RecordedFor
  <2>2. CASE T # "EVENT"
    BY <1>1, <1>2, <2>2 DEF RecordedBelow, RecordedFor
  <2>. QED  BY <2>1, <2>2
<1>4. LayerParents(t, r, h)' = below
  <2>1. CASE r.parents = "argument"
    BY <1>2, <2>1 DEF Below, LayerParents
  <2>2. CASE r.parents = "device list"
    BY <1>2, <2>2 DEF Below, LayerParents
  <2>3. CASE r.parents = "get_parent"
    <3>1. LayerParents(t, r, h)' = GetParent(h)' /\ h # Null
      BY <2>3, PoolAndRoots DEF LayerParents, NewObjects
    <3>2. CASE T = "EVENT"
      BY <1>1, <1>2, <3>1, <3>2 DEF GetParent, RecordedFor
    <3>3. CASE T # "EVENT"
      BY <1>1, <1>2, <2>3, <3>1, <3>3 DEF GetParent, RecordedFor, Below
    <3>. QED  BY <3>2, <3>3
  <2>4. CASE r.parents = "get_parent(argument)"
    <3>1. PICK A : A = Argument1(t)
      OBVIOUS
    <3>2. call'[t].args[1][1] = A /\ DriverHas(A) /\ A # Null /\ GetParent(A) = below
      BY <1>2, <2>4, <3>1 DEF Below, Argument1
    <3>3. GetParent(A)' = GetParent(A)
      BY <1>1, <3>2 DEF GetParent
    <3>4. LayerParents(t, r, h)' = GetParent(A)'
      BY <2>4, <3>2 DEF LayerParents, GetParent
    <3>. QED  BY <3>2, <3>3, <3>4
  <2>5. CASE r.parents = "image_desc"
    BY <1>2, <2>5 DEF Below, LayerParents
  <2>. QED  BY <2>1, <2>2, <2>3, <2>4, <2>5 DEF Below
<1>5. ASSUME NEW p \in Elements(below)
      PROVE  own[t][p] > 0 \/ Related(Argument1(t), p)
  <2>1. CASE T = "EVENT"
    <3>1. p = drv[on[1]].context
      BY <1>2, <1>5, <2>1, ElementsOfOne DEF RecordedFor
    <3>. QED  BY <2>1, <3>1 DEF Below
  <2>2. CASE T # "EVENT"
    <3>1. p \in Elements(on)
      BY <1>2, <1>5, <2>2 DEF RecordedFor
    <3>. QED  BY <3>1 DEF MadeOn
  <2>. QED  BY <2>1, <2>2
<1>. QED  BY <1>3, <1>4, <1>5

\* A single object an object can be made from.
LEMMA MadeOnOne ==
    ASSUME LegalUse, NEW t \in Threads, NEW T \in ObjectTypes \ RootTypes, T # "CONTEXT",
           NEW p \in Handles, DriverHas(p), own[t][p] > 0 \/ Related(Argument1(t), p),
           T = "SUB_DEVICE" <=> ~InContext(p),
           T = "EVENT" => drv[p].type \in {"CONTEXT", "COMMAND_QUEUE"},
           T = "COMMAND_QUEUE" => drv[p].type = "CONTEXT"
    PROVE  MadeOn(t, T, <<p>>) /\ <<p>> # <<>> /\ <<p>>[1] = p
<1>1. <<p>> \in ParentLists
  BY DEF LegalUse
<1>2. Elements(<<p>>) = {p}
  BY ElementsOfOne
<1>3. <<p>> # <<>>
  OBVIOUS
<1>4. \A q \in Elements(<<p>>) : DriverHas(q) /\ (own[t][q] > 0 \/ Related(Argument1(t), q))
  BY <1>2
<1>. QED  BY <1>1, <1>3, <1>4 DEF MadeOn

\* The context of an object is related to it.
LEMMA ContextRelated ==
    ASSUME NEW h, DriverHas(h), InContext(h)
    PROVE  Related(h, drv[h].context)
BY DEF Related

\* The first argument of a call that makes something below it.
LEMMA MakersArgument ==
    ASSUME SysInv, LegalUse, NEW t \in Threads, AtDriver(t),
           call[t].fn.makes # NOTHING, call[t].fn # clCreateContext
    PROVE  /\ Argument1(t) \in Handles /\ own[t][Argument1(t)] > 0 /\ DriverHas(Argument1(t))
           /\ Alive(Argument1(t)) /\ KindOK(Argument1(t))
           /\ drv[Argument1(t)].type \in Accepted(call[t].fn.arguments[1].type)
           /\ call[t].args[1] = <<Argument1(t)>>
<1>1. call[t] # None /\ Len(call[t].args) = Len(call[t].fn.arguments)
  BY DEF AtDriver, At
<1>2. /\ call[t].args[1] = <<Argument1(t)>> /\ Argument1(t) # None
      /\ Argument1(t) \in Handles /\ own[t][Argument1(t)] > 0 /\ DriverHas(Argument1(t))
      /\ drv[Argument1(t)].type \in Accepted(call[t].fn.arguments[1].type)
  BY <1>1, FirstIsHeld
<1>3. Alive(Argument1(t)) /\ KindOK(Argument1(t))
  BY <1>2, HeldIsAlive, InvParts
<1>. QED  BY <1>2, <1>3

\* The usual case: the object is made from the first argument.
LEMMA ShapedOn ==
    ASSUME SysInv, LegalUse, NEW t \in Threads, AtDriver(t),
           CreateShape(call[t].fn), call[t].fn.makes # NOTHING, call[t].fn # clCreateContext,
           NEW r \in call[t].fn.results
    PROVE  /\ MadeOn(t, call[t].fn.makes, call[t].args[1])
           /\ Below(t, r, call[t].fn.makes, call[t].args[1])
<1>1. PICK A : A = Argument1(t)
  OBVIOUS
<1>2. PICK T : T = call[t].fn.makes
  OBVIOUS
<1>3. PICK S : S = call[t].fn.arguments[1].type
  OBVIOUS
<1>4. /\ A \in Handles /\ own[t][A] > 0 /\ DriverHas(A) /\ KindOK(A)
      /\ drv[A].type \in Accepted(S) /\ call[t].args[1] = <<A>>
  BY <1>1, <1>3, MakersArgument
<1>5. MadeBelow(T, S, r.parents)
  BY <1>2, <1>3 DEF CreateShape
<1>6. InContext(A) /\ drv[A].type # "CONTEXT" => drv[A].type \notin DeviceTypes
  BY DEF InContext
<1>7. Elements(<<A>>) = {A} /\ <<A>>[1] = A
  BY ElementsOfOne
<1>8. CASE T = "SUB_DEVICE" /\ S = "DEVICE" /\ r.parents = "argument"
  <2>1. drv[A].type \in {"DEVICE", "SUB_DEVICE"}
    BY <1>4, <1>8, AcceptedTypes
  <2>2. ~InContext(A)
    BY <2>1 DEF InContext, DeviceTypes
  <2>3. T \in ObjectTypes \ RootTypes /\ T # "CONTEXT" /\ T # "EVENT" /\ T # "COMMAND_QUEUE"
    BY <1>8, AllTypes DEF RootTypes
  <2>4. MadeOn(t, T, <<A>>)
    BY <1>4, <1>8, <2>2, <2>3, MadeOnOne
  <2>5. Below(t, r, T, <<A>>)
    BY <1>4, <1>8, <2>3 DEF Below, RecordedFor
  <2>. QED  BY <1>2, <1>4, <2>4, <2>5
<1>9. CASE T = "EVENT" /\ S = "COMMAND_QUEUE" /\ r.parents = "get_parent"
  <2>1. drv[A].type = "COMMAND_QUEUE"
    BY <1>4, <1>9, AcceptedTypes
  <2>2. InContext(A)
    BY <2>1 DEF InContext, DeviceTypes
  <2>3. T \in ObjectTypes \ RootTypes /\ T # "CONTEXT" /\ T # "SUB_DEVICE" /\ T # "COMMAND_QUEUE"
    BY <1>9, AllTypes DEF RootTypes
  <2>4. MadeOn(t, T, <<A>>)
    BY <1>4, <2>1, <2>2, <2>3, MadeOnOne
  <2>5. Related(A, drv[A].context)
    BY <1>4, <2>2, ContextRelated
  <2>6. Below(t, r, T, <<A>>)
    BY <1>1, <1>7, <1>9, <2>5 DEF Below
  <2>. QED  BY <1>2, <1>4, <2>4, <2>6
<1>10. CASE T = "EVENT" /\ S = "CONTEXT" /\ r.parents = "argument"
  <2>1. drv[A].type = "CONTEXT" /\ drv[A].context = A
    BY <1>4, <1>10, AcceptedTypes DEF KindOK
  <2>2. InContext(A)
    BY <2>1 DEF InContext, DeviceTypes
  <2>3. T \in ObjectTypes \ RootTypes /\ T # "CONTEXT" /\ T # "SUB_DEVICE" /\ T # "COMMAND_QUEUE"
    BY <1>10, AllTypes DEF RootTypes
  <2>4. MadeOn(t, T, <<A>>)
    BY <1>4, <2>1, <2>2, <2>3, MadeOnOne
  <2>5. RecordedFor(T, <<A>>) = <<A>>
    BY <1>7, <1>10, <2>1 DEF RecordedFor
  <2>6. Below(t, r, T, <<A>>)
    BY <1>4, <1>7, <1>10, <2>1, <2>5 DEF Below
  <2>. QED  BY <1>2, <1>4, <2>4, <2>6
<1>11. CASE T = "COMMAND_QUEUE" /\ S = "CONTEXT" /\ r.parents = "argument"
  <2>1. drv[A].type = "CONTEXT"
    BY <1>4, <1>11, AcceptedTypes
  <2>2. InContext(A)
    BY <2>1 DEF InContext, DeviceTypes
  <2>3. T \in ObjectTypes \ RootTypes /\ T # "CONTEXT" /\ T # "SUB_DEVICE" /\ T # "EVENT"
    BY <1>11, AllTypes DEF RootTypes
  <2>4. MadeOn(t, T, <<A>>)
    BY <1>4, <2>1, <2>2, <2>3, MadeOnOne
  <2>5. Below(t, r, T, <<A>>)
    BY <1>4, <1>11, <2>3 DEF Below, RecordedFor
  <2>. QED  BY <1>2, <1>4, <2>4, <2>5
<1>12. CASE /\ T \in {"BUFFER", "IMAGE", "PIPE", "PROGRAM", "KERNEL", "SAMPLER"}
            /\ S \in {"CONTEXT", "BUFFER", "PROGRAM"}
            /\ r.parents \in {"argument", "get_parent"}
  <2>1. drv[A].type \in {"CONTEXT", "BUFFER", "PROGRAM"}
    BY <1>4, <1>12, AcceptedTypes
  <2>2. InContext(A)
    BY <2>1 DEF InContext, DeviceTypes
  <2>3. /\ T \in ObjectTypes \ RootTypes /\ T # "CONTEXT" /\ T # "SUB_DEVICE" /\ T # "EVENT"
        /\ T # "COMMAND_QUEUE"
    BY <1>12, AllTypes DEF RootTypes
  <2>4. MadeOn(t, T, <<A>>)
    BY <1>4, <2>2, <2>3, MadeOnOne
  <2>5. Below(t, r, T, <<A>>)
    BY <1>4, <1>7, <1>12, <2>3 DEF Below, RecordedFor
  <2>. QED  BY <1>2, <1>4, <2>4, <2>5
<1>. QED  BY <1>5, <1>8, <1>9, <1>10, <1>11, <1>12 DEF MadeBelow

\* A context is made from the devices of its list.
LEMMA ContextOn ==
    ASSUME SysInv, LegalUse, NEW t \in Threads, AtDriver(t), call[t].fn = clCreateContext,
           call[t].args[2] # <<>>, NEW r \in call[t].fn.results
    PROVE  MadeOn(t, "CONTEXT", call[t].args[2]) /\ Below(t, r, "CONTEXT", call[t].args[2])
<1>1. /\ call[t] # None /\ Len(call[t].args) = Len(call[t].fn.arguments) /\ CallOK(t)
      /\ call[t].args \in Seq(Seq(Handles \cup {None}))
  BY InvParts, InProgress, CallTyped DEF AtDriver, At
<1>2. /\ Len(call[t].fn.arguments) = 2 /\ call[t].fn.arguments[2].check = "list"
      /\ call[t].fn.arguments[2].type = "DEVICE"
  <2>1. clCreateContext.arguments = <<ExistsErrc("PLATFORM"), ExistListErrc("DEVICE")>>
    BY ContextShape
  <2>2. call[t].fn.arguments[2] = ExistListErrc("DEVICE") /\ Len(call[t].fn.arguments) = 2
    BY <2>1
  <2>. QED  BY <2>2 DEF ExistListErrc, Argument
<1>3. 2 \in DOMAIN call[t].args
  BY <1>1, <1>2
<1>4. PICK on : on = call[t].args[2]
  OBVIOUS
<1>5. ArgumentOK(t, call[t].fn.arguments[2], on)
  BY <1>1, <1>3, <1>4 DEF CallOK
<1>6. on \in Seq(Handles \cup {None}) /\ Len(on) <= MaxList
  BY <1>2, <1>5 DEF ArgumentOK
<1>7. \A p \in Elements(on) : DriverHas(p) /\ own[t][p] > 0
  BY <1>2, <1>5 DEF ArgumentOK
<1>8. on \in ParentLists
  <2>1. MaxList \in Nat /\ Len(on) \in 0..MaxList /\ DOMAIN on = 1..Len(on)
    BY <1>6, SystemConstants DEF SystemAssumption
  <2>2. \A i \in 1..Len(on) : on[i] \in Handles
    BY <1>7, <2>1 DEF Elements, DriverHas
  <2>3. on \in [1..Len(on) -> Handles]
    BY <1>6, <2>1, <2>2
  <2>4. on \in BoundedSeq(Handles, MaxList)
    BY <2>1, <2>3 DEF BoundedSeq, SeqOf
  <2>. QED  BY <2>4 DEF LegalUse
<1>9. "CONTEXT" \in ObjectTypes \ RootTypes
  BY AllTypes DEF RootTypes
<1>10. MadeOn(t, "CONTEXT", on)
  BY <1>4, <1>7, <1>8, <1>9 DEF MadeOn
<1>11. r.parents = "device list"
  <2>1. r = Creation("CONTEXT", "device list")
    BY ContextShape
  <2>. QED  BY <2>1 DEF Creation, Result
<1>12. Below(t, r, "CONTEXT", on)
  BY <1>4, <1>11 DEF Below, RecordedFor
<1>. QED  BY <1>4, <1>10, <1>12

\* A clone is made from the program of the kernel.
LEMMA CloneOn ==
    ASSUME SysInv, LegalUse, NEW t \in Threads, AtDriver(t), call[t].fn = clCloneKernel,
           NEW r \in call[t].fn.results
    PROVE  /\ MadeOn(t, "KERNEL", drv[Argument1(t)].on)
           /\ Below(t, r, "KERNEL", drv[Argument1(t)].on)
<1>1. PICK A : A = Argument1(t)
  OBVIOUS
<1>2. call[t].fn.makes # NOTHING /\ call[t].fn # clCreateContext
  <2>1. clCloneKernel.makes # clCreateContext.makes /\ clCloneKernel.makes # NOTHING
    BY CloneShape, ContextShape DEF NOTHING
  <2>. QED  BY <2>1
<1>3. /\ A \in Handles /\ own[t][A] > 0 /\ DriverHas(A) /\ KindOK(A)
      /\ drv[A].type = "KERNEL"
  <2>1. call[t].fn.arguments[1].type = "KERNEL"
    BY CloneShape DEF ExistsErrc, Argument
  <2>. QED  BY <1>1, <1>2, <2>1, MakersArgument, AcceptedTypes
<1>4. InContext(A)
  BY <1>3 DEF InContext, DeviceTypes
<1>5. PICK p \in Handles : drv[A].on = <<p>> /\ InContext(p)
  BY <1>3, <1>4 DEF KindOK
<1>6. p \in Elements(drv[A].on)
  BY <1>5, ElementsOfOne
<1>7. DriverHas(p) /\ Related(A, p)
  BY <1>3, <1>6 DEF KindOK, Related
<1>8. /\ "KERNEL" \in ObjectTypes \ RootTypes
  BY AllTypes DEF RootTypes
<1>9. MadeOn(t, "KERNEL", <<p>>)
  BY <1>1, <1>5, <1>7, <1>8, MadeOnOne
<1>10. r.parents = "get_parent(argument)"
  BY CloneShape DEF Creation, Result
<1>11. A # Null /\ GetParent(A) = <<p>>
  <2>1. A # Null
    BY <1>3, InvParts, NotNull
  <2>. QED  BY <1>3, <1>5, <2>1 DEF GetParent
<1>12. Below(t, r, "KERNEL", <<p>>)
  BY <1>1, <1>3, <1>10, <1>11 DEF Below, RecordedFor
<1>. QED  BY <1>1, <1>5, <1>9, <1>12

\* An image is made from the memory object of its description, if there is
\* one, else from its context.
LEMMA ImageOn ==
    ASSUME SysInv, LegalUse, NEW t \in Threads, AtDriver(t),
           call[t].fn \in {clCreateImage, clCreateImageWithProperties},
           NEW r \in call[t].fn.results, NEW on,
           on = IF call[t].args[2] # <<>> THEN call[t].args[2] ELSE call[t].args[1]
    PROVE  MadeOn(t, "IMAGE", on) /\ Below(t, r, "IMAGE", on)
<1>0. /\ call[t] # None /\ Len(call[t].args) = Len(call[t].fn.arguments) /\ CallOK(t)
      /\ call[t].args \in Seq(Seq(Handles \cup {None}))
  BY InvParts, InProgress, CallTyped DEF AtDriver, At
<1>1. /\ call[t].fn.arguments = <<ExistsErrc("CONTEXT"), IfGiven(ExistsErrc("MEM"))>>
      /\ call[t].fn.makes = "IMAGE" /\ call[t].fn # clCreateContext
      /\ call[t].fn.results \in {{Creation("IMAGE", "get_parent")}, {Creation("IMAGE", "image_desc")}}
  BY ImageShapes, ContextShape
<1>2. PICK A : A = Argument1(t)
  OBVIOUS
<1>3. /\ A \in Handles /\ own[t][A] > 0 /\ DriverHas(A)
      /\ drv[A].type = "CONTEXT" /\ call[t].args[1] = <<A>>
  <2>1. call[t].fn.arguments[1].type = "CONTEXT"
    BY <1>1 DEF ExistsErrc, Argument
  <2>2. call[t].fn.makes # NOTHING
    BY <1>1 DEF NOTHING
  <2>. QED  BY <1>1, <1>2, <2>1, <2>2, MakersArgument, AcceptedTypes
<1>4. "IMAGE" \in ObjectTypes \ RootTypes
  BY AllTypes DEF RootTypes
<1>5. \E p \in Handles : on = <<p>> /\ DriverHas(p) /\ own[t][p] > 0 /\ InContext(p)
  <2>1. CASE call[t].args[2] = <<>>
    BY <1>3, <2>1 DEF InContext, DeviceTypes
  <2>2. CASE call[t].args[2] # <<>>
    <3>1. call[t].fn.arguments[2] = IfGiven(ExistsErrc("MEM")) /\ Len(call[t].fn.arguments) = 2
      BY <1>1
    <3>2. call[t].fn.arguments[2].check = "exists" /\ call[t].fn.arguments[2].type = "MEM"
      BY <3>1 DEF IfGiven, ExistsErrc, Argument
    <3>3. 2 \in DOMAIN call[t].args
      BY <1>0, <3>1
    <3>4. ArgumentOK(t, call[t].fn.arguments[2], on)
      BY <1>0, <2>2, <3>3 DEF CallOK
    <3>5. Len(on) = 1 /\ on \in Seq(Handles \cup {None})
      BY <2>2, <3>2, <3>4 DEF ArgumentOK
    <3>6. on = <<on[1]>> /\ on[1] \in Elements(on)
      BY <3>5, ElementsOfSingle
    <3>7. DriverHas(on[1]) /\ drv[on[1]].type \in {"BUFFER", "IMAGE", "PIPE"} /\ own[t][on[1]] > 0
      BY <3>2, <3>4, <3>6, AcceptedTypes DEF ArgumentOK
    <3>. QED  BY <3>6, <3>7 DEF InContext, DeviceTypes, DriverHas
  <2>. QED  BY <2>1, <2>2
<1>6. PICK p \in Handles : on = <<p>> /\ DriverHas(p) /\ own[t][p] > 0 /\ InContext(p)
  BY <1>5
<1>7. MadeOn(t, "IMAGE", on)
  BY <1>4, <1>6, MadeOnOne
<1>8. r.parents \in {"get_parent", "image_desc"}
  <2>1. r = Creation("IMAGE", "get_parent") \/ r = Creation("IMAGE", "image_desc")
    BY <1>1
  <2>. QED  BY <2>1 DEF Creation, Result
<1>9. on = <<on[1]>>
  BY <1>6
<1>10. Below(t, r, "IMAGE", on)
  BY <1>8, <1>9 DEF Below, RecordedFor
<1>. QED  BY <1>7, <1>10

\* A queue is made from its context.
LEMMA QueueOn ==
    ASSUME SysInv, LegalUse, NEW t \in Threads, AtDriver(t),
           call[t].fn = clCreateCommandQueueWithProperties, NEW r \in call[t].fn.results
    PROVE  /\ MadeOn(t, "COMMAND_QUEUE", call[t].args[1])
           /\ Below(t, r, "COMMAND_QUEUE", call[t].args[1])
           /\ call[t].args[1] = <<Argument1(t)>> /\ r.parents = "argument"
           /\ DriverHas(Argument1(t)) /\ own[t][Argument1(t)] > 0 /\ Argument1(t) \in Handles
<1>1. PICK A : A = Argument1(t)
  OBVIOUS
<1>2. call[t].fn.makes = "COMMAND_QUEUE" /\ call[t].fn # clCreateContext
  BY QueueShape, ContextShape
<1>3. /\ A \in Handles /\ own[t][A] > 0 /\ DriverHas(A)
      /\ drv[A].type = "CONTEXT" /\ call[t].args[1] = <<A>>
  <2>1. call[t].fn.arguments[1].type = "CONTEXT"
    BY QueueShape DEF ExistsErrc, Argument
  <2>2. call[t].fn.makes # NOTHING
    BY <1>2 DEF NOTHING
  <2>. QED  BY <1>1, <1>2, <2>1, <2>2, MakersArgument, AcceptedTypes
<1>4. InContext(A)
  BY <1>3 DEF InContext, DeviceTypes
<1>5. "COMMAND_QUEUE" \in ObjectTypes \ RootTypes
  BY AllTypes DEF RootTypes
<1>6. MadeOn(t, "COMMAND_QUEUE", <<A>>)
  BY <1>3, <1>4, <1>5, MadeOnOne
<1>7. r.parents = "argument"
  <2>1. \/ r = Creation("COMMAND_QUEUE", "argument")
        \/ r = CreateOrExistsErrc("COMMAND_QUEUE", "argument")
    BY QueueShape
  <2>2. /\ Creation("COMMAND_QUEUE", "argument").parents = "argument"
        /\ CreateOrExistsErrc("COMMAND_QUEUE", "argument").parents = "argument"
    BY DEF Creation, CreateOrExistsErrc, Result
  <2>. QED  BY <2>1, <2>2
<1>8. Below(t, r, "COMMAND_QUEUE", <<A>>)
  BY <1>3, <1>7 DEF Below, RecordedFor
<1>. QED  BY <1>1, <1>3, <1>6, <1>7, <1>8

\* Whatever is made keeps the invariant, if made and recorded like this.
LEMMA MadeStep ==
    ASSUME SysInv, LegalUse, NEW t \in Threads, NEW T, NEW on, NEW r, NEW hs, NEW default,
           Makes(t, T, on, r, hs, default), Below(t, r, T, on)
    PROVE  SysInv'
<1>0. /\ SysTypeOK /\ Structure /\ call[t] # None /\ call[t].fn.makes # NOTHING
      /\ Len(call[t].args) = Len(call[t].fn.arguments)
  <2>1. T # NOTHING
    BY DEF Makes, MadeOn, ObjectTypes, NOTHING
  <2>. QED  BY <2>1, InvParts DEF Makes, AtDriver, At
<1>1. /\ NewObjects(hs, T, on, default)
  BY <1>0, ObjectsMade DEF Makes
<1>2. call'[t].args = call[t].args
  BY <1>0, Proceeded DEF Makes
<1>3. \A h \in Elements(hs) :
              /\ LayerParents(t, r, h)' = RecordedBelow(h)'
              /\ \A p \in Elements(RecordedBelow(h)') :
                    own[t][p] > 0 \/ Related(Argument1(t), p)
  BY <1>0, <1>1, <1>2, BelowNew DEF Makes
<1>4. Argument1(t) # None => own[t][Argument1(t)] > 0 /\ Argument1(t) \in Handles
  BY <1>0, FirstIsHeld
<1>5. Argument1(t) # None => Alive(Argument1(t))
  BY <1>4, HeldIsAlive
<1>6. CallOK(t)'
  BY <1>3, <1>5, MadeCallOK
<1>7. own[t][Argument1(t)] > 0 \/ \A p : ~Related(Argument1(t), p)
  BY <1>4, PoolAndRoots DEF Related, DriverHas
<1>. QED  BY <1>6, <1>7, MakeStep

LEMMA BoundedHandles ==
    ASSUME NEW hs \in BoundedSeq(Pool, MaxList)
    PROVE  hs \in Seq(Handles)
<1>1. MaxList \in Nat /\ Pool \subseteq Handles
  BY SystemConstants DEF SystemAssumption, Pool
<1>2. PICK m \in 0..MaxList : hs \in [1..m -> Pool]
  BY DEF BoundedSeq, SeqOf
<1>3. hs \in [1..m -> Handles]
  BY <1>1, <1>2
<1>. QED  BY <1>1, <1>3

\* What a context and a cloned kernel are made from.
LEMMA ContextMadeFrom ==
    ASSUME NEW t, call[t].fn = clCreateContext, call[t].fn # clCreateContextFromType,
           call[t].fn # clCloneKernel,
           call[t].fn \notin {clCreateImage, clCreateImageWithProperties},
           NEW on \in MadeFrom(t)
    PROVE  on = call[t].args[2] /\ on # <<>>
<1>1. on \in {call[t].args[2]} \ {<<>>}
  BY DEF MadeFrom
<1>. QED  BY <1>1

LEMMA CloneMadeFrom ==
    ASSUME NEW t, call[t].fn = clCloneKernel, call[t].fn # clCreateContextFromType,
           call[t].fn # clCreateContext,
           call[t].fn \notin {clCreateImage, clCreateImageWithProperties},
           NEW on \in MadeFrom(t)
    PROVE  on = drv[call[t].args[1][1]].on
<1>1. on \in {drv[call[t].args[1][1]].on}
  BY DEF MadeFrom
<1>. QED  BY <1>1

LEMMA DriverCreateStep ==
    ASSUME SysInv, LegalUse, NEW t \in Threads, DriverCreate(t)
    PROVE  SysInv'
<1>1. PICK on \in MadeFrom(t), r \in Recorded(call[t].fn), hs \in BoundedSeq(Pool, MaxList) :
          /\ hs # <<>> /\ (Len(hs) > 1 => ReturnsList(r))
          /\ DriverMake(hs, call[t].fn.makes, on, FALSE)
          /\ Proceed(t, r, hs)
  BY DEF DriverCreate
<1>2. /\ AtDriver(t) /\ call[t].fn.makes # NOTHING /\ UNCHANGED vars /\ UNCHANGED own
      /\ call[t].fn # clCreateCommandQueueWithProperties
  BY DEF DriverCreate, Works
<1>3. call[t].fn \in Used /\ call[t] # None
  <2>1. call[t] # None
    BY <1>2 DEF AtDriver, At
  <2>. QED  BY <2>1, InProgress
<1>4. call[t].fn \in Special \/ CreateShape(call[t].fn)
  BY <1>2, <1>3, FirstArgument
<1>5. r \in call[t].fn.results
  <2>1. call[t].fn.results # {}
    <3>1. CASE CreateShape(call[t].fn)
      BY <3>1 DEF CreateShape
    <3>2. CASE call[t].fn \in Special
      BY <1>2, <3>2, ContextShape, CloneShape, ImageShapes DEF Special
    <3>. QED  BY <1>4, <3>1, <3>2
  <2>. QED  BY <1>1, <2>1 DEF Recorded
<1>6. MadeOn(t, call[t].fn.makes, on) /\ Below(t, r, call[t].fn.makes, on)
  <2>1. CASE call[t].fn = clCreateContext
    <3>3. /\ call[t].fn # clCreateContextFromType /\ call[t].fn # clCloneKernel
          /\ call[t].fn \notin {clCreateImage, clCreateImageWithProperties}
      BY <1>3, <2>1, ContextShape, CloneShape, ImageShapes DEF LegalUse
    <3>1. on = call[t].args[2] /\ on # <<>>
      BY <1>1, <2>1, <3>3, ContextMadeFrom
    <3>2. call[t].fn.makes = "CONTEXT"
      BY <2>1, ContextShape
    <3>. QED  BY <1>2, <1>5, <2>1, <3>1, <3>2, ContextOn
  <2>2. CASE call[t].fn = clCloneKernel
    <3>1. /\ call[t].fn # clCreateContext
          /\ call[t].fn \notin {clCreateImage, clCreateImageWithProperties}
      BY <2>2, ContextShape, CloneShape, ImageShapes
    <3>2. call[t].fn # clCreateContextFromType
      BY <1>3 DEF LegalUse
    <3>3. on = drv[Argument1(t)].on
      BY <1>1, <2>2, <3>1, <3>2, CloneMadeFrom DEF Argument1
    <3>4. call[t].fn.makes = "KERNEL"
      BY <2>2, CloneShape
    <3>. QED  BY <1>2, <1>5, <2>2, <3>3, <3>4, CloneOn
  <2>3. CASE call[t].fn \in {clCreateImage, clCreateImageWithProperties}
    <3>1. call[t].fn # clCreateContext /\ call[t].fn # clCloneKernel /\ call[t].fn.makes = "IMAGE"
      BY <2>3, ContextShape, CloneShape, ImageShapes
    <3>2. call[t].fn # clCreateContextFromType
      BY <1>3 DEF LegalUse
    <3>3. on = IF call[t].args[2] # <<>> THEN call[t].args[2] ELSE call[t].args[1]
      BY <1>1, <2>3, <3>1, <3>2 DEF MadeFrom
    <3>. QED  BY <1>2, <1>5, <2>3, <3>1, <3>3, ImageOn
  <2>4. CASE call[t].fn \notin Special
    <3>1. /\ call[t].fn # clCreateContext /\ call[t].fn # clCloneKernel
          /\ call[t].fn \notin {clCreateImage, clCreateImageWithProperties}
      BY <2>4 DEF Special
    <3>2. call[t].fn # clCreateContextFromType
      BY <1>3 DEF LegalUse
    <3>3. on = call[t].args[1]
      BY <1>1, <3>1, <3>2 DEF MadeFrom
    <3>. QED  BY <1>2, <1>4, <1>5, <2>4, <3>1, <3>3, ShapedOn
  <2>. QED  BY <1>2, <2>1, <2>2, <2>3, <2>4 DEF Special
<1>7. hs \in Seq(Handles) /\ hs # <<>> /\ (Len(hs) > 1 => r.check = "list")
  BY <1>1, BoundedHandles DEF ReturnsList
<1>8. Makes(t, call[t].fn.makes, on, r, hs, FALSE)
  BY <1>1, <1>2, <1>5, <1>6, <1>7 DEF Makes
<1>. QED  BY <1>6, <1>8, MadeStep

\* A queue is recorded as one that may be there already when its properties
\* ask for the default queue.
LEMMA QueueRecord ==
    ASSUME NEW properties
    PROVE  /\ QueueResult(properties) \in clCreateCommandQueueWithProperties.results
           /\ QueueResult(properties).check =
                IF QueuePropertiesIsOnDeviceDefault(properties) THEN "create or exists" ELSE "creation"
<1>1. /\ Creation("COMMAND_QUEUE", "argument").check = "creation"
      /\ CreateOrExistsErrc("COMMAND_QUEUE", "argument").check = "create or exists"
  BY DEF Creation, CreateOrExistsErrc, Result
<1>2. \E r \in clCreateCommandQueueWithProperties.results :
        r.check = IF QueuePropertiesIsOnDeviceDefault(properties) THEN "create or exists" ELSE "creation"
  BY <1>1, QueueShape
<1>. QED  BY <1>2 DEF QueueResult

LEMMA NewQueueStep ==
    ASSUME SysInv, LegalUse, NEW t \in Threads, AtDriver(t),
           call[t].fn = clCreateCommandQueueWithProperties,
           NEW properties \in PropertyLists, NEW h \in Pool,
           DriverMake(<<h>>, "COMMAND_QUEUE", call[t].args[1], WantsDefault(properties)),
           Proceed(t, QueueResult(properties), <<h>>), UNCHANGED vars, UNCHANGED own
    PROVE  SysInv'
<1>1. PICK r : r = QueueResult(properties)
  OBVIOUS
<1>2. /\ r \in call[t].fn.results
      /\ WantsDefault(properties) => r.check = "create or exists"
  BY <1>1, QueueRecord DEF LegalUse
<1>3. PICK default : default = WantsDefault(properties)
  OBVIOUS
<1>4. default \in BOOLEAN
  BY <1>3 DEF WantsDefault
<1>5. /\ MadeOn(t, "COMMAND_QUEUE", call[t].args[1])
      /\ Below(t, r, "COMMAND_QUEUE", call[t].args[1])
  BY <1>2, QueueOn
<1>6. <<h>> \in Seq(Handles) /\ <<h>> # <<>> /\ Len(<<h>>) = 1
  BY PoolAndRoots
<1>7. DriverMake(<<h>>, "COMMAND_QUEUE", call[t].args[1], default) /\ Proceed(t, r, <<h>>)
  BY <1>1, <1>3
<1>8. call[t].fn.makes = "COMMAND_QUEUE"
  BY QueueShape
<1>9. (default => r.check = "create or exists") /\ (Len(<<h>>) > 1 => r.check = "list")
  <2>1. default => r.check = "create or exists"
    BY <1>2, <1>3, Zenon
  <2>2. ~(Len(<<h>>) > 1)
    OBVIOUS
  <2>. QED  BY <2>1, <2>2, Zenon
<1>10. Makes(t, "COMMAND_QUEUE", call[t].args[1], r, <<h>>, default)
  BY <1>2, <1>4, <1>5, <1>6, <1>7, <1>8, <1>9, Zenon DEF Makes
<1>. QED  BY <1>5, <1>10, MadeStep

\* Another reference to the queue.
DriverAnother(h) == drv' = [drv EXCEPT ![h].refs = @ + 1]

LEMMA DefaultQueueStep ==
    ASSUME SysInv, LegalUse, NEW t \in Threads, AtDriver(t),
           call[t].fn = clCreateCommandQueueWithProperties,
           NEW properties \in PropertyLists, WantsDefault(properties),
           NEW h \in DefaultQueue(Argument1(t)),
           DriverAnother(h), Proceed(t, QueueResult(properties), <<h>>), UNCHANGED vars, UNCHANGED own
    PROVE  SysInv'
<1>1. PICK r : r = QueueResult(properties)
  OBVIOUS
<1>2. r \in call[t].fn.results /\ r.check = "create or exists"
  BY <1>1, QueueRecord DEF LegalUse
<1>3. PICK A : A = Argument1(t)
  OBVIOUS
<1>4. /\ call[t].args[1] = <<A>> /\ r.parents = "argument" /\ own[t][A] > 0 /\ A \in Handles
  BY <1>2, <1>3, QueueOn
<1>5. /\ h \in Pool /\ h \in Handles /\ DriverHas(h) /\ drv[h].default /\ drv[h].on = <<A>>
  BY <1>3, PoolAndRoots DEF DefaultQueue
<1>6. call[t].fn.makes = "COMMAND_QUEUE" /\ call[t].fn.makes # NOTHING
  BY QueueShape DEF NOTHING
<1>7. call[t] # None /\ call[t].fn \in Used
  <2>1. call[t] # None
    BY DEF AtDriver, At
  <2>. QED  BY <2>1, InProgress
<1>8. Counting(call[t].fn) = "nothing"
  BY <1>6, <1>7, MakersCountNothing
<1>9. /\ CallOK(t) /\ leaks = None /\ (mutex # None => mutex.owner # t)
      /\ Len(call[t].args) = Len(call[t].fn.arguments)
      /\ \A g \in Handles : /\ DriverShare(t, g) = own[t][g] /\ TrackerShare(t, g) = own[t][g]
                            /\ own[t][g] \in Nat
  BY <1>8, BeforeProceeding
<1>10. /\ SysTypeOK /\ drv[h].refs \in Nat /\ KindOK(h) /\ drv[h] \in DriverObject
  BY <1>5, InvParts, ObjectTyped
<1>11. drv[h].type = "COMMAND_QUEUE"
  BY <1>5, <1>10 DEF KindOK
<1> DEFINE n == drv[h].refs + 1
<1>12. n \in Nat /\ n - drv[h].refs = 1
  BY <1>10
<1>13. drv' = [drv EXCEPT ![h].refs = n]
  BY Zenon DEF DriverAnother
<1> HIDE DEF n
<1>14. /\ \A g : DriverHas(g)' <=> DriverHas(g)
       /\ \A g : DriverHas(g) => SameObject(g)
  BY <1>5, <1>10, <1>12, <1>13, CountMoves
<1>15. <<h>> \in Seq(Handles) /\ <<h>> # <<>> /\ Len(<<h>>) = 1
  BY <1>5
<1>16. /\ call' \in [Threads -> Call \cup {None}] /\ call'[t] # None
       /\ call'[t].fn = call[t].fn /\ call'[t].args = call[t].args
       /\ call'[t].stage = "post" /\ call'[t].result = r /\ call'[t].made = <<h>>
       /\ \A u \in Threads \ {t} : call'[u] = call[u]
  BY <1>1, <1>2, <1>7, <1>10, <1>15, Proceeded
<1>17. DriverKeeps
  BY <1>14 DEF DriverKeeps, Alive
<1>18. \A i \in DOMAIN call[t].args :
              ArgumentOK(t, call[t].fn.arguments[i], call[t].args[i])'
  BY <1>7, <1>9, <1>16, <1>17, ArgumentsStand
<1>19. Elements(call'[t].made) = {h}
  BY <1>16, ElementsOfOne
<1>20. MadeOK(t)'
  <2>1. drv'[h].type = "COMMAND_QUEUE" /\ drv'[h].on = <<A>> /\ DriverHas(h)'
    BY <1>5, <1>11, <1>14 DEF SameObject
  <2>2. RecordedBelow(h)' = <<A>>
    BY <2>1 DEF RecordedBelow
  <2>3. LayerParents(t, call[t].result, h)' = <<A>>
    BY <1>4, <1>16 DEF LayerParents
  <2>4. \A p \in Elements(RecordedBelow(h)') : own'[t][p] > 0
    BY <1>4, <2>2, ElementsOfOne
  <2>5. IsInjective(call[t].made)' /\ Len(call'[t].made) = 1
    BY <1>15, <1>16 DEF IsInjective
  <2>6. call'[t].result.check = "create or exists"
    BY <1>2, <1>16
  <2>7. \A g \in Elements(call'[t].made) : g \in Pool /\ DriverHas(g)' /\ drv'[g].type = call'[t].fn.makes
    BY <1>5, <1>6, <1>16, <1>19, <2>1
  <2>8. \A g \in Elements(call'[t].made) :
          /\ LayerParents(t, call[t].result, g)' = RecordedBelow(g)'
          /\ \A p \in Elements(RecordedBelow(g)') : own'[t][p] > 0 \/ Related(Argument1(t), p)'
    BY <1>19, <2>2, <2>3, <2>4
  <2>. QED  BY <2>5, <2>6, <2>7, <2>8 DEF MadeOK, Elements
<1>21. AnswerOK(t)'
  BY <1>2, <1>16 DEF AnswerOK
<1>22. CallOK(t)'
  BY <1>2, <1>9, <1>15, <1>16, <1>18, <1>20, <1>21 DEF CallOK
<1>23. \A u \in Threads \ {t} : ~(Making(u, h) /\ Fresh(h))
  BY <1>5 DEF Fresh
<1>24. ASSUME NEW g \in Pool
       PROVE  /\ DriverShare(t, g)' - DriverShare(t, g) = IF g = h THEN n - drv[h].refs ELSE 0
              /\ TrackerShare(t, g)' = TrackerShare(t, g)
  <2>1. g \in Handles /\ own'[t][g] = own[t][g]
    BY PoolAndRoots
  <2>2. /\ ~Requesting(t, "release", g)' /\ ~Requesting(t, "retain", g)'
    BY <1>16 DEF Requesting
  <2>3. Making(t, g)' <=> g = h
    BY <1>6, <1>16, <1>19 DEF Making, Elements
  <2>4. Making(t, g)' => ToRegister(t, g)'
    BY <1>16 DEF ToRegister
  <2>5. TrackerShare(t, g)' = own[t][g]
    BY <1>9, <2>1, <2>2, <2>4 DEF TrackerShare, One
  <2>6. DriverShare(t, g)' = own[t][g] + (IF g = h THEN 1 ELSE 0)
    BY <1>9, <2>1, <2>2, <2>3 DEF DriverShare, One
  <2>. QED  BY <1>9, <1>12, <2>1, <2>5, <2>6
<1>25. /\ own' \in [Threads -> [Handles -> Nat]]
       /\ \A u \in Threads \ {t} :
             call'[u] = call[u] /\ \A g \in Handles : own'[u][g] = own[u][g]
       /\ \A g \in Roots \cup {Null} : own'[t][g] = own[t][g]
  BY <1>10, <1>16 DEF SysTypeOK
<1>26. \A g \in Pool :
         /\ DriverShare(t, g)' - DriverShare(t, g) = IF g = h THEN n - drv[h].refs ELSE 0
         /\ TrackerShare(t, g)' = TrackerShare(t, g)
  BY <1>24
<1>. QED
  BY <1>5, <1>9, <1>12, <1>13, <1>16, <1>22, <1>23, <1>25, <1>26, RefsMove

LEMMA DriverCreateQueueStep ==
    ASSUME SysInv, LegalUse, NEW t \in Threads, DriverCreateQueue(t)
    PROVE  SysInv'
<1>1. /\ AtDriver(t) /\ call[t].fn = clCreateCommandQueueWithProperties
      /\ UNCHANGED vars /\ UNCHANGED own
  BY DEF DriverCreateQueue, Works
<1>2. PICK properties \in PropertyLists :
        \/ \E h \in IF WantsDefault(properties) THEN DefaultQueue(Argument1(t)) ELSE {} :
              /\ drv' = [drv EXCEPT ![h].refs = @ + 1]
              /\ Proceed(t, QueueResult(properties), <<h>>)
        \/ \E h \in Pool :
              /\ DriverMake(<<h>>, "COMMAND_QUEUE", call[t].args[1], WantsDefault(properties))
              /\ Proceed(t, QueueResult(properties), <<h>>)
  BY DEF DriverCreateQueue
<1>3. CASE \E h \in Pool :
              /\ DriverMake(<<h>>, "COMMAND_QUEUE", call[t].args[1], WantsDefault(properties))
              /\ Proceed(t, QueueResult(properties), <<h>>)
  BY <1>1, <1>3, NewQueueStep
<1>4. CASE \E h \in IF WantsDefault(properties) THEN DefaultQueue(Argument1(t)) ELSE {} :
              /\ drv' = [drv EXCEPT ![h].refs = @ + 1]
              /\ Proceed(t, QueueResult(properties), <<h>>)
  <2>1. WantsDefault(properties)
    BY <1>4
  <2>2. PICK h \in DefaultQueue(Argument1(t)) :
              /\ drv' = [drv EXCEPT ![h].refs = @ + 1]
              /\ Proceed(t, QueueResult(properties), <<h>>)
    BY <1>4
  <2>. QED  BY <1>1, <2>1, <2>2, DefaultQueueStep DEF DriverAnother
<1>. QED  BY <1>2, <1>3, <1>4

-----------------------------------------------------------------------------
(***************************************************************************)
(* The driver answers.                                                     *)
(***************************************************************************)

\* What a query answers is related to the object asked about, and recorded as
\* what it is.
LEMMA AnswersRelated ==
    ASSUME SysTypeOK, Structure, NEW h \in Handles, DriverHas(h), InContext(h),
           NEW T \in QueriedTypes, drv[h].type \in Accepted(T),
           NEW r, Answered(T, r), NEW hs \in Answers(h, r)
    PROVE  /\ hs \in Seq(Handles) /\ hs # <<>>
           /\ \A q \in Elements(hs) : Related(h, q) /\ RecordedType(r, q) = drv[q].type
<1>1. PICK c : c = drv[h].context
  OBVIOUS
<1>2. /\ c \in Handles /\ DriverHas(c) /\ drv[c].type = "CONTEXT" /\ drv[c].on \in Seq(Handles)
      /\ drv[c].on # <<>>
  BY <1>1, ObjectTyped DEF Structure, KindOK, DriverHas
<1>3. \A q \in Elements(drv[c].on) : q \in Handles
  BY <1>2, ElementsOfSeq
<1>4. CASE r.type = "CONTEXT"
  <2>1. hs = <<c>>
    BY <1>1, <1>4 DEF Answers
  <2>2. r.parents = "get_parent_devices"
    BY <1>4 DEF Answered
  <2>3. RecordedType(r, c) = drv[c].type
    BY <1>2, <1>4, <2>2 DEF RecordedType
  <2>4. Related(h, c)
    BY <1>1 DEF Related
  <2>. QED  BY <1>2, <2>1, <2>3, <2>4, ElementsOfOne
<1>5. CASE r.type = "DEVICE"
  <2>1. r.parents = "get_parent_device"
    BY <1>5 DEF Answered
  <2>2. \A q : RecordedType(r, q) = drv[q].type
    BY <2>1 DEF RecordedType
  <2>3. \A q \in Elements(drv[c].on) : Related(h, q)
    BY <1>1 DEF Related
  <2>4. CASE drv[h].type = "COMMAND_QUEUE"
    <3>1. \E d \in Elements(drv[c].on) : hs = <<d>>
      BY <1>1, <1>5, <2>4 DEF Answers
    <3>. QED  BY <1>3, <2>2, <2>3, <3>1, ElementsOfOne
  <2>5. CASE drv[h].type # "COMMAND_QUEUE"
    <3>1. hs = drv[c].on
      BY <1>1, <1>5, <2>5 DEF Answers
    <3>. QED  BY <1>2, <2>2, <2>3, <3>1
  <2>. QED  BY <2>4, <2>5
<1>6. CASE r.type # "CONTEXT" /\ r.type # "DEVICE"
  <2>1. r.parents # "get_parent_device" /\ T \in {"MEM", "IMAGE", "KERNEL"}
    BY <1>6 DEF Answered
  <2>2. PICK q : q = drv[h].on[1]
    OBVIOUS
  <2>3. hs = <<q>> /\ drv[q].type = r.type
    BY <1>6, <2>2 DEF Answers
  <2>4. drv[h].type \in {"BUFFER", "IMAGE", "PIPE", "KERNEL"}
    BY <2>1, AcceptedTypes
  <2>5. PICK p \in Handles : drv[h].on = <<p>>
    BY <2>4 DEF Structure, KindOK
  <2>6. q = p /\ Elements(drv[h].on) = {p}
    BY <2>2, <2>5, ElementsOfOne
  <2>7. Related(h, q)
    BY <2>6 DEF Related
  <2>8. RecordedType(r, q) = drv[q].type
    BY <2>1, <2>3 DEF RecordedType
  <2>9. \A x \in Elements(hs) : x = q
    BY <2>3, ElementsOfOne
  <2>10. hs \in Seq(Handles) /\ hs # <<>>
    BY <2>3, <2>6
  <2>. QED  BY <2>7, <2>8, <2>9, <2>10
<1>. QED  BY <1>4, <1>5, <1>6

LEMMA QueryProceeds ==
    ASSUME SysInv, LegalUse, NEW t \in Threads, AtDriver(t), call[t].fn.makes = NOTHING,
           NEW r \in call[t].fn.results, NEW hs \in Seq(Handles), hs # <<>>, Proceed(t, r, hs),
           UNCHANGED vars, UNCHANGED <<drv, own>>,
           r.check = "roots" => \E h \in Roots : hs = <<h>> /\ drv[h].type = r.type,
           r.check = "add" =>
              \/ \A h \in Elements(hs) :
                    Related(Argument1(t), h) /\ RecordedType(r, h) = drv[h].type
              \/ hs = <<Null>> /\ r = AddOrExists("BUFFER", "get_parent")
    PROVE  SysInv'
<1>1. call[t] # None
  BY DEF AtDriver, At
<1>2. /\ call[t].fn \in Used /\ SysTypeOK
  BY <1>1, InProgress, InvParts
<1>3. Counting(call[t].fn) = "nothing"
  BY <1>2, MakersCountNothing
<1>4. /\ CallOK(t) /\ leaks = None /\ (mutex # None => mutex.owner # t)
      /\ Len(call[t].args) = Len(call[t].fn.arguments)
      /\ \A g \in Handles : /\ DriverShare(t, g) = own[t][g] /\ TrackerShare(t, g) = own[t][g]
                            /\ own[t][g] \in Nat
  BY <1>3, BeforeProceeding
<1>5. /\ call' \in [Threads -> Call \cup {None}] /\ call'[t] # None
      /\ call'[t].fn = call[t].fn /\ call'[t].args = call[t].args
      /\ call'[t].stage = "post" /\ call'[t].result = r /\ call'[t].made = hs
      /\ \A u \in Threads \ {t} : call'[u] = call[u]
  BY <1>1, <1>2, Proceeded
<1>6. /\ \A h : DriverHas(h)' <=> DriverHas(h)
      /\ \A h : InContext(h)' <=> InContext(h)
      /\ \A h, q : Related(h, q)' <=> Related(h, q)
      /\ DriverKeeps
  BY DEF DriverHas, InContext, Related, DriverKeeps, SameObject, Alive
<1>7. \A i \in DOMAIN call[t].args :
              ArgumentOK(t, call[t].fn.arguments[i], call[t].args[i])'
  BY <1>1, <1>4, <1>5, <1>6, ArgumentsStand
<1>8. MadeOK(t)'
  BY <1>5 DEF MadeOK
<1>9. AnswerOK(t)'
  <2>1. PICK A : A = Argument1(t)
    OBVIOUS
  <2>2. Argument1(t)' = A
    BY <1>5, <2>1 DEF Argument1
  <2>3. call'[t].result.check = "roots" =>
             \E h \in Roots : call'[t].made = <<h>> /\ drv'[h].type = call'[t].result.type
    BY <1>5
  <2>4. ASSUME r.check = "add", ~(hs = <<Null>> /\ r = AddOrExists("BUFFER", "get_parent")),
               NEW h \in Elements(hs)
        PROVE  Related(Argument1(t), h)' /\ RecordedType(r, h)' = drv'[h].type
    <3>1. Related(A, h) /\ RecordedType(r, h) = drv[h].type
      BY <2>1, <2>4
    <3>2. Related(A, h)'
      BY <1>6, <3>1
    <3>3. RecordedType(r, h)' = drv'[h].type
      BY <3>1 DEF RecordedType
    <3>. QED  BY <2>2, <3>2, <3>3
  <2>5. call'[t].result.check = "add" =>
           \/ \A h \in Elements(call'[t].made) :
                 Related(Argument1(t), h)' /\ RecordedType(call[t].result, h)' = drv'[h].type
           \/ call'[t].made = <<Null>> /\ call'[t].result = AddOrExists("BUFFER", "get_parent")
    BY <1>5, <2>4 DEF RecordedType
  <2>. QED  BY <1>5, <2>3, <2>5 DEF AnswerOK, Elements
<1>10. CallOK(t)'
  BY <1>2, <1>4, <1>5, <1>7, <1>8, <1>9 DEF CallOK
<1>11. ASSUME NEW h \in Pool
       PROVE  DriverShare(t, h)' = DriverShare(t, h) /\ TrackerShare(t, h)' = TrackerShare(t, h)
  <2>1. h \in Handles /\ own'[t][h] = own[t][h] /\ own'[t][h] \in Int
    BY <1>4, PoolAndRoots
  <2>2. DriverShare(t, h)' = own'[t][h] /\ TrackerShare(t, h)' = own'[t][h]
    BY <1>3, <1>5, <2>1, PlainShareAfter
  <2>. QED  BY <1>4, <2>1, <2>2
<1>. QED  BY <1>4, <1>5, <1>10, <1>11, CallMoves

LEMMA DriverQueryStep ==
    ASSUME SysInv, LegalUse, NEW t \in Threads, DriverQuery(t)
    PROVE  SysInv'
<1>1. /\ AtDriver(t) /\ call[t].fn.makes = NOTHING /\ call[t] # None
      /\ UNCHANGED vars /\ UNCHANGED <<drv, own>>
  BY DEF DriverQuery, Works, AtDriver, At
<1>2. /\ call[t].fn \in Used /\ SysTypeOK /\ Structure /\ RootsKept
  BY <1>1, InProgress, InvParts
<1>3. PICK r \in call[t].fn.results :
          \/ DriverLists(t, r)
          \/ r.check = "add" /\ \E hs \in Answers(Argument1(t), r) : Proceed(t, r, hs)
          \/ r.check = "add" /\ AnswersNull(t, r)
  BY DEF DriverQuery
<1>4. CASE DriverLists(t, r)
  <2>1. PICK h \in Roots : drv[h].type = r.type /\ Proceed(t, r, <<h>>)
    BY <1>4 DEF DriverLists
  <2>2. <<h>> \in Seq(Handles) /\ <<h>> # <<>>
    BY PoolAndRoots
  <2>3. r.check # "add"
    BY <1>4 DEF DriverLists
  <2>. QED  BY <1>1, <2>1, <2>2, <2>3, QueryProceeds
<1>5. CASE r.check = "add" /\ \E hs \in Answers(Argument1(t), r) : Proceed(t, r, hs)
  <2>1. PICK hs \in Answers(Argument1(t), r) : Proceed(t, r, hs)
    BY <1>5
  <2>2. QueryShape(call[t].fn)
    BY <1>2, <1>5, UsedResults
  <2>3. PICK T \in QueriedTypes :
             call[t].fn.arguments = <<Exists(T)>> /\ \A q \in call[t].fn.results : Answered(T, q)
    BY <2>2 DEF QueryShape
  <2>4. call[t].fn.arguments[1].type = T /\ T # "PLATFORM"
    BY <2>3 DEF Exists, Argument, QueriedTypes
  <2>5. PICK A : A = Argument1(t)
    OBVIOUS
  <2>6. call[t].fn # clCreateContext
    BY <1>1, ContextShape DEF NOTHING
  <2>7. /\ A \in Handles /\ DriverHas(A) /\ drv[A].type \in Accepted(T)
    BY <1>1, <2>2, <2>4, <2>5, <2>6, FirstIsHeld DEF AtDriver
  <2>8. InContext(A)
    BY <2>7, AcceptedTypes DEF InContext, DeviceTypes, QueriedTypes
  <2>9. /\ hs \in Seq(Handles) /\ hs # <<>>
        /\ \A q \in Elements(hs) : Related(A, q) /\ RecordedType(r, q) = drv[q].type
    BY <1>2, <2>1, <2>3, <2>5, <2>7, <2>8, AnswersRelated
  <2>. QED  BY <1>1, <1>5, <2>1, <2>5, <2>9, QueryProceeds
<1>6. CASE r.check = "add" /\ AnswersNull(t, r)
  <2>1. call[t].fn = clGetImageInfo /\ Proceed(t, r, <<Null>>)
    BY <1>6 DEF AnswersNull, RecordsNull
  <2>2. r = AddOrExists("BUFFER", "get_parent")
    BY <2>1 DEF clGetImageInfo, Queries, EntryPoint
  <2>3. r.check # "roots"
    BY <1>6
  <2>4. <<Null>> \in Seq(Handles) /\ <<Null>> # <<>>
    BY PoolAndRoots
  <2>. QED  BY <1>1, <2>1, <2>2, <2>3, <2>4, QueryProceeds
<1>. QED  BY <1>3, <1>4, <1>5, <1>6

-----------------------------------------------------------------------------
(***************************************************************************)
(* What came back is recorded.                                             *)
(***************************************************************************)

\* A call that has come back from the driver.
LEMMA CameBack ==
    ASSUME SysInv, LegalUse, NEW t \in Threads, call[t] # None, call[t].stage # "check"
    PROVE  /\ call[t].fn \in Used /\ call[t].args \in Seq(Seq(Handles \cup {None}))
           /\ Len(call[t].args) = Len(call[t].fn.arguments)
           /\ call[t].result \in call[t].fn.results
           /\ call[t].made \in Seq(Handles) /\ call[t].made # <<>>
           /\ call[t].made[1] \in Elements(call[t].made) /\ call[t].made[1] \in Handles
           /\ CallOK(t) /\ MadeOK(t) /\ AnswerOK(t) /\ leaks = None
           /\ Counting(call[t].fn) = "nothing"
           /\ \A h : ~Requesting(t, "release", h) /\ ~Requesting(t, "retain", h)
<1>1. /\ call[t].fn \in Used /\ CallOK(t) /\ leaks = None /\ SysTypeOK
  BY InProgress, InvParts
<1>2. /\ Len(call[t].args) = Len(call[t].fn.arguments)
      /\ call[t].result \in call[t].fn.results /\ call[t].made # <<>>
      /\ MadeOK(t) /\ AnswerOK(t)
  BY <1>1 DEF CallOK
<1>3. /\ call[t].made \in Seq(Handles) /\ call[t].args \in Seq(Seq(Handles \cup {None}))
  BY <1>1, CallTyped
<1>4. call[t].made[1] \in Elements(call[t].made) /\ call[t].made[1] \in Handles
  BY <1>2, <1>3, ElementsOfSeq
<1>5. Counting(call[t].fn) = "nothing"
  BY <1>1, <1>2, MakersCountNothing
<1>6. \A h : ~Requesting(t, "release", h) /\ ~Requesting(t, "retain", h)
  BY DEF Requesting
<1>. QED  BY <1>1, <1>2, <1>3, <1>4, <1>5, <1>6

\* The call has recorded what there was to record.
ToReturn(t) == call' = [call EXCEPT ![t].stage = "return"]

LEMMA ReturningCall ==
    ASSUME SysTypeOK, NEW t \in Threads, call[t] # None, ToReturn(t)
    PROVE  /\ call' \in [Threads -> Call \cup {None}] /\ call'[t] # None
           /\ call'[t].fn = call[t].fn /\ call'[t].args = call[t].args
           /\ call'[t].stage = "return" /\ call'[t].result = call[t].result
           /\ call'[t].made = call[t].made
           /\ \A u \in Threads \ {t} : call'[u] = call[u]
<1>1. call \in [Threads -> Call \cup {None}] /\ call[t] \in Call
  BY CallTyped DEF SysTypeOK
<1> DEFINE c == [call[t] EXCEPT !.stage = "return"]
<1>2. /\ c \in Call /\ c.fn = call[t].fn /\ c.args = call[t].args /\ c.stage = "return"
      /\ c.result = call[t].result /\ c.made = call[t].made
  BY <1>1 DEF Call, Stages
<1>3. call' = [call EXCEPT ![t] = c]
  BY DEF ToReturn
<1>4. c # None
  BY <1>2, NoCallAssumption
<1> HIDE DEF c
<1>. QED  BY <1>1, <1>2, <1>3, <1>4

\* Nothing more is asked of a call that returns, but that a root it met is in
\* the map.
LEMMA ReturningOK ==
    ASSUME SysInv, LegalUse, NEW t \in Threads, call[t] # None, call[t].stage = "post",
           ToReturn(t), UNCHANGED <<drv, own>>,
           call[t].result.check = "roots" => \A h \in Elements(call[t].made) : Tracked(h)'
    PROVE  CallOK(t)'
<1>1. /\ call[t].result \in call[t].fn.results /\ call[t].made # <<>>
      /\ Len(call[t].args) = Len(call[t].fn.arguments)
      /\ CallOK(t) /\ MadeOK(t) /\ AnswerOK(t) /\ SysTypeOK
  BY CameBack, InvParts
<1>2. /\ call'[t].fn = call[t].fn /\ call'[t].args = call[t].args
      /\ call'[t].stage = "return" /\ call'[t].result = call[t].result
      /\ call'[t].made = call[t].made
  BY <1>1, ReturningCall
<1>3. DriverKeeps /\ \A h : DriverHas(h)' <=> DriverHas(h)
  BY DEF DriverKeeps, SameObject, DriverHas, Alive
<1>4. \A i \in DOMAIN call[t].args :
              ArgumentOK(t, call[t].fn.arguments[i], call[t].args[i])'
  BY <1>1, <1>2, <1>3, ArgumentsStand
<1>5. MadeOK(t)'
  BY <1>1, <1>2, <1>3 DEF MadeOK
<1>6. AnswerOK(t)'
  <2>1. ASSUME call[t].result.check = "roots"
        PROVE  \E h \in Roots : /\ call[t].made = <<h>> /\ drv[h].type = call[t].result.type
                                /\ Tracked(h)'
    <3>1. PICK h \in Roots : call[t].made = <<h>> /\ drv[h].type = call[t].result.type
      BY <1>1, <2>1 DEF AnswerOK
    <3>2. h \in Elements(call[t].made)
      BY <3>1, ElementsOfOne
    <3>. QED  BY <2>1, <3>1, <3>2
  <2>2. ASSUME call'[t].result.check = "roots"
        PROVE  \E h \in Roots : /\ call'[t].made = <<h>> /\ drv'[h].type = call'[t].result.type
                                /\ Tracked(h)'
    BY <1>2, <2>1, <2>2
  <2>. QED  BY <1>2, <2>2 DEF AnswerOK
<1>. QED  BY <1>1, <1>2, <1>4, <1>5, <1>6 DEF CallOK

\* The shares of a call in front of its record, and behind it.
LEMMA RecordingShare ==
    ASSUME SysInv, LegalUse, NEW t \in Threads, call[t] # None, call[t].stage = "post",
           NEW h \in Handles
    PROVE  /\ DriverShare(t, h) = own[t][h] + One(Making(t, h))
           /\ TrackerShare(t, h) = own[t][h] /\ own[t][h] \in Nat
<1>1. ~Requesting(t, "release", h) /\ ~Requesting(t, "retain", h)
  BY CameBack
<1>2. own[t][h] \in Nat
  BY InvParts, OwnTyped
<1>3. Making(t, h) => ToRegister(t, h)
  BY DEF ToRegister
<1>. QED  BY <1>1, <1>2, <1>3 DEF DriverShare, TrackerShare, One

LEMMA RecordedShare ==
    ASSUME SysInv, LegalUse, NEW t \in Threads, call[t] # None, call[t].stage = "post",
           ToReturn(t), UNCHANGED own, NEW h \in Handles
    PROVE  /\ DriverShare(t, h)' = own[t][h] + One(Making(t, h))
           /\ TrackerShare(t, h)' = own[t][h] + One(Making(t, h) /\ ~ToRegister(t, h)')
           /\ Making(t, h)' <=> Making(t, h)
<1>0. SysTypeOK /\ own[t][h] \in Nat
  BY InvParts, OwnTyped
<1>1. /\ call'[t] # None /\ call'[t].fn = call[t].fn
      /\ call'[t].stage = "return" /\ call'[t].made = call[t].made
  BY <1>0, ReturningCall
<1>2. ~Requesting(t, "release", h)' /\ ~Requesting(t, "retain", h)'
  BY <1>1 DEF Requesting
<1>3. Making(t, h)' <=> Making(t, h)
  BY <1>1 DEF Making, Elements
<1>4. DriverShare(t, h)' = own[t][h] + One(Making(t, h))
  BY <1>0, <1>2, <1>3 DEF DriverShare, One
<1>5. TrackerShare(t, h)' = own[t][h] + One(Making(t, h) /\ ~ToRegister(t, h)')
  BY <1>0, <1>2, <1>3 DEF TrackerShare, One
<1>. QED  BY <1>3, <1>4, <1>5

\* The record of a new object goes below objects that are in the map.
LEMMA RecordParents ==
    ASSUME SysInv, LegalUse, Unlocked, NEW t \in Threads, call[t] # None,
           call[t].stage = "post", call[t].fn.makes # NOTHING, NEW h \in Elements(call[t].made)
    PROVE  /\ h \in Pool /\ h \in Handles /\ DriverHas(h) /\ drv[h].type = call[t].fn.makes
           /\ call[t].fn.makes \in ObjectTypes \ RootTypes
           /\ LayerParents(t, call[t].result, h) = RecordedBelow(h)
           /\ RecordedBelow(h) \in ParentLists /\ AllTracked(RecordedBelow(h))
           /\ RecordedType(call[t].result, h) = call[t].fn.makes
<1>1. /\ call[t].fn \in Used /\ MadeOK(t) /\ leaks = None /\ call[t].result \in call[t].fn.results
      /\ SysTypeOK /\ Structure /\ Links
  BY CameBack, InvParts
<1>2. /\ h \in Pool /\ DriverHas(h) /\ drv[h].type = call[t].fn.makes
      /\ LayerParents(t, call[t].result, h) = RecordedBelow(h)
      /\ \A p \in Elements(RecordedBelow(h)) : own[t][p] > 0 \/ Related(Argument1(t), p)
  BY <1>1 DEF MadeOK
<1>3. h \in Handles /\ h \notin Roots /\ KindOK(h)
  BY <1>1, <1>2, PoolAndRoots DEF Structure
<1>4. /\ call[t].fn.makes \in ObjectTypes \ RootTypes /\ drv[h].on \in ParentLists
      /\ drv[h].context \in Handles \cup {None}
  BY <1>1, <1>2, <1>3, ObjectTyped DEF KindOK
<1>5. RecordedBelow(h) \in ParentLists
  <2>1. CASE drv[h].type = "EVENT"
    <3>1. drv[h].context \in Handles
      BY <1>3, <2>1 DEF KindOK, InContext, DeviceTypes, DriverHas
    <3>. QED  BY <2>1, <3>1 DEF RecordedBelow, LegalUse
  <2>. QED  BY <1>4, <2>1 DEF RecordedBelow
<1>6. ASSUME NEW p \in Elements(RecordedBelow(h))
      PROVE  Tracked(p)
  <2>1. p \in Handles
    BY <1>1, <1>2, <1>6, BelowInUse DEF DriverHas
  <2>2. CASE own[t][p] > 0
    BY <1>1, <2>1, <2>2, HeldIsTracked
  <2>3. CASE Related(Argument1(t), p)
    <3>1. PICK A : A = Argument1(t)
      OBVIOUS
    <3>2. A # None
      BY <2>3, <3>1, PoolAndRoots DEF Related, DriverHas
    <3>3. /\ A \in Handles /\ own[t][A] > 0
          /\ drv[A].type \in Accepted(call[t].fn.arguments[1].type)
      BY <3>1, <3>2, FirstIsHeld
    <3>4. call[t].fn.arguments[1].type # "EVENT"
      BY <1>1, FirstArgument
    <3>5. drv[A].type # "EVENT"
      BY <3>3, <3>4, AcceptedTypes
    <3>6. Tracked(A) /\ A # Null
      BY <1>1, <3>3, HeldIsTracked, NotNull, InvParts
    <3>. QED  BY <2>3, <3>1, <3>3, <3>5, <3>6, RelatedTracked
  <2>. QED  BY <1>2, <2>2, <2>3
<1>7. AllTracked(RecordedBelow(h))
  BY <1>6 DEF AllTracked, Elements
<1>8. RecordedType(call[t].result, h) = call[t].fn.makes
  <2>1. call[t].result.type = call[t].fn.makes
    BY <1>1, UsedResults
  <2>. QED  BY <1>2, <2>1 DEF RecordedType
<1>. QED  BY <1>2, <1>3, <1>4, <1>5, <1>7, <1>8

\* A list is recorded below the first argument, whatever the object.
LEMMA ListsBelowArgument ==
    ASSUME LegalUse, NEW fn \in Used, fn.makes # NOTHING, NEW r \in fn.results, r.check = "list"
    PROVE  r.parents = "argument"
<1>1. fn \notin Special
  BY SpecialShape
<1>2. CreateShape(fn)
  BY <1>1, FirstArgument
<1>. QED  BY <1>2 DEF CreateShape

\* The mutex is held for the list of the records to make.
LEMMA CreationHolds ==
    ASSUME NEW t \in Threads, NEW T \in ObjectTypes, NEW hs \in Seq(Handles),
           NEW ps \in ParentLists, CheckCreationList(t, T, hs, ps)
    PROVE  /\ mutex' # None /\ mutex'.owner = t /\ mutex'.stack = <<>>
           /\ DOMAIN mutex'.todo = DOMAIN hs
           /\ \A i \in DOMAIN hs : /\ mutex'.todo[i].handle = hs[i]
                                   /\ mutex'.todo[i].new.type = T
                                   /\ mutex'.todo[i].new.parents = ps
<1> DEFINE new == [type |-> T, refcount |-> 1, parents |-> ps,
                   reported |-> FALLBACK_VERSION]
           todo == [i \in DOMAIN hs |-> [handle |-> hs[i], new |-> new]]
<1>1. new \in NewObject /\ new.type = T /\ new.parents = ps
  BY VersionsAssumption DEF NewObject
<1>2. mutex' = [owner |-> t, stack |-> <<>>, todo |-> todo]
  BY DEF CheckCreationList
<1> HIDE DEF new
<1>3. /\ todo \in Seq(Pending) /\ DOMAIN todo = DOMAIN hs
      /\ \A i \in DOMAIN hs : todo[i].handle = hs[i] /\ todo[i].new = new
  <2>1. \A i \in DOMAIN hs : [handle |-> hs[i], new |-> new] \in Pending
    BY <1>1 DEF Pending
  <2>2. DOMAIN hs = 1..Len(hs) /\ Len(hs) \in Nat
    OBVIOUS
  <2> QED
    BY <2>1, <2>2
<1> HIDE DEF todo
<1>4. mutex' \in Held
  <2>1. <<>> \in Seq(Handles)
    OBVIOUS
  <2>. QED  BY <1>2, <1>3, <2>1 DEF Held
<1>. QED  BY <1>1, <1>2, <1>3, <1>4, NoneAssumption

LEMMA RecordCreation ==
    ASSUME SysInv, LegalUse, NEW t \in Threads, At(t, "post"),
           call[t].result.check \in {"creation", "list"},
           CheckCreationList(t, RecordedType(call[t].result, call[t].made[1]), call[t].made,
                             LayerParents(t, call[t].result, call[t].made[1])),
           ToReturn(t), UNCHANGED <<drv, own>>
    PROVE  SysInv'
<1> DEFINE hs == call[t].made
           r == call[t].result
           T == call[t].fn.makes
           ps == RecordedBelow(hs[1])
<1>0. call[t] # None /\ call[t].stage = "post" /\ ~Holds(t)
  BY DEF At
<1>1. /\ call[t].fn \in Used /\ r \in call[t].fn.results /\ leaks = None
      /\ hs \in Seq(Handles) /\ hs # <<>> /\ hs[1] \in Elements(hs)
      /\ MadeOK(t) /\ CallOK(t)
      /\ SysTypeOK /\ TypeOK /\ ExactInv({Null}) /\ Links /\ RootsKept
  BY <1>0, CameBack, InvParts
<1>2. T # NOTHING
  BY <1>1, UsedResults
<1>3. Unlocked /\ UNCHANGED <<objects, deleted, frames, leaks>> /\ Return(t, CL_SUCCESS)
  BY DEF CheckCreationList
<1>4. /\ T \in ObjectTypes \ RootTypes /\ ps \in ParentLists /\ AllTracked(ps)
      /\ LayerParents(t, r, hs[1]) = ps /\ RecordedType(r, hs[1]) = T
  BY <1>0, <1>1, <1>2, <1>3, RecordParents
<1>5. CheckCreationList(t, T, hs, ps)
  BY <1>4
<1>6. /\ IsInjective(hs) /\ (r.check # "list" => Len(hs) = 1)
      /\ \A h \in Elements(hs) : h \in Pool /\ drv[h].type = T /\ Fresh(h)
  BY <1>0, <1>1, <1>2 DEF MadeOK
<1>7. ASSUME NEW h \in Elements(hs)
      PROVE  RecordedBelow(h) = ps
  <2>1. LayerParents(t, r, h) = RecordedBelow(h)
    BY <1>0, <1>2, <1>3, RecordParents
  <2>2. CASE r.check = "list"
    <3>1. r.parents = "argument"
      BY <1>1, <1>2, <2>2, ListsBelowArgument
    <3>. QED  BY <1>4, <2>1, <3>1 DEF LayerParents
  <2>3. CASE r.check # "list"
    <3>1. Elements(hs) = {hs[1]}
      BY <1>1, <1>6, <2>3, ElementsOfSingle
    <3>. QED  BY <1>7, <3>1
  <2>. QED  BY <2>2, <2>3
<1>8. Distinct(hs)
  BY <1>6 DEF IsInjective, Distinct
<1>9. \A i \in DOMAIN hs : ~Tracked(hs[i])
  BY <1>6 DEF Fresh, Known, Elements
<1> HIDE DEF hs, T, ps
<1>10. ExactInv({Null})'
  BY <1>1, <1>4, <1>5, <1>8, <1>9, CheckCreationListExact
<1>11. NoFalsePositive'
  BY <1>3, ReturnsSuccess
<1>12. /\ call' \in [Threads -> Call \cup {None}] /\ call'[t] # None
       /\ call'[t].fn = call[t].fn /\ call'[t].made = hs /\ call'[t].stage = "return"
       /\ \A u \in Threads \ {t} : call'[u] = call[u]
  BY <1>0, <1>1, ReturningCall DEF hs
<1>13. SysTypeOK'
  BY <1>1, <1>10, <1>12 DEF SysTypeOK, ExactInv, Inv
<1>14. CallOK(t)'
  <2>1. r.check # "roots"
    OBVIOUS
  <2>. QED  BY <1>0, <2>1, ReturningOK
<1>15. /\ mutex' # None /\ mutex'.owner = t /\ mutex'.stack = <<>>
       /\ DOMAIN mutex'.todo = DOMAIN hs
       /\ \A i \in DOMAIN hs : /\ mutex'.todo[i].handle = hs[i]
                               /\ mutex'.todo[i].new.type = T
                               /\ mutex'.todo[i].new.parents = ps
  BY <1>1, <1>4, <1>5, CreationHolds DEF hs
<1>16. \A h : DriverHas(h)' <=> DriverHas(h)
  BY DEF DriverHas
<1>17. MutexOK'
  <2>1. ASSUME NEW i \in DOMAIN mutex'.todo
        PROVE  PendingOK(t, mutex.todo[i])'
    <3>1. i \in DOMAIN hs /\ hs[i] \in Elements(hs)
      BY <1>15, <2>1 DEF Elements
    <3>2. drv[hs[i]].type = T /\ RecordedBelow(hs[i]) = ps
      BY <1>6, <1>7, <3>1 DEF hs, T
    <3>4. RecordedBelow(mutex.todo[i].handle)' = ps
      BY <1>15, <3>1, <3>2 DEF RecordedBelow
    <3>5. mutex'.todo[i].handle \in Elements(call'[t].made)
      BY <1>12, <1>15, <3>1
    <3>6. mutex'.todo[i].new.type = drv'[mutex'.todo[i].handle].type
      BY <1>15, <3>1, <3>2
    <3>. QED  BY <1>15, <3>1, <3>4, <3>5, <3>6 DEF PendingOK, Elements
  <2>2. DOMAIN mutex'.stack = {}
    BY <1>15
  <2>. QED  BY <1>2, <1>12, <1>15, <2>1, <2>2 DEF MutexOK, T
<1>18. \A h \in Handles \ {Null} :
          Linked(h)' /\ (Known(h)' <=> Known(h)) /\ (Tracked(h)' <=> Tracked(h))
  BY <1>1, <1>3 DEF Links, Linked, Known, Tracked, Framed, DriverHas, RecordedBelow
<1>19. ASSUME NEW h \in Pool
       PROVE  /\ DriverShare(t, h)' = DriverShare(t, h)
              /\ CountOf(h)' - CountOf(h) = TrackerShare(t, h)' - TrackerShare(t, h)
  <2>1. h \in Handles
    BY PoolAndRoots
  <2>2. /\ DriverShare(t, h) = own[t][h] + One(Making(t, h))
        /\ TrackerShare(t, h) = own[t][h] /\ own[t][h] \in Nat
    BY <1>0, <2>1, RecordingShare
  <2>3. /\ DriverShare(t, h)' = own[t][h] + One(Making(t, h))
        /\ TrackerShare(t, h)' = own[t][h] + One(Making(t, h) /\ ~ToRegister(t, h)')
        /\ Making(t, h)' <=> Making(t, h)
    BY <1>0, <2>1, RecordedShare
  <2>4. Making(t, h) => ToRegister(t, h)'
    <3> SUFFICES ASSUME Making(t, h)
                 PROVE  ToRegister(t, h)'
      OBVIOUS
    <3>1. h \in Elements(hs)
      BY DEF Making, hs
    <3>2. PICK i \in DOMAIN hs : hs[i] = h
      BY <3>1 DEF Elements
    <3>3. mutex'.todo[i] \in Elements(mutex.todo)' /\ mutex'.todo[i].handle = h
      BY <1>15, <3>2 DEF Elements
    <3>4. Holds(t)'
      BY <1>15 DEF Holds
    <3>. QED  BY <2>3, <3>3, <3>4 DEF ToRegister
  <2>5. TrackerShare(t, h)' = own[t][h]
    BY <2>2, <2>3, <2>4 DEF One
  <2>6. CountOf(h)' = CountOf(h) /\ CountOf(h) \in Int
    BY <1>1, <1>3, RecordTyped DEF CountOf, Tracked
  <2>. QED  BY <2>2, <2>3, <2>5, <2>6
<1>20. \A h \in Roots : /\ Tracked(h) => Tracked(h)'
                        /\ Tracked(h)' => objects'[h].refcount = 0
                        /\ own'[t][h] > 0 => own[t][h] > 0 \/ Tracked(h)
  BY <1>1, <1>3 DEF RootsKept, Tracked
<1>21. mutex # None => mutex.owner = t
  BY <1>3 DEF Unlocked
<1>22. NullOK'
  BY <1>3, InvParts, NullKept
<1>. QED
  BY <1>1, <1>3, <1>10, <1>11, <1>12, <1>13, <1>14, <1>15, <1>17, <1>18, <1>19, <1>20, <1>21,
     <1>22, PoolAndRoots, TrackerSide

\* A new record, while no record is being deleted, leaves the others as they are.
LEMMA OthersInserted ==
    ASSUME SysInv, \A g \in Handles : ~Framed(g), NEW h \in Handles, ~Tracked(h),
           NEW new \in NewObject,
           objects' = InsertObject(objects, h, new), UNCHANGED <<frames, drv>>
    PROVE  /\ Tracked(h)' /\ objects'[h].type = new.type /\ objects'[h].parents = new.parents
           /\ objects'[h].refcount = new.refcount
           /\ CountOf(h) = 0 /\ CountOf(h)' = new.refcount
           /\ \A g \in Handles \ {h} :
                /\ Tracked(g)' <=> Tracked(g)
                /\ Known(g)' <=> Known(g)
                /\ Tracked(g) => /\ objects'[g].type = objects[g].type
                                 /\ objects'[g].parents = objects[g].parents
                                 /\ objects'[g].refcount = objects[g].refcount
                /\ CountOf(g)' = CountOf(g)
                /\ g # Null => Linked(g)'
<1>1. /\ TypeOK /\ objects \in [Handles -> Record \cup {None}] /\ objects[h] = None /\ Links
      /\ \A g \in Handles : ~Framed(g)' /\ (DriverHas(g)' <=> DriverHas(g))
      /\ \A g \in Handles \ {h} : objects[g] = objects[g] /\ ~Framed(g)
  BY InvParts DEF TypeOK, Tracked, Framed, DriverHas
<1>2. Owed(h) = {}
  <2>1. ParentsOf(h) = <<>> /\ FirstOwed(h) = 1
    BY <1>1 DEF ParentsOf, FirstOwed, Framed
  <2> QED
    BY <2>1 DEF Owed
<1>3. \A q \in Handles \ {h} :
        /\ Tracked(q)' <=> Tracked(q)
        /\ Tracked(q) =>
             /\ objects'[q].type = objects[q].type
             /\ objects'[q].refcount = objects[q].refcount
             /\ objects'[q].parents = objects[q].parents
  BY <1>1, <1>2, InsertEdges
<1>4. /\ Tracked(h)'
      /\ objects'[h].type = new.type
      /\ objects'[h].refcount = new.refcount
      /\ objects'[h].parents = new.parents
  BY <1>1, <1>2, InsertEdges
<1>5. \A g : RecordedBelow(g)' = RecordedBelow(g)
  BY DEF RecordedBelow
<1>6. ASSUME NEW g \in Handles \ {h}, g # Null
      PROVE  Linked(g)'
  <2>1. Linked(g)
    BY <1>1, <1>6 DEF Links
  <2>2. Tracked(g)' <=> Tracked(g)
    BY <1>3
  <2>3. Tracked(g) => objects'[g].type = objects[g].type /\ objects'[g].parents = objects[g].parents
    BY <1>3
  <2>. QED  BY <1>1, <1>5, <2>1, <2>2, <2>3 DEF Linked, Known
<1>7. CountOf(h) = 0 /\ CountOf(h)' = new.refcount
  BY <1>4 DEF CountOf
<1>8. ASSUME NEW g \in Handles \ {h}
      PROVE  /\ Known(g)' <=> Known(g)
             /\ CountOf(g)' = CountOf(g)
  <2>1. Tracked(g)' <=> Tracked(g)
    BY <1>3
  <2>2. Tracked(g) => objects'[g].refcount = objects[g].refcount
    BY <1>3
  <2>. QED  BY <1>1, <2>1, <2>2 DEF Known, CountOf
<1>. QED  BY <1>3, <1>4, <1>6, <1>7, <1>8

\* The record of an object is what the object is.
LEMMA RecordInserted ==
    ASSUME SysInv, \A g \in Handles : ~Framed(g), NEW h \in Handles, ~Tracked(h), DriverHas(h),
           NEW new \in NewObject, new.type = drv[h].type, new.parents = RecordedBelow(h),
           objects' = InsertObject(objects, h, new), UNCHANGED <<frames, drv, own>>
    PROVE  /\ Tracked(h)' /\ objects'[h].refcount = new.refcount
           /\ CountOf(h) = 0 /\ CountOf(h)' = new.refcount
           /\ \A g \in Handles \ {Null} : Linked(g)'
           /\ \A g \in Handles \ {h} :
                /\ Tracked(g)' <=> Tracked(g)
                /\ Known(g)' <=> Known(g)
                /\ Tracked(g) => objects'[g].refcount = objects[g].refcount
                /\ CountOf(g)' = CountOf(g)
           /\ NullOK'
<1>1. /\ Tracked(h)' /\ objects'[h].type = new.type /\ objects'[h].parents = new.parents
      /\ objects'[h].refcount = new.refcount
      /\ CountOf(h) = 0 /\ CountOf(h)' = new.refcount
  BY OthersInserted
<1>2. \A g \in Handles \ {h} :
        /\ Tracked(g)' <=> Tracked(g)
        /\ Known(g)' <=> Known(g)
        /\ Tracked(g) => /\ objects'[g].type = objects[g].type
                         /\ objects'[g].parents = objects[g].parents
                         /\ objects'[g].refcount = objects[g].refcount
        /\ CountOf(g)' = CountOf(g)
        /\ g # Null => Linked(g)'
  BY OthersInserted
<1>3. RecordedBelow(h)' = RecordedBelow(h) /\ DriverHas(h)' /\ ~Framed(h)'
  BY DEF RecordedBelow, DriverHas, Framed
<1>4. Linked(h)'
  BY <1>1, <1>3 DEF Linked
<1>5. NullOK'
  <2>1. Null \in Handles \ {h} /\ NullOK
    BY InvParts, NotNull, PoolAndRoots
  <2>. QED  BY <1>2, <2>1, NullUntouched
<1>. QED  BY <1>1, <1>2, <1>4, <1>5

\* A record is made, or one reference is added to it, and the call goes on to
\* return.
LEMMA RecordedStep ==
    ASSUME SysInv, LegalUse, NEW t \in Threads, At(t, "post"),
           ToReturn(t), UNCHANGED <<drv, own, leaks>>, Unlocked, UNCHANGED mutex,
           Return(t, CL_SUCCESS), ExactInv({Null})', CallOK(t)', NullOK',
           NEW h \in Elements(call[t].made),
           \A g \in Handles \ {Null} : Linked(g)' /\ (g # h => (Known(g)' => Known(g))),
           \A g \in Roots : /\ Tracked(g) => Tracked(g)'
                            /\ Tracked(g)' => objects'[g].refcount = 0,
           \A g \in Pool : g # h => CountOf(g)' = CountOf(g),
           h \in Pool => /\ CountOf(h)' = CountOf(h) + 1 /\ call[t].fn.makes # NOTHING
                         /\ Elements(call[t].made) = {h},
           h \notin Pool => call[t].fn.makes = NOTHING
    PROVE  SysInv'
<1>0. call[t] # None /\ call[t].stage = "post" /\ ~Holds(t)
  BY DEF At
<1>1. /\ leaks = None /\ SysTypeOK
  BY <1>0, CameBack, InvParts
<1>2. /\ call' \in [Threads -> Call \cup {None}] /\ call'[t] # None
      /\ \A u \in Threads \ {t} : call'[u] = call[u]
  BY <1>0, <1>1, ReturningCall
<1>3. SysTypeOK'
  BY <1>1, <1>2 DEF SysTypeOK, ExactInv, Inv
<1>4. NoFalsePositive'
  BY ReturnsSuccess
<1>5. MutexOK' /\ mutex = None /\ mutex' = None
  BY DEF MutexOK, Unlocked
<1>6. \A g \in Pool : Making(t, g) <=> g = h
  BY <1>0, ElementsOfOne DEF Making
<1>7. ASSUME NEW g \in Pool
      PROVE  /\ DriverShare(t, g)' = DriverShare(t, g)
             /\ CountOf(g)' - CountOf(g) = TrackerShare(t, g)' - TrackerShare(t, g)
  <2>1. g \in Handles
    BY PoolAndRoots
  <2>2. /\ DriverShare(t, g) = own[t][g] + One(Making(t, g))
        /\ TrackerShare(t, g) = own[t][g] /\ own[t][g] \in Nat
    BY <1>0, <2>1, RecordingShare
  <2>3. /\ DriverShare(t, g)' = own[t][g] + One(Making(t, g))
        /\ TrackerShare(t, g)' = own[t][g] + One(Making(t, g) /\ ~ToRegister(t, g)')
    BY <1>0, <2>1, RecordedShare
  <2>4. ~ToRegister(t, g)'
    <3>1. call'[t].stage = "return"
      BY <1>0, <1>1, ReturningCall
    <3>. QED  BY <1>5, <3>1 DEF ToRegister, Holds
  <2>5. TrackerShare(t, g)' = own[t][g] + (IF g = h THEN 1 ELSE 0)
    BY <1>6, <2>2, <2>3, <2>4 DEF One
  <2>6. CountOf(g) \in Int
    BY <1>1, RecordTyped DEF CountOf
  <2>. QED  BY <2>2, <2>3, <2>5, <2>6
<1>8. \A g \in Pool : Known(g)' => Known(g) \/ DriverShare(t, g) > 0
  <2> SUFFICES ASSUME h \in Pool
               PROVE  DriverShare(t, h) > 0
    BY PoolAndRoots
  <2>1. Making(t, h)
    BY <1>6
  <2>. QED  BY <2>1, MadeIsAlive
<1>9. \A g \in Roots : /\ Tracked(g) => Tracked(g)'
                       /\ Tracked(g)' => objects'[g].refcount = 0
                       /\ own'[t][g] > 0 => own[t][g] > 0 \/ Tracked(g)
  OBVIOUS
<1>10. \A u \in Threads \ {t} : call'[u] = call[u] /\ \A g \in Handles : own'[u][g] = own[u][g]
  BY <1>2
<1>. QED
  BY <1>1, <1>3, <1>4, <1>5, <1>7, <1>8, <1>9, <1>10, TrackerSide

\* A default queue that may be in the map already.
LEMMA OnlyQueuesMayExist ==
    ASSUME LegalUse, NEW fn \in Used, NEW r \in fn.results, r.check = "create or exists"
    PROVE  fn.makes # NOTHING /\ fn.makes = "COMMAND_QUEUE"
<1>1. fn.makes # NOTHING
  BY UsedResults
<1>2. fn \in Special
  BY <1>1, FirstArgument DEF CreateShape
<1>3. Creation("CONTEXT", "device list").check = "creation"
      /\ Creation("KERNEL", "get_parent(argument)").check = "creation"
      /\ Creation("IMAGE", "get_parent").check = "creation"
      /\ Creation("IMAGE", "image_desc").check = "creation"
  BY DEF Creation, Result
<1>4. fn = clCreateCommandQueueWithProperties
  BY <1>2, <1>3, ContextShape, CloneShape, ImageShapes DEF Special
<1>. QED  BY <1>1, <1>4, QueueShape

RecordsDefault(t) ==
    /\ call[t].result.check = "create or exists"
    /\ CheckCreateOrExists(t, RecordedType(call[t].result, call[t].made[1]), call[t].made[1],
                           LayerParents(t, call[t].result, call[t].made[1])[1])

LEMMA RecordDefault ==
    ASSUME SysInv, LegalUse, NEW t \in Threads, At(t, "post"),
           RecordsDefault(t), ToReturn(t), UNCHANGED <<drv, own>>
    PROVE  SysInv'
<1>0. call[t] # None /\ call[t].stage = "post" /\ ~Holds(t)
  BY DEF At
<1>1. PICK h : h = call[t].made[1]
  OBVIOUS
<1>2. /\ call[t].fn \in Used /\ call[t].result \in call[t].fn.results /\ leaks = None
      /\ call[t].made \in Seq(Handles) /\ h \in Elements(call[t].made)
      /\ MadeOK(t) /\ CallOK(t)
      /\ SysTypeOK /\ TypeOK /\ ExactInv({Null}) /\ Links /\ RootsKept /\ Structure
  BY <1>0, <1>1, CameBack, InvParts
<1>3. call[t].fn.makes = "COMMAND_QUEUE" /\ call[t].fn.makes # NOTHING
      /\ call[t].result.check # "roots" /\ call[t].result.check # "list"
  BY <1>2, OnlyQueuesMayExist DEF RecordsDefault
<1>4. Unlocked /\ UNCHANGED <<deleted, leaks>>
  BY DEF RecordsDefault, CheckCreateOrExists
<1>5. /\ h \in Pool /\ h \in Handles /\ DriverHas(h) /\ drv[h].type = "COMMAND_QUEUE"
      /\ "COMMAND_QUEUE" \in ObjectTypes \ RootTypes
      /\ LayerParents(t, call[t].result, h) = RecordedBelow(h)
      /\ RecordedBelow(h) \in ParentLists /\ AllTracked(RecordedBelow(h))
      /\ RecordedType(call[t].result, h) = "COMMAND_QUEUE"
  BY <1>0, <1>2, <1>3, <1>4, RecordParents
<1>6. PICK p \in Handles : RecordedBelow(h) = <<p>>
  <2>1. KindOK(h) /\ InContext(h)
    BY <1>2, <1>5 DEF Structure, InContext, DeviceTypes
  <2>2. \E p \in Handles : drv[h].on = <<p>>
    BY <1>5, <2>1 DEF KindOK
  <2>. QED  BY <1>5, <2>2 DEF RecordedBelow
<1>7. CheckCreateOrExists(t, "COMMAND_QUEUE", h, p)
  <2>1. LayerParents(t, call[t].result, h)[1] = p
    BY <1>5, <1>6
  <2>. QED  BY <1>1, <1>5, <2>1 DEF RecordsDefault
<1>8. <<p>> \in ParentLists /\ Tracked(p)
  <2>1. <<p>> \in ParentLists /\ AllTracked(<<p>>)
    BY <1>5, <1>6
  <2>2. 1 \in DOMAIN <<p>> /\ <<p>>[1] = p
    OBVIOUS
  <2>. QED  BY <2>1, <2>2 DEF AllTracked
<1>9. Tracked(h) => TrackedAs("COMMAND_QUEUE", h)
  BY <1>2, <1>5, PoolAndRoots DEF Links, Linked, TrackedAs
<1>10. ExactInv({Null})'
  BY <1>2, <1>5, <1>7, <1>8, <1>9, CheckCreateOrExistsExact
<1>11. Elements(call[t].made) = {h}
  <2>1. Len(call[t].made) = 1
    BY <1>0, <1>2, <1>3 DEF MadeOK
  <2>. QED  BY <1>1, <1>2, <2>1, ElementsOfSingle
<1>12. CallOK(t)'
  BY <1>0, <1>3, ReturningOK
<1>13. \A g \in Handles : ~Framed(g)
  BY <1>2, <1>4 DEF ExactInv, Inv, WalkInv, Unlocked
<1>14. CASE ~Tracked(h)
  <2> DEFINE new == [type |-> "COMMAND_QUEUE", refcount |-> 1, parents |-> <<p>>,
                     reported |-> FALLBACK_VERSION]
  <2>1. /\ new \in NewObject /\ new.type = drv[h].type /\ new.parents = RecordedBelow(h)
        /\ new.refcount = 1 /\ new.type = "COMMAND_QUEUE"
    BY <1>5, <1>6, <1>8, VersionsAssumption DEF NewObject
  <2>2. /\ objects' = InsertObject(objects, h, new)
        /\ Return(t, CL_SUCCESS) /\ UNCHANGED <<frames, mutex>>
    BY <1>7, <1>14 DEF CheckCreateOrExists, AddOrReplace, TrackedAs
  <2> HIDE DEF new
  <2>3. /\ CountOf(h) = 0 /\ CountOf(h)' = 1
        /\ NullOK'
        /\ \A g \in Handles \ {Null} : Linked(g)'
        /\ \A g \in Handles \ {h} :
             /\ Tracked(g)' <=> Tracked(g)
             /\ Known(g)' <=> Known(g)
             /\ Tracked(g) => objects'[g].refcount = objects[g].refcount
             /\ CountOf(g)' = CountOf(g)
    BY <1>5, <1>13, <1>14, <2>1, <2>2, RecordInserted
  <2>4. \A g \in Roots : /\ Tracked(g) => Tracked(g)'
                         /\ Tracked(g)' => objects'[g].refcount = 0
    <3>1. \A g \in Roots : g \in Handles \ {h}
      BY <1>5, PoolAndRoots
    <3>. QED  BY <1>2, <2>3, <3>1 DEF RootsKept
  <2>5. \A g \in Pool : g # h => CountOf(g)' = CountOf(g)
    BY <2>3, PoolAndRoots
  <2>6. CountOf(h)' = CountOf(h) + 1
    BY <2>3
  <2>7. \A g \in Handles \ {Null} : Linked(g)' /\ (g # h => (Known(g)' => Known(g)))
    BY <2>3
  <2>8. Return(t, CL_SUCCESS) /\ UNCHANGED mutex
    BY <2>2
  <2>. QED
    BY <1>2, <1>3, <1>4, <1>5, <1>10, <1>11, <1>12, <2>3, <2>4, <2>5, <2>6, <2>7, <2>8, RecordedStep
<1>15. CASE Tracked(h)
  <2>1. TrackedAs("COMMAND_QUEUE", h) /\ Counts(h)
    BY <1>5, <1>9, <1>15 DEF Counts, IsCounted, TrackedAs
  <2>2. /\ objects' = [objects EXCEPT ![h].refcount = objects[h].refcount + 1]
        /\ Return(t, CL_SUCCESS) /\ UNCHANGED <<frames, mutex>>
    BY <1>7, <2>1 DEF CheckCreateOrExists, AddOrReplace, TrackedAs
  <2>3. objects[h].refcount + 1 \in Int /\ TypeOK' /\ objects[h].refcount \in Int
    <3>1. objects[h].refcount \in Int
      BY <1>2, <1>15, RecordTyped
    <3>. QED  BY <1>10, <3>1 DEF ExactInv, Inv
  <2>4. /\ CountOf(h) = objects[h].refcount /\ CountOf(h)' = objects[h].refcount + 1
        /\ \A g \in Handles : /\ Tracked(g)' <=> Tracked(g)
                              /\ Tracked(g) => /\ objects'[g].type = objects[g].type
                                               /\ objects'[g].parents = objects[g].parents
                              /\ g # h => CountOf(g)' = CountOf(g)
                                          /\ (Tracked(g) => objects'[g].refcount = objects[g].refcount)
    BY <1>4, <1>5, <2>1, <2>2, <2>3, RecountedRecord
  <2>5. \A g \in Handles \ {Null} : Linked(g)' /\ (Known(g)' => Known(g))
    BY <2>2, <2>4, LinkedKept DEF Framed
  <2>6. \A g \in Roots : /\ Tracked(g) => Tracked(g)'
                         /\ Tracked(g)' => objects'[g].refcount = 0
    <3>1. \A g \in Roots : g \in Handles /\ g # h
      BY <1>5, PoolAndRoots
    <3>. QED  BY <1>2, <2>4, <3>1 DEF RootsKept
  <2>7. \A g \in Pool : g # h => CountOf(g)' = CountOf(g)
    BY <2>4, PoolAndRoots
  <2>8. CountOf(h)' = CountOf(h) + 1
    BY <2>4
  <2>9. Return(t, CL_SUCCESS) /\ UNCHANGED mutex
    BY <2>2
  <2>10. NullOK'
    <3>1. NullOK /\ Null \in Handles /\ Null # h
      BY <1>5, InvParts, PoolAndRoots
    <3>. QED  BY <2>2, <2>4, <3>1, NullUntouched
  <2>. QED
    BY <1>2, <1>3, <1>4, <1>5, <1>10, <1>11, <1>12, <2>5, <2>6, <2>7, <2>8, <2>9, <2>10,
       RecordedStep
<1>. QED  BY <1>14, <1>15

\* What a list of platforms or devices returned.
LEMMA RecordRoot ==
    ASSUME SysInv, LegalUse, NEW t \in Threads, At(t, "post"),
           call[t].result.check = "roots",
           CheckAddOrExists(t, RecordedType(call[t].result, call[t].made[1]), call[t].made[1],
                            LayerParents(t, call[t].result, call[t].made[1]), DriverVersion),
           ToReturn(t), UNCHANGED <<drv, own>>
    PROVE  SysInv'
<1>0. call[t] # None /\ call[t].stage = "post" /\ ~Holds(t)
  BY DEF At
<1>1. PICK T : T = call[t].result.type
  OBVIOUS
<1>2. /\ call[t].fn \in Used /\ call[t].result \in call[t].fn.results /\ leaks = None
      /\ CallOK(t) /\ AnswerOK(t)
      /\ SysTypeOK /\ TypeOK /\ ExactInv({Null}) /\ Links /\ RootsKept
  BY <1>0, CameBack, InvParts
<1>3. /\ T \in RootTypes /\ T \in ObjectTypes /\ call[t].result.parents = "none"
      /\ call[t].fn.makes = NOTHING
  <2>1. T \in RootTypes /\ call[t].result.parents = "none"
    BY <1>1, <1>2, UsedResults
  <2>2. call[t].fn.makes = NOTHING
    BY <1>2, UsedResults
  <2>. QED  BY <2>1, <2>2, AllTypes DEF RootTypes
<1>4. PICK h \in Roots : call[t].made = <<h>> /\ drv[h].type = T
  BY <1>1, <1>2 DEF AnswerOK
<1>5. /\ h \in Handles /\ h \notin Pool /\ DriverHas(h) /\ Elements(call[t].made) = {h}
      /\ call[t].made[1] = h /\ drv[h].on = <<>>
  BY <1>2, <1>4, PoolAndRoots, RootIsAlive, ElementsOfOne
<1>6. RecordedBelow(h) = <<>>
  <2>1. drv[h].type # "EVENT"
    BY <1>3, <1>4 DEF RootTypes
  <2>. QED  BY <1>5, <2>1 DEF RecordedBelow
<1>7. CheckAddOrExists(t, T, h, <<>>, DriverVersion) /\ DriverVersion \in Versions
  BY <1>1, <1>3, <1>5, SystemConstants DEF RecordedType, LayerParents, SystemAssumption
<1>8. Unlocked /\ UNCHANGED <<deleted, leaks>>
  BY <1>7 DEF CheckAddOrExists
<1>9. Tracked(h) => TrackedAs(T, h)
  BY <1>2, <1>4, <1>5, PoolAndRoots DEF Links, Linked, TrackedAs
<1>10. ExactInv({Null})'
  BY <1>2, <1>3, <1>5, <1>7, <1>9, CheckAddOrExistsExact
<1>11. \A g \in Handles : ~Framed(g)
  BY <1>2, <1>8 DEF ExactInv, Inv, WalkInv, Unlocked
<1>12. CASE ~Tracked(h)
  <2> DEFINE new == [type |-> T, refcount |-> 0, parents |-> <<>>, reported |-> DriverVersion]
  <2>1. /\ new \in NewObject /\ new.type = drv[h].type /\ new.parents = RecordedBelow(h)
        /\ new.refcount = 0 /\ new.type = T
    BY <1>3, <1>4, <1>6, <1>7, NoParentsAssumption DEF NewObject
  <2>2. /\ objects' = InsertObject(objects, h, new)
        /\ Return(t, CL_SUCCESS) /\ UNCHANGED <<frames, mutex>>
    BY <1>7, <1>12 DEF CheckAddOrExists, AddOrReplace, TrackedAs
  <2> HIDE DEF new
  <2>3. /\ Tracked(h)' /\ objects'[h].refcount = 0
        /\ NullOK'
        /\ \A g \in Handles \ {Null} : Linked(g)'
        /\ \A g \in Handles \ {h} :
             /\ Tracked(g)' <=> Tracked(g)
             /\ Known(g)' <=> Known(g)
             /\ Tracked(g) => objects'[g].refcount = objects[g].refcount
             /\ CountOf(g)' = CountOf(g)
    BY <1>5, <1>11, <1>12, <2>1, <2>2, RecordInserted
  <2>4. \A g \in Roots : /\ Tracked(g) => Tracked(g)'
                         /\ Tracked(g)' => objects'[g].refcount = 0
    <3>1. \A g \in Roots : g \in Handles
      BY PoolAndRoots
    <3>. QED  BY <1>2, <2>3, <3>1 DEF RootsKept
  <2>5. \A g \in Pool : g # h => CountOf(g)' = CountOf(g)
    BY <2>3, PoolAndRoots
  <2>6. CallOK(t)'
    BY <1>0, <1>5, <2>3, ReturningOK
  <2>. QED
    BY <1>2, <1>3, <1>5, <1>8, <1>10, <2>2, <2>3, <2>4, <2>5, <2>6, RecordedStep
<1>13. CASE Tracked(h)
  <2>1. TrackedAs(T, h)
    BY <1>9, <1>13
  <2>2. Return(t, CL_SUCCESS) /\ UNCHANGED <<objects, frames, mutex>>
    BY <1>7, <2>1 DEF CheckAddOrExists, AddOrReplace, TrackedAs
  <2>3. UNCHANGED ret
    BY <2>2, ReturnsSuccess
  <2>4. UNCHANGED vars
    BY <1>8, <2>2, <2>3 DEF vars
  <2>5. Tracked(h)'
    BY <1>13, <2>2 DEF Tracked
  <2>6. CallOK(t)'
    BY <1>0, <1>5, <2>5, ReturningOK
  <2>7. ASSUME NEW g \in Pool
        PROVE  DriverShare(t, g)' = DriverShare(t, g) /\ TrackerShare(t, g)' = TrackerShare(t, g)
    <3>1. g \in Handles /\ ~Making(t, g)
      BY <1>3, PoolAndRoots DEF Making
    <3>2. /\ DriverShare(t, g) = own[t][g] + One(Making(t, g))
          /\ TrackerShare(t, g) = own[t][g] /\ own[t][g] \in Nat
      BY <1>0, <3>1, RecordingShare
    <3>3. /\ DriverShare(t, g)' = own[t][g] + One(Making(t, g))
          /\ TrackerShare(t, g)' = own[t][g] + One(Making(t, g) /\ ~ToRegister(t, g)')
      BY <1>0, <3>1, RecordedShare
    <3>. QED  BY <3>1, <3>2, <3>3 DEF One
  <2>8. /\ call' \in [Threads -> Call \cup {None}]
        /\ \A u \in Threads \ {t} : call'[u] = call[u]
    BY <1>0, <1>2, ReturningCall
  <2>9. mutex # None => mutex.owner # t
    BY <1>8 DEF Unlocked
  <2>. QED  BY <1>2, <2>4, <2>6, <2>7, <2>8, <2>9, CallMoves
<1>. QED  BY <1>12, <1>13

\* The call goes on to the next object that a query answered.
ToNext(t) == call' = [call EXCEPT ![t].made = Tail(@)]

LEMMA NextToAdd ==
    ASSUME SysTypeOK, NEW t \in Threads, call[t] # None, Len(call[t].made) > 1, ToNext(t)
    PROVE  /\ call' \in [Threads -> Call \cup {None}] /\ call'[t] # None
           /\ call'[t].fn = call[t].fn /\ call'[t].args = call[t].args
           /\ call'[t].stage = call[t].stage /\ call'[t].result = call[t].result
           /\ call'[t].made \in Seq(Handles) /\ call'[t].made # <<>>
           /\ Elements(call'[t].made) \subseteq Elements(call[t].made)
           /\ \A u \in Threads \ {t} : call'[u] = call[u]
<1>1. call \in [Threads -> Call \cup {None}] /\ call[t] \in Call /\ call[t].made \in Seq(Handles)
  BY CallTyped DEF SysTypeOK
<1>2. PICK hs \in Seq(Handles) : hs = call[t].made
  BY <1>1
<1>3. /\ Tail(hs) \in Seq(Handles) /\ Tail(hs) # <<>>
      /\ \A i \in DOMAIN Tail(hs) : i + 1 \in DOMAIN hs /\ Tail(hs)[i] = hs[i + 1]
  <2>1. Len(hs) > 1 /\ hs # <<>>
    BY <1>2
  <2>2. Tail(hs) \in Seq(Handles) /\ Len(Tail(hs)) = Len(hs) - 1 /\ Len(hs) \in Nat
    BY <2>1
  <2>3. Tail(hs) # <<>>
    <3>1. Len(Tail(hs)) # 0
      BY <2>1, <2>2
    <3>2. Len(<<>>) = 0
      OBVIOUS
    <3>. QED  BY <3>1, <3>2, Zenon
  <2>4. DOMAIN Tail(hs) = 1 .. Len(hs) - 1 /\ DOMAIN hs = 1 .. Len(hs)
    BY <2>2
  <2>5. \A i \in 1 .. Len(hs) - 1 : i + 1 \in 1 .. Len(hs) /\ Tail(hs)[i] = hs[i + 1]
    BY <2>1, <2>2
  <2>. QED  BY <2>2, <2>3, <2>4, <2>5
<1>4. Elements(Tail(hs)) \subseteq Elements(hs)
  BY <1>3 DEF Elements
<1> DEFINE c == [call[t] EXCEPT !.made = Tail(hs)]
<1>5. /\ c \in Call /\ c.fn = call[t].fn /\ c.args = call[t].args /\ c.stage = call[t].stage
      /\ c.result = call[t].result /\ c.made = Tail(hs)
  BY <1>1, <1>3 DEF Call
<1>6. call' = [call EXCEPT ![t] = c]
  BY <1>2 DEF ToNext
<1>7. c # None
  BY <1>5, NoCallAssumption
<1> HIDE DEF c
<1>8. call' \in [Threads -> Call \cup {None}] /\ call'[t] = c
      /\ \A u \in Threads \ {t} : call'[u] = call[u]
  BY <1>1, <1>5, <1>6
<1>. QED  BY <1>2, <1>3, <1>4, <1>5, <1>7, <1>8

\* What a query answered is in the map already.
LEMMA AnsweredIsTracked ==
    ASSUME SysInv, LegalUse, Unlocked, NEW t \in Threads, call[t] # None,
           call[t].stage = "post", call[t].result.check = "add", call[t].made # <<Null>>,
           NEW h \in Elements(call[t].made)
    PROVE  /\ TrackedAs(RecordedType(call[t].result, h), h)
           /\ call[t].fn.makes = NOTHING /\ Related(Argument1(t), h) /\ h # Null
<1>1. /\ call[t].fn \in Used /\ call[t].result \in call[t].fn.results /\ AnswerOK(t)
      /\ leaks = None /\ SysTypeOK /\ Links
  BY CameBack, InvParts
<1>2. QueryShape(call[t].fn) /\ call[t].fn.makes = NOTHING
  BY <1>1, UsedResults DEF QueryShape
<1>3. Related(Argument1(t), h) /\ RecordedType(call[t].result, h) = drv[h].type
  BY <1>1 DEF AnswerOK
<1>4. PICK A : A = Argument1(t)
  OBVIOUS
<1>5. call[t].fn # clCreateContext
  BY <1>2, ContextShape DEF NOTHING
<1>6. /\ A \in Handles /\ own[t][A] > 0
      /\ drv[A].type \in Accepted(call[t].fn.arguments[1].type)
  BY <1>2, <1>4, <1>5, FirstIsHeld
<1>7. call[t].fn.arguments[1].type # "EVENT"
  BY <1>1, <1>2, FirstArgument
<1>8. drv[A].type # "EVENT"
  BY <1>6, <1>7, AcceptedTypes
<1>9. Tracked(A) /\ A # Null /\ h # Null
  <2>1. Tracked(A) /\ Alive(A) /\ DriverHas(A)
    BY <1>1, <1>6, HeldIsTracked, HeldIsAlive
  <2>2. DriverHas(h)
    BY <1>1, <1>3, <1>4, <2>1, RelatedAlive, InvParts
  <2>. QED  BY <2>1, <2>2, NotNull, InvParts
<1>10. Tracked(h) /\ h \in Handles
  BY <1>3, <1>4, <1>6, <1>8, <1>9, RelatedTracked
<1>11. objects[h].type = drv[h].type
  BY <1>1, <1>9, <1>10 DEF Links, Linked
<1>. QED  BY <1>2, <1>3, <1>9, <1>10, <1>11 DEF TrackedAs

LEMMA RecordAnswer ==
    ASSUME SysInv, LegalUse, NEW t \in Threads, At(t, "post"),
           call[t].result.check = "add", call[t].made # <<Null>>,
           CheckAddOrExists(t, RecordedType(call[t].result, call[t].made[1]), call[t].made[1],
                            LayerParents(t, call[t].result, call[t].made[1]), DriverVersion),
           (Len(call[t].made) > 1 /\ ToNext(t)) \/ ToReturn(t),
           UNCHANGED <<drv, own>>
    PROVE  SysInv'
<1>0. call[t] # None /\ call[t].stage = "post" /\ ~Holds(t)
  BY DEF At
<1>1. PICK h : h = call[t].made[1]
  OBVIOUS
<1>2. /\ call[t].fn \in Used /\ leaks = None /\ h \in Elements(call[t].made)
      /\ CallOK(t) /\ AnswerOK(t) /\ SysTypeOK /\ Counting(call[t].fn) = "nothing"
      /\ Len(call[t].args) = Len(call[t].fn.arguments) /\ call[t].result \in call[t].fn.results
      /\ call[t].made # <<>>
  BY <1>0, <1>1, CameBack, InvParts
<1>3. Unlocked /\ UNCHANGED <<deleted, leaks>>
  BY DEF CheckAddOrExists
<1>4. /\ TrackedAs(RecordedType(call[t].result, h), h) /\ call[t].fn.makes = NOTHING
      /\ \A g \in Elements(call[t].made) : Related(Argument1(t), g)
  BY <1>0, <1>2, <1>3, AnsweredIsTracked
<1>5. Return(t, CL_SUCCESS) /\ UNCHANGED <<objects, frames, mutex>>
  BY <1>1, <1>4 DEF CheckAddOrExists, AddOrReplace, TrackedAs
<1>6. UNCHANGED vars
  BY <1>3, <1>5, ReturnsSuccess DEF vars
<1>7. /\ call' \in [Threads -> Call \cup {None}] /\ call'[t] # None
      /\ call'[t].fn = call[t].fn /\ call'[t].args = call[t].args
      /\ call'[t].stage \in {"post", "return"} /\ call'[t].result = call[t].result
      /\ call'[t].made # <<>>
      /\ Elements(call'[t].made) \subseteq Elements(call[t].made)
      /\ \A u \in Threads \ {t} : call'[u] = call[u]
  BY <1>0, <1>2, NextToAdd, ReturningCall, ZenonT(40) DEF Elements
<1>8. /\ \A g : DriverHas(g)' <=> DriverHas(g)
      /\ \A g : InContext(g)' <=> InContext(g)
      /\ \A g, q : Related(g, q)' <=> Related(g, q)
      /\ DriverKeeps
  BY DEF DriverHas, InContext, Related, DriverKeeps, SameObject, Alive
<1>9. \A i \in DOMAIN call[t].args :
              ArgumentOK(t, call[t].fn.arguments[i], call[t].args[i])'
  BY <1>0, <1>2, <1>7, <1>8, ArgumentsStand
<1>10. MadeOK(t)'
  BY <1>4, <1>7 DEF MadeOK
<1>11. AnswerOK(t)'
  <2>1. PICK A : A = Argument1(t)
    OBVIOUS
  <2>2. Argument1(t)' = A
    BY <1>7, <2>1 DEF Argument1
  <2>3. PICK r : r = call[t].result
    OBVIOUS
  <2>4. call'[t].result = r /\ call'[t].result.check = "add"
    BY <1>7, <2>3
  <2>5. ASSUME NEW g \in Elements(call'[t].made)
        PROVE  Related(Argument1(t), g)' /\ RecordedType(call[t].result, g)' = drv'[g].type
    <3>1. Related(A, g) /\ RecordedType(r, g) = drv[g].type
      BY <1>0, <1>2, <1>7, <2>1, <2>3 DEF AnswerOK
    <3>2. Related(A, g)'
      BY <1>8, <3>1
    <3>3. RecordedType(r, g)' = drv'[g].type
      BY <3>1 DEF RecordedType
    <3>. QED  BY <2>2, <2>3, <2>4, <3>2, <3>3 DEF RecordedType
  <2>. QED  BY <2>4, <2>5 DEF AnswerOK, Elements
<1>12. CallOK(t)'
  BY <1>2, <1>7, <1>9, <1>10, <1>11 DEF CallOK
<1>13. ASSUME NEW g \in Pool
       PROVE  DriverShare(t, g)' = DriverShare(t, g) /\ TrackerShare(t, g)' = TrackerShare(t, g)
  <2>1. g \in Handles /\ own'[t][g] = own[t][g] /\ own'[t][g] \in Int /\ own[t][g] \in Int
    BY <1>2, PoolAndRoots, OwnTyped
  <2>2. DriverShare(t, g)' = own'[t][g] /\ TrackerShare(t, g)' = own'[t][g]
    BY <1>2, <1>4, <1>7, <2>1, PlainShareAfter
  <2>3. DriverShare(t, g) = own[t][g] /\ TrackerShare(t, g) = own[t][g]
    BY <1>2, <1>4, <2>1, PlainShare
  <2>. QED  BY <2>1, <2>2, <2>3
<1>14. mutex # None => mutex.owner # t
  BY <1>3 DEF Unlocked
<1>. QED  BY <1>2, <1>6, <1>7, <1>12, <1>13, <1>14, CallMoves

\* A query answered NULL: a record of it is made, unless there is one.
LEMMA RecordNull ==
    ASSUME SysInv, LegalUse, NEW t \in Threads, At(t, "post"),
           call[t].result = AddOrExists("BUFFER", "get_parent"), call[t].made = <<Null>>,
           CheckAddOrExists(t, RecordedType(call[t].result, Null), Null,
                            LayerParents(t, call[t].result, Null), DriverVersion),
           ToReturn(t), UNCHANGED <<drv, own>>
    PROVE  SysInv'
<1>0. call[t] # None /\ call[t].stage = "post" /\ ~Holds(t)
  BY DEF At
<1>1. /\ call[t].result.type = "BUFFER" /\ call[t].result.parents = "get_parent"
      /\ call[t].result.check = "add"
  BY DEF AddOrExists, Result
<1>2. /\ call[t].fn \in Used /\ call[t].result \in call[t].fn.results /\ leaks = None
      /\ CallOK(t) /\ SysTypeOK /\ TypeOK /\ ExactInv({Null}) /\ Links /\ RootsKept /\ NullOK
  BY <1>0, CameBack, InvParts
<1>3. call[t].fn.makes = NOTHING /\ "BUFFER" \in ObjectTypes
  BY <1>1, <1>2, UsedResults, AllTypes
<1>4. CheckAddOrExists(t, "BUFFER", Null, <<>>, DriverVersion) /\ DriverVersion \in Versions
  BY <1>1, SystemConstants DEF RecordedType, LayerParents, GetParent, SystemAssumption
<1>5. Unlocked /\ UNCHANGED <<deleted, leaks>>
  BY <1>4 DEF CheckAddOrExists
<1>6. Tracked(Null) => TrackedAs("BUFFER", Null)
  BY <1>2 DEF NullOK, TrackedAs
<1>7. ExactInv({Null})'
  <2>1. Null \in Handles /\ Null \in {Null}
    BY PoolAndRoots
  <2>2. (~Tracked(Null) /\ ("BUFFER" \in RootTypes \/ Null \in {Null})) \/ TrackedAs("BUFFER", Null)
    BY <1>6, <2>1
  <2>. QED  BY <1>2, <1>3, <1>4, <2>1, <2>2, CheckAddOrExistsExact
<1>8. CallOK(t)'
  BY <1>0, <1>1, ReturningOK
<1>9. Null \in Elements(call[t].made) /\ Null \in Handles /\ Null \notin Pool /\ Null \notin Roots
  BY PoolAndRoots, ElementsOfOne
<1>10. \A g \in Handles : ~Framed(g)
  BY <1>2, <1>5 DEF ExactInv, Inv, WalkInv, Unlocked
<1>11. CASE ~Tracked(Null)
  <2> DEFINE new == [type |-> "BUFFER", refcount |-> 0, parents |-> <<>>,
                     reported |-> DriverVersion]
  <2>1. /\ new \in NewObject /\ new.type = "BUFFER" /\ new.parents = <<>> /\ new.refcount = 0
    BY <1>3, <1>4, NoParentsAssumption DEF NewObject
  <2>2. /\ objects' = InsertObject(objects, Null, new)
        /\ Return(t, CL_SUCCESS) /\ UNCHANGED <<frames, mutex>>
    BY <1>4, <1>11 DEF CheckAddOrExists, AddOrReplace, TrackedAs
  <2> HIDE DEF new
  <2>3. /\ Tracked(Null)' /\ objects'[Null].type = "BUFFER" /\ objects'[Null].parents = <<>>
        /\ objects'[Null].refcount = 0
        /\ \A g \in Handles \ {Null} :
             /\ Tracked(g)' <=> Tracked(g)
             /\ Known(g)' <=> Known(g)
             /\ Tracked(g) => objects'[g].refcount = objects[g].refcount
             /\ CountOf(g)' = CountOf(g)
             /\ Linked(g)'
    BY <1>9, <1>10, <1>11, <2>1, <2>2, OthersInserted
  <2>4. \A g \in Roots : /\ Tracked(g) => Tracked(g)'
                         /\ Tracked(g)' => objects'[g].refcount = 0
    BY <1>2, <1>9, <2>3, PoolAndRoots DEF RootsKept
  <2>5. \A g \in Pool : g # Null => CountOf(g)' = CountOf(g)
    BY <2>3, PoolAndRoots
  <2>6. NullOK'
    BY <1>2, <2>2, <2>3 DEF NullOK, DriverHas, Framed
  <2>. QED
    BY <1>2, <1>3, <1>5, <1>7, <1>8, <1>9, <2>2, <2>3, <2>4, <2>5, <2>6, RecordedStep
<1>12. CASE Tracked(Null)
  <2>1. TrackedAs("BUFFER", Null)
    BY <1>6, <1>12
  <2>2. Return(t, CL_SUCCESS) /\ UNCHANGED <<objects, frames, mutex>>
    BY <1>4, <2>1 DEF CheckAddOrExists, AddOrReplace, TrackedAs
  <2>3. UNCHANGED vars
    BY <1>5, <2>2, ReturnsSuccess DEF vars
  <2>4. ASSUME NEW g \in Pool
        PROVE  DriverShare(t, g)' = DriverShare(t, g) /\ TrackerShare(t, g)' = TrackerShare(t, g)
    <3>1. g \in Handles /\ ~Making(t, g)
      BY <1>3, PoolAndRoots DEF Making
    <3>2. /\ DriverShare(t, g) = own[t][g] + One(Making(t, g))
          /\ TrackerShare(t, g) = own[t][g] /\ own[t][g] \in Nat
      BY <1>0, <3>1, RecordingShare
    <3>3. /\ DriverShare(t, g)' = own[t][g] + One(Making(t, g))
          /\ TrackerShare(t, g)' = own[t][g] + One(Making(t, g) /\ ~ToRegister(t, g)')
      BY <1>0, <3>1, RecordedShare
    <3>. QED  BY <3>1, <3>2, <3>3 DEF One
  <2>5. /\ call' \in [Threads -> Call \cup {None}]
        /\ \A u \in Threads \ {t} : call'[u] = call[u]
    BY <1>0, <1>2, ReturningCall
  <2>6. mutex # None => mutex.owner # t
    BY <1>5 DEF Unlocked
  <2>. QED  BY <1>2, <1>8, <2>3, <2>4, <2>5, <2>6, CallMoves
<1>. QED  BY <1>11, <1>12

\* NULL comes back from one query only.
LEMMA NullComesBack ==
    ASSUME SysInv, LegalUse, NEW t \in Threads, call[t] # None, call[t].stage = "post",
           call[t].result.check = "add", call[t].made = <<Null>>
    PROVE  call[t].result = AddOrExists("BUFFER", "get_parent")
<1> SUFFICES ASSUME call[t].result # AddOrExists("BUFFER", "get_parent")
             PROVE  FALSE
  OBVIOUS
<1>1. /\ call[t].fn \in Used /\ call[t].result \in call[t].fn.results /\ AnswerOK(t)
      /\ SysTypeOK /\ Structure
  BY CameBack, InvParts
<1>2. Null \in Elements(call[t].made)
  BY ElementsOfOne
<1>3. QueryShape(call[t].fn) /\ call[t].fn.makes = NOTHING
  BY <1>1, UsedResults DEF QueryShape
<1>4. Related(Argument1(t), Null)
  BY <1>1, <1>2 DEF AnswerOK
<1>5. PICK A : A = Argument1(t)
  OBVIOUS
<1>6. call[t].fn # clCreateContext
  BY <1>3, ContextShape DEF NOTHING
<1>7. A \in Handles /\ own[t][A] > 0
  BY <1>3, <1>5, <1>6, FirstIsHeld
<1>8. DriverHas(Null)
  BY <1>1, <1>4, <1>5, <1>7, HeldIsAlive, RelatedAlive
<1>. QED  BY <1>8, NotNull, InvParts

LEMMA PostCheckStep ==
    ASSUME SysInv, LegalUse, NEW t \in Threads, PostCheck(t)
    PROVE  SysInv'
<1>0. At(t, "post") /\ call[t] # None /\ UNCHANGED <<drv, own>>
  BY DEF PostCheck, At
<1>1. PICK r : r = call[t].result
  OBVIOUS
<1>2. PICK h : h = call[t].made[1]
  OBVIOUS
<1>3. \/ /\ r.check \in {"creation", "list"}
         /\ CheckCreationList(t, RecordedType(r, h), call[t].made, LayerParents(t, r, h))
      \/ /\ r.check = "create or exists"
         /\ CheckCreateOrExists(t, RecordedType(r, h), h, LayerParents(t, r, h)[1])
      \/ /\ r.check \in {"add", "roots"}
         /\ CheckAddOrExists(t, RecordedType(r, h), h, LayerParents(t, r, h), DriverVersion)
  BY <1>1, <1>2, Zenon DEF PostCheck
<1>4. (r.check = "add" /\ Len(call[t].made) > 1 /\ ToNext(t)) \/ ToReturn(t)
  BY <1>1 DEF PostCheck, ToNext, ToReturn
<1>5. CASE r.check \in {"creation", "list"}
  <2>1. ToReturn(t)
    BY <1>4, <1>5
  <2>2. CheckCreationList(t, RecordedType(r, h), call[t].made, LayerParents(t, r, h))
    BY <1>3, <1>5
  <2>. QED  BY <1>0, <1>1, <1>2, <1>5, <2>1, <2>2, RecordCreation
<1>6. CASE r.check = "create or exists"
  <2>1. ToReturn(t)
    BY <1>4, <1>6
  <2>2. CheckCreateOrExists(t, RecordedType(r, h), h, LayerParents(t, r, h)[1])
    BY <1>3, <1>6
  <2>. QED  BY <1>0, <1>1, <1>2, <1>6, <2>1, <2>2, RecordDefault DEF RecordsDefault
<1>7. CASE r.check = "add"
  <2>1. CheckAddOrExists(t, RecordedType(r, h), h, LayerParents(t, r, h), DriverVersion)
    BY <1>3, <1>7
  <2>2. CASE call[t].made # <<Null>>
    BY <1>0, <1>1, <1>2, <1>4, <1>7, <2>1, <2>2, RecordAnswer
  <2>3. CASE call[t].made = <<Null>>
    <3>1. call[t].stage = "post" /\ r = AddOrExists("BUFFER", "get_parent")
      BY <1>0, <1>1, <1>7, <2>3, NullComesBack DEF At
    <3>2. h = Null /\ Len(call[t].made) = 1
      BY <1>2, <2>3
    <3>3. ToReturn(t)
      BY <1>4, <3>2
    <3>4. CheckAddOrExists(t, RecordedType(r, Null), Null, LayerParents(t, r, Null), DriverVersion)
      BY <2>1, <3>2
    <3>. QED  BY <1>0, <1>1, <2>3, <3>1, <3>3, <3>4, RecordNull
  <2>. QED  BY <2>2, <2>3
<1>8. CASE r.check = "roots"
  <2>1. ToReturn(t)
    BY <1>4, <1>8
  <2>2. CheckAddOrExists(t, RecordedType(r, h), h, LayerParents(t, r, h), DriverVersion)
    BY <1>3, <1>8
  <2>. QED  BY <1>0, <1>1, <1>2, <1>8, <2>1, <2>2, RecordRoot
<1>. QED  BY <1>3, <1>5, <1>6, <1>7, <1>8

-----------------------------------------------------------------------------
(***************************************************************************)
(* The return to the application.                                          *)
(***************************************************************************)

\* A call is done when all is recorded, since nothing fails.
LEMMA DoneIsReturning ==
    ASSUME SysInv, LegalUse, NEW t \in Threads, Done(t)
    PROVE  At(t, "return") /\ ret[t] = CL_SUCCESS
<1>1. ret[t] = CL_SUCCESS
  BY InvParts DEF NoFalsePositive
<1>2. At(t, "post") => call[t].result # None
  <2>1. ASSUME At(t, "post")
        PROVE  call[t].result # None
    <3>1. call[t] # None /\ call[t].stage = "post"
      BY <2>1 DEF At
    <3>2. call[t].fn \in Used /\ call[t].result \in call[t].fn.results
      BY <3>1, CameBack
    <3>. QED  BY <3>2, NoCallAssumption
  <2>. QED  BY <2>1
<1>. QED  BY <1>1, <1>2 DEF Done

\* What thread t holds once its call has returned.
Row(t) ==
    [h \in Handles |->
        IF h \notin Elements(call[t].made) THEN own[t][h]
        ELSE IF call[t].fn.makes # NOTHING THEN own[t][h] + 1
        ELSE IF call[t].result.check = "roots" THEN 1
        ELSE own[t][h]]

\* A new object is one more reference of its maker's.
LEMMA GivenToApp ==
    ASSUME SysInv, LegalUse, NEW t \in Threads, call[t] # None, call[t].stage = "return"
    PROVE  /\ Row(t) \in [Handles -> Nat]
           /\ \A h \in Pool : Row(t)[h] = own[t][h] + One(Making(t, h))
           /\ \A h \in Handles : Row(t)[h] > 0 /\ h \in Roots => own[t][h] > 0 \/ Tracked(h)
           /\ \A h \in Handles : own[t][h] > 0 => Row(t)[h] > 0
           /\ Row(t)[Null] = own[t][Null]
<1>1. /\ call[t].fn \in Used /\ call[t].result \in call[t].fn.results /\ AnswerOK(t) /\ SysTypeOK
      /\ \A h \in Handles : own[t][h] \in Nat
  BY CameBack, InvParts, OwnTyped
<1>2. Row(t) \in [Handles -> Nat] /\ \A h \in Handles : own[t][h] > 0 => Row(t)[h] > 0
  BY <1>1 DEF Row
<1>3. ASSUME call[t].result.check = "roots"
      PROVE  \E g \in Roots : Elements(call[t].made) = {g} /\ Tracked(g)
  <2>1. PICK g \in Roots : call[t].made = <<g>> /\ Tracked(g)
    BY <1>1, <1>3 DEF AnswerOK
  <2>. QED  BY <2>1, ElementsOfOne
<1>4. ASSUME NEW h \in Pool
      PROVE  Row(t)[h] = own[t][h] + One(Making(t, h))
  <2>1. h \in Handles /\ h \notin Roots
    BY PoolAndRoots
  <2>2. CASE Making(t, h)
    <3>1. h \in Elements(call[t].made) /\ call[t].fn.makes # NOTHING
      BY <2>2 DEF Making
    <3>2. Row(t)[h] = own[t][h] + 1
      BY <2>1, <3>1 DEF Row
    <3>. QED  BY <2>2, <3>2 DEF One
  <2>3. CASE ~Making(t, h)
    <3>1. ~(h \in Elements(call[t].made) /\ call[t].fn.makes # NOTHING)
      BY <2>3 DEF Making
    <3>2. ~(h \in Elements(call[t].made) /\ call[t].result.check = "roots")
      BY <1>3, <2>1
    <3>3. Row(t)[h] = own[t][h]
      BY <2>1, <3>1, <3>2 DEF Row
    <3>. QED  BY <1>1, <2>1, <2>3, <3>3 DEF One
  <2>. QED  BY <2>2, <2>3
<1>5. ASSUME NEW h \in Roots, Row(t)[h] > 0
      PROVE  own[t][h] > 0 \/ Tracked(h)
  <2>1. h \in Handles /\ h \notin Pool
    BY PoolAndRoots
  <2>2. CASE h \in Elements(call[t].made) /\ call[t].result.check = "roots"
    BY <1>3, <2>2
  <2>3. CASE h \in Elements(call[t].made) /\ call[t].fn.makes # NOTHING
    <3>1. Making(t, h)
      BY <2>3 DEF Making
    <3>. QED  BY <2>1, <3>1, MadeIsAlive
  <2>4. CASE ~(h \in Elements(call[t].made) /\ (call[t].fn.makes # NOTHING \/ call[t].result.check = "roots"))
    <3>1. Row(t)[h] = own[t][h]
      BY <2>1, <2>4 DEF Row
    <3>. QED  BY <1>5, <3>1
  <2>. QED  BY <2>2, <2>3, <2>4
<1>6. Row(t)[Null] = own[t][Null]
  <2>1. Null \in Handles /\ Null \notin Pool /\ Null \notin Roots
    BY PoolAndRoots
  <2>2. ~(Null \in Elements(call[t].made) /\ call[t].result.check = "roots")
    BY <1>3, <2>1
  <2>3. ~(Null \in Elements(call[t].made) /\ call[t].fn.makes # NOTHING)
    BY <2>1, MadeIsAlive DEF Making
  <2>. QED  BY <2>1, <2>2, <2>3 DEF Row
<1>. QED  BY <1>2, <1>4, <1>5, <1>6

LEMMA ReturnToAppStep ==
    ASSUME SysInv, LegalUse, NEW t \in Threads, ReturnToApp(t)
    PROVE  SysInv'
<1>1. /\ At(t, "return") /\ ret[t] = CL_SUCCESS
      /\ call[t] # None /\ call[t].stage = "return" /\ ~Holds(t)
  BY DoneIsReturning DEF ReturnToApp, At
<1>2. /\ SysTypeOK /\ Structure /\ Balance /\ leaks = None /\ (mutex # None => mutex.owner # t)
      /\ \A h : ~Requesting(t, "release", h) /\ ~Requesting(t, "retain", h)
      /\ \A h \in Handles : own[t][h] \in Nat
      /\ own \in [Threads -> [Handles -> Nat]]
  BY <1>1, InvParts, CameBack, InProgress, OwnTyped DEF SysTypeOK
<1>3. UNCHANGED vars /\ drv' = drv /\ Finish(t)
  BY DEF ReturnToApp
<1>4. own' = [own EXCEPT ![t] = Row(t)]
  BY <1>1 DEF ReturnToApp, Row
<1>5. /\ Row(t) \in [Handles -> Nat]
      /\ \A h \in Pool : Row(t)[h] = own[t][h] + One(Making(t, h))
      /\ \A h \in Handles : Row(t)[h] > 0 /\ h \in Roots => own[t][h] > 0 \/ Tracked(h)
      /\ Row(t)[Null] = own[t][Null]
  BY <1>1, GivenToApp
<1>6. /\ own' \in [Threads -> [Handles -> Nat]]
      /\ own'[t] = Row(t) /\ \A u \in Threads \ {t} : own'[u] = own[u]
  BY <1>2, <1>4, <1>5
<1>7. /\ call' \in [Threads -> Call \cup {None}] /\ call'[t] = None
      /\ \A u \in Threads \ {t} : call'[u] = call[u]
  BY <1>2, <1>3, Finished
<1>8. SysTypeOK'
  BY <1>2, <1>3, <1>6, <1>7 DEF SysTypeOK, TypeOK, vars
<1>9. DriverKeeps /\ \A h \in Handles : DriverHas(h)' => DriverHas(h) /\ SameObject(h)
  BY <1>3 DEF DriverKeeps, SameObject, DriverHas, Alive
<1>10. Structure'
  BY <1>2, <1>9, StructureKept
<1>11. /\ mutex' = mutex /\ leaks' = leaks /\ objects' = objects
  BY <1>3 DEF vars
<1>12. Balance'
  <2>1. ASSUME NEW h \in Pool
        PROVE  /\ Refs(h)' - Refs(h) = DriverShare(t, h)' - DriverShare(t, h)
               /\ CountOf(h)' - CountOf(h) = TrackerShare(t, h)' - TrackerShare(t, h)
    <3>1. h \in Handles /\ own'[t][h] = own[t][h] + One(Making(t, h)) /\ own[t][h] \in Nat
      BY <1>2, <1>5, <1>6, PoolAndRoots
    <3>2. Refs(h)' = Refs(h) /\ Refs(h) \in Int /\ CountOf(h)' = CountOf(h) /\ CountOf(h) \in Int
      BY <1>2, <1>3, <1>11, RecordTyped, ObjectTyped DEF Refs, CountOf, Tracked, DriverHas
    <3>3. ~Requesting(t, "retain", h)' /\ ~Requesting(t, "release", h)' /\ ~Making(t, h)'
      BY <1>7, AfterCall
    <3>4. ~ToRegister(t, h)
      BY <1>1 DEF ToRegister
    <3>5. /\ DriverShare(t, h) = own[t][h] + One(Making(t, h))
          /\ TrackerShare(t, h) = own[t][h] + One(Making(t, h))
      BY <1>2, <3>1, <3>4 DEF DriverShare, TrackerShare, One
    <3>6. One(Making(t, h)) \in Nat
      BY DEF One
    <3>7. DriverShare(t, h)' = own'[t][h] /\ TrackerShare(t, h)' = own'[t][h]
      BY <3>1, <3>3, <3>6 DEF DriverShare, TrackerShare, One
    <3>. QED  BY <3>1, <3>2, <3>5, <3>6, <3>7
  <2>. QED  BY <1>2, <1>6, <1>7, <1>8, <1>11, <2>1, BalanceMoves
<1>13. \A h \in Roots : /\ drv'[h] = drv[h]
                        /\ \A u \in Threads : own'[u][h] > 0 => own[u][h] > 0 \/ Tracked(h)
  <2>1. \A h \in Roots : h \in Handles
    BY PoolAndRoots
  <2>. QED  BY <1>3, <1>5, <1>6, <2>1
<1>14. ASSUME NEW u \in Threads \ {t}, NEW h \in Pool, Making(u, h), Fresh(h)
       PROVE  Fresh(h)'
  <2>1. Known(h)' <=> Known(h)
    BY <1>3 DEF Known, Tracked, Framed, vars
  <2>2. InUse(h)' <=> InUse(h)
    BY <1>3 DEF InUse, DriverHas
  <2>. QED  BY <1>3, <1>14, <2>1, <2>2 DEF Fresh
<1>15. /\ \A u \in Threads \ {t} :
             call'[u] = call[u] /\ \A h \in Handles : own'[u][h] = own[u][h]
       /\ mutex # None => mutex.owner \notin {t}
  BY <1>2, <1>6, <1>7
<1>16. NullOK'
  <2>1. \A u \in Threads : own'[u][Null] = own[u][Null]
    BY <1>5, <1>6
  <2>. QED  BY <1>3, <2>1, InvParts, NullKept DEF vars
<1>17. /\ \A u \in Threads \ {t} :
             call'[u] = call[u] /\ \A h \in Handles : own[u][h] > 0 => own'[u][h] > 0
       /\ \A u \in {t} : call'[u] # None => CallOK(u)'
  BY <1>7, <1>15
<1>. QED
  BY <1>2, <1>3, <1>8, <1>9, <1>10, <1>12, <1>13, <1>14, <1>15, <1>16, <1>17, DriverSide, ZenonT(40)

-----------------------------------------------------------------------------
(***************************************************************************)
(* The steps within a mutex section.                                       *)
(***************************************************************************)

\* The thread that holds the mutex: it releases an object, or has created
\* some.
LEMMA OwnerCall ==
    ASSUME SysInv, LegalUse, mutex # None, NEW t, t = mutex.owner
    PROVE  /\ t \in Threads /\ call[t] # None /\ call[t].stage # "post" /\ leaks = None
           /\ CallOK(t) /\ call[t].fn \in Used
           /\ mutex.stack # <<>> => /\ \A h : ~Making(t, h)
                                    /\ mutex.stack[1] \in Pool /\ mutex.todo = <<>>
<1>1. /\ t \in Threads /\ call[t] # None
      /\ mutex.stack # <<>> => mutex.stack[1] \in Pool /\ Requesting(t, "release", mutex.stack[1])
      /\ mutex.stack = <<>> => call[t].stage = "return"
  BY InvParts, HeldType DEF MutexOK
<1>2. leaks = None /\ CallOK(t) /\ call[t].fn \in Used
  BY <1>1, InProgress
<1>3. call[t].stage # "post"
  BY <1>1 DEF Requesting
<1>4. ASSUME mutex.stack # <<>>
      PROVE  (\A h : ~Making(t, h)) /\ mutex.todo = <<>>
  <2>1. Counting(call[t].fn) = "release"
    BY <1>1, <1>4 DEF Requesting
  <2>2. CountingShape(call[t].fn)
    BY <1>2, <2>1, UsedArguments
  <2>3. call[t].fn.makes = NOTHING
    BY <1>2, <2>2, CountingCalls
  <2>4. mutex.todo = <<>>
    BY <1>4, InvParts, NothingWaits DEF Deleting
  <2>. QED  BY <2>3, <2>4 DEF Making
<1>. QED  BY <1>1, <1>2, <1>3, <1>4

Sections == UNCHANGED <<drv, call, own, leaks, ret>>

LEMMA SectionStep ==
    ASSUME SysInv, LegalUse, mutex # None, Sections, ExactInv({Null})', MutexOK', NullOK',
           NEW t, t = mutex.owner, mutex' # None => mutex'.owner = t,
           \A h \in Handles \ {Null} : Linked(h)',
           \A h \in Pool : Known(h)' => Known(h) \/ Making(t, h),
           \A h \in Roots : /\ Tracked(h) => Tracked(h)'
                            /\ Tracked(h)' => objects'[h].refcount = 0,
           \A h \in Pool :
              CountOf(h)' - CountOf(h) = TrackerShare(t, h)' - TrackerShare(t, h)
    PROVE  SysInv'
<1>1. /\ t \in Threads /\ call[t] # None /\ call[t].stage # "post" /\ leaks = None
  BY OwnerCall
<1>2. UNCHANGED <<drv, call, own, leaks, ret>> /\ SysTypeOK /\ NoFalsePositive
  BY InvParts DEF Sections
<1>3. SysTypeOK' /\ NoFalsePositive'
  BY <1>2 DEF SysTypeOK, NoFalsePositive, ExactInv, Inv
<1>4. DriverKeeps
  BY <1>2 DEF DriverKeeps, SameObject, DriverHas, Alive
<1>5. CallOK(t)'
  BY <1>1, <1>2, <1>4, CallKept
<1>6. ASSUME NEW h \in Pool
      PROVE  DriverShare(t, h)' = DriverShare(t, h)
  BY <1>2, ShareKept
<1>7. ASSUME NEW h \in Pool
      PROVE  Known(h)' => Known(h) \/ DriverShare(t, h) > 0
  BY <1>1, MadeIsAlive
<1>8. /\ UNCHANGED <<drv, leaks>>
      /\ \A u \in Threads \ {t} :
            call'[u] = call[u] /\ \A h \in Handles : own'[u][h] = own[u][h]
      /\ \A h \in Roots : own'[t][h] > 0 => own[t][h] > 0 \/ Tracked(h)
  BY <1>2
<1>. QED  BY <1>1, <1>3, <1>5, <1>6, <1>7, <1>8, TrackerSide

\* Another turn of the walk: records stay what they are, those that go had no
\* reference left.
LEMMA WalkStep ==
    ASSUME SysInv, LegalUse, Deleting, Sections, ExactInv({Null})', MutexOK',
           mutex' # None => mutex'.owner = mutex.owner, ~Framed(Null)',
           \A h \in Handles :
              /\ Tracked(h)' => /\ Tracked(h) /\ objects'[h].type = objects[h].type
                                /\ objects'[h].parents = objects[h].parents
                                /\ objects'[h].refcount = objects[h].refcount
              /\ Tracked(h) /\ ~Tracked(h)' => objects[h].refcount = 0 /\ h \notin Roots
              /\ Framed(h)' => \/ Framed(h) /\ frames'[h].parents = frames[h].parents
                               \/ Tracked(h) /\ frames'[h].parents = objects[h].parents
    PROVE  SysInv'
<1>1. PICK t : t = mutex.owner
  OBVIOUS
<1>2. mutex # None /\ mutex.stack # <<>> /\ drv' = drv /\ call' = call /\ own' = own
  BY DEF Deleting, Sections
<1>3. t \in Threads /\ \A h : ~Making(t, h)
  BY <1>1, <1>2, OwnerCall
<1>4. \A h \in Handles \ {Null} : Linked(h)' /\ (Known(h)' => Known(h))
  BY <1>2, LinkedKept
<1>8. NullOK'
  <2>1. NullOK /\ Null \in Handles
    BY InvParts, PoolAndRoots
  <2>. QED  BY <1>2, <2>1 DEF NullOK, DriverHas
<1>5. \A h \in Roots : /\ Tracked(h) => Tracked(h)'
                       /\ Tracked(h)' => objects'[h].refcount = 0
  <2>1. \A h \in Roots : h \in Handles /\ (Tracked(h) => objects[h].refcount = 0)
    BY InvParts, PoolAndRoots DEF RootsKept
  <2>. QED  BY <2>1
<1>6. ASSUME NEW h \in Pool
      PROVE  /\ CountOf(h)' = CountOf(h) /\ CountOf(h) \in Int
             /\ TrackerShare(t, h)' = TrackerShare(t, h) /\ TrackerShare(t, h) \in Int
  <2>1. h \in Handles /\ SysTypeOK
    BY InvParts, PoolAndRoots
  <2>2. CountOf(h)' = CountOf(h) /\ CountOf(h) \in Int
    BY <2>1, RecordTyped DEF CountOf
  <2>3. /\ Requesting(t, "retain", h)' <=> Requesting(t, "retain", h)
        /\ Making(t, h)' <=> Making(t, h)
    BY <1>2, ShareKept
  <2>4. TrackerShare(t, h)' = TrackerShare(t, h)
    BY <1>2, <1>3, <2>3 DEF TrackerShare, One
  <2>5. TrackerShare(t, h) \in Int
    BY <1>3, <2>1, ShareTyped
  <2>. QED  BY <2>2, <2>4, <2>5
<1>7. \A h \in Pool : /\ Known(h)' => Known(h) \/ Making(t, h)
                      /\ CountOf(h)' - CountOf(h) = TrackerShare(t, h)' - TrackerShare(t, h)
  BY <1>4, <1>6, PoolAndRoots
<1>. QED  BY <1>1, <1>2, <1>4, <1>5, <1>7, <1>8, SectionStep

\* The walk still belongs to the release that began it.
LEMMA WalkGoesOn ==
    ASSUME SysInv, LegalUse, Deleting, Sections, mutex' # None, mutex'.owner = mutex.owner,
           mutex'.todo = mutex.todo, mutex'.stack # <<>>, mutex'.stack[1] = mutex.stack[1],
           \A i \in DOMAIN mutex'.stack :
              i > 1 => mutex'.stack[i] \in Elements(frames'[mutex'.stack[i - 1]].parents)
    PROVE  MutexOK'
<1>1. mutex # None /\ mutex.stack # <<>> /\ mutex.todo = <<>>
  BY InvParts, NothingWaits DEF Deleting
<1>2. PICK t : t = mutex.owner
  OBVIOUS
<1>3. PICK h : h = mutex.stack[1]
  OBVIOUS
<1>4. call[t] # None /\ h \in Pool /\ Requesting(t, "release", h)
  BY <1>1, <1>2, <1>3, InvParts DEF MutexOK
<1>5. call' = call
  BY DEF Sections
<1>6. call'[t] # None /\ Requesting(t, "release", h)'
  BY <1>4, <1>5 DEF Requesting, Argument1
<1>7. mutex'.owner = t /\ mutex'.stack[1] = h /\ mutex'.todo = <<>>
  BY <1>1, <1>2, <1>3
<1>8. call'[mutex'.owner] # None /\ mutex'.stack[1] \in Pool
      /\ Requesting(mutex.owner, "release", mutex.stack[1])'
  BY <1>4, <1>6, <1>7 DEF Requesting, Argument1
<1>. QED  BY <1>7, <1>8 DEF MutexOK, Elements

\* The frames of a walk after one parent has been told.
Advanced(top) == [frames EXCEPT ![top].next = @ + 1]

LEMMA FramesAdvance ==
    ASSUME TypeOK, NEW top \in Handles, frames[top] \in Frame, NEW p \in Handles, ~Framed(p),
           Tracked(p),
           frames' = Advanced(top) \/ frames' = [Advanced(top) EXCEPT ![p] = NewFrame(p)]
    PROVE  /\ \A h \in Handles : Framed(h) => /\ Framed(h)'
                                              /\ frames'[h].parents = frames[h].parents
           /\ \A h \in Handles : Framed(h)' => \/ Framed(h)
                                               \/ h = p /\ frames'[h].parents = objects[p].parents
<1>1. /\ Advanced(top) \in [Handles -> Frame \cup {None}]
      /\ \A h \in Handles : Advanced(top)[h] # None <=> Framed(h)
      /\ \A h \in Handles : Framed(h) => Advanced(top)[h].parents = frames[h].parents
  <2>1. [frames[top] EXCEPT !.next = @ + 1] \in Frame
    BY DEF Frame
  <2>2. [frames[top] EXCEPT !.next = @ + 1].parents = frames[top].parents
    BY DEF Frame
  <2>. QED  BY <2>1, <2>2, NoneAssumption DEF TypeOK, Framed, Advanced
<1>2. CASE frames' = Advanced(top)
  BY <1>1, <1>2 DEF Framed
<1>3. CASE frames' = [Advanced(top) EXCEPT ![p] = NewFrame(p)]
  <2>1. frames'[p] = NewFrame(p) /\ \A h \in Handles \ {p} : frames'[h] = Advanced(top)[h]
    BY <1>1, <1>3
  <2>2. NewFrame(p).parents = objects[p].parents
    BY NewFrameIs
  <2>3. ASSUME NEW h \in Handles \ {p}
        PROVE  /\ Framed(h)' <=> Framed(h)
               /\ Framed(h) => frames'[h].parents = frames[h].parents
    BY <1>1, <2>1 DEF Framed
  <2>. QED  BY <2>1, <2>2, <2>3
<1>. QED  BY <1>2, <1>3

LEMMA NotifyStep ==
    ASSUME SysInv, LegalUse, NotifyChildReleased, UNCHANGED <<drv, call, own>>
    PROVE  SysInv'
<1>0. SUFFICES ASSUME NEW top, top = Top, NEW n, n = frames[top].next,
                        NEW p, p = frames[top].parents[n],
                        NEW stack, stack = mutex.stack
                 PROVE  SysInv'
  OBVIOUS
<1>1. /\ ExactInv({Null}) /\ Inv /\ TypeOK /\ GraphOK({Null}) /\ Deleting /\ Sections /\ WalkInv
      /\ n <= Len(frames[top].parents)
  BY <1>0, InvParts DEF NotifyChildReleased, TopFrame, Sections, Inv
<1>2. ExactInv({Null})'
  BY <1>1, NotifyExact
<1>3. /\ top \in Handles /\ p \in Handles
      /\ <<top, n>> \in ChildEdges(p)
      /\ \A q \in Handles \ {p} : objects'[q] = objects[q]
      /\ ~Counts(p) => objects' = objects
      /\ Counts(p) =>
           \/ /\ objects[p].refcount = 0 /\ objects[p].num_children = 1
              /\ objects'[p] = None
           \/ /\ ~(objects[p].refcount = 0 /\ objects[p].num_children = 1)
              /\ objects'[p] = [objects[p] EXCEPT !.num_children = @ - 1]
  BY <1>0, <1>1, NotifyEdges
<1>4. /\ Tracked(p) /\ ~Framed(p) /\ objects[p] \in Record
      /\ frames[top] \in Frame /\ Framed(top) /\ mutex \in Held
      /\ stack \in Seq(Handles) /\ Len(stack) \in Nat \ {0} /\ top = stack[Len(stack)]
      /\ frames[top].parents \in Seq(Handles) /\ n \in Nat \ {0}
  BY <1>0, <1>1, <1>3, WalkShape, NoneAssumption DEF GraphOK, NodeOK, TypeOK, Tracked, Framed, Top
<1>5. p \in Elements(frames[top].parents)
  BY <1>0, <1>1, <1>4 DEF Elements
<1>13. DriverHas(p) /\ p # Null /\ ~Framed(Null)
  <2>1. NullOK /\ Links /\ SysTypeOK /\ Structure
    BY InvParts
  <2>2. top # Null
    BY <1>4, <2>1 DEF NullOK
  <2>3. DriverHas(top) /\ frames[top].parents = RecordedBelow(top)
    BY <1>3, <1>4, <2>1, <2>2 DEF Links, Linked, Known
  <2>4. DriverHas(p)
    BY <1>5, <2>1, <2>3, BelowInUse
  <2>. QED  BY <2>1, <2>4, NotNull DEF NullOK
<1>6. \/ frames' = Advanced(top) /\ mutex' = mutex /\ objects'[p] # None
      \/ /\ frames' = [Advanced(top) EXCEPT ![p] = NewFrame(p)]
         /\ mutex' = [mutex EXCEPT !.stack = Append(stack, p)]
  <2>1. [objects[p] EXCEPT !.num_children = @ - 1] # None
    BY <1>4, ChildLess, NoneAssumption
  <2>2. \/ frames' = Advanced(top) /\ mutex' = mutex
           /\ ~(Counts(p) /\ objects[p].refcount = 0 /\ objects[p].num_children = 1)
        \/ /\ frames' = [Advanced(top) EXCEPT ![p] = NewFrame(p)]
           /\ mutex' = [mutex EXCEPT !.stack = Append(stack, p)]
    BY <1>0 DEF NotifyChildReleased, TopFrame, Advanced
  <2>. QED  BY <1>3, <1>4, <2>1, <2>2 DEF Tracked
<1>7. /\ \A h \in Handles : Framed(h) => /\ Framed(h)'
                                         /\ frames'[h].parents = frames[h].parents
      /\ \A h \in Handles : Framed(h)' => \/ Framed(h)
                                          \/ h = p /\ frames'[h].parents = objects[p].parents
  <2>1. frames' = Advanced(top) \/ frames' = [Advanced(top) EXCEPT ![p] = NewFrame(p)]
    BY <1>6
  <2>2. TypeOK /\ top \in Handles /\ p \in Handles /\ Tracked(p) /\ ~Framed(p)
        /\ frames[top] \in Frame
    BY <1>1, <1>3, <1>4
  <2>. QED  BY <2>1, <2>2, FramesAdvance
<1>8. \A h \in Handles :
        /\ Tracked(h)' => /\ Tracked(h) /\ objects'[h].type = objects[h].type
                          /\ objects'[h].parents = objects[h].parents
                          /\ objects'[h].refcount = objects[h].refcount
        /\ Tracked(h) /\ ~Tracked(h)' => objects[h].refcount = 0 /\ h \notin Roots
  <2>1. ASSUME Tracked(p)'
        PROVE  /\ objects'[p].type = objects[p].type
               /\ objects'[p].parents = objects[p].parents
               /\ objects'[p].refcount = objects[p].refcount
    <3>1. objects'[p] # None
      BY <2>1 DEF Tracked
    <3>2. objects'[p] = objects[p] \/ objects'[p] = [objects[p] EXCEPT !.num_children = @ - 1]
      BY <1>3, <3>1
    <3>. QED  BY <1>4, <3>2, ChildLess
  <2>2. ASSUME ~Tracked(p)'
        PROVE  objects[p].refcount = 0 /\ p \notin Roots
    <3>1. objects'[p] = None
      BY <1>3, <2>2 DEF Tracked
    <3>2. objects[p] # None /\ [objects[p] EXCEPT !.num_children = @ - 1] # None
      BY <1>4, ChildLess, NoneAssumption DEF Tracked
    <3>3. Counts(p) /\ objects[p].refcount = 0
      BY <1>3, <3>1, <3>2
    <3>4. p \in Roots => objects[p].type \in RootTypes
      BY <1>3, <1>4, <1>13, InvParts, RootIsAlive DEF Links, Linked, Known
    <3>. QED  BY <3>3, <3>4 DEF Counts, IsCounted
  <2>3. \A h \in Handles \ {p} : (Tracked(h)' <=> Tracked(h)) /\ objects'[h] = objects[h]
    BY <1>3 DEF Tracked
  <2>. QED  BY <1>4, <2>1, <2>2, <2>3
<1>9. \A h \in Handles : Framed(h)' => \/ Framed(h) /\ frames'[h].parents = frames[h].parents
                                       \/ Tracked(h) /\ frames'[h].parents = objects[h].parents
  BY <1>4, <1>7
<1>10. /\ \A i \in DOMAIN stack : stack[i] \in Handles /\ Framed(stack[i])
       /\ \A i \in DOMAIN stack : i > 1 => stack[i] \in Elements(frames[stack[i - 1]].parents)
       /\ mutex # None /\ stack # <<>> /\ DOMAIN stack = 1 .. Len(stack)
  <2>1. mutex # None /\ mutex.stack # <<>>
    BY <1>0, <1>1 DEF Deleting
  <2>2. \A i \in DOMAIN stack : stack[i] \in Handles
    BY <1>4
  <2>3. \A i \in DOMAIN stack : Framed(stack[i])
    BY <1>0, <1>1, <2>1, <2>2 DEF WalkInv, StackIsFrames
  <2>4. \A i \in DOMAIN stack : i > 1 => stack[i] \in Elements(frames[stack[i - 1]].parents)
    BY <1>0, <2>1, InvParts DEF MutexOK
  <2>. QED  BY <1>0, <1>4, <2>1, <2>2, <2>3, <2>4
<1>11. \A i \in DOMAIN stack : i > 1 => stack[i] \in Elements(frames'[stack[i - 1]].parents)
  <2> SUFFICES ASSUME NEW i \in DOMAIN stack, i > 1
               PROVE  stack[i] \in Elements(frames'[stack[i - 1]].parents)
    OBVIOUS
  <2>1. i - 1 \in DOMAIN stack
    BY <1>4, <1>10
  <2>2. PICK g : g = stack[i - 1]
    OBVIOUS
  <2>3. g \in Handles /\ Framed(g) /\ stack[i] \in Elements(frames[g].parents)
    BY <1>10, <2>1, <2>2
  <2>4. frames'[g].parents = frames[g].parents
    BY <1>7, <2>3
  <2>. QED  BY <2>2, <2>3, <2>4
<1>12. MutexOK' /\ (mutex' # None => mutex'.owner = mutex.owner)
  <2>1. CASE mutex' = mutex
    <3>1. \A i \in DOMAIN mutex'.stack :
              i > 1 => mutex'.stack[i] \in Elements(frames'[mutex'.stack[i - 1]].parents)
      BY <1>0, <1>11, <2>1
    <3>. QED  BY <1>0, <1>1, <1>10, <2>1, <3>1, WalkGoesOn
  <2>2. CASE mutex' = [mutex EXCEPT !.stack = Append(stack, p)]
    <3> DEFINE longer == Append(stack, p)
    <3>1. /\ longer \in Seq(Handles) /\ Len(longer) = Len(stack) + 1
          /\ \A i \in 1 .. Len(stack) : longer[i] = stack[i]
          /\ longer[Len(stack) + 1] = p
      <4>1. stack \in Seq(Handles) /\ p \in Handles
        BY <1>3, <1>4
      <4>. QED  BY <4>1
    <3>2. DOMAIN longer = 1 .. Len(stack) + 1
      <4>1. \A s \in Seq(Handles) : DOMAIN s = 1 .. Len(s)
        OBVIOUS
      <4>. QED  BY <3>1, <4>1
    <3>3. longer # <<>> /\ longer[1] = stack[1]
      <4>0. Len(stack) \in Nat /\ Len(stack) >= 1
        BY <1>4
      <4>1. 1 \in 1 .. Len(stack) /\ Len(longer) # 0
        BY <3>1, <4>0
      <4>2. Len(<<>>) = 0
        OBVIOUS
      <4>3. longer # <<>>
        BY <4>1, <4>2, Zenon
      <4>. QED  BY <3>1, <4>1, <4>3
    <3> HIDE DEF longer
    <3>4. mutex' = [mutex EXCEPT !.stack = longer]
      BY <2>2 DEF longer
    <3>5. /\ mutex' \in Held /\ mutex'.stack = longer
          /\ mutex'.owner = mutex.owner /\ mutex'.todo = mutex.todo
      BY <1>0, <1>4, <3>1, <3>4 DEF Held
    <3>6. mutex' # None
      BY <3>5, NoneAssumption
    <3>7. ASSUME NEW i \in DOMAIN longer, i > 1
          PROVE  longer[i] \in Elements(frames'[longer[i - 1]].parents)
      <4>1. CASE i = Len(stack) + 1
        <5>1. i - 1 = Len(stack) /\ Len(stack) \in 1 .. Len(stack)
          BY <1>4, <4>1
        <5>2. longer[i] = p /\ longer[i - 1] = top
          BY <1>4, <3>1, <4>1, <5>1
        <5>3. frames'[top].parents = frames[top].parents
          BY <1>3, <1>4, <1>7
        <5>. QED  BY <1>5, <5>2, <5>3
      <4>2. CASE i # Len(stack) + 1
        <5>1. i \in 1 .. Len(stack) /\ i - 1 \in 1 .. Len(stack)
          BY <1>4, <3>2, <3>7, <4>2
        <5>2. longer[i] = stack[i] /\ longer[i - 1] = stack[i - 1] /\ i \in DOMAIN stack
          BY <1>10, <3>1, <5>1
        <5>. QED  BY <1>11, <3>7, <5>2
      <4>. QED  BY <4>1, <4>2
    <3>8. \A i \in DOMAIN mutex'.stack :
              i > 1 => mutex'.stack[i] \in Elements(frames'[mutex'.stack[i - 1]].parents)
      BY <3>5, <3>7
    <3>. QED  BY <1>0, <1>1, <3>3, <3>5, <3>6, <3>8, WalkGoesOn
  <2>. QED  BY <1>6, <2>1, <2>2
<1>14. ~Framed(Null)'
  BY <1>7, <1>13, PoolAndRoots
<1>. QED  BY <1>1, <1>2, <1>8, <1>9, <1>12, <1>14, WalkStep

LEMMA ReturnToCallerStep ==
    ASSUME SysInv, LegalUse, ReturnToCaller, UNCHANGED <<drv, call, own>>
    PROVE  SysInv'
<1> SUFFICES ASSUME NEW top, top = Top, NEW stack, stack = mutex.stack, NEW n, n = Len(stack)
             PROVE  SysInv'
  OBVIOUS
<1>1. /\ ExactInv({Null}) /\ Inv /\ TypeOK /\ Deleting /\ Sections /\ WalkInv
      /\ objects' = objects /\ n > 1 /\ mutex # None /\ mutex.stack # <<>>
  BY InvParts DEF ReturnToCaller, Sections, Deleting, Inv
<1>2. ExactInv({Null})'
  BY <1>1, ReturnToCallerExact
<1>3. /\ top \in Handles /\ mutex \in Held /\ stack \in Seq(Handles) /\ n \in Nat \ {0}
      /\ top = stack[n]
  BY <1>1, WalkShape DEF Top
<1> DEFINE shorter == SubSeq(stack, 1, n - 1)
<1>4. /\ shorter \in Seq(Handles) /\ DOMAIN shorter = 1 .. (n - 1)
      /\ \A i \in 1 .. (n - 1) : shorter[i] = stack[i]
  BY <1>1, <1>3
<1>5. shorter # <<>> /\ shorter[1] = stack[1]
  <2>1. 1 \in 1 .. (n - 1)
    BY <1>1, <1>3
  <2>2. 1 \in DOMAIN shorter /\ shorter[1] = stack[1]
    BY <1>4, <2>1
  <2> HIDE DEF shorter
  <2>. QED  BY <2>2
<1>6. /\ mutex' = [mutex EXCEPT !.stack = shorter]
      /\ frames' = [frames EXCEPT ![top] = None]
  BY DEF ReturnToCaller
<1> HIDE DEF shorter
<1>7. /\ mutex' \in Held /\ mutex'.stack = shorter
      /\ mutex'.owner = mutex.owner /\ mutex'.todo = mutex.todo
  BY <1>3, <1>4, <1>6 DEF Held
<1>8. mutex' # None
  BY <1>7, NoneAssumption
<1>9. frames'[top] = None /\ \A h \in Handles \ {top} : frames'[h] = frames[h]
  BY <1>1, <1>3, <1>6 DEF TypeOK
<1>10. \A h \in Handles :
         /\ Tracked(h)' <=> Tracked(h)
         /\ Framed(h)' => Framed(h) /\ frames'[h].parents = frames[h].parents
  BY <1>1, <1>9 DEF Tracked, Framed
<1>11. ASSUME NEW i \in DOMAIN shorter, i > 1
       PROVE  shorter[i] \in Elements(frames'[shorter[i - 1]].parents)
  <2>1. /\ i \in DOMAIN stack /\ i - 1 \in DOMAIN stack /\ i - 1 # n
        /\ shorter[i] = stack[i] /\ shorter[i - 1] = stack[i - 1]
        /\ n \in DOMAIN stack
    BY <1>3, <1>4, <1>11
  <2>2. stack[i] \in Elements(frames[stack[i - 1]].parents)
    BY <1>1, <1>11, <2>1, InvParts DEF MutexOK
  <2>3. PICK g : g = stack[i - 1]
    OBVIOUS
  <2>4. g # top
    BY <1>1, <1>3, <2>1, <2>3 DEF WalkInv, StackIsFrames
  <2>5. g \in Handles
    BY <1>3, <2>1, <2>3
  <2>. QED  BY <1>9, <2>1, <2>2, <2>3, <2>4, <2>5
<1>12. MutexOK'
  <2>1. \A i \in DOMAIN mutex'.stack :
            i > 1 => mutex'.stack[i] \in Elements(frames'[mutex'.stack[i - 1]].parents)
    BY <1>7, <1>11
  <2>. QED  BY <1>1, <1>5, <1>7, <1>8, <2>1, WalkGoesOn
<1>13. ~Framed(Null)'
  BY <1>10, InvParts, PoolAndRoots DEF NullOK
<1>. QED  BY <1>1, <1>2, <1>7, <1>10, <1>12, <1>13, WalkStep

\* The record whose reference was released goes last.
LEMMA FinishDeleteStep ==
    ASSUME SysInv, LegalUse, FinishDelete, UNCHANGED <<drv, call, own>>
    PROVE  SysInv'
<1> SUFFICES ASSUME NEW h, h = Top
             PROVE  SysInv'
  OBVIOUS
<1>1. /\ ExactInv({Null}) /\ Inv /\ GraphOK({Null}) /\ Deleting /\ Sections /\ mutex.todo = <<>>
  BY InvParts, NothingWaits DEF FinishDelete, Sections
<1>2. objects' = [objects EXCEPT ![h] = None] /\ mutex' = None
  BY <1>1 DEF FinishDelete
<1>3. /\ h \in Handles /\ Tracked(h) /\ h = mutex.stack[1]
      /\ mutex # None /\ mutex.stack # <<>>
      /\ \A g \in Handles : Framed(g) <=> g = h
      /\ \A g \in Handles : ~Framed(g)'
  BY <1>1, FinishShape
<1>4. /\ objects'[h] = None
      /\ \A q \in Handles \ {h} : objects'[q] = objects[q]
  BY <1>1, <1>2, EraseEdges
<1>5. ExactInv({Null})'
  BY <1>1, FinishDeleteExact
<1>6. h \notin Roots
  <2>1. mutex.stack[1] \in Pool
    BY <1>3, OwnerCall
  <2>. QED  BY <1>3, <2>1, PoolAndRoots
<1>7. objects[h].refcount = 0
  BY <1>1, <1>3 DEF GraphOK, NodeOK
<1>8. \A g \in Handles :
        /\ Tracked(g)' => /\ Tracked(g) /\ objects'[g].type = objects[g].type
                          /\ objects'[g].parents = objects[g].parents
                          /\ objects'[g].refcount = objects[g].refcount
        /\ Tracked(g) /\ ~Tracked(g)' => objects[g].refcount = 0 /\ g \notin Roots
  BY <1>4, <1>6, <1>7 DEF Tracked
<1>9. MutexOK'
  BY <1>2 DEF MutexOK
<1>10. ~Framed(Null)'
  BY <1>3, PoolAndRoots
<1>. QED  BY <1>1, <1>2, <1>3, <1>5, <1>8, <1>9, <1>10, WalkStep

\* The records that wait once the first is in the map.
LEMMA RestOfTodo ==
    ASSUME TypeOK, PendingFresh, mutex # None, mutex.stack = <<>>,
           NEW todo \in Seq(Pending), todo = mutex.todo, todo # <<>>,
           mutex' = AfterInsertion(Tail(todo)), NEW h, h = todo[1].handle
    PROVE  /\ mutex' # None =>
                /\ mutex'.owner = mutex.owner /\ mutex'.stack = <<>>
                /\ \A i \in DOMAIN mutex'.todo :
                     i + 1 \in DOMAIN todo /\ mutex'.todo[i] = todo[i + 1]
           /\ \A g : g # h =>
                ((\E p \in Elements(todo) : p.handle = g) <=>
                    mutex' # None /\ \E p \in Elements(mutex'.todo) : p.handle = g)
           /\ mutex' # None => ~\E p \in Elements(mutex'.todo) : p.handle = h
<1> DEFINE rest == Tail(todo)
<1>1. /\ 1 \in DOMAIN todo /\ rest \in Seq(Pending)
      /\ \A i \in DOMAIN rest : i + 1 \in DOMAIN todo /\ i + 1 # 1 /\ rest[i] = todo[i + 1]
      /\ \A i \in DOMAIN todo : i # 1 => i - 1 \in DOMAIN rest /\ todo[i] = rest[i - 1]
  OBVIOUS
<1>2. rest = <<>> => DOMAIN rest = {}
  OBVIOUS
<1>3. mutex' = IF rest = <<>> THEN None ELSE [owner |-> mutex.owner, stack |-> <<>>, todo |-> rest]
  BY DEF AfterInsertion
<1> HIDE DEF rest
<1>4. mutex' # None =>
        rest # <<>> /\ mutex'.owner = mutex.owner /\ mutex'.stack = <<>> /\ mutex'.todo = rest
  BY <1>3
<1>5. rest # <<>> => mutex' # None
  <2>1. [owner |-> mutex.owner, stack |-> <<>>, todo |-> rest] \in Held
    BY <1>1, HeldType DEF Held
  <2>. QED  BY <1>3, <2>1, NoneAssumption
<1>6. \A i \in DOMAIN todo : i # 1 => todo[i].handle # h
  BY <1>1 DEF PendingFresh
<1>7. ASSUME NEW i \in DOMAIN rest
      PROVE  rest[i].handle # h
  BY <1>1, <1>6
<1>8. ASSUME NEW g, g # h
      PROVE  (\E p \in Elements(todo) : p.handle = g) <=> \E p \in Elements(rest) : p.handle = g
  <2>1. ASSUME NEW i \in DOMAIN todo, todo[i].handle = g
        PROVE  \E p \in Elements(rest) : p.handle = g
    <3>1. i - 1 \in DOMAIN rest /\ rest[i - 1].handle = g
      BY <1>1, <1>8, <2>1
    <3>. QED  BY <3>1 DEF Elements
  <2>2. ASSUME NEW i \in DOMAIN rest, rest[i].handle = g
        PROVE  \E p \in Elements(todo) : p.handle = g
    BY <1>1, <2>2 DEF Elements
  <2>. QED  BY <2>1, <2>2 DEF Elements
<1>. QED  BY <1>1, <1>2, <1>4, <1>5, <1>7, <1>8 DEF Elements

\* A created object gets its record: its maker's reference is now one the
\* tracker counts.
LEMMA CreateNextStep ==
    ASSUME SysInv, LegalUse, CreateNext, UNCHANGED <<drv, call, own>>
    PROVE  SysInv'
<1> SUFFICES ASSUME NEW todo, todo = mutex.todo, NEW h, h = todo[1].handle,
                    NEW new, new = todo[1].new, NEW t, t = mutex.owner
             PROVE  SysInv'
  OBVIOUS
<1>1. /\ ExactInv({Null}) /\ Inv /\ TypeOK /\ SysTypeOK /\ PendingFresh /\ Links /\ RootsKept /\ MutexOK
      /\ mutex # None /\ mutex.stack = <<>> /\ todo # <<>> /\ todo \in Seq(Pending)
      /\ \A g \in Handles : ~Framed(g)
  BY HeldType, InvParts DEF CreateNext, Inv, WalkInv, StackIsFrames
<1>2. /\ Head(todo) = todo[1] /\ 1 \in DOMAIN todo /\ todo[1] \in Elements(todo)
      /\ h \in Handles /\ new \in NewObject
  <2>1. Head(todo) = todo[1] /\ 1 \in DOMAIN todo /\ todo[1] \in Pending
    BY <1>1
  <2>. QED  BY <2>1 DEF Pending, Elements
<1>3. ~Tracked(h) /\ new.refcount = 1
  BY <1>1, <1>2 DEF PendingFresh
<1>4. /\ objects' = InsertObject(objects, h, new)
      /\ mutex' = AfterInsertion(Tail(todo))
      /\ UNCHANGED frames /\ UNCHANGED ret /\ UNCHANGED leaks
  BY <1>2, <1>3 DEF CreateNext, Retained
<1>5. ExactInv({Null})' /\ Sections
  BY <1>1, <1>4, CreateNextExact DEF Sections
<1>6. PendingOK(t, todo[1])
  BY <1>1, <1>2 DEF MutexOK
<1>7. /\ t \in Threads /\ call[t] # None
      /\ call[t].stage = "return" /\ call[t].fn.makes # NOTHING
  BY <1>1, OwnerCall DEF MutexOK
<1>8. Making(t, h)
  BY <1>6, <1>7 DEF PendingOK, Making
<1>9. h \in Pool /\ DriverHas(h)
  BY <1>7, <1>8, MadeIsAlive
<1>10. new.type = drv[h].type /\ new.parents = RecordedBelow(h)
  BY <1>6 DEF PendingOK
<1>11. /\ Tracked(h)' /\ CountOf(h) = 0 /\ CountOf(h)' = 1
       /\ NullOK' /\ \A g \in Handles \ {Null} : Linked(g)'
       /\ \A g \in Handles \ {h} :
            /\ Tracked(g)' <=> Tracked(g)
            /\ Known(g)' <=> Known(g)
            /\ Tracked(g) => objects'[g].refcount = objects[g].refcount
            /\ CountOf(g)' = CountOf(g)
  BY <1>1, <1>2, <1>3, <1>4, <1>9, <1>10, RecordInserted
<1>12. /\ mutex' # None =>
            /\ mutex'.owner = mutex.owner /\ mutex'.stack = <<>>
            /\ \A i \in DOMAIN mutex'.todo :
                 i + 1 \in DOMAIN todo /\ mutex'.todo[i] = todo[i + 1]
       /\ \A g : g # h =>
            ((\E p \in Elements(todo) : p.handle = g) <=>
                mutex' # None /\ \E p \in Elements(mutex'.todo) : p.handle = g)
       /\ mutex' # None => ~\E p \in Elements(mutex'.todo) : p.handle = h
  BY <1>1, <1>4, RestOfTodo
<1>13. MutexOK'
  <2> SUFFICES ASSUME mutex' # None
               PROVE  MutexOK'
    BY DEF MutexOK
  <2>1. ASSUME NEW i \in DOMAIN mutex'.todo
        PROVE  PendingOK(t, mutex.todo[i])'
    <3>1. i + 1 \in DOMAIN todo /\ mutex'.todo[i] = todo[i + 1]
      BY <1>12, <2>1
    <3>2. PendingOK(t, todo[i + 1])
      BY <1>1, <3>1 DEF MutexOK
    <3>3. PICK p : p = todo[i + 1]
      OBVIOUS
    <3>4. p = mutex'.todo[i]
      BY <3>1, <3>3
    <3>5. PendingOK(t, p)
      BY <3>2, <3>3
    <3>6. PendingOK(t, p)'
      BY <3>5 DEF PendingOK, RecordedBelow
    <3>. QED  BY <3>4, <3>6 DEF PendingOK, RecordedBelow
  <2>2. DOMAIN mutex'.stack = {}
    BY <1>12
  <2>. QED  BY <1>7, <1>12, <2>1, <2>2 DEF MutexOK
<1>14. ASSUME NEW g \in Pool
       PROVE  CountOf(g)' - CountOf(g) = TrackerShare(t, g)' - TrackerShare(t, g)
  <2>1. g \in Handles
    BY PoolAndRoots
  <2>2. /\ Requesting(t, "retain", g)' <=> Requesting(t, "retain", g)
        /\ Making(t, g)' <=> Making(t, g)
        /\ own'[t][g] = own[t][g] /\ own[t][g] \in Nat
    BY <1>1, <1>7, <2>1, OwnTyped DEF Requesting, Argument1, Making
  <2>3. ToRegister(t, g) <=> Making(t, g) /\ \E p \in Elements(todo) : p.handle = g
    BY <1>1, <1>7 DEF ToRegister, Holds
  <2>4. ToRegister(t, g)' <=>
          Making(t, g) /\ mutex' # None /\ \E p \in Elements(mutex'.todo) : p.handle = g
    <3>1. Holds(t)' <=> mutex' # None
      BY <1>12 DEF Holds
    <3>. QED  BY <1>7, <2>2, <3>1 DEF ToRegister, Elements
  <2>5. CASE g = h
    <3>1. ToRegister(t, g) /\ ~ToRegister(t, g)'
      BY <1>2, <1>8, <1>12, <2>3, <2>4, <2>5
    <3>. QED  BY <1>8, <1>11, <2>2, <2>5, <3>1 DEF TrackerShare, One
  <2>6. CASE g # h
    <3>1. ToRegister(t, g)' <=> ToRegister(t, g)
      BY <1>12, <2>3, <2>4, <2>6
    <3>2. TrackerShare(t, g)' = TrackerShare(t, g) /\ TrackerShare(t, g) \in Nat
      BY <2>2, <3>1 DEF TrackerShare, One
    <3>3. CountOf(g)' = CountOf(g) /\ CountOf(g) \in Int
      BY <1>1, <1>11, <2>1, <2>6, RecordTyped DEF CountOf
    <3>. QED  BY <3>2, <3>3
  <2>. QED  BY <2>5, <2>6
<1>15. \A g \in Roots : /\ Tracked(g) => Tracked(g)'
                        /\ Tracked(g)' => objects'[g].refcount = 0
  BY <1>1, <1>9, <1>11, PoolAndRoots DEF RootsKept
<1>16. \A g \in Pool : Known(g)' => Known(g) \/ Making(t, g)
  BY <1>8, <1>11, PoolAndRoots
<1>17. mutex' # None => mutex'.owner = t
  BY <1>12
<1>. QED
  BY <1>1, <1>5, <1>11, <1>13, <1>14, <1>15, <1>16, <1>17, SectionStep

-----------------------------------------------------------------------------
(***************************************************************************)
(* The driver gives memory back, the program ends, the program starts.     *)
(***************************************************************************)

LEMMA DriverFreeStep ==
    ASSUME SysInv, LegalUse, NEW f \in Pool, DriverFree(f)
    PROVE  SysInv'
<1>1. /\ Inv /\ SysTypeOK /\ Structure /\ Balance /\ RootsKept /\ Calls /\ MutexOK
  BY InvParts
<1>2. /\ DriverHas(f) /\ ~Alive(f) /\ f \in Handles /\ f \notin Roots
      /\ UNCHANGED vars /\ UNCHANGED <<call, own>>
      /\ drv' = [drv EXCEPT ![f] = None]
  BY PoolAndRoots DEF DriverFree
<1>3. UNCHANGED <<objects, deleted, frames, mutex, ret, leaks>>
  BY <1>2 DEF vars
<1>4. /\ drv' \in [Handles -> DriverObject \cup {None}] /\ drv'[f] = None
      /\ \A h \in Handles \ {f} : drv'[h] = drv[h]
  BY <1>1, <1>2 DEF SysTypeOK
<1>5. SysTypeOK'
  <2>1. TypeOK'
    BY <1>1, <1>2, StutterInv DEF Inv
  <2>. QED  BY <1>1, <1>2, <1>4, <2>1 DEF SysTypeOK
<1>6. \A h \in Handles \ {f} : DriverHas(h) => SameObject(h)
  BY <1>4 DEF DriverHas, SameObject
<1>7. DriverKeeps
  BY <1>2, <1>6 DEF DriverKeeps, Alive
<1>8. \A h \in Handles : DriverHas(h)' => DriverHas(h) /\ SameObject(h)
  <2>1. ~DriverHas(f)'
    BY <1>4 DEF DriverHas
  <2>2. \A h \in Handles \ {f} : DriverHas(h)' => DriverHas(h)
    BY <1>4 DEF DriverHas
  <2>. QED  BY <1>6, <2>1, <2>2
<1>9. Structure'
  BY <1>1, <1>7, <1>8, StructureKept
<1>10. ASSUME NEW h \in Pool
       PROVE  Refs(h)' = Refs(h) /\ CountOf(h)' = CountOf(h)
  <2>1. h \in Handles
    BY PoolAndRoots
  <2>2. CountOf(h)' = CountOf(h)
    BY <1>3 DEF CountOf, Tracked
  <2>3. CASE h = f
    <3>1. drv[f].refs \in Nat /\ ~(drv[f].refs > 0)
      BY <1>1, <1>2, ObjectTyped DEF Alive
    <3>2. Refs(f) = 0
      BY <3>1 DEF Refs
    <3>3. Refs(f)' = 0
      BY <1>4 DEF Refs, DriverHas
    <3>. QED  BY <2>2, <2>3, <3>2, <3>3
  <2>4. CASE h # f
    BY <1>4, <2>1, <2>2, <2>4 DEF Refs, DriverHas
  <2>. QED  BY <2>3, <2>4
<1>11. Balance'
  BY <1>1, <1>2, <1>3, <1>10, BalanceSame
<1>12. ASSUME NEW u \in Threads, NEW h \in Pool, Making(u, h), Fresh(h)
       PROVE  Fresh(h)'
  <2>1. Alive(h) /\ DriverHas(h) /\ h \in Handles /\ h # f
    BY <1>2, <1>12, MadeIsAlive
  <2>2. drv'[h] = drv[h]
    BY <1>4, <2>1
  <2>3. ~InUse(h)'
    <3>1. ~InUse(h)
      BY <1>12 DEF Fresh
    <3>2. ASSUME NEW c \in Handles, DriverHas(c)', h \in Elements(drv'[c].on)
          PROVE  FALSE
      BY <1>8, <3>1, <3>2 DEF InUse, SameObject
    <3>. QED  BY <3>2 DEF InUse, Elements
  <2>4. ~Known(h)'
    BY <1>3, <1>12 DEF Fresh, Known, Tracked, Framed
  <2>. QED  BY <1>12, <2>2, <2>3, <2>4 DEF Fresh
<1>13. \A h \in Roots : /\ drv'[h] = drv[h]
                        /\ \A t \in Threads : own'[t][h] > 0 => own[t][h] > 0 \/ Tracked(h)
  BY <1>2, <1>4, PoolAndRoots
<1>14. NullOK'
  <2>1. drv'[Null] = drv[Null]
    BY <1>2, <1>4, PoolAndRoots
  <2>. QED  BY <1>2, <1>3, <2>1, InvParts, NullKept
<1>15. PICK acting \in SUBSET Threads : acting = {}
  OBVIOUS
<1>16. /\ \A u \in Threads \ acting :
             call'[u] = call[u] /\ \A h \in Handles : own[u][h] > 0 => own'[u][h] > 0
       /\ \A u \in Threads \ acting : \A h \in Pool :
             Making(u, h) /\ Fresh(h) /\ call[u].stage = "post" => Fresh(h)'
       /\ \A t \in acting : call'[t] # None => CallOK(t)'
       /\ mutex # None => mutex.owner \notin acting
       /\ leaks = None \/ UNCHANGED <<call, own>>
  BY <1>2, <1>12, <1>15
<1>. QED
  BY <1>2, <1>5, <1>7, <1>9, <1>11, <1>13, <1>14, <1>16, DriverSide

LEMMA StoppedStep ==
    ASSUME SysInv, LegalUse, UNCHANGED sysVars
    PROVE  SysInv'
<1>1. /\ UNCHANGED vars /\ UNCHANGED <<drv, call, own>>
      /\ Inv /\ SysTypeOK /\ Structure /\ Balance /\ RootsKept
  BY InvParts DEF sysVars, vars
<1>2. UNCHANGED <<objects, deleted, frames, mutex, ret, leaks>>
  BY DEF sysVars
<1>3. SysTypeOK'
  <2>1. TypeOK'
    BY <1>1, StutterInv DEF Inv
  <2>. QED  BY <1>1, <2>1 DEF SysTypeOK
<1>4. \A h \in Handles : DriverHas(h) => SameObject(h)
  BY <1>1 DEF DriverHas, SameObject
<1>5. \A h \in Handles : DriverHas(h)' => DriverHas(h)
  BY <1>1 DEF DriverHas
<1>6. DriverKeeps
  BY <1>4 DEF DriverKeeps, Alive
<1>7. Structure'
  BY <1>1, <1>4, <1>5, <1>6, StructureKept
<1>8. \A h \in Pool : Refs(h)' = Refs(h) /\ CountOf(h)' = CountOf(h)
  BY <1>1, <1>2 DEF Refs, CountOf, Tracked, DriverHas
<1>9. Balance'
  BY <1>1, <1>2, <1>8, BalanceSame
<1>10. \A h : Fresh(h)' <=> Fresh(h)
  BY <1>1, <1>2 DEF Fresh, InUse, Known, Tracked, Framed, DriverHas, Elements
<1>11. PICK acting \in SUBSET Threads : acting = {}
  OBVIOUS
<1>12. /\ \A u \in Threads \ acting :
             call'[u] = call[u] /\ \A h \in Handles : own[u][h] > 0 => own'[u][h] > 0
       /\ \A u \in Threads \ acting : \A h \in Pool :
             Making(u, h) /\ Fresh(h) /\ call[u].stage = "post" => Fresh(h)'
       /\ \A t \in acting : call'[t] # None => CallOK(t)'
       /\ mutex # None => mutex.owner \notin acting
       /\ leaks = None \/ UNCHANGED <<call, own>>
       /\ \A h \in Roots : /\ drv'[h] = drv[h]
                           /\ \A t \in Threads : own'[t][h] > 0 => own[t][h] > 0 \/ Tracked(h)
  BY <1>1, <1>10, <1>11
<1>13. NullOK'
  BY <1>1, <1>2, InvParts, NullKept
<1>. QED
  BY <1>1, <1>3, <1>6, <1>7, <1>9, <1>12, <1>13, DriverSide

\* One more here is one less there: the balance does not see a reference
\* move from thread t to thread u.
LEMMA BalanceShifts ==
    ASSUME SysTypeOK, SysTypeOK', Balance, UNCHANGED <<vars, drv, call>>,
           NEW t \in Threads, NEW u \in Threads, t # u, NEW h \in Pool,
           own'[t][h] = own[t][h] - 1, own'[u][h] = own[u][h] + 1,
           \A x \in Threads, g \in Handles :
              (x \notin {t, u} \/ g # h) => own'[x][g] = own[x][g]
    PROVE  Balance'
<1> SUFFICES ASSUME NEW g \in Pool
             PROVE  DriverBalance(g)' /\ (leaks' = None => TrackerBalance(g)')
  BY DEF Balance
<1>1. g \in Handles /\ IsFiniteSet(Threads)
  BY PoolAndRoots
<1>2. DriverBalance(g) /\ (leaks' = None => TrackerBalance(g))
  BY DEF Balance, vars
<1>3. Refs(g)' = Refs(g) /\ CountOf(g)' = CountOf(g)
  BY DEF Refs, DriverHas, CountOf, Tracked, vars
<1>4. ASSUME NEW x \in Threads
      PROVE  /\ DriverShare(x, g) \in Nat /\ TrackerShare(x, g) \in Nat
             /\ DriverShare(x, g)' = DriverShare(x, g) + own'[x][g] - own[x][g]
             /\ TrackerShare(x, g)' = TrackerShare(x, g) + own'[x][g] - own[x][g]
             /\ own[x][g] \in Nat /\ own'[x][g] \in Nat
  <2>1. /\ Requesting(x, "release", g)' <=> Requesting(x, "release", g)
        /\ Requesting(x, "retain", g)' <=> Requesting(x, "retain", g)
        /\ Making(x, g)' <=> Making(x, g)
        /\ ToRegister(x, g)' <=> ToRegister(x, g)
    BY DEF Requesting, Argument1, Making, ToRegister, Holds, Elements, vars
  <2>2. own[x][g] \in Nat /\ own'[x][g] \in Nat
    BY <1>1 DEF SysTypeOK
  <2>3. DriverShare(x, g) \in Nat /\ TrackerShare(x, g) \in Nat
    BY <1>1, ShareTyped
  <2>4. \A b \in BOOLEAN : One(b) \in Nat
    BY DEF One
  <2>5. DriverShare(x, g)' = DriverShare(x, g) + own'[x][g] - own[x][g]
    BY <2>1, <2>2, <2>4 DEF DriverShare, One
  <2>6. TrackerShare(x, g)' = TrackerShare(x, g) + own'[x][g] - own[x][g]
    BY <2>1, <2>2, <2>4 DEF TrackerShare, One
  <2>. QED  BY <2>2, <2>3, <2>5, <2>6
<1> DEFINE driver == [x \in Threads |-> DriverShare(x, g)]
           driverNow == [x \in Threads |-> DriverShare(x, g)']
           tracker == [x \in Threads |-> TrackerShare(x, g)]
           trackerNow == [x \in Threads |-> TrackerShare(x, g)']
<1>5. \A x \in Threads :
        /\ driver[x] \in Int /\ driverNow[x] \in Int
        /\ tracker[x] \in Int /\ trackerNow[x] \in Int
        /\ driverNow[x] = driver[x] + own'[x][g] - own[x][g]
        /\ trackerNow[x] = tracker[x] + own'[x][g] - own[x][g]
  BY <1>4
<1> HIDE DEF driver, driverNow, tracker, trackerNow
<1>6. /\ \A x \in Threads \ {t, u} : own'[x][g] = own[x][g]
      /\ own'[t][g] - own[t][g] = -(own'[u][g] - own[u][g])
  BY <1>1, <1>4
<1>7. SumFunctionOnSet(driverNow, Threads) = SumFunctionOnSet(driver, Threads)
  <2>1. /\ \A x \in Threads \ {t, u} : driverNow[x] = driver[x]
        /\ driverNow[t] + driverNow[u] = driver[t] + driver[u]
    BY <1>4, <1>5, <1>6
  <2>2. \A x \in Threads : driver[x] \in Int /\ driverNow[x] \in Int
    BY <1>5
  <2>3. SUFFICES ASSUME NEW a, NEW b, a = driver, b = driverNow
                 PROVE  SumFunctionOnSet(b, Threads) = SumFunctionOnSet(a, Threads)
    OBVIOUS
  <2>. QED  BY <1>1, <2>1, <2>2, <2>3, SumShifts
<1>8. SumFunctionOnSet(trackerNow, Threads) = SumFunctionOnSet(tracker, Threads)
  <2>1. /\ \A x \in Threads \ {t, u} : trackerNow[x] = tracker[x]
        /\ trackerNow[t] + trackerNow[u] = tracker[t] + tracker[u]
    BY <1>4, <1>5, <1>6
  <2>2. \A x \in Threads : tracker[x] \in Int /\ trackerNow[x] \in Int
    BY <1>5
  <2>3. SUFFICES ASSUME NEW a, NEW b, a = tracker, b = trackerNow
                 PROVE  SumFunctionOnSet(b, Threads) = SumFunctionOnSet(a, Threads)
    OBVIOUS
  <2>. QED  BY <1>1, <2>1, <2>2, <2>3, SumShifts
<1>9. DriverBalance(g)'
  <2>1. Refs(g) = SumFunctionOnSet(driver, Threads)
    BY <1>2 DEF DriverBalance, Total, driver
  <2>. QED  BY <1>3, <1>7, <2>1 DEF DriverBalance, Total, driverNow
<1>10. ASSUME leaks' = None
       PROVE  TrackerBalance(g)'
  <2>1. CountOf(g) = SumFunctionOnSet(tracker, Threads)
    BY <1>2, <1>10 DEF TrackerBalance, Total, tracker
  <2>. QED  BY <1>3, <1>8, <2>1 DEF TrackerBalance, Total, trackerNow
<1>. QED  BY <1>9, <1>10

\* A reference changes hands: whatever call the other thread is in, it only
\* gains, and what one may use the other may use from then on.
LEMMA HandOverStep ==
    ASSUME SysInv, LegalUse, NEW t \in Threads, NEW u \in Threads, NEW h \in Pool,
           HandOver(t, u, h)
    PROVE  SysInv'
<1>1. /\ SysTypeOK /\ TypeOK /\ Structure /\ Balance /\ MutexOK
      /\ t # u /\ call[t] = None /\ leaks = None /\ own[t][h] > 0
      /\ UNCHANGED vars /\ drv' = drv /\ call' = call
      /\ h \in Handles /\ h \notin Roots /\ h # Null
  BY InvParts, PoolAndRoots DEF HandOver
<1>2. /\ own \in [Threads -> [Handles -> Nat]]
      /\ own' = [own EXCEPT ![t][h] = @ - 1, ![u][h] = @ + 1]
  BY <1>1 DEF SysTypeOK, HandOver
<1>3. own[t][h] \in Nat \ {0} /\ own[u][h] \in Nat
  BY <1>1, <1>2
<1>4. /\ own' \in [Threads -> [Handles -> Nat]]
      /\ own'[t][h] = own[t][h] - 1 /\ own'[u][h] = own[u][h] + 1
      /\ \A x \in Threads, g \in Handles :
            (x \notin {t, u} \/ g # h) => own'[x][g] = own[x][g]
  <2>1. own' = [own EXCEPT ![t] = [own[t] EXCEPT ![h] = own[t][h] - 1],
                           ![u] = [own[u] EXCEPT ![h] = own[u][h] + 1]]
    BY <1>1, <1>2
  <2>2. /\ [own[t] EXCEPT ![h] = own[t][h] - 1] \in [Handles -> Nat]
        /\ [own[u] EXCEPT ![h] = own[u][h] + 1] \in [Handles -> Nat]
    BY <1>1, <1>2, <1>3
  <2>3. own' \in [Threads -> [Handles -> Nat]]
    BY <1>2, <2>1, <2>2
  <2>4. /\ own'[t] = [own[t] EXCEPT ![h] = own[t][h] - 1]
        /\ own'[u] = [own[u] EXCEPT ![h] = own[u][h] + 1]
        /\ \A x \in Threads \ {t, u} : own'[x] = own[x]
    BY <1>1, <1>2, <2>1
  <2>. QED  BY <1>1, <1>2, <2>3, <2>4
<1>5. SysTypeOK'
  BY <1>1, <1>4 DEF SysTypeOK, TypeOK, vars
<1>6. DriverKeeps /\ \A g \in Handles : DriverHas(g)' => DriverHas(g) /\ SameObject(g)
  BY <1>1 DEF DriverKeeps, SameObject, DriverHas, Alive
<1>7. Structure'
  BY <1>1, <1>6, StructureKept
<1>8. Balance'
  BY <1>1, <1>4, <1>5, BalanceShifts
<1>9. NullOK'
  <2>1. \A x \in Threads : own'[x][Null] = own[x][Null]
    BY <1>1, <1>4, PoolAndRoots
  <2>. QED  BY <1>1, <2>1, InvParts, NullKept DEF vars
<1>10. \A g \in Roots : /\ drv'[g] = drv[g]
                         /\ \A x \in Threads : own'[x][g] > 0 => own[x][g] > 0 \/ Tracked(g)
  <2>1. \A g \in Roots : g \in Handles /\ g # h
    BY <1>1, PoolAndRoots
  <2>. QED  BY <1>1, <1>4, <2>1
<1>11. ASSUME NEW x \in Threads \ {t}, NEW g \in Handles, own[x][g] > 0
       PROVE  own'[x][g] > 0
  <2>1. CASE x = u /\ g = h
    BY <1>3, <1>4, <2>1
  <2>2. CASE ~(x = u /\ g = h)
    BY <1>4, <1>11, <2>2
  <2>. QED  BY <2>1, <2>2
<1>12. \A g : Fresh(g)' <=> Fresh(g)
  BY <1>1 DEF Fresh, InUse, Known, Tracked, Framed, DriverHas, Elements, vars
<1>13. mutex # None => mutex.owner \notin {t}
  BY <1>1 DEF MutexOK
<1>14. /\ \A x \in Threads \ {t} :
             call'[x] = call[x] /\ \A g \in Handles : own[x][g] > 0 => own'[x][g] > 0
       /\ \A x \in Threads \ {t} : \A g \in Pool :
             Making(x, g) /\ Fresh(g) /\ call[x].stage = "post" => Fresh(g)'
       /\ \A x \in {t} : call'[x] # None => CallOK(x)'
       /\ leaks = None \/ UNCHANGED <<call, own>>
  BY <1>1, <1>11, <1>12
<1>. QED
  BY <1>1, <1>5, <1>6, <1>7, <1>8, <1>9, <1>10, <1>13, <1>14, DriverSide, ZenonT(40)

\* Between calls a thread's share is what it holds.
LEMMA IdleShare ==
    ASSUME SysTypeOK, NEW t \in Threads, call[t] = None, NEW h \in Handles
    PROVE  DriverShare(t, h) = own[t][h] /\ TrackerShare(t, h) = own[t][h] /\ own[t][h] \in Nat
<1>1. own[t][h] \in Nat
  BY OwnTyped
<1>. QED  BY <1>1 DEF DriverShare, TrackerShare, Requesting, Making, One

\* What the report lists is what some thread holds.
LEMMA ReportedIsHeld ==
    ASSUME SysInv, LegalUse, leaks = None, \A t \in Threads : call[t] = None
    PROVE  {h \in Handles : Retained(h)} = {h \in Pool : \E t \in Threads : own[t][h] > 0}
<1>1. SysTypeOK /\ TypeOK /\ RootsKept /\ Balance /\ NullOK
  BY InvParts
<1>2. ASSUME NEW h \in Handles, Retained(h)
      PROVE  h \in Pool /\ \E t \in Threads : own[t][h] > 0
  <2>1. Tracked(h) /\ objects[h].refcount > 0
    BY <1>2 DEF Retained, Counts
  <2>2. h \in Pool
    BY <1>1, <2>1, PoolAndRoots DEF RootsKept, NullOK
  <2>3. CountOf(h) > 0
    BY <2>1 DEF CountOf
  <2>4. PICK t \in Threads : TrackerShare(t, h) > 0
    BY <1>1, <2>2, <2>3, CountIsShare
  <2>. QED  BY <1>1, <2>2, <2>4, IdleShare
<1>3. ASSUME NEW h \in Pool, NEW t \in Threads, own[t][h] > 0
      PROVE  h \in Handles /\ Retained(h)
  <2>1. h \in Handles
    BY PoolAndRoots
  <2>2. Tracked(h) /\ objects[h].refcount > 0 /\ IsCounted(objects[h])
    BY <1>3, <2>1, HeldIsTracked
  <2>. QED  BY <2>1, <2>2 DEF Retained, Counts
<1>. QED  BY <1>2, <1>3

LEMMA ExitStep ==
    ASSUME SysInv, LegalUse, Exit
    PROVE  SysInv'
<1>1. /\ ExactInv({Null}) /\ Inv /\ SysTypeOK /\ Structure /\ Balance /\ RootsKept /\ NoFalsePositive
  BY InvParts
<1>2. /\ Report /\ leaks = None /\ mutex = None /\ mutex' = None
      /\ UNCHANGED <<frames, mutex, ret>> /\ UNCHANGED <<drv, call, own>>
      /\ objects' = [h \in Handles |-> None]
      /\ leaks' = {h \in Handles : Retained(h)}
      /\ \A t \in Threads : call[t] = None
  BY DEF Exit, Report, Unlocked
<1>3. ExactInv({Null})'
  BY <1>1, <1>2, ReportExact
<1>4. SysTypeOK'
  BY <1>1, <1>2, <1>3 DEF SysTypeOK, ExactInv, Inv
<1>5. leaks' # None
  BY <1>2, NoneAssumption
<1>6. leaks' = {h \in Pool : \E t \in Threads : own[t][h] > 0}
  BY <1>2, ReportedIsHeld
<1>7. \A h \in Handles : ~Tracked(h)' /\ ~Framed(h)'
  <2>1. \A h \in Handles : ~Framed(h)
    BY <1>1, <1>2 DEF Inv, WalkInv
  <2>. QED  BY <1>2, <2>1 DEF Tracked, Framed
<1>8. Structure'
  <2>1. \A h \in Handles : DriverHas(h) => SameObject(h)
    BY <1>2 DEF DriverHas, SameObject
  <2>2. \A h \in Handles : DriverHas(h)' => DriverHas(h)
    BY <1>2 DEF DriverHas
  <2>3. DriverKeeps
    BY <2>1 DEF DriverKeeps, Alive
  <2>. QED  BY <1>1, <2>1, <2>2, <2>3, StructureKept
<1>9. RootsKept'
  <2>1. \A h \in Roots : h \in Handles
    BY PoolAndRoots
  <2>2. \A h : RootObject(h)' = RootObject(h)
    BY DEF RootObject
  <2>. QED  BY <1>1, <1>2, <1>5, <1>7, <2>1, <2>2 DEF RootsKept
<1>10. Links'
  BY <1>7 DEF Links, Linked, Known
<1>11. Calls'
  BY <1>2 DEF Calls
<1>12. Balance'
  <2>1. \A h \in Pool : Refs(h)' = Refs(h)
    BY <1>2 DEF Refs, DriverHas
  <2>. QED  BY <1>1, <1>2, <1>5, <2>1, BalanceSame
<1>13. MutexOK'
  BY <1>2 DEF MutexOK
<1>14. AfterExit'
  BY <1>2, <1>6, <1>7 DEF AfterExit, LeakReportExact
<1>15. NoFalsePositive'
  BY <1>1, <1>2 DEF NoFalsePositive
<1>16. NullOK'
  BY <1>2, <1>7, InvParts, PoolAndRoots DEF NullOK, DriverHas
<1>. QED
  BY <1>3, <1>4, <1>8, <1>9, <1>10, <1>11, <1>12, <1>13, <1>14, <1>15, <1>16 DEF SysInv

LEMMA InitStep ==
    ASSUME SysInit, LegalUse
    PROVE  SysInv
<1>1. /\ Init /\ drv = [h \in Handles |-> IF h \in Roots THEN RootObject(h) ELSE None]
      /\ call = [t \in Threads |-> None]
      /\ own = [t \in Threads |-> [h \in Handles |-> 0]]
      /\ objects = [h \in Handles |-> None] /\ frames = [h \in Handles |-> None]
      /\ mutex = None /\ leaks = None /\ ret = [t \in Threads |-> CL_SUCCESS]
  BY DEF SysInit, Init
<1>2. ExactInv({Null})
  BY <1>1, InitExact
<1>3. \A h \in Roots : drv[h] = RootObject(h) /\ h \in Handles
  BY <1>1, PoolAndRoots
<1>4. \A h \in Pool \cup {Null} : drv[h] = None /\ h \in Handles
  BY <1>1, PoolAndRoots
<1>5. SysTypeOK
  <2>1. TypeOK
    BY <1>2 DEF ExactInv, Inv
  <2>2. \A h \in Handles : drv[h] \in DriverObject \cup {None}
    BY <1>3, <1>4, RootTyped, PoolAndRoots
  <2>3. drv \in [Handles -> DriverObject \cup {None}]
    BY <1>1, <2>2
  <2>4. own \in [Threads -> [Handles -> Nat]]
    BY <1>1
  <2>5. call \in [Threads -> Call \cup {None}]
    BY <1>1
  <2>. QED  BY <2>1, <2>3, <2>4, <2>5 DEF SysTypeOK
<1>6. NoFalsePositive
  BY <1>1 DEF NoFalsePositive
<1>7. \A h \in Handles : ~Tracked(h) /\ ~Framed(h) /\ (DriverHas(h) => h \in Roots)
  BY <1>1, <1>4, PoolAndRoots DEF Tracked, Framed, DriverHas
<1>8. Structure
  <2>1. WellFounded
    <3>1. ASSUME NEW m \in Handles, DriverHas(m)
          PROVE  Elements(drv[m].on) = {}
      BY <1>3, <1>7, <3>1, RootTyped, ElementsOfNone
    <3>. QED  BY <3>1 DEF WellFounded
  <2>2. ASSUME NEW h \in Handles, DriverHas(h)
        PROVE  KindOK(h)
    <3>1. /\ h \in Roots /\ drv[h].type \in RootTypes /\ drv[h].on = <<>>
          /\ drv[h].context = None /\ ~drv[h].default
      <4>1. h \in Roots /\ drv[h] = RootObject(h)
        BY <1>3, <1>7, <2>2
      <4>2. ~RootObject(h).default
        BY DEF RootObject
      <4>. QED  BY <4>1, <4>2, RootTyped
    <3>2. /\ ~InContext(h) /\ drv[h].type # "CONTEXT" /\ drv[h].type # "SUB_DEVICE"
          /\ drv[h].type # "EVENT" /\ drv[h].type # "COMMAND_QUEUE"
      BY <3>1 DEF RootTypes, InContext, DeviceTypes
    <3>. QED  BY <3>1, <3>2, ElementsOfNone, NoParentsAssumption DEF KindOK
  <2>. QED  BY <2>1, <2>2 DEF Structure
<1>9. RootsKept
  BY <1>1, <1>3, <1>7 DEF RootsKept
<1>10. Links
  BY <1>7 DEF Links, Linked, Known
<1>11. Calls
  BY <1>1 DEF Calls
<1>12. Balance
  <2> SUFFICES ASSUME NEW h \in Pool
               PROVE  DriverBalance(h) /\ TrackerBalance(h)
    BY DEF Balance
  <2>1. h \in Handles /\ Refs(h) = 0 /\ CountOf(h) = 0
    BY <1>4, <1>7 DEF Refs, CountOf, DriverHas
  <2>2. \A t \in Threads : DriverShare(t, h) = 0 /\ TrackerShare(t, h) = 0
    BY <1>1, <1>5, <2>1, IdleShare
  <2>3. ASSUME NEW f, \A t \in Threads : f[t] = 0
        PROVE  Total(f) = 0
    <3>1. IsFiniteSet(Threads)
      BY PoolAndRoots
    <3>2. Total(f) \in Nat /\ (Total(f) > 0 => \E t \in Threads : f[t] > 0)
      BY <2>3, <3>1, SumOfNaturals DEF Total
    <3>. QED  BY <2>3, <3>2
  <2>4. Total([t \in Threads |-> DriverShare(t, h)]) = 0
    BY <2>2, <2>3
  <2>5. Total([t \in Threads |-> TrackerShare(t, h)]) = 0
    BY <2>2, <2>3
  <2>. QED  BY <2>1, <2>4, <2>5 DEF DriverBalance, TrackerBalance
<1>13. MutexOK
  BY <1>1 DEF MutexOK
<1>14. AfterExit
  BY <1>1 DEF AfterExit
<1>15. NullOK
  BY <1>1, <1>4, <1>7 DEF NullOK, DriverHas
<1>. QED
  BY <1>2, <1>5, <1>6, <1>8, <1>9, <1>10, <1>11, <1>12, <1>13, <1>14, <1>15 DEF SysInv

-----------------------------------------------------------------------------
(***************************************************************************)
(* Every step of every interleaving.                                       *)
(***************************************************************************)

LEMMA SysNextStep ==
    ASSUME SysInv, LegalUse, [SysNext]_sysVars
    PROVE  SysInv'
<1>1. CASE UNCHANGED sysVars
  BY <1>1, StoppedStep
<1>2. CASE SysNext
  <2>1. ASSUME NEW t \in Threads, Within(t)
        PROVE  SysInv'
    <3>1. CASE NextArgument(t)
      BY <3>1, NextArgumentStep
    <3>2. CASE RejectedCall(t) \/ Crash(t)
      BY <3>2, NothingFails
    <3>3. CASE DriverStep(t)
      BY <3>3, NothingFails, DriverReturnsStep, DriverRetainStep, DriverReleaseStep,
         DriverCreateStep, DriverCreateQueueStep, DriverQueryStep DEF DriverStep
    <3>4. CASE PostCheck(t)
      BY <3>4, PostCheckStep
    <3>5. CASE ReturnToApp(t)
      BY <3>5, ReturnToAppStep
    <3>. QED  BY <2>1, <3>1, <3>2, <3>3, <3>4, <3>5 DEF Within
  <2>2. ASSUME NEW t \in Threads, NEW fn \in Used, Begin(t, fn)
        PROVE  SysInv'
    BY <2>2, BeginStep
  <2>3. CASE Continue /\ UNCHANGED <<drv, call, own>>
    BY <2>3, NotifyStep, ReturnToCallerStep, FinishDeleteStep, CreateNextStep DEF Continue
  <2>4. ASSUME NEW h \in Pool, DriverFree(h)
        PROVE  SysInv'
    BY <2>4, DriverFreeStep
  <2>5. CASE Exit
    BY <2>5, ExitStep
  <2>6. CASE Stopped
    BY <2>6, StoppedStep DEF Stopped
  <2>7. ASSUME NEW t \in Threads, NEW u \in Threads, NEW h \in Pool, HandOver(t, u, h)
        PROVE  SysInv'
    BY <2>7, HandOverStep
  <2>. QED  BY <1>2, <2>1, <2>2, <2>3, <2>4, <2>5, <2>6, <2>7 DEF SysNext
<1>. QED  BY <1>1, <1>2

\* What the tracker knows, what the driver keeps and what the threads hold
\* agree after every step of every interleaving of a legal use.
THEOREM SysInvariant == LegalUse => (SysSpec => []SysInv)
<1> SUFFICES ASSUME LegalUse PROVE SysSpec => []SysInv
  OBVIOUS
<1>1. SysInit => SysInv
  BY InitStep
<1>2. SysInv /\ [SysNext]_sysVars => SysInv'
  BY SysNextStep
<1>. QED  BY <1>1, <1>2, PTL DEF SysSpec

\* The composition keeps the types of its variables.
THEOREM LegalTypes == LegalUse => (SysSpec => []SysTypeOK)
<1> SUFFICES ASSUME LegalUse PROVE SysSpec => []SysTypeOK
  OBVIOUS
<1>1. SysInv => SysTypeOK
  BY DEF SysInv
<1>. QED  BY <1>1, SysInvariant, PTL

\* No legal call is rejected by a check, whatever other threads do meanwhile to
\* their references to the objects it passes.
THEOREM LegalCallsPass == LegalUse => (SysSpec => []NoFalsePositive)
<1> SUFFICES ASSUME LegalUse PROVE SysSpec => []NoFalsePositive
  OBVIOUS
<1>1. SysInv => NoFalsePositive
  BY DEF SysInv
<1>. QED  BY <1>1, SysInvariant, PTL

\* The record of NULL is referenced by nobody: no object is made from NULL.
LEMMA NullIsBare ==
    ASSUME SysInv, Tracked(Null)
    PROVE  objects[Null].refcount = 0 /\ objects[Null].num_children = 0
<1>1. /\ NullOK /\ Links /\ SysTypeOK /\ Structure /\ ExactInv({Null}) /\ Inv /\ TypeOK
      /\ GraphOK({Null}) /\ Null \in Handles
  BY InvParts, PoolAndRoots
<1>2. objects[Null].num_children = Cardinality(ChildEdges(Null))
  <2>1. Counts(Null)
    BY <1>1 DEF NullOK, Counts, IsCounted, RootTypes
  <2>. QED  BY <1>1, <2>1 DEF GraphOK, NodeOK
<1>3. ChildEdges(Null) = {}
  <2> SUFFICES ASSUME ChildEdges(Null) # {}
               PROVE  FALSE
    OBVIOUS
  <2>1. PICK c \in Handles : \E i \in Owed(c) : ParentsOf(c)[i] = Null
    BY <1>1, ChildEdgesAre
  <2>2. PICK i \in Owed(c) : ParentsOf(c)[i] = Null
    BY <2>1
  <2>3. i \in DOMAIN ParentsOf(c) /\ ParentsOf(c) \in Seq(Handles)
    BY <1>1, <2>2, ParentsOfType
  <2>4. Known(c) /\ c # Null
    <3>1. CASE ~Known(c) \/ c = Null
      <4>1. ParentsOf(c) = <<>>
        BY <1>1, <3>1 DEF Known, ParentsOf, Tracked, Framed, NullOK
      <4>. QED  BY <2>3, <4>1
    <3>. QED  BY <3>1
  <2>5. ParentsOf(c) = RecordedBelow(c) /\ DriverHas(c)
    BY <1>1, <2>4 DEF Links, Linked, Known, ParentsOf, Tracked, Framed
  <2>6. Null \in Elements(RecordedBelow(c))
    BY <2>2, <2>3, <2>5 DEF Elements
  <2>7. DriverHas(Null)
    BY <1>1, <2>5, <2>6, BelowInUse
  <2>. QED  BY <1>1, <2>7 DEF NullOK
<1>. QED  BY <1>1, <1>2, <1>3, FS_EmptySet DEF NullOK

\* The tracker knows no dead object, and no object as another one; of NULL it
\* knows at most a record that nobody references.
THEOREM LegalTrackedIsAlive == LegalUse => (SysSpec => []TrackedIsAlive)
<1> SUFFICES ASSUME LegalUse PROVE SysSpec => []TrackedIsAlive
  OBVIOUS
<1>1. ASSUME SysInv PROVE TrackedIsAlive
  <2>1. ASSUME NEW h \in Handles \ {Null}, Tracked(h)
        PROVE  Alive(h) /\ drv[h].type = objects[h].type
    <3>1. Alive(h)
      BY <1>1, <2>1, KnownIsAlive DEF Known
    <3>2. drv[h].type = objects[h].type
      BY <1>1, <2>1, InvParts DEF Links, Linked, Known
    <3>. QED  BY <3>1, <3>2
  <2>2. ASSUME Tracked(Null), frames[Null] = None
        PROVE  objects[Null].refcount = 0 /\ objects[Null].num_children = 0
    BY <1>1, <2>2, NullIsBare
  <2>. QED  BY <2>1, <2>2 DEF TrackedIsAlive
<1>2. SysInv => TrackedIsAlive
  BY <1>1
<1>. QED  BY <1>2, SysInvariant, PTL

\* The leak report lists what some thread still holds.
THEOREM LegalLeakReport == LegalUse => (SysSpec => []LeakReportExact)
<1> SUFFICES ASSUME LegalUse PROVE SysSpec => []LeakReportExact
  OBVIOUS
<1>1. SysInv => LeakReportExact
  BY DEF SysInv, AfterExit, LeakReportExact
<1>. QED  BY <1>1, SysInvariant, PTL

\* Records are put below what the driver keeps for their objects.
THEOREM LegalParentsAreAncestors == LegalUse => (SysSpec => []ParentsAreAncestors)
<1> SUFFICES ASSUME LegalUse PROVE SysSpec => []ParentsAreAncestors
  OBVIOUS
<1>1. ASSUME SysInv PROVE ParentsAreAncestors
  <2> SUFFICES ASSUME NEW h \in Handles, Tracked(h), NEW p \in Elements(objects[h].parents)
               PROVE  p \in Ancestors(h)
    BY DEF ParentsAreAncestors
  <2>1. SysTypeOK /\ WellFounded /\ Links /\ h # Null
    BY <1>1, InvParts, ElementsOfNone DEF NullOK
  <2>2. DriverHas(h) /\ KindOK(h) /\ p \in Elements(RecordedBelow(h))
    BY <1>1, <2>1, InvParts DEF Links, Linked, Known
  <2>3. None \notin Handles
    BY PoolAndRoots
  <2>4. CASE drv[h].type = "EVENT"
    <3>1. p = drv[h].context
      BY <2>2, <2>4, ElementsOfOne DEF RecordedBelow
    <3>2. DriverHas(p) /\ drv[p].type = "CONTEXT"
      BY <2>2, <2>4, <3>1 DEF KindOK, InContext, DeviceTypes
    <3>3. p # h /\ p # None
      BY <2>3, <2>4, <3>2 DEF DriverHas
    <3>. QED  BY <3>1, <3>3 DEF Ancestors
  <2>5. CASE drv[h].type # "EVENT"
    <3>1. p \in Elements(drv[h].on)
      BY <2>2, <2>5 DEF RecordedBelow
    <3>2. p \in Handles
      BY <2>2, <3>1 DEF KindOK, DriverHas
    <3>3. Elements(drv[h].on) \cap {h} = {}
      <4>1. \E m \in {h} : DriverHas(m) => Elements(drv[m].on) \cap {h} = {}
        BY <2>1 DEF WellFounded
      <4>. QED  BY <2>2, <4>1
    <3>. QED  BY <2>3, <3>1, <3>2, <3>3 DEF Ancestors
  <2>. QED  BY <2>4, <2>5
<1>2. SysInv => ParentsAreAncestors
  BY <1>1
<1>. QED  BY <1>2, SysInvariant, PTL

\* A call that passes the checks reaches the driver with live objects of the
\* right types, however many threads share them.
THEOREM LegalDriverShielded == LegalUse => (SysSpec => []DriverShielded)
<1> SUFFICES ASSUME LegalUse PROVE SysSpec => []DriverShielded
  OBVIOUS
<1>1. ASSUME SysInv PROVE DriverShielded
  <2> SUFFICES ASSUME NEW t \in Threads, AtDriver(t), NEW i \in DOMAIN call[t].args,
                      NEW a, a = call[t].fn.arguments[i],
                      NEW h \in Elements(call[t].args[i])
               PROVE  Sound(a, h)
    BY DEF DriverShielded, SoundArguments
  <2>1. call[t] # None /\ call[t].stage = "check"
    BY DEF AtDriver, At
  <2>2. CallOK(t) /\ call[t].fn \in Used
    BY <1>1, <2>1, InProgress
  <2>3. ArgumentOK(t, a, call[t].args[i]) /\ call[t].args \in Seq(Seq(Handles \cup {None}))
        /\ Len(call[t].args) = Len(call[t].fn.arguments)
    BY <1>1, <2>1, <2>2, CallTyped, InvParts DEF CallOK, AtDriver
  <2>4. CASE h = None /\ a.type = "PLATFORM"
    BY <2>4 DEF Sound
  <2>5. CASE DriverHas(h) /\ drv[h].type \in Accepted(a.type)
    <3>1. h # None
      BY <2>5, PoolAndRoots DEF DriverHas
    <3>2. Alive(h)
      BY <1>1, <2>1, <3>1, ArgumentsAlive
    <3>3. CASE a.check = "release" /\ h \in Pool
      <4>1. CountingShape(call[t].fn)
        <5>1. i \in DOMAIN call[t].fn.arguments
          BY <2>2, <2>3 DEF CallOK
        <5>. QED  BY <2>2, <3>3, <5>1, UsedArguments, PlainCall
      <4>2. /\ Len(call[t].fn.arguments) = 1 /\ call[t].fn.arguments[1].check = Counting(call[t].fn)
            /\ ~call[t].fn.arguments[1].null /\ Counting(call[t].fn) \in {"retain", "release"}
        BY <2>2, <4>1, CountingCalls
      <4>3. i = 1
        BY <2>3, <4>2
      <4>4. Counting(call[t].fn) = "release"
        BY <3>3, <4>2, <4>3
      <4>5. Len(call[t].args[1]) = 1 /\ call[t].args[1] \in Seq(Handles \cup {None})
        BY <2>3, <3>3, <4>2, <4>3 DEF ArgumentOK
      <4>6. h = Argument1(t)
        BY <4>3, <4>5, ElementsOfSingle DEF Argument1
      <4>7. call[t].args # <<>>
        BY <2>3, <4>2
      <4>8. Requesting(t, "release", h)
        BY <2>1, <4>4, <4>6, <4>7 DEF Requesting
      <4>9. drv[h].refs > 0
        BY <1>1, <3>3, <4>8, RequestedIsAlive
      <4>. QED  BY <2>5, <3>2, <4>9 DEF Sound
    <3>4. CASE a.check # "release" \/ h \notin Pool
      <4>1. h \in Pool \/ h \in Roots
        BY <1>1, <2>5, NotNull, InvParts
      <4>. QED  BY <2>5, <3>2, <3>4, <4>1 DEF Sound
    <3>. QED  BY <3>3, <3>4
  <2>. QED  BY <2>3, <2>4, <2>5 DEF ArgumentOK
<1>2. SysInv => DriverShielded
  BY <1>1
<1>. QED  BY <1>2, SysInvariant, PTL

\* The shares of a thread differ by the calls between tracker and driver.
LEMMA SharesDiffer ==
    ASSUME SysTypeOK, NEW t \in Threads, NEW h \in Handles
    PROVE  TrackerShare(t, h) + One(Requesting(t, "release", h)) + One(ToRegister(t, h))
               = DriverShare(t, h) + One(Requesting(t, "retain", h))
<1>1. own[t][h] \in Nat
  BY OwnTyped
<1>2. One(Making(t, h) /\ ~ToRegister(t, h)) + One(ToRegister(t, h)) = One(Making(t, h))
  <2>1. ToRegister(t, h) => Making(t, h)
    BY DEF ToRegister
  <2>. QED  BY <2>1 DEF One
<1>3. \A b \in BOOLEAN : One(b) \in Int
  BY DEF One
<1>. QED  BY <1>1, <1>2, <1>3 DEF TrackerShare, DriverShare, One

\* The two counts of an object differ by the calls between tracker and driver.
LEMMA SharesAgree ==
    ASSUME SysInv, leaks = None, NEW h \in Pool
    PROVE  CountOf(h) + InFlight(h, "release") + Unregistered(h) = Refs(h) + InFlight(h, "retain")
<1>1. SysTypeOK /\ Balance /\ NoFalsePositive /\ h \in Handles /\ IsFiniteSet(Threads)
  BY InvParts, PoolAndRoots
<1> DEFINE requesting(op) == {t \in Threads : Requesting(t, op, h)}
           toRegister == {t \in Threads : ToRegister(t, h)}
           tracker == [t \in Threads |-> TrackerShare(t, h)]
           driver == [t \in Threads |-> DriverShare(t, h)]
           marks(S) == [t \in Threads |-> IF t \in S THEN 1 ELSE 0]
<1>2. \A op : InFlight(h, op) = Cardinality(requesting(op))
  <2> SUFFICES ASSUME NEW op
               PROVE  InFlight(h, op) = Cardinality(requesting(op))
    OBVIOUS
  <2> DEFINE flying == {t \in Threads :
                 /\ call[t] # None /\ call[t].stage = "check" /\ ret[t] = CL_SUCCESS
                 /\ call[t].args # <<>> /\ Counting(call[t].fn) = op
                 /\ Argument1(t) = h}
  <2>1. \A t \in Threads : t \in flying <=> t \in requesting(op)
    BY <1>1 DEF Requesting, NoFalsePositive
  <2>2. flying = requesting(op)
    BY <2>1, Zenon
  <2>. QED  BY <2>2 DEF InFlight
<1>3. Unregistered(h) = Cardinality(toRegister)
  <2>1. toRegister = {t \in Threads :
          /\ call[t] # None /\ call[t].fn.makes # NOTHING /\ h \in Elements(call[t].made)
          /\ \/ call[t].stage = "post"
             \/ Holds(t) /\ \E p \in Elements(mutex.todo) : p.handle = h}
    BY DEF ToRegister, Making
  <2>. QED  BY <2>1 DEF Unregistered
<1>4. /\ InFlight(h, "release") = Total(marks(requesting("release")))
      /\ InFlight(h, "retain") = Total(marks(requesting("retain")))
      /\ Unregistered(h) = Total(marks(toRegister))
  <2>1. /\ requesting("release") \in SUBSET Threads /\ requesting("retain") \in SUBSET Threads
        /\ toRegister \in SUBSET Threads
    OBVIOUS
  <2>. QED  BY <1>1, <1>2, <1>3, <2>1, SumOfMarks DEF Total
<1>5. CountOf(h) = Total(tracker) /\ Refs(h) = Total(driver)
  BY <1>1 DEF Balance, TrackerBalance, DriverBalance
<1>6. \A t \in Threads :
        /\ tracker[t] \in Int /\ driver[t] \in Int
        /\ marks(requesting("release"))[t] \in Int /\ marks(requesting("retain"))[t] \in Int
        /\ marks(toRegister)[t] \in Int
        /\ tracker[t] + marks(requesting("release"))[t] + marks(toRegister)[t]
             = driver[t] + marks(requesting("retain"))[t]
  <2> SUFFICES ASSUME NEW t \in Threads
               PROVE  /\ tracker[t] \in Int /\ driver[t] \in Int
                      /\ marks(requesting("release"))[t] \in Int
                      /\ marks(requesting("retain"))[t] \in Int
                      /\ marks(toRegister)[t] \in Int
                      /\ tracker[t] + marks(requesting("release"))[t] + marks(toRegister)[t]
                           = driver[t] + marks(requesting("retain"))[t]
    OBVIOUS
  <2>1. /\ marks(requesting("release"))[t] = One(Requesting(t, "release", h))
        /\ marks(requesting("retain"))[t] = One(Requesting(t, "retain", h))
        /\ marks(toRegister)[t] = One(ToRegister(t, h))
    BY DEF One
  <2>2. /\ tracker[t] = TrackerShare(t, h) /\ driver[t] = DriverShare(t, h)
        /\ tracker[t] \in Int /\ driver[t] \in Int
    BY <1>1, ShareTyped
  <2>3. One(Requesting(t, "release", h)) \in Int /\ One(Requesting(t, "retain", h)) \in Int
        /\ One(ToRegister(t, h)) \in Int
    BY DEF One
  <2> HIDE DEF marks, requesting, toRegister, tracker, driver
  <2>. QED  BY <1>1, <2>1, <2>2, <2>3, SharesDiffer
<1> HIDE DEF marks, requesting, toRegister, tracker, driver
<1>7. Total(tracker) + Total(marks(requesting("release"))) + Total(marks(toRegister))
        = Total(driver) + Total(marks(requesting("retain")))
  BY <1>1, <1>6, SumBalances DEF Total
<1>. QED  BY <1>4, <1>5, <1>7

\* The tracker's count of an object is the driver's, but for the calls that
\* are between the two, of all the threads that share it.
THEOREM LegalCountsAgree == LegalUse => (SysSpec => []CountsAgree)
<1> SUFFICES ASSUME LegalUse PROVE SysSpec => []CountsAgree
  OBVIOUS
<1>1. ASSUME SysInv PROVE CountsAgree
  <2> SUFFICES ASSUME leaks = None, NEW h \in Pool
               PROVE  CountOf(h) + InFlight(h, "release") + Unregistered(h)
                        = Refs(h) + InFlight(h, "retain")
    BY DEF CountsAgree, CountOf, Refs
  <2>. QED  BY <1>1, SharesAgree
<1>2. SysInv => CountsAgree
  BY <1>1
<1>. QED  BY <1>2, SysInvariant, PTL

-----------------------------------------------------------------------------
(***************************************************************************)
(* A record enters the map below records.                                  *)
(***************************************************************************)

\* At most one record enters the map in a step, and not to be deleted.
OneRecordMore ==
    \E h : \A g \in Handles : Tracked(g)' /\ ~Tracked(g) => g = h /\ ~Framed(g)'

NoneMore == \A g \in Handles : Tracked(g)' => Tracked(g)

LEMMA NoneIsAtMostOne ==
    ASSUME NoneMore
    PROVE  OneRecordMore
BY DEF NoneMore, OneRecordMore

LEMMA EffectAddsOne ==
    ASSUME Effect
    PROVE  OneRecordMore
<1>1. CASE Quiet \/ Emptied
  <2>1. NoneMore
    BY <1>1 DEF Quiet, Emptied, SameRecord, NoneMore
  <2>. QED  BY <2>1, NoneIsAtMostOne
<1>2. ASSUME NEW h \in Handles, Raised(h) \/ Lowered(h) \/ Reaped(h) \/ Erased(h)
      PROVE  OneRecordMore
  <2>1. NoneMore
    BY <1>2 DEF Raised, Lowered, Reaped, Erased, OnlyAffects, Unaffected, SameRecord,
                Recounted, Counts, NoneMore
  <2>. QED  BY <2>1, NoneIsAtMostOne
<1>3. ASSUME NEW h \in Handles, Added(h)
      PROVE  OneRecordMore
  <2>1. \A g \in Handles : Tracked(g)' /\ ~Tracked(g) => g = h /\ ~Framed(g)'
    BY <1>3 DEF Added, OnlyAffects, Unaffected, SameRecord
  <2>. QED  BY <2>1 DEF OneRecordMore
<1>. QED  BY <1>1, <1>2, <1>3 DEF Effect

LEMMA CountAddsNone ==
    ASSUME TypeOK, NEW h, Tracked(h), NEW n, objects' = [objects EXCEPT ![h].refcount = n]
    PROVE  NoneMore
<1>1. \A g \in Handles : g # h => objects'[g] = objects[g]
  BY DEF TypeOK
<1>. QED  BY <1>1 DEF NoneMore, Tracked

LEMMA SameAddsNone ==
    ASSUME UNCHANGED objects
    PROVE  NoneMore
BY DEF NoneMore, Tracked

LEMMA InsertAddsOne ==
    ASSUME Inv, Unlocked, NEW h, NEW new, objects' = InsertObject(objects, h, new), UNCHANGED frames
    PROVE  OneRecordMore
<1>1. objects \in [Handles -> Record \cup {None}] /\ \A g \in Handles : ~Framed(g)'
  BY NoWalkFree DEF TypeOK, NoWalk, Framed
<1> DEFINE inserted == IF objects[h] # None THEN objects
                       ELSE [objects EXCEPT ![h] = NewRecord(objects, new)]
<1>2. ASSUME NEW g \in Handles, g # h, objects[g] = None
      PROVE  inserted[g] = None
  BY <1>1, <1>2
<1>3. objects' = ReferenceParents(inserted, inserted[h].parents)
  BY DEF InsertObject
<1> HIDE DEF inserted
<1>4. ASSUME NEW g \in Handles, g # h, objects[g] = None
      PROVE  objects'[g] = None
  BY <1>2, <1>3, <1>4 DEF ReferenceParents
<1>. QED  BY <1>1, <1>4 DEF OneRecordMore, Tracked

LEMMA CheckAddsOne ==
    ASSUME SysInv, NEW t \in Threads, NEW a, NEW hs, Check(t, a, hs)
    PROVE  OneRecordMore
<1>1. TypeOK
  BY InvParts
<1>2. CASE UNCHANGED objects
  BY <1>2, SameAddsNone, NoneIsAtMostOne
<1>3. CASE CheckRetain(t, a.type, hs[1])
  <2>1. CASE Tracked(hs[1]) /\ objects' = [objects EXCEPT ![hs[1]].refcount = @ + 1]
    BY <1>1, <2>1, CountAddsNone, NoneIsAtMostOne
  <2>. QED  BY <1>2, <1>3, <2>1 DEF CheckRetain, Matches
<1>4. CASE CheckRelease(t, a.type, hs[1])
  <2>1. CASE Tracked(hs[1]) /\ objects' = [objects EXCEPT ![hs[1]].refcount = @ - 1]
    BY <1>1, <2>1, CountAddsNone, NoneIsAtMostOne
  <2>. QED  BY <1>2, <1>4, <2>1 DEF CheckRelease, ReleaseObject, Matches
<1>. QED  BY <1>2, <1>3, <1>4 DEF Check, CheckExists, CheckExistList

LEMMA AddOrReplaceAddsOne ==
    ASSUME SysInv, Unlocked, NEW t, NEW h, NEW new, AddOrReplace(t, h, new)
    PROVE  OneRecordMore
<1>1. Inv
  BY InvParts
<1>2. CASE UNCHANGED objects
  BY <1>2, SameAddsNone, NoneIsAtMostOne
<1>3. CASE objects' = InsertObject(objects, h, new) /\ UNCHANGED frames
  BY <1>1, <1>3, InsertAddsOne
<1>. QED  BY <1>2, <1>3 DEF AddOrReplace

LEMMA PostCheckAddsOne ==
    ASSUME SysInv, NEW t \in Threads, PostCheck(t)
    PROVE  OneRecordMore
<1>0. CASE UNCHANGED objects
  BY <1>0, SameAddsNone, NoneIsAtMostOne
<1>1. ASSUME NEW T, NEW hs, NEW ps, CheckCreationList(t, T, hs, ps)
      PROVE  OneRecordMore
  BY <1>0, <1>1 DEF CheckCreationList
<1>2. ASSUME NEW T, NEW h, NEW p, CheckCreateOrExists(t, T, h, p)
      PROVE  OneRecordMore
  <2>1. TypeOK
    BY InvParts
  <2>2. CASE Tracked(h) /\ objects' = [objects EXCEPT ![h].refcount = @ + 1]
    BY <2>1, <2>2, CountAddsNone, NoneIsAtMostOne
  <2>. QED  BY <1>2, <2>2, AddOrReplaceAddsOne DEF CheckCreateOrExists, TrackedAs
<1>3. ASSUME NEW T, NEW h, NEW ps, CheckAddOrExists(t, T, h, ps, DriverVersion)
      PROVE  OneRecordMore
  BY <1>0, <1>3, AddOrReplaceAddsOne DEF CheckAddOrExists
<1>. QED  BY <1>1, <1>2, <1>3 DEF PostCheck

LEMMA StepAddsOne ==
    ASSUME SysInv, [SysNext]_sysVars
    PROVE  OneRecordMore
<1>0. CASE UNCHANGED objects
  BY <1>0, SameAddsNone, NoneIsAtMostOne
<1>1. CASE UNCHANGED sysVars
  BY <1>0, <1>1 DEF sysVars
<1>2. CASE SysNext
  <2>0. CASE UNCHANGED vars
    BY <1>0, <2>0 DEF vars
  <2>1. ASSUME NEW t \in Threads, Within(t)
        PROVE  OneRecordMore
    <3>1. CASE NextArgument(t)
      BY <3>1, CheckAddsOne DEF NextArgument, TakeArgument
    <3>2. CASE RejectedCall(t) \/ Crash(t) \/ ReturnToApp(t)
      BY <2>0, <3>2 DEF RejectedCall, Crash, ReturnToApp
    <3>3. CASE DriverStep(t)
      BY <2>0, <3>3 DEF DriverStep, DriverReturns, DriverRetain, DriverRelease, DriverRefuses,
                        DriverCreate, DriverCreateQueue, DriverQuery
    <3>4. CASE PostCheck(t)
      BY <3>4, PostCheckAddsOne
    <3>. QED  BY <2>1, <3>1, <3>2, <3>3, <3>4 DEF Within
  <2>2. ASSUME NEW t \in Threads, NEW fn \in Used, Begin(t, fn)
        PROVE  OneRecordMore
    BY <1>0, <2>2, CheckAddsOne DEF Begin, TakeArgument
  <2>3. CASE Continue
    <3>1. Effect
      BY <2>3, InvParts, NotifyEffect, ReturnToCallerEffect, FinishDeleteEffect, CreateNextEffect
         DEF Continue
    <3>. QED  BY <3>1, EffectAddsOne
  <2>4. ASSUME NEW h \in Pool, DriverFree(h)
        PROVE  OneRecordMore
    BY <2>0, <2>4 DEF DriverFree
  <2>5. CASE Exit
    <3>1. NoneMore
      BY <2>5 DEF Exit, Report, NoneMore, Tracked
    <3>. QED  BY <3>1, NoneIsAtMostOne
  <2>6. CASE Stopped
    BY <1>1, <2>6 DEF Stopped
  <2>7. ASSUME NEW t \in Threads, NEW u \in Threads, NEW h \in Pool, HandOver(t, u, h)
        PROVE  OneRecordMore
    BY <2>0, <2>7 DEF HandOver
  <2>. QED  BY <1>2, <2>1, <2>2, <2>3, <2>4, <2>5, <2>6, <2>7 DEF SysNext
<1>. QED  BY <1>1, <1>2

\* What a record in the map is put below is in the map.
BelowInMap ==
    \A h \in Handles : Tracked(h) /\ ~Framed(h) =>
        \A p \in Elements(objects[h].parents) : Tracked(p) /\ p # h /\ p \in Handles

LEMMA ParentsInMap ==
    ASSUME SysInv, NEW h \in Handles, Tracked(h), ~Framed(h), NEW p \in Elements(objects[h].parents)
    PROVE  Tracked(p) /\ p # h /\ p \in Handles
<1>0. h # Null
  BY InvParts, ElementsOfNone DEF NullOK
<1>1. /\ SysTypeOK /\ WellFounded /\ ExactInv({Null})
      /\ DriverHas(h) /\ KindOK(h) /\ objects[h].type = drv[h].type
      /\ objects[h].parents = RecordedBelow(h)
  BY <1>0, InvParts DEF Links, Linked, Known
<1>2. h \notin Roots
  <2>1. h \in Roots => objects[h].parents = <<>>
    <3>1. h \in Roots => drv[h].type \in RootTypes /\ drv[h].on = <<>>
      BY InvParts, RootIsAlive
    <3>. QED  BY <1>1, <3>1 DEF RecordedBelow, RootTypes
  <2>. QED  BY <2>1, ElementsOfNone
<1>3. InLife(h)
  BY <1>1, <1>2 DEF InLife, Counts, IsCounted, Framed, KindOK
<1>4. p \in Handles /\ p # h
  <2>1. CASE drv[h].type = "EVENT"
    <3>1. p = drv[h].context
      BY <1>1, <2>1, ElementsOfOne DEF RecordedBelow
    <3>2. DriverHas(p) /\ drv[p].type = "CONTEXT"
      BY <1>1, <2>1, <3>1 DEF KindOK, InContext, DeviceTypes
    <3>. QED  BY <2>1, <3>2 DEF DriverHas
  <2>2. CASE drv[h].type # "EVENT"
    <3>1. p \in Elements(drv[h].on)
      BY <1>1, <2>2 DEF RecordedBelow
    <3>2. p \in Handles
      BY <1>1, <3>1 DEF KindOK, DriverHas
    <3>3. Elements(drv[h].on) \cap {h} = {}
      <4>1. \E m \in {h} : DriverHas(m) => Elements(drv[m].on) \cap {h} = {}
        BY <1>1 DEF WellFounded
      <4>. QED  BY <1>1, <4>1
    <3>. QED  BY <3>1, <3>2, <3>3
  <2>. QED  BY <2>1, <2>2
<1>5. Tracked(p)
  BY <1>1, <1>3, <1>4, UnnamedWhenForgotten
<1>. QED  BY <1>4, <1>5

\* A record is put below records that are in the map already, as
\* derive_object_version assumes.
THEOREM LegalParentInMap == LegalUse => (SysSpec => ParentInMap)
<1> SUFFICES ASSUME LegalUse PROVE SysSpec => ParentInMap
  OBVIOUS
<1> DEFINE Step == \A h \in Handles :
                     ~Tracked(h) /\ Tracked(h)' =>
                        \A p \in Elements(objects'[h].parents) : Tracked(p)
<1>1. SysInv => BelowInMap
  BY ParentsInMap DEF BelowInMap
<1>2. ASSUME SysInv, BelowInMap', [SysNext]_sysVars
      PROVE  Step
  <2>1. OneRecordMore
    BY <1>2, StepAddsOne
  <2>. QED  BY <1>2, <2>1 DEF OneRecordMore, BelowInMap, Elements
<1>3. SysInv /\ BelowInMap' /\ [SysNext]_sysVars => [Step]_sysVars
  BY <1>2
<1>4. SysSpec => [][Step]_sysVars
  BY <1>1, <1>3, SysInvariant, PTL DEF SysSpec
<1>. QED  BY <1>4 DEF ParentInMap
=============================================================================
