---------------------------- MODULE LayerProcess ----------------------------
(***************************************************************************)
(* A process that has loaded one layer, from clInitLayer to the calls that *)
(* it passes down.  The layers with settings are object_lifetime (its      *)
(* calls are the subject of LayeredSystem) and param_verification; the     *)
(* third is the compatibility layer.                                       *)
(***************************************************************************)
EXTENDS LayerSettings, IcdCompat, ParamChecks, EnqueueChecks

CONSTANTS
    Worlds,         \* the processes: [layer, env, fs, writable, driver]
    PropertyLists,  \* the lists of context properties the application passes
    Partitions,     \* the lists of partition properties, [scheme, param]
    Limits,         \* the devices: [cu, sd]
    Rectangles,     \* the copies of rectangles, [src_origin, dst_origin, region, src, dst]
    Ranges,         \* the copies of memory: [dst, src, size]
    Enqueues,       \* the enqueues of a kernel, [version, queue, kernel, ...]
    SubBuffers,     \* the sub-buffers asked for: [buffer, flags, type, region]
    Many,           \* more than any number of devices of a platform
    None            \* no value yet

\* The options of a layer, by their keys; the text of a variable, if it is set.
Keys(layer) == {layer} \X {"log_sink", "log_filename", "transparent"}
Text == {NULL} \cup STRING

Settings ==
    [log_type : {"stdout", "stderr", "file"},
     log_filename : {DefaultSettings.log_filename} \cup STRING,
     transparent : BOOLEAN]

\* A process that loads a layer with settings: its environment and its files.
ASSUME SettingWorldsAssumption ==
    \A w \in Worlds : w.layer # "ocl_icd_compat" =>
        /\ w.env \in [XDG_DATA_HOME : Text, HOME : Text, OPENCL_LAYERS_SETTINGS_PATH : Text,
                      option : [Keys(w.layer) -> Text]]
        /\ \A path \in DOMAIN w.fs :
              w.fs[path].lines \in Seq({NoOption} \cup [key : STRING \X STRING, value : STRING])
        /\ None \notin w.writable

\* A process that loads the compatibility layer: a driver reports a platform
\* once, and fewer than `Many' devices of any kind; no list is the null pointer.
ASSUME IcdWorldsAssumption ==
    \A w \in Worlds : w.layer = "ocl_icd_compat" =>
        LET picds == w.driver.picds
        IN  /\ picds \in Seq(Range(picds))
            /\ \A m, n \in DOMAIN picds : picds[m].pid = picds[n].pid => m = n
            /\ \A n \in DOMAIN picds :
                  /\ {picds[n].ngpus, picds[n].ncpus, picds[n].ndevs} \subseteq 0 .. Many - 1
                  /\ NULL # <<[name |-> "CL_CONTEXT_PLATFORM", value |-> picds[n].pid]>>

ASSUME ManyAssumption == Many \in Nat

ASSUME NoneIsNoSetting == None \notin Settings \cup {"stdout", "stderr"}

\* The arguments, as far as they are not null.
ASSUME ListsAssumption == \A p \in PropertyLists : p = NULL \/ p \in Seq(Range(p))

Triple == Nat \X Nat \X Nat
Pitch == [row : Nat, slice : Nat]

ASSUME RegionsAssumption ==
    /\ Rectangles \subseteq [src_origin : {NULL} \cup Triple, dst_origin : {NULL} \cup Triple,
                             region : {NULL} \cup Triple, src : Pitch, dst : Pitch]
    /\ Ranges \subseteq [dst : {NULL} \cup Nat, src : {NULL} \cup Nat, size : Nat]

\* A list of partition properties ends with a zero.
ASSUME PartitionsAssumption ==
    /\ UINT_RANGE \in Nat \ {0}
    /\ Limits \subseteq [cu : Nat, sd : Nat]
    /\ \A p \in Partitions :
        /\ p.param \in Seq(Int) \ {<<>>}
        /\ p.scheme = "BY_COUNTS" => \E n \in DOMAIN p.param : p.param[n] = 0

SizeT == 0 .. SIZE_RANGE - 1

ASSUME SizeAssumption == SIZE_RANGE \in Nat \ {0}

\* There are sizes for as many dimensions as the device has.
ASSUME EnqueuesAssumption ==
    \A a \in Enqueues :
        /\ a.work_dim \in Nat /\ a.version \in Nat
        /\ a.kernel # NULL => a.kernel.group_size \in Nat
        /\ a.queue # NULL => a.queue.device.max_dimensions \in Nat
        /\ a.queue # NULL =>
            \A n \in 1 .. a.work_dim : n <= a.queue.device.max_dimensions =>
                /\ a.queue.device.max_sizes[n] \in SizeT
                /\ a.global # NULL => a.global[n] \in SizeT
                /\ a.local # NULL => a.local[n] \in SizeT

ASSUME SubBuffersAssumption ==
    \A a \in SubBuffers :
        /\ a.region # NULL => a.region \in [origin : Nat, size : Nat]
        /\ a.buffer # NULL => a.buffer.size \in Nat /\ a.buffer.aligns \subseteq Nat \ {0}

VARIABLES
    world,          \* what the process finds
    settings,       \* of a layer that has any; None before clInitLayer
    log_stream,     \* where it logs: "stdout", "stderr" or the name of a file
    icd,            \* the platforms of the compatibility layer
    answer          \* the last call: [call, arguments, result]

vars == <<world, settings, log_stream, icd, answer>>

TypeOK ==
    /\ settings = None \/ /\ settings.log_type \in {"stdout", "stderr", "file"}
                          /\ settings.transparent \in BOOLEAN
    /\ (settings = None) = (log_stream = None)
    /\ icd # None => /\ icd.num_platforms \in 0 .. Len(world.driver.picds)
                     /\ icd.platforms = Freed \/ Len(icd.platforms) = icd.num_platforms
    /\ icd = None \/ settings = None

Answer(call, arguments, result) ==
    answer' = [call |-> call, arguments |-> arguments, result |-> result]

Init ==
    /\ world \in Worlds
    /\ settings = None
    /\ log_stream = None
    /\ icd = None
    /\ answer = None

Initialised == settings # None \/ icd # None

\* Bound: a process makes one call once the layer is initialised.  No layer
\* here keeps anything between calls, and no call reads the answer of another.
FirstCall == Initialised /\ answer.call = "clInitLayer"

-----------------------------------------------------------------------------
(***************************************************************************)
(* Loading: the same functions in every layer, called by the ICD loader.   *)
(***************************************************************************)

clGetLayerInfo ==
    /\ ~ Initialised
    /\ \E param_name \in {"CL_LAYER_API_VERSION", "unknown"}, value, room \in BOOLEAN :
        Answer("clGetLayerInfo", [param_name |-> param_name],
               IF param_name = "unknown" \/ (value /\ ~ room) THEN Refused("CL_INVALID_VALUE")
               ELSE Answered("CL_LAYER_API_VERSION_100"))
    /\ UNCHANGED <<world, settings, log_stream, icd>>

\* Nothing is done for a null pointer, or for a loader that knows fewer calls
\* than the layer's dispatch table has.
clInitLayer ==
    /\ ~ Initialised
    /\ \E null \in BOOLEAN, entries \in {"fewer", "enough"} :
        IF null \/ entries = "fewer"
        THEN /\ Answer("clInitLayer", [null |-> null, entries |-> entries], Refused("CL_INVALID_VALUE"))
             /\ UNCHANGED <<settings, log_stream, icd>>
        ELSE /\ Answer("clInitLayer", [null |-> null, entries |-> entries], Answered("dispatch"))
             /\ IF world.layer = "ocl_icd_compat"
                THEN /\ icd' \in init_platforms(world.env, world.driver)
                     /\ UNCHANGED <<settings, log_stream>>
                ELSE /\ settings' = load(world.layer, world.env, world.fs)
                     /\ log_stream' = init_output_stream(settings', world.writable)
                     /\ UNCHANGED icd
    /\ UNCHANGED world

-----------------------------------------------------------------------------
(***************************************************************************)
(* Calls of the compatibility layer.                                       *)
(***************************************************************************)

IcdCall(call, arguments, result) ==
    /\ Answer(call, arguments, result)
    /\ UNCHANGED <<world, settings, log_stream, icd>>

Pids == {world.driver.picds[n].pid : n \in DOMAIN world.driver.picds}

clGetPlatformIDs_wrap ==
    \E num_entries \in 0 .. Len(world.driver.picds) + 1, platforms, count \in BOOLEAN :
        IcdCall("clGetPlatformIDs", [num_entries |-> num_entries],
                clGetPlatformIDs(icd, num_entries, platforms, count))

clCreateContext_wrap ==
    \E properties \in PropertyLists, errcode_ret \in BOOLEAN :
        IcdCall("clCreateContext", [properties |-> properties],
                clCreateContext(icd, properties, errcode_ret))

clCreateContextFromType_wrap ==
    \E properties \in PropertyLists, errcode_ret \in BOOLEAN :
        IcdCall("clCreateContextFromType", [properties |-> properties],
                clCreateContextFromType(icd, properties, errcode_ret))

clGetGLContextInfoKHR_wrap ==
    \E properties \in PropertyLists :
        IcdCall("clGetGLContextInfoKHR", [properties |-> properties],
                clGetGLContextInfoKHR(icd, properties))

\* clGetPlatformInfo_wrap, clGetDeviceIDs_wrap, clUnloadPlatformCompiler_wrap
\* and clGetExtensionFunctionAddressForPlatform_wrap.
PlatformCall_wrap ==
    \E platform \in Pids \cup {NULL} :
        IcdCall("PlatformCall", [platform |-> platform],
                Forwarded(select_platform_id(icd, platform)))

-----------------------------------------------------------------------------
(***************************************************************************)
(* Calls of the param-verification layer: a violation is logged, and       *)
(* answered unless the layer is transparent.                               *)
(***************************************************************************)

Crashed == [outcome |-> "crashed", with |-> NULL]

Verified(call, arguments, violation) ==
    /\ Answer(call, arguments,
              IF violation = "crash" THEN Crashed
              ELSE IF violation = "none" \/ settings.transparent THEN Forwarded(violation)
              ELSE Refused(violation))
    /\ UNCHANGED <<world, settings, log_stream, icd>>

clCreateContext_layer ==
    \E properties \in PropertyLists, known \in SUBSET (Pids \cup {NULL}),
       devices \in {NULL, <<>>, <<"available">>, <<"available", "unavailable">>, <<"invalid">>},
       notify, user_data \in BOOLEAN :
        Verified("clCreateContext", [properties |-> properties],
                 clCreateContext_violation(properties, known, devices, notify, user_data))

clCreateSubDevices_layer ==
    \E device \in Limits \cup {NULL}, p \in Partitions,
       num_devices \in 0 .. 2, out_devices \in BOOLEAN :
        Verified("clCreateSubDevices",
                 [device |-> device, partition |-> p, num_devices |-> num_devices,
                  out_devices |-> out_devices],
                 clCreateSubDevices_violation(device, p.scheme, p.param, num_devices, out_devices))

\* A refusal in front of the regions, or behind, stands for any other there.
clEnqueueCopyBufferRect_layer ==
    \E r \in Rectangles, same_buffer \in BOOLEAN,
       objects \in {"none", "CL_INVALID_COMMAND_QUEUE"},
       events \in {"none", "CL_INVALID_EVENT_WAIT_LIST"} :
        Verified("clEnqueueCopyBufferRect", [rectangle |-> r, same_buffer |-> same_buffer],
                 clEnqueueCopyBufferRect_violation(objects, same_buffer, r.src_origin, r.dst_origin,
                                                   r.region, r.src, r.dst, events))

clEnqueueSVMMemcpy_layer ==
    \E r \in Ranges,
       objects \in {"none", "CL_INVALID_COMMAND_QUEUE"},
       events \in {"none", "CL_INVALID_EVENT_WAIT_LIST"} :
        Verified("clEnqueueSVMMemcpy", [range |-> r],
                 clEnqueueSVMMemcpy_violation(objects, r.dst, r.src, r.size, events))

clEnqueueNDRangeKernel_layer ==
    \E a \in Enqueues, stack_is_zero \in BOOLEAN :
        Verified("clEnqueueNDRangeKernel", [enqueue |-> a, stack_is_zero |-> stack_is_zero],
                 clEnqueueNDRangeKernel_violation(a, stack_is_zero))

clCreateSubBuffer_layer ==
    \E a \in SubBuffers :
        Verified("clCreateSubBuffer", [request |-> a],
                 clCreateSubBuffer_violation(a.buffer, a.flags, a.type, a.region))

IcdCalls ==
    \/ clGetPlatformIDs_wrap \/ clCreateContext_wrap \/ clCreateContextFromType_wrap
    \/ clGetGLContextInfoKHR_wrap \/ PlatformCall_wrap

VerifiedCalls ==
    \/ clCreateContext_layer \/ clCreateSubDevices_layer
    \/ clEnqueueCopyBufferRect_layer \/ clEnqueueSVMMemcpy_layer
    \/ clEnqueueNDRangeKernel_layer \/ clCreateSubBuffer_layer

Next ==
    \/ clGetLayerInfo
    \/ clInitLayer
    \/ FirstCall /\ world.layer = "ocl_icd_compat" /\ IcdCalls
    \/ FirstCall /\ world.layer = "param_verification" /\ VerifiedCalls

Spec == Init /\ [][Next]_vars

-----------------------------------------------------------------------------
(***************************************************************************)
(* Properties.                                                             *)
(***************************************************************************)

Option(name) == <<world.layer, name>>

Without(key) == [world.env EXCEPT !.option[key] = NULL]

\* What the application's options come to with other files or variables.
LoadedFrom(env, fs) == load(world.layer, env, fs)

UnderPath ==
    {path \in DOMAIN world.fs :
        \/ path = world.env.OPENCL_LAYERS_SETTINGS_PATH
        \/ path = world.env.OPENCL_LAYERS_SETTINGS_PATH \o "/cl_layer_settings.txt"}

Meaningful(name, value) ==
    CASE name = "log_sink" -> parse_log_sink(value, "stderr") = parse_log_sink(value, "stdout")
      [] name = "transparent" -> parse_bool(value, TRUE) = parse_bool(value, FALSE)
      [] OTHER -> TRUE

Field(name) == IF name = "log_sink" THEN "log_type" ELSE name

\* Nothing weaker reaches a setting: if OPENCL_LAYERS_SETTINGS_PATH names
\* something, no other place matters (test_settings_location.cmake); an option
\* that the environment gives a meaning to does not depend on any file; and a
\* value without a meaning in the environment leaves what the file says
\* (utils.hpp, get_option).
SettingsByPrecedence ==
    settings # None =>
        /\ world.env.OPENCL_LAYERS_SETTINGS_PATH \in DOMAIN world.fs =>
            settings = LoadedFrom([world.env EXCEPT !.XDG_DATA_HOME = NULL, !.HOME = NULL],
                                  [path \in UnderPath |-> world.fs[path]])
        /\ \A name \in {"log_sink", "log_filename", "transparent"} :
            LET value == world.env.option[Option(name)]
            IN  value # NULL =>
                    settings[Field(name)] =
                        (IF Meaningful(name, value) THEN LoadedFrom(world.env, <<>>)
                         ELSE LoadedFrom(Without(Option(name)), world.fs))[Field(name)]

Worth(pid) ==
    LET picd == CHOOSE n \in DOMAIN world.driver.picds : world.driver.picds[n].pid = pid
    IN  (world.driver.picds[picd].ngpus * Many + world.driver.picds[picd].ncpus) * Many
            + world.driver.picds[picd].ndevs

\* The list has every platform of the driver once, the most capable first
\* unless sorting is off, and a null platform means its first unless the user
\* names another: an application that takes the first platform and one that
\* takes the default use the same.
DefaultPlatformIsBest ==
    icd # None /\ icd.platforms \notin {Freed, <<>>} =>
        /\ {icd.platforms[n] : n \in DOMAIN icd.platforms} = Pids
        /\ Len(icd.platforms) = Len(world.driver.picds)
        /\ world.env.OCL_ICD_PLATFORM_SORT # "none" =>
            \A m, n \in DOMAIN icd.platforms :
                m < n => Worth(icd.platforms[m]) >= Worth(icd.platforms[n])
        /\ world.env.OCL_ICD_DEFAULT_PLATFORM = NULL => icd.default_id = icd.platforms[1]

\* Whatever list the application passes, the platform this layer reads in it
\* is one the driver reported when the list goes down, and a context that is
\* created from a type always names one.
OnlyReportedPlatforms ==
    icd # None /\ answer.result.outcome = "forwarded" =>
        \/ answer.call = "PlatformCall" /\ answer.result.with \in Pids \cup {icd.default_id}
        \/ /\ answer.call \in {"clCreateContext", "clGetGLContextInfoKHR"}
           /\ ~ NamesPlatform(answer.result.with)
        \/ /\ answer.call # "PlatformCall"
           /\ NamesPlatform(answer.result.with)
           /\ FirstPlatform(answer.result.with) \in Pids

Accepted(call) ==
    /\ world.layer = "param_verification"
    /\ answer # None
    /\ answer.call = call
    /\ answer.result = Forwarded("none")

\* The layers below read the platform of a list from either end; in a list
\* that param_verification has no objection to they read the same.
ReadersAgree ==
    Accepted("clCreateContext") /\ NamesPlatform(answer.arguments.properties) =>
        FirstPlatform(answer.arguments.properties) = LastPlatform(answer.arguments.properties)

\* The sub-devices of a partition have room in the device and in the array.
Fits(param, device, room, scheme) ==
    IF scheme = "EQUALLY"
    THEN param[1] \in 1 .. device.cu /\ param[2] = 0 /\ device.cu \div param[1] <= room
    ELSE LET counts == Counts(param)
         IN  /\ ~ NotClosed(param)
             /\ \A n \in DOMAIN counts : counts[n] > 0
             /\ SumFunction(counts) <= device.cu
             /\ Len(counts) <= device.sd
             /\ Len(counts) <= room

\* The three versions of the partition check accept, between them, exactly
\* the partitions that fit, for counts whose sums stay below the width of
\* cl_uint.
PartitionExact ==
    (answer # None /\ answer.call = "clCreateSubDevices" /\ answer.arguments.device # NULL) =>
        LET a == answer.arguments
            device == a.device
            param == a.partition.param
            room == IF a.out_devices THEN a.num_devices ELSE UINT_RANGE
        IN  (/\ a.partition.scheme \in {"EQUALLY", "BY_COUNTS"}
             /\ \A n \in DOMAIN param : param[n] + device.cu < UINT_RANGE) =>
                (Accepted("clCreateSubDevices") <=> Fits(param, device, room, a.partition.scheme))

\* The bytes of a rectangle, by their offset in the buffer.
Bytes(origin, pitch, region) ==
    {(origin[3] + z) * SlicePitch(pitch, region) + (origin[2] + y) * RowPitch(pitch, region)
        + origin[1] + x :
            x \in 0 .. region[1] - 1, y \in 0 .. region[2] - 1, z \in 0 .. region[3] - 1}

\* The arithmetic on pitches, origins and gaps, after the checks in front of
\* it, finds an overlap exactly if some byte of the buffer is read and written.
RectOverlapExact ==
    /\ Accepted("clEnqueueCopyBufferRect") /\ answer.arguments.same_buffer =>
        LET r == answer.arguments.rectangle
        IN  Bytes(r.src_origin, r.src, r.region) \cap Bytes(r.dst_origin, r.dst, r.region) = {}
    /\ (answer # None /\ answer.call = "clEnqueueCopyBufferRect"
        /\ answer.arguments.same_buffer /\ answer.result.with = "CL_MEM_COPY_OVERLAP") =>
        LET r == answer.arguments.rectangle
        IN  Bytes(r.src_origin, r.src, r.region) \cap Bytes(r.dst_origin, r.dst, r.region) # {}

\* A copy of memory is refused for an overlap exactly if some byte is both read
\* and written, a copy of nothing included.
SvmOverlapExact ==
    (answer # None /\ answer.call = "clEnqueueSVMMemcpy") =>
        LET r == answer.arguments.range
            shared == \E byte \in r.dst .. r.dst + r.size - 1 :
                          r.src <= byte /\ byte < r.src + r.size
        IN  /\ Accepted("clEnqueueSVMMemcpy") => ~ shared
            /\ answer.result.with = "CL_MEM_COPY_OVERLAP" => shared

\* An enqueue that passes has work-groups the kernel can run: no more items
\* than its limit, although the product of the sizes is taken modulo the range
\* of size_t before any size has been compared with the device; and they tile
\* the range if groups must be uniform.  What it waits for is of its context.
GroupsFit ==
    Accepted("clEnqueueNDRangeKernel") =>
        LET a == answer.arguments.enqueue
            dims == 1 .. a.work_dim
        IN  /\ \A n \in 1 .. a.num_events : a.events[n] = a.kernel.context
            /\ a.local # NULL /\ Product(a.queue.device.max_sizes, a.work_dim) < SIZE_RANGE =>
                /\ Product(a.local, a.work_dim) <= a.kernel.group_size
                /\ MustBeUniform(a.version, a.queue.device) =>
                    \E groups \in [dims -> 0 .. SIZE_RANGE - 1] :
                        \A n \in dims : groups[n] * a.local[n] = a.global[n]

\* The checks read the sizes they are about to refuse, or not: they end the
\* process only for work-groups without items, for a null global size from
\* version 2.1 on, and for what lies in uninitialised memory.
ChecksSurvive ==
    (answer # None /\ answer.result.outcome = "crashed") =>
        LET a == answer.arguments.enqueue
        IN  \/ ~ answer.arguments.stack_is_zero
            \/ \E n \in 1 .. a.work_dim : a.local[n] = 0
            \/ a.global = NULL /\ a.version >= 201

Access(flags, read, write, both) ==
    (IF flags \cap {read, both} # {} THEN {"read"} ELSE {})
        \cup (IF flags \cap {write, both} # {} THEN {"write"} ELSE {})

\* A sub-buffer that passes lies in a buffer, as long as its end is an address;
\* it has some bytes, starts where some device may address, and gives neither
\* kernels nor the host an access that the buffer does not give.
SubBufferWithinBuffer ==
    Accepted("clCreateSubBuffer") =>
        LET a == answer.arguments.request
            buffer_access == Access(a.buffer.flags, "READ_ONLY", "WRITE_ONLY", "READ_WRITE")
            buffer_host == a.buffer.flags \cap {"HOST_READ_ONLY", "HOST_WRITE_ONLY", "HOST_NO_ACCESS"}
        IN  /\ a.region.origin + a.region.size < SIZE_RANGE =>
                a.region.origin .. a.region.origin + a.region.size \subseteq 0 .. a.buffer.size
            /\ a.region.size > 0
            /\ \E align \in a.buffer.aligns : (a.region.origin * 8) % align = 0
            /\ buffer_access # {} =>
                Access(a.flags, "READ_ONLY", "WRITE_ONLY", "READ_WRITE") \subseteq buffer_access
            /\ buffer_host # {} =>
                a.flags \cap {"HOST_READ_ONLY", "HOST_WRITE_ONLY"} \subseteq buffer_host
=============================================================================
