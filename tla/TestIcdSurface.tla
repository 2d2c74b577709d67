--------------------------- MODULE TestIcdSurface ---------------------------
(***************************************************************************)
(* The entry points of the mock driver, one action each                    *)
(* (object_lifetime_test_icd_surface.cpp).  Every call holds the global    *)
(* mutex from the check of its object to its end, so a call is one step.   *)
(***************************************************************************)
EXTENDS TestIcd

CONSTANTS
    Environments,   \* the environments it is started in: [version, options]
    MaxCount,       \* bound: calls keep to this many explicit references
    Lists           \* bound: the device and event lists are at most this long

ASSUME EnvironmentsAssumption == Environments \subseteq [version : Nat, options : SUBSET Options]
ASSUME BoundsAssumption == MaxCount \in Nat /\ Lists \in Nat

VARIABLES answer    \* of the last call: its code and value

icdvars == <<obj, env, answer>>

Masked(code) == IF "always_return_success" \in env THEN "CL_SUCCESS" ELSE code

Answer(result) ==
    /\ obj' = result.obj
    /\ answer' = [code |-> Masked(result.code), value |-> result.value]
    /\ UNCHANGED env

\* `results`: what the method comes to, for one or another of its arguments.
invoke_if_valid(T, h, retaining, results) ==
    IF Exists(T, h) /\ is_valid(h, retaining) THEN \E result \in results : Answer(result)
    ELSE Answer(Failure(INVALID(T)))

create_if_valid(T, h, results) ==
    IF Exists(T, h) /\ is_valid(h, FALSE) THEN \E result \in results : Answer(result)
    ELSE Answer(Failure(INVALID(T)))

-----------------------------------------------------------------------------
(***************************************************************************)
(* Arguments: objects of the right kind, alive or not; None stands for     *)
(* anything else.                                                          *)
(***************************************************************************)

Of(T) == {h \in Objects : Exists(T, h)}

Handles(T) == Of(T) \cup {None}

Fresh == {h \in Objects : New(1) = <<h>>}

ListsOf(hs) == UNION {[1 .. n -> hs] : n \in 0 .. Lists}

\* Room for no answer, or for any but a list.
Sizes == {0, 1}

\* A question asked of an object of type T.
GetInfo(T, h, answers, params) ==
    \E param \in params, size \in Sizes, pointer \in BOOLEAN :
        invoke_if_valid(T, h, FALSE, {Info(answers, param, size, pointer)})

-----------------------------------------------------------------------------
(***************************************************************************)
(* The platform: its handle is compared, there is no object to look for.   *)
(***************************************************************************)

IfPlatform(known, results) ==
    \E result \in (IF known THEN results ELSE {Failure(INVALID("PLATFORM"))}) : Answer(result)

clGetPlatformInfo_wrap(known) ==
    IfPlatform(known,
        {Info(platform_clGetPlatformInfo, param, size, pointer) :
            param \in {"Attribute", "Unknown"}, size \in Sizes, pointer \in BOOLEAN})

clGetDeviceIDs_wrap(known) ==
    IfPlatform(known,
        {platform_clGetDeviceIDs(num_entries, devices, custom) :
            num_entries \in 0 .. 1, devices \in BOOLEAN, custom \in BOOLEAN})

\* One platform; its number is written even if the call is refused.
clIcdGetPlatformIDsKHR ==
    \E num_entries \in 0 .. 2, platforms \in BOOLEAN :
        Answer(IF platforms # (num_entries = 1) /\ (platforms \/ num_entries >= 1)
               THEN Failure("CL_INVALID_VALUE") ELSE Success(obj, <<1>>))

-----------------------------------------------------------------------------
(***************************************************************************)
(* Devices.                                                                *)
(***************************************************************************)

clGetDeviceInfo_wrap(d) ==
    GetInfo("DEVICE", d, device_clGetDeviceInfo(d),
            {"CL_DEVICE_PARENT_DEVICE", "CL_DEVICE_REFERENCE_COUNT", "Unknown"})

clCreateSubDevices_wrap(d) ==
    \E n \in 1 .. ComputeUnits, num_devices \in 0 .. ComputeUnits, out_devices \in BOOLEAN :
        /\ Room(num_devices)
        /\ invoke_if_valid("DEVICE", d, FALSE,
               {device_clCreateSubDevices(d, New(num_devices), n, num_devices, out_devices)})

clRetainDevice_wrap(d) == invoke_if_valid("DEVICE", d, TRUE, {device_clRetainDevice(d)})

clReleaseDevice_wrap(d) == invoke_if_valid("DEVICE", d, FALSE, {device_clReleaseDevice(d)})

clCreateContext_wrap ==
    \E devices \in ListsOf(Of("DEVICE")) \ {<<>>}, h \in Fresh :
        create_if_valid("DEVICE", devices[1], {device_clCreateContext(devices, h)})

-----------------------------------------------------------------------------
(***************************************************************************)
(* Contexts and what is created in one.                                    *)
(***************************************************************************)

clGetContextInfo_wrap(c) ==
    GetInfo("CONTEXT", c, context_clGetContextInfo(c),
            {"CL_CONTEXT_DEVICES", "CL_CONTEXT_REFERENCE_COUNT", "Unknown"})

clRetainContext_wrap(c) == invoke_if_valid("CONTEXT", c, TRUE, {retain("CONTEXT", c)})

clReleaseContext_wrap(c) == invoke_if_valid("CONTEXT", c, FALSE, {release("CONTEXT", c)})

clCreateBuffer_wrap(c, h) ==
    create_if_valid("CONTEXT", c, {context_clCreateBuffer(c, h)})

clCreateBufferWithProperties_wrap(c, h) ==
    create_if_valid("CONTEXT", c, {context_clCreateBufferWithProperties(c, h)})

clCreateImage_wrap(c, h) ==
    create_if_valid("CONTEXT", c, {context_clCreateImage(c, h)})

clCreateImageWithProperties_wrap(c, h) ==
    \E from_buffer \in BOOLEAN :
        create_if_valid("CONTEXT", c, context_clCreateImageWithProperties(c, h, from_buffer))

clCreateImage2D_wrap(c, h) ==
    create_if_valid("CONTEXT", c, {context_clCreateImage2D(c, h)})

clCreateImage3D_wrap(c, h) ==
    create_if_valid("CONTEXT", c, {context_clCreateImage3D(c, h)})

clCreatePipe_wrap(c, h) ==
    create_if_valid("CONTEXT", c, {context_clCreatePipe(c, h)})

clCreateCommandQueue_wrap(c, h) ==
    create_if_valid("CONTEXT", c,
        {context_clCreateCommandQueue(c, h, d) : d \in Handles("DEVICE")})

clCreateCommandQueueWithProperties_wrap(c, h) ==
    \E d \in Handles("DEVICE"), default \in BOOLEAN :
        create_if_valid("CONTEXT", c,
            context_clCreateCommandQueueWithProperties(c, h, d, default))

clCreateProgramWithSource_wrap(c, h) ==
    create_if_valid("CONTEXT", c, {context_clCreateProgramWithSource(c, h)})

clCreateUserEvent_wrap(c, h) ==
    create_if_valid("CONTEXT", c, {context_clCreateUserEvent(c, h)})

clCreateSampler_wrap(c, h) ==
    create_if_valid("CONTEXT", c, {context_clCreateSampler(c, h)})

clCreateSamplerWithProperties_wrap(c, h) ==
    create_if_valid("CONTEXT", c, {context_clCreateSamplerWithProperties(c, h)})

clGetSupportedImageFormats_wrap(c) ==
    \E num_entries \in {0, FormatCount}, image_formats \in BOOLEAN :
        invoke_if_valid("CONTEXT", c, FALSE,
            {context_clGetSupportedImageFormats(num_entries, image_formats)})

-----------------------------------------------------------------------------
(***************************************************************************)
(* Memory objects.                                                         *)
(***************************************************************************)

clCreateSubBuffer_wrap(m, h) ==
    create_if_valid("MEM", m,
        {mem_clCreateSubBuffer(m, h, region) : region \in {"fits", "too_large", "null"}})

clRetainMemObject_wrap(m) == invoke_if_valid("MEM", m, TRUE, {retain("MEM", m)})

clReleaseMemObject_wrap(m) == invoke_if_valid("MEM", m, FALSE, {release("MEM", m)})

clGetMemObjectInfo_wrap(m) ==
    GetInfo("MEM", m, mem_clGetMemObjectInfo(m),
            {"CL_MEM_ASSOCIATED_MEMOBJECT", "CL_MEM_REFERENCE_COUNT", "Unknown"})

clGetImageInfo_wrap(m) ==
    GetInfo("MEM", m, mem_clGetImageInfo(m), {"Attribute", "Unknown"})

-----------------------------------------------------------------------------
(***************************************************************************)
(* Command queues.                                                         *)
(***************************************************************************)

clEnqueueNDRangeKernel_wrap(q, h) ==
    \E events \in ListsOf(Of("EVENT")) \cup {None}, event \in BOOLEAN :
        invoke_if_valid("COMMAND_QUEUE", q, FALSE,
            {command_queue_clEnqueueNDRangeKernel(q, h, k, events, event) : k \in Of("KERNEL")})

clGetCommandQueueInfo_wrap(q) ==
    GetInfo("COMMAND_QUEUE", q, command_queue_clGetCommandQueueInfo(q),
            {"CL_QUEUE_CONTEXT", "CL_QUEUE_REFERENCE_COUNT", "Unknown"})

clRetainCommandQueue_wrap(q) ==
    invoke_if_valid("COMMAND_QUEUE", q, TRUE, {retain("COMMAND_QUEUE", q)})

clReleaseCommandQueue_wrap(q) ==
    invoke_if_valid("COMMAND_QUEUE", q, FALSE, {release("COMMAND_QUEUE", q)})

\* These look at the queue and at nothing else.
clEnqueueFillBuffer_wrap(q) ==
    invoke_if_valid("COMMAND_QUEUE", q, FALSE, {Success(obj, None)})

clEnqueueCopyImageToBuffer_wrap(q) ==
    invoke_if_valid("COMMAND_QUEUE", q, FALSE, {Success(obj, None)})

clEnqueueCopyImage_wrap(q) ==
    invoke_if_valid("COMMAND_QUEUE", q, FALSE, {Success(obj, None)})

-----------------------------------------------------------------------------
(***************************************************************************)
(* Programs and kernels.                                                   *)
(***************************************************************************)

clBuildProgram_wrap(p) ==
    invoke_if_valid("PROGRAM", p, FALSE,
        {program_clBuildProgram(p, devices) : devices \in ListsOf(Of("DEVICE"))})

clGetProgramInfo_wrap(p) ==
    GetInfo("PROGRAM", p, program_clGetProgramInfo(p),
            {"CL_PROGRAM_DEVICES", "CL_PROGRAM_REFERENCE_COUNT", "Unknown"})

clRetainProgram_wrap(p) == invoke_if_valid("PROGRAM", p, TRUE, {retain("PROGRAM", p)})

clReleaseProgram_wrap(p) == invoke_if_valid("PROGRAM", p, FALSE, {release("PROGRAM", p)})

clCreateKernel_wrap(p, h) == create_if_valid("PROGRAM", p, {program_clCreateKernel(p, h)})

clCreateKernelsInProgram_wrap(p) ==
    /\ Room(KERNEL_COUNT)
    /\ \E num_kernels \in {0, KERNEL_COUNT}, kernels \in BOOLEAN :
           invoke_if_valid("PROGRAM", p, FALSE,
               {program_clCreateKernelsInProgram(p, New(KERNEL_COUNT), num_kernels, kernels)})

clSetKernelArg_wrap(k) == invoke_if_valid("KERNEL", k, FALSE, {kernel_clSetKernelArg(k)})

clCloneKernel_wrap(k, h) == create_if_valid("KERNEL", k, {kernel_clCloneKernel(k, h)})

clGetKernelInfo_wrap(k) ==
    GetInfo("KERNEL", k, kernel_clGetKernelInfo(k),
            {"CL_KERNEL_PROGRAM", "CL_KERNEL_REFERENCE_COUNT", "Unknown"})

clRetainKernel_wrap(k) == invoke_if_valid("KERNEL", k, TRUE, {retain("KERNEL", k)})

clReleaseKernel_wrap(k) == invoke_if_valid("KERNEL", k, FALSE, {release("KERNEL", k)})

-----------------------------------------------------------------------------
(***************************************************************************)
(* Events and samplers.                                                    *)
(***************************************************************************)

clSetUserEventStatus_wrap(e) ==
    invoke_if_valid("EVENT", e, FALSE,
        {event_clSetUserEventStatus(e, status) : status \in {"CL_COMPLETE", "CL_RUNNING"}})

clGetEventInfo_wrap(e) ==
    GetInfo("EVENT", e, event_clGetEventInfo(e),
            {"CL_EVENT_COMMAND_QUEUE", "CL_EVENT_REFERENCE_COUNT", "Unknown"})

clWaitForEvents_wrap ==
    \E events \in ListsOf(Of("EVENT")) :
        IF events = <<>> THEN Answer(Failure(INVALID("EVENT")))
        ELSE invoke_if_valid("EVENT", events[1], FALSE,
                 {event_clWaitForEvents(events[1], events)})

clRetainEvent_wrap(e) == invoke_if_valid("EVENT", e, TRUE, {retain("EVENT", e)})

clReleaseEvent_wrap(e) == invoke_if_valid("EVENT", e, FALSE, {release("EVENT", e)})

clGetSamplerInfo_wrap(s) ==
    GetInfo("SAMPLER", s, sampler_clGetSamplerInfo(s),
            {"CL_SAMPLER_CONTEXT", "CL_SAMPLER_REFERENCE_COUNT", "Unknown"})

clRetainSampler_wrap(s) == invoke_if_valid("SAMPLER", s, TRUE, {retain("SAMPLER", s)})

clReleaseSampler_wrap(s) == invoke_if_valid("SAMPLER", s, FALSE, {release("SAMPLER", s)})

-----------------------------------------------------------------------------

\* The platform object is constructed: reporting implicit references is
\* refused for versions 1.x (the process exits).
Init ==
    /\ \E e \in Environments :
        /\ "report_implicit_ref_count_to_user" \in e.options => e.version \div 100 # 1
        /\ env = e.options
    /\ obj = [h \in Objects |->
                IF h = RootDevice
                THEN [NewObject("DEVICE", <<>>, {}) EXCEPT !.cu_count = ComputeUnits]
                ELSE None]
    /\ answer = [code |-> "CL_SUCCESS", value |-> None]

\* MaxCount: no reference is added to an object that has that many.
MayRetain(h) == h # None => obj[h].ref_count < MaxCount

Platform ==
    \/ \E known \in BOOLEAN : clGetPlatformInfo_wrap(known) \/ clGetDeviceIDs_wrap(known)
    \/ clIcdGetPlatformIDsKHR

DeviceCalls ==
    \/ clCreateContext_wrap
    \/ \E d \in Of("DEVICE") : clGetDeviceInfo_wrap(d) \/ clCreateSubDevices_wrap(d)
    \/ \E d \in Handles("DEVICE") :
        \/ MayRetain(d) /\ clRetainDevice_wrap(d)
        \/ clReleaseDevice_wrap(d)

ContextCalls ==
    \/ \E c \in Handles("CONTEXT") :
        \/ MayRetain(c) /\ clRetainContext_wrap(c)
        \/ clReleaseContext_wrap(c)
    \/ \E c \in Of("CONTEXT") :
        clGetContextInfo_wrap(c) \/ clGetSupportedImageFormats_wrap(c)
    \/ \E c \in Of("CONTEXT"), h \in Fresh :
        \/ clCreateBuffer_wrap(c, h) \/ clCreateBufferWithProperties_wrap(c, h)
        \/ clCreateImage_wrap(c, h) \/ clCreateImageWithProperties_wrap(c, h)
        \/ clCreateImage2D_wrap(c, h) \/ clCreateImage3D_wrap(c, h)
        \/ clCreatePipe_wrap(c, h) \/ clCreateCommandQueue_wrap(c, h)
        \/ /\ \A q \in Of("COMMAND_QUEUE") : MayRetain(q)
           /\ clCreateCommandQueueWithProperties_wrap(c, h)
        \/ clCreateProgramWithSource_wrap(c, h) \/ clCreateUserEvent_wrap(c, h)
        \/ clCreateSampler_wrap(c, h) \/ clCreateSamplerWithProperties_wrap(c, h)

MemCalls ==
    \/ \E m \in Handles("MEM") :
        \/ MayRetain(m) /\ clRetainMemObject_wrap(m)
        \/ clReleaseMemObject_wrap(m)
    \/ \E m \in Of("MEM") : clGetMemObjectInfo_wrap(m) \/ clGetImageInfo_wrap(m)
    \/ \E m \in Of("MEM"), h \in Fresh : clCreateSubBuffer_wrap(m, h)

QueueCalls ==
    \/ \E q \in Handles("COMMAND_QUEUE") :
        \/ MayRetain(q) /\ clRetainCommandQueue_wrap(q)
        \/ clReleaseCommandQueue_wrap(q)
    \/ \E q \in Of("COMMAND_QUEUE") :
        \/ clGetCommandQueueInfo_wrap(q) \/ clEnqueueFillBuffer_wrap(q)
        \/ clEnqueueCopyImageToBuffer_wrap(q) \/ clEnqueueCopyImage_wrap(q)
    \/ \E q \in Of("COMMAND_QUEUE"), h \in Fresh :
        clEnqueueNDRangeKernel_wrap(q, h)

ProgramCalls ==
    \/ \E p \in Handles("PROGRAM") :
        \/ MayRetain(p) /\ clRetainProgram_wrap(p)
        \/ clReleaseProgram_wrap(p)
    \/ \E p \in Of("PROGRAM") :
        \/ clGetProgramInfo_wrap(p) \/ clBuildProgram_wrap(p)
        \/ clCreateKernelsInProgram_wrap(p)
    \/ \E p \in Of("PROGRAM"), h \in Fresh : clCreateKernel_wrap(p, h)

KernelCalls ==
    \/ \E k \in Handles("KERNEL") :
        \/ MayRetain(k) /\ clRetainKernel_wrap(k)
        \/ clReleaseKernel_wrap(k)
    \/ \E k \in Of("KERNEL") : clGetKernelInfo_wrap(k) \/ clSetKernelArg_wrap(k)
    \/ \E k \in Of("KERNEL"), h \in Fresh : clCloneKernel_wrap(k, h)

EventCalls ==
    \/ \E e \in Handles("EVENT") :
        \/ MayRetain(e) /\ clRetainEvent_wrap(e)
        \/ clReleaseEvent_wrap(e)
    \/ \E e \in Of("EVENT") : clGetEventInfo_wrap(e) \/ clSetUserEventStatus_wrap(e)
    \/ clWaitForEvents_wrap

SamplerCalls ==
    \/ \E s \in Handles("SAMPLER") :
        \/ MayRetain(s) /\ clRetainSampler_wrap(s)
        \/ clReleaseSampler_wrap(s)
    \/ \E s \in Of("SAMPLER") : clGetSamplerInfo_wrap(s)

Next ==
    \/ Platform \/ DeviceCalls \/ ContextCalls \/ MemCalls \/ QueueCalls
    \/ ProgramCalls \/ KernelCalls \/ EventCalls \/ SamplerCalls

Spec == Init /\ [][Next]_icdvars

-----------------------------------------------------------------------------
(***************************************************************************)
(* Properties.                                                             *)
(***************************************************************************)

\* Addresses hold objects with counts that fit cl_uint; the root device stays.
IcdTypeOK ==
    /\ \A h \in Objects : obj[h] # None =>
        /\ obj[h].type \in Types
        /\ {obj[h].ref_count, obj[h].implicit_ref_count} \subseteq 0 .. UINT_RANGE - 1
        /\ obj[h].referenced \subseteq ToSet(obj[h].parents)
        /\ \A p \in ToSet(obj[h].parents) : obj[p] # None
    /\ obj[RootDevice].type = "DEVICE" /\ obj[RootDevice].ref_count = 1
    /\ env \subseteq Options

\* No option lets the application use objects it released.
Strict ==
    {"allow_using_inaccessible_objects", "allow_using_released_objects"} \cap env = {}

Children(h) == {c \in Objects : obj[c] # None /\ h \in ToSet(obj[c].parents)}

\* All that notify h on their end were counted at their creation.
Counted(h) ==
    /\ obj[h] # None /\ obj[h].type \notin Kinds("DEVICE")
    /\ \A c \in Children(h) : h \in obj[c].referenced

\* The two counters of ref_counted_object agree with the objects there are:
\* an object whose children were all counted has an implicit reference for each
\* child that still has explicit ones, and none for a child that was released
\* and never had children of its own.  (A released child with children counts
\* or not, by the order the two were released in.)  So the counter never wraps
\* around, and an object is inaccessible only as long as something was made
\* from it.
ImplicitBetween ==
    Strict =>
        \A h \in Objects : Counted(h) =>
            LET held == {c \in Children(h) : obj[c].ref_count > 0}
                gone == {c \in Children(h) : obj[c].ref_count = 0 /\ Children(c) = {}}
            IN  /\ Cardinality(held) <= obj[h].implicit_ref_count
                /\ obj[h].implicit_ref_count <= Cardinality(Children(h) \ gone)

\* A call that answers with an error has changed no object.
ErrorsChangeNothing == [][answer'.code # "CL_SUCCESS" => obj' = obj]_icdvars

\* By default an object without explicit references stays without: the check
\* of the entry point lets a retain through that retain() has to refuse.
NoResurrection ==
    [][Strict =>
        \A h \in Objects : obj[h] # None /\ obj[h].ref_count = 0 => obj'[h].ref_count = 0]_icdvars

\* A context has at most one default queue per device, whoever asks for it in
\* whatever order.
OneDefaultQueue ==
    \A q, r \in Of("COMMAND_QUEUE") :
        obj[q].default /\ obj[r].default /\ obj[q].parents = obj[r].parents => q = r
=============================================================================
