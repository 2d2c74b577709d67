----------------------------- MODULE ParamChecks -----------------------------
(***************************************************************************)
(* Checks of the param-verification layer on lists and regions             *)
(* (param-verification/list_violation.cpp) and the calls made of them: the *)
(* generated function of a command (parser.cpp) runs the tests of          *)
(* cl-avl.xml in order, the first that holds is the violation.             *)
(***************************************************************************)
EXTENDS ApiTypes, Functions

CONSTANTS
    UINT_RANGE,     \* the number of values of a cl_uint
    BufferSize      \* CL_MEM_SIZE of the buffers

Max2(a, b) == IF a > b THEN a ELSE b

\* Fault: a platform may be named twice.
RepeatedPlatform(properties) ==
    /\ properties # NULL
    /\ \E n \in DOMAIN properties :
        properties[n].name \notin {"CL_CONTEXT_PLATFORM", "CL_CONTEXT_INTEROP_USER_SYNC"}

\* cl_context_properties, base version: an unknown name, or a name twice.
context_list_violation(properties) ==
    /\ properties # NULL
    /\ \E n \in DOMAIN properties :
        \/ properties[n].name \notin {"CL_CONTEXT_PLATFORM", "CL_CONTEXT_INTEROP_USER_SYNC"}
        \/ \E m \in DOMAIN properties : m # n /\ properties[m].name = properties[n].name

\* The version with user_data: also a platform the driver does not know.
context_list_or_platform_violation(properties, known) ==
    \/ context_list_violation(properties)
    \/ /\ properties # NULL
       /\ \E n \in DOMAIN properties :
            properties[n].name = "CL_CONTEXT_PLATFORM" /\ properties[n].value \notin known

\* devices: NULL or the validity and availability of each device.
clCreateContext_violation(properties, known, devices, notify, user_data) ==
    IF context_list_violation(properties) THEN "CL_INVALID_PROPERTY"
    ELSE IF context_list_or_platform_violation(properties, known) THEN "CL_INVALID_PLATFORM"
    ELSE IF devices = NULL \/ devices = <<>> THEN "CL_INVALID_VALUE"
    ELSE IF \E n \in DOMAIN devices : devices[n] = "invalid" THEN "CL_INVALID_DEVICE"
    ELSE IF \E n \in DOMAIN devices : devices[n] = "unavailable" THEN "CL_DEVICE_NOT_AVAILABLE"
    ELSE IF ~ notify /\ user_data THEN "CL_INVALID_VALUE"
    ELSE "none"

-----------------------------------------------------------------------------
(***************************************************************************)
(* cl_device_partition_property.  A list is a scheme and what follows it,  *)
(* its last zeros included; BY_COUNTS_LIST_END is zero itself.             *)
(***************************************************************************)

as_cl_uint(value) == value % UINT_RANGE

\* The counts in front of the first zero, which is followed by another.
Counts(param) ==
    LET end == CHOOSE n \in DOMAIN param : param[n] = 0 /\ \A m \in 1 .. n - 1 : param[m] # 0
    IN  SubSeq(param, 1, end - 1)

NotClosed(param) == param[Len(Counts(param)) + 2] # 0

\* The compute units counted so far; each addition is one of cl_uint values.
curr_cu(counts, n) == as_cl_uint(SumFunctionOnSet(counts, 1 .. n))

equally_violation(param, cu) == param[1] <= 0 \/ as_cl_uint(param[1]) > cu \/ param[2] # 0

\* Fault: the counts are not added up.
CountsOneByOne(param, cu, sd) ==
    LET counts == Counts(param)
    IN  \/ NotClosed(param)
        \/ \E n \in DOMAIN counts : counts[n] < 0 \/ as_cl_uint(counts[n]) > cu \/ n > sd

counts_violation(param, cu, sd) ==
    LET counts == Counts(param)
    IN  \/ NotClosed(param)
        \/ \E n \in DOMAIN counts : counts[n] < 0 \/ curr_cu(counts, n) > cu \/ n > sd

\* A set of the bits of cl_device_affinity_domain, and not none.
affinity_violation(param) == param[1] \notin 1 .. 63 \/ param[2] # 0

\* The base version.
partition_violation(scheme, param) ==
    CASE scheme = "EQUALLY" -> param[1] = 0 \/ param[2] # 0
      [] scheme = "BY_COUNTS" -> NotClosed(param)
      [] scheme = "BY_AFFINITY_DOMAIN" -> affinity_violation(param)
      [] OTHER -> TRUE

\* The version with the device: `cu` compute units, `sd` sub-devices at most.
partition_device_violation(scheme, param, cu, sd) ==
    CASE scheme = "EQUALLY" -> equally_violation(param, cu)
      [] scheme = "BY_COUNTS" -> counts_violation(param, cu, sd) \/ Len(Counts(param)) > cu
      [] scheme = "BY_AFFINITY_DOMAIN" -> affinity_violation(param)
      [] OTHER -> TRUE

\* The version with num_devices as well.
partition_room_violation(scheme, param, cu, sd, num_devices) ==
    CASE scheme = "EQUALLY" -> equally_violation(param, cu) \/ cu \div param[1] > num_devices
      [] scheme = "BY_COUNTS" -> counts_violation(param, cu, sd) \/ Len(Counts(param)) > num_devices
      [] scheme = "BY_AFFINITY_DOMAIN" -> affinity_violation(param)
      [] OTHER -> TRUE

\* device: the limits [cu, sd] of a valid one, or NULL.
clCreateSubDevices_violation(device, scheme, param, num_devices, out_devices) ==
    IF device = NULL THEN "CL_INVALID_DEVICE"
    ELSE IF partition_violation(scheme, param) THEN "CL_INVALID_VALUE"
    ELSE IF partition_device_violation(scheme, param, device.cu, device.sd)
         THEN "CL_INVALID_DEVICE_PARTITION_COUNT"
    ELSE IF out_devices /\ partition_room_violation(scheme, param, device.cu, device.sd, num_devices)
         THEN "CL_INVALID_VALUE"
    ELSE "none"

-----------------------------------------------------------------------------
(***************************************************************************)
(* Regions.  Origins and regions are triples, x first.                     *)
(***************************************************************************)

\* One interval starts inside the period of the other and ends in its gap.
InGap(a, b, width, period) ==
    \/ b >= a + width /\ b + width <= a + period
    \/ a >= b + width /\ a + width <= b + period

\* check_copy_overlap for rectangles, after Appendix D of OpenCL 3.0.
check_copy_overlap(src_origin, dst_origin, region, row_pitch, slice_pitch) ==
    LET real_row_pitch == IF row_pitch > 0 THEN row_pitch ELSE region[1]
        real_slice_pitch == IF slice_pitch > 0 THEN slice_pitch ELSE region[2] * real_row_pitch
        slice_size == (region[2] - 1) * real_row_pitch + region[1]
        block_size == (region[3] - 1) * real_slice_pitch + slice_size
        start(origin) == origin[3] * real_slice_pitch + origin[2] * real_row_pitch + origin[1]
        dx(origin) == origin[1] % real_row_pitch
        dy(origin) == (origin[2] * real_row_pitch + origin[1]) % real_slice_pitch
    IN  ~ \/ start(dst_origin) + block_size <= start(src_origin)
          \/ start(src_origin) + block_size <= start(dst_origin)
          \/ InGap(dx(src_origin), dx(dst_origin), region[1], real_row_pitch)
          \/ InGap(dy(src_origin), dy(dst_origin), slice_size, real_slice_pitch)

\* Fault: ranges that touch overlap.
TouchingOverlap(dst, src, size) == src <= dst + size /\ dst <= src + size

\* check_copy_overlap for clEnqueueSVMMemcpy.
svm_copy_overlap(dst, src, size) ==
    \/ src < dst + 1 /\ dst < src + size
    \/ dst < src + 1 /\ src < dst + size

\* A pitch is zero, or no shorter than what it spans.
row_pitch_violation(row_pitch, region) == row_pitch # 0 /\ row_pitch < region[1]

\* Fault: any pitch long enough will do.
ShortSlicePitch(row_pitch, slice_pitch, region) ==
    LET real_row_pitch == IF row_pitch # 0 THEN row_pitch ELSE region[1]
    IN  slice_pitch # 0 /\ slice_pitch < region[2] * real_row_pitch

slice_pitch_violation(row_pitch, slice_pitch, region) ==
    LET real_row_pitch == IF row_pitch # 0 THEN row_pitch ELSE region[1]
    IN  /\ slice_pitch # 0
        /\ slice_pitch < region[2] * real_row_pitch \/ slice_pitch % real_row_pitch # 0

RowPitch(pitch, region) == Max2(pitch.row, region[1])
SlicePitch(pitch, region) == Max2(pitch.slice, RowPitch(pitch, region) * region[2])

out_of_bounds(origin, pitch, region) ==
    (origin[3] + region[3] - 1) * SlicePitch(pitch, region)
        + (origin[2] + region[2] - 1) * RowPitch(pitch, region) + origin[1] + region[1] > BufferSize

\* The tests on the queue, the buffers and the wait list come to `objects`,
\* the first violation among those in front of the regions, and `events`,
\* among those behind; both "none" in a call that gets that far.  The last
\* test does not ask whether the buffers are the same.
clEnqueueCopyBufferRect_violation(objects, same_buffer, src_origin, dst_origin, region, src, dst, events) ==
    IF objects # "none" THEN objects
    ELSE IF NULL \in {src_origin, dst_origin, region} THEN "CL_INVALID_VALUE"
    ELSE IF \E n \in 1 .. 3 : region[n] = 0 THEN "CL_INVALID_VALUE"
    ELSE IF \E pitch \in {src, dst} :
                \/ row_pitch_violation(pitch.row, region)
                \/ slice_pitch_violation(pitch.row, pitch.slice, region)
         THEN "CL_INVALID_VALUE"
    ELSE IF /\ same_buffer
            /\ \/ RowPitch(src, region) # RowPitch(dst, region)
               \/ SlicePitch(src, region) # SlicePitch(dst, region)
         THEN "CL_INVALID_VALUE"
    ELSE IF out_of_bounds(src_origin, src, region) \/ out_of_bounds(dst_origin, dst, region)
         THEN "CL_INVALID_VALUE"
    ELSE IF events # "none" THEN events
    ELSE IF check_copy_overlap(src_origin, dst_origin, region, src.row, src.slice)
         THEN "CL_MEM_COPY_OVERLAP"
    ELSE "none"

clEnqueueSVMMemcpy_violation(objects, dst, src, size, events) ==
    IF objects # "none" THEN objects
    ELSE IF events # "none" THEN events
    ELSE IF NULL \in {dst, src} THEN "CL_INVALID_VALUE"
    ELSE IF svm_copy_overlap(dst, src, size) THEN "CL_MEM_COPY_OVERLAP"
    ELSE "none"
=============================================================================
