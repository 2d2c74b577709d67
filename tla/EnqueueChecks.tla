---------------------------- MODULE EnqueueChecks ----------------------------
(***************************************************************************)
(* Checks of the param-verification layer that compare a call with several *)
(* answers of the driver: the enqueue of a kernel and the creation of a    *)
(* sub-buffer (cl-avl.xml, with the functions of struct_violation.cpp,     *)
(* list_violation.cpp and object_is_valid.cpp that its tests name).        *)
(*                                                                         *)
(* An object is what the queries on it answer, or NULL if it is invalid:   *)
(*   queue   [context, on_device, device], the device being                *)
(*           [id, max_dimensions, max_sizes, non_uniform]                  *)
(*   kernel  [context, built, group_size, required, sub_groups], `built`   *)
(*           the devices that its program was built for                    *)
(*   buffer  [type, associated, flags, size, aligns], `aligns` the base    *)
(*           address alignments of its context's devices, in bits          *)
(***************************************************************************)
EXTENDS ApiTypes, Functions

CONSTANTS SIZE_RANGE    \* the number of values of a size_t

as_size_t(value) == value % SIZE_RANGE

major(version) == version \div 100

Product(sizes, work_dim) == FoldFunctionOnSet(LAMBDA a, b : a * b, 1, sizes, 1 .. work_dim)

\* Fault: only a size of zero is looked for.
ZeroSizeOnly(version, work_dim, global_work_size) ==
    /\ version < 201
    /\ global_work_size # NULL
    /\ \E n \in 1 .. work_dim : global_work_size[n] = 0

global_size_violation(version, work_dim, global_work_size) ==
    /\ version < 201
    /\ \/ global_work_size = NULL
       \/ \E n \in 1 .. work_dim : global_work_size[n] = 0

group_size_violation(kernel, work_dim, local_work_size) ==
    local_work_size # NULL /\ as_size_t(Product(local_work_size, work_dim)) > kernel.group_size

MustBeUniform(version, device) ==
    \/ major(version) < 2
    \/ major(version) >= 3 /\ ~ device.non_uniform

\* Only for work groups that must be uniform.  The remainders are taken in
\* order: a local size of zero ends the process unless an earlier one differs.
non_uniform_violation(version, queue, kernel, work_dim, global_work_size, local_work_size) ==
    LET dims == 1 .. work_dim
        divides(n) == local_work_size[n] # 0 /\ global_work_size[n] % local_work_size[n] = 0
    IN  IF local_work_size = NULL \/ ~ MustBeUniform(version, queue.device) THEN "none"
        ELSE IF \E n \in dims : kernel.required[n] \notin {0, local_work_size[n]}
             THEN "CL_INVALID_WORK_GROUP_SIZE"
        ELSE IF global_work_size = NULL THEN "crash"
        ELSE IF \A n \in dims : divides(n) THEN "none"
        ELSE IF local_work_size[CHOOSE n \in dims : ~ divides(n) /\ \A m \in 1 .. n - 1 : divides(m)] = 0
             THEN "crash"
        ELSE "CL_INVALID_WORK_GROUP_SIZE"

\* The driver: the sub-groups, of two work-items, that a work-group is split in.
SubGroupCount(local_work_size, work_dim) == (Product(local_work_size, work_dim) + 1) \div 2

sub_group_violation(version, kernel, work_dim, local_work_size) ==
    /\ version >= 201
    /\ local_work_size # NULL
    /\ kernel.sub_groups \notin {0, SubGroupCount(local_work_size, work_dim)}

\* Fault: only the first size is looked at.
FirstSizeOnly(queue, work_dim, local_work_size) ==
    local_work_size # NULL /\ queue.device.max_sizes[1] < local_work_size[1]

item_size_violation(queue, work_dim, local_work_size) ==
    /\ local_work_size # NULL
    /\ \E n \in 1 .. work_dim : queue.device.max_sizes[n] < local_work_size[n]

\* The program was not built for the queue's device.
kernel_not_in(kernel, queue) == queue.device.id \notin kernel.built

\* event_wait_list: NULL, or for each event its context, NULL if it is invalid.
event_list_violation(queue, num_events_in_wait_list, event_wait_list) ==
    LET events == {event_wait_list[n] : n \in 1 .. num_events_in_wait_list}
    IN  IF (event_wait_list = NULL) # (num_events_in_wait_list = 0) \/ NULL \in events
        THEN "CL_INVALID_EVENT_WAIT_LIST"
        ELSE IF \E context \in events : context # queue.context THEN "CL_INVALID_CONTEXT"
        ELSE "none"

\* `a`: the arguments, and the version of the queue's platform.
\* The number of devices of the program is read into the lower half of a size_t
\* that nothing initialises: right only if the upper half happens to be zero,
\* else a vector that no memory can hold.
clEnqueueNDRangeKernel_violation(a, stack_is_zero) ==
    LET uniform == non_uniform_violation(a.version, a.queue, a.kernel, a.work_dim, a.global, a.local)
    IN
    IF a.queue = NULL \/ a.queue.on_device THEN "CL_INVALID_COMMAND_QUEUE"
    ELSE IF a.kernel = NULL THEN "CL_INVALID_KERNEL"
    ELSE IF a.queue.context # a.kernel.context THEN "CL_INVALID_CONTEXT"
    ELSE IF ~ stack_is_zero THEN "crash"
    ELSE IF kernel_not_in(a.kernel, a.queue) THEN "CL_INVALID_PROGRAM_EXECUTABLE"
    ELSE IF a.work_dim = 0 \/ a.work_dim > a.queue.device.max_dimensions
         THEN "CL_INVALID_WORK_DIMENSION"
    ELSE IF global_size_violation(a.version, a.work_dim, a.global)
         THEN "CL_INVALID_GLOBAL_WORK_SIZE"
    ELSE IF a.version < 101 /\ a.offset # NULL THEN "CL_INVALID_GLOBAL_OFFSET"
    ELSE IF group_size_violation(a.kernel, a.work_dim, a.local) THEN "CL_INVALID_WORK_GROUP_SIZE"
    ELSE IF uniform # "none" THEN uniform
    ELSE IF sub_group_violation(a.version, a.kernel, a.work_dim, a.local)
         THEN "CL_INVALID_WORK_GROUP_SIZE"
    ELSE IF item_size_violation(a.queue, a.work_dim, a.local) THEN "CL_INVALID_WORK_ITEM_SIZE"
    ELSE event_list_violation(a.queue, a.num_events, a.events)

-----------------------------------------------------------------------------
(***************************************************************************)
(* Sub-buffers.                                                            *)
(***************************************************************************)

\* A kernel writes below a buffer it may only read, or reads what it may only
\* write; the same for the host.
access_violation(buffer_flags, flags) ==
    \/ "WRITE_ONLY" \in buffer_flags /\ flags \cap {"READ_WRITE", "READ_ONLY"} # {}
    \/ "READ_ONLY" \in buffer_flags /\ flags \cap {"READ_WRITE", "WRITE_ONLY"} # {}
    \/ flags \cap {"USE_HOST_PTR", "ALLOC_HOST_PTR", "COPY_HOST_PTR"} # {}
    \/ "HOST_WRITE_ONLY" \in buffer_flags /\ "HOST_READ_ONLY" \in flags
    \/ "HOST_READ_ONLY" \in buffer_flags /\ "HOST_WRITE_ONLY" \in flags
    \/ "HOST_NO_ACCESS" \in buffer_flags /\ flags \cap {"HOST_READ_ONLY", "HOST_WRITE_ONLY"} # {}

\* Fault: the size alone is compared.
SizeFits(region, buffer) == region.size > buffer.size

region_violation(region, buffer) == as_size_t(region.origin + region.size) > buffer.size

\* An alignment in bits is compared with an origin in bytes.
alignment_violation(region, buffer) == \A align \in buffer.aligns : region.origin % align # 0

clCreateSubBuffer_violation(buffer, flags, buffer_create_type, region) ==
    IF buffer = NULL \/ buffer.type # "BUFFER" \/ buffer.associated THEN "CL_INVALID_MEM_OBJECT"
    ELSE IF access_violation(buffer.flags, flags) THEN "CL_INVALID_VALUE"
    ELSE IF buffer_create_type # "REGION" \/ region = NULL THEN "CL_INVALID_VALUE"
    ELSE IF region_violation(region, buffer) THEN "CL_INVALID_VALUE"
    ELSE IF region.size = 0 THEN "CL_INVALID_BUFFER_SIZE"
    ELSE IF alignment_violation(region, buffer) THEN "CL_MISALIGNED_SUB_BUFFER_OFFSET"
    ELSE "none"
=============================================================================
