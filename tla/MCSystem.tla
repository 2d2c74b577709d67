------------------------------ MODULE MCSystem ------------------------------
(* Small instances of LayeredSystem for TLC. *)
EXTENDS LayeredSystem, TLC

\* The parent vectors the wrappers pass.
UpToTwo == BoundedSeq(Handles, 2)

\* Contexts, queues and events, without the query for an event's queue.
QueueCalls ==
    {clGetDeviceIDs, clCreateContext, clRetainContext, clReleaseContext,
     clCreateCommandQueueWithProperties, clRetainCommandQueue,
     clReleaseCommandQueue, clGetCommandQueueInfo, clEnqueueMarker, clRetainEvent, clReleaseEvent}

\* Of these, an event keeps the one reference it is made with.
SharedCalls == QueueCalls \ {clRetainEvent}

\* Every wrapper, again without that query.
AllCalls == Dispatch \ {clGetEventInfo}

\* Every wrapper that records what it returns, again without that query.
RecordingCalls == AllCalls \ {clCreateEventFromEGLSyncKHR}

EventQueueQuery == QueueCalls \cup {clGetEventInfo}

FromTypeCalls ==
    {clCreateContextFromType, clReleaseContext, clGetContextInfo, clCreateCommandQueue}

DefaultQueueCalls ==
    {clGetDeviceIDs, clCreateContext, clRetainContext, clReleaseContext,
     clCreateCommandQueueWithProperties, clRetainCommandQueue, clReleaseCommandQueue}

NoProperties == {<<>>}

DefaultOnly == {<<<<"CL_QUEUE_PROPERTIES", TRUE>>>>}
DefaultFirst == {<<<<"CL_QUEUE_PROPERTIES", TRUE>>>>, <<>>}
DefaultSecond ==
    {<<<<"CL_QUEUE_SIZE", FALSE>>, <<"CL_QUEUE_PROPERTIES", TRUE>>>>}

\* Programs, the kernels in them, and clones of those.
ProgramCalls ==
    {clGetPlatformIDs, clGetDeviceIDs, clCreateContext, clReleaseContext, clCreateProgramWithSource,
     clRetainProgram, clReleaseProgram, clGetProgramInfo,
     clCreateKernelsInProgram, clCloneKernel, clRetainKernel, clReleaseKernel, clGetKernelInfo}

\* What was deleted before and what the threads hold guides no step of an
\* application that passes anything.
MisuseView == <<objects, frames, mutex, ret, leaks, drv, call>>

\* What was deleted before guides no step at all.
LegalView == <<objects, frames, mutex, ret, leaks, drv, call, own>>

PoolSymmetry == Permutations(Pool) \cup Permutations(Threads)

DeviceSymmetry == PoolSymmetry \cup Permutations(Devices)
=============================================================================
