---------------------------- MODULE EntryPoints ----------------------------
(***************************************************************************)
(* The OpenCL entry points the layer wraps (object_lifetime.cpp, the       *)
(* *_wrap functions and the dispatch table they are put in), each as the   *)
(* checks it makes before the driver is called, in order, and the records  *)
(* it makes of what the driver returned.  LayeredSystem executes them.     *)
(*                                                                         *)
(* The arguments of an entry point are its handles, in the order they are  *)
(* checked; arguments of other types, and what the driver does with them,  *)
(* are left out.                                                           *)
(***************************************************************************)
EXTENDS Sequences

\* A handle argument: the check made on it, the type named in the check,
\* whether a null argument skips the check, and whether the macro writes
\* through errcode_ret without testing it.
Argument(check, T, null, bare) ==
    [check |-> check, type |-> T, null |-> null, bare |-> bare]

Exists(T)        == Argument("exists", T, FALSE, FALSE)
ExistsErrc(T)    == Argument("exists", T, FALSE, FALSE)
ExistList(T)     == Argument("list", T, TRUE, FALSE)
ExistListErrc(T) == Argument("list", T, TRUE, TRUE)
IfGiven(a)       == [a EXCEPT !.null = TRUE]

\* An argument the wrapper hands to the driver without looking at it.
Unchecked(T)     == Argument("unchecked", T, TRUE, FALSE)

\* What is recorded of an object the driver returned: the check_* function,
\* the object's type and where its parents come from.
Result(check, T, parents, bare) ==
    [check |-> check, type |-> T, parents |-> parents, bare |-> bare]

Creation(T, parents)           == Result("creation", T, parents, FALSE)
CreationList(T, parents)       == Result("list", T, parents, FALSE)
AddOrExists(T, parents)        == Result("add", T, parents, FALSE)
CreateOrExistsErrc(T, parents) == Result("create or exists", T, parents, TRUE)

\* The two results most queries share.  A device is recorded as a sub-device
\* when the driver names a parent for it.
EachDevice == AddOrExists("DEVICE", "get_parent_device")
ContextOf  == AddOrExists("CONTEXT", "get_parent_devices")

NOTHING == "NOTHING"

\* Entry points by shape.  `makes` is the type of object the driver creates,
\* `results` what the wrapper can record, one of them in a call; a call may
\* also return nothing to record.
EntryPoint(arguments, makes, results) ==
    [arguments |-> arguments, makes |-> makes, results |-> results, readsCount |-> FALSE]

\* A wrapper that reads the count after the driver's call although it may be
\* null, when there is no room for a list either.
ReadsCount(entry) == [entry EXCEPT !.readsCount = TRUE]

Uses(arguments) == EntryPoint(arguments, NOTHING, {})

Retains(T)  == Uses(<<Argument("retain", T, FALSE, FALSE)>>)
Releases(T) == Uses(<<Argument("release", T, FALSE, FALSE)>>)

Creates(arguments, result) == EntryPoint(arguments, result.type, {result})

CreatesInContext(T) == Creates(<<ExistsErrc("CONTEXT")>>, Creation(T, "argument"))

Queries(T, results) == EntryPoint(<<Exists(T)>>, NOTHING, results)

\* Platforms and devices exist all along; the driver only lists them.
Lists(arguments, T) == EntryPoint(arguments, NOTHING, {Result("roots", T, "none", FALSE)})

\* A command returns an event if the application asked for one.
Commands(arguments) == Creates(arguments, Creation("EVENT", "get_parent"))

Enqueues(arguments) ==
    Commands(<<Exists("COMMAND_QUEUE")>> \o arguments \o <<ExistList("EVENT")>>)

\* A mapping returns its error through errcode_ret.
EnqueuesMap(T) ==
    Commands(<<ExistsErrc("COMMAND_QUEUE"), ExistsErrc(T), ExistListErrc("EVENT")>>)

-----------------------------------------------------------------------------
(* OpenCL 1.0. *)

clGetPlatformIDs == ReadsCount(Lists(<<>>, "PLATFORM"))
clGetPlatformInfo == Uses(<<Exists("PLATFORM")>>)
clGetDeviceIDs == ReadsCount(Lists(<<Exists("PLATFORM")>>, "DEVICE"))
clGetDeviceInfo == Uses(<<Exists("DEVICE")>>)

clCreateContext ==
    Creates(<<ExistsErrc("PLATFORM"), ExistListErrc("DEVICE")>>,
            Creation("CONTEXT", "device list"))

clCreateContextFromType ==
    Creates(<<ExistsErrc("PLATFORM")>>, Creation("CONTEXT", "get_parent_devices"))

clRetainContext == Retains("CONTEXT")
clReleaseContext == Releases("CONTEXT")
clGetContextInfo == Queries("CONTEXT", {EachDevice})

\* The device is not checked.
clCreateCommandQueue ==
    Creates(<<ExistsErrc("CONTEXT"), Unchecked("DEVICE")>>,
            Creation("COMMAND_QUEUE", "argument"))

clRetainCommandQueue == Retains("COMMAND_QUEUE")
clReleaseCommandQueue == Releases("COMMAND_QUEUE")
clGetCommandQueueInfo == Queries("COMMAND_QUEUE", {EachDevice, ContextOf})
clSetCommandQueueProperty == Uses(<<Exists("COMMAND_QUEUE")>>)
clCreateBuffer == CreatesInContext("BUFFER")
clCreateImage2D == CreatesInContext("IMAGE")
clCreateImage3D == CreatesInContext("IMAGE")
clRetainMemObject == Retains("MEM")
clReleaseMemObject == Releases("MEM")
clGetSupportedImageFormats == Uses(<<Exists("CONTEXT")>>)

\* The type of an associated memory object is the driver's to say; its parent
\* becomes the object that was asked about.
clGetMemObjectInfo ==
    Queries("MEM", {ContextOf} \cup
                   {AddOrExists(T, "argument") : T \in {"BUFFER", "PIPE", "IMAGE"}})

clGetImageInfo == Queries("IMAGE", {AddOrExists("BUFFER", "get_parent")})
clCreateSampler == CreatesInContext("SAMPLER")
clRetainSampler == Retains("SAMPLER")
clReleaseSampler == Releases("SAMPLER")
clGetSamplerInfo == Queries("SAMPLER", {ContextOf})
clCreateProgramWithSource == CreatesInContext("PROGRAM")

clCreateProgramWithBinary ==
    Creates(<<ExistsErrc("CONTEXT"), ExistListErrc("DEVICE")>>, Creation("PROGRAM", "argument"))

clRetainProgram == Retains("PROGRAM")
clReleaseProgram == Releases("PROGRAM")
clBuildProgram == Uses(<<Exists("PROGRAM"), ExistList("DEVICE")>>)
clGetProgramInfo == Queries("PROGRAM", {ContextOf, EachDevice})
clGetProgramBuildInfo == Uses(<<Exists("PROGRAM"), Exists("DEVICE")>>)
clCreateKernel == Creates(<<ExistsErrc("PROGRAM")>>, Creation("KERNEL", "argument"))

clCreateKernelsInProgram ==
    Creates(<<Exists("PROGRAM")>>, CreationList("KERNEL", "argument"))

clRetainKernel == Retains("KERNEL")
clReleaseKernel == Releases("KERNEL")
clSetKernelArg == Uses(<<Exists("KERNEL")>>)
clGetKernelInfo == Queries("KERNEL", {ContextOf, AddOrExists("PROGRAM", "get_parent")})
clGetKernelWorkGroupInfo == Uses(<<Exists("KERNEL"), IfGiven(Exists("DEVICE"))>>)
clWaitForEvents == Uses(<<ExistList("EVENT")>>)
clGetEventInfo == Queries("EVENT", {ContextOf, AddOrExists("COMMAND_QUEUE", "get_parent")})
clRetainEvent == Retains("EVENT")
clReleaseEvent == Releases("EVENT")
clGetEventProfilingInfo == Uses(<<Exists("EVENT")>>)
clFlush == Uses(<<Exists("COMMAND_QUEUE")>>)
clFinish == Uses(<<Exists("COMMAND_QUEUE")>>)
clEnqueueReadBuffer == Enqueues(<<Exists("BUFFER")>>)
clEnqueueWriteBuffer == Enqueues(<<Exists("BUFFER")>>)
clEnqueueCopyBuffer == Enqueues(<<Exists("BUFFER"), Exists("BUFFER")>>)
clEnqueueReadImage == Enqueues(<<Exists("IMAGE")>>)
clEnqueueWriteImage == Enqueues(<<Exists("IMAGE")>>)
clEnqueueCopyImage == Enqueues(<<Exists("IMAGE"), Exists("IMAGE")>>)
clEnqueueCopyImageToBuffer == Enqueues(<<Exists("IMAGE"), Exists("BUFFER")>>)
clEnqueueCopyBufferToImage == Enqueues(<<Exists("BUFFER"), Exists("IMAGE")>>)
clEnqueueMapBuffer == EnqueuesMap("BUFFER")
clEnqueueMapImage == EnqueuesMap("IMAGE")
clEnqueueUnmapMemObject == Enqueues(<<Exists("MEM")>>)
clEnqueueNDRangeKernel == Enqueues(<<Exists("KERNEL")>>)
clEnqueueTask == Enqueues(<<Exists("KERNEL")>>)

clEnqueueNativeKernel ==
    Commands(<<Exists("COMMAND_QUEUE"), ExistList("EVENT"), ExistList("MEM")>>)

clEnqueueMarker == Commands(<<Exists("COMMAND_QUEUE")>>)
clEnqueueWaitForEvents == Uses(<<Exists("COMMAND_QUEUE"), ExistList("EVENT")>>)
clEnqueueBarrier == Uses(<<Exists("COMMAND_QUEUE")>>)

-----------------------------------------------------------------------------
(* OpenGL sharing. *)

clCreateFromGLBuffer == CreatesInContext("BUFFER")
clCreateFromGLTexture2D == CreatesInContext("IMAGE")
clCreateFromGLTexture3D == CreatesInContext("IMAGE")
clCreateFromGLRenderbuffer == CreatesInContext("IMAGE")
clGetGLObjectInfo == Uses(<<Exists("MEM")>>)
clGetGLTextureInfo == Uses(<<Exists("IMAGE")>>)
clEnqueueAcquireGLObjects == Enqueues(<<ExistList("MEM")>>)
clEnqueueReleaseGLObjects == Enqueues(<<ExistList("MEM")>>)

\* One device or all of them, by param_name.
clGetGLContextInfoKHR == Lists(<<Exists("PLATFORM")>>, "DEVICE")

-----------------------------------------------------------------------------
(* Direct3D 10 sharing. *)

clGetDeviceIDsFromD3D10KHR == ReadsCount(Lists(<<Exists("PLATFORM")>>, "DEVICE"))
clCreateFromD3D10BufferKHR == CreatesInContext("BUFFER")
clCreateFromD3D10Texture2DKHR == CreatesInContext("IMAGE")
clCreateFromD3D10Texture3DKHR == CreatesInContext("IMAGE")
clEnqueueAcquireD3D10ObjectsKHR == Enqueues(<<ExistList("MEM")>>)
clEnqueueReleaseD3D10ObjectsKHR == Enqueues(<<ExistList("MEM")>>)

-----------------------------------------------------------------------------
(* OpenCL 1.1. *)

clSetEventCallback == Uses(<<Exists("EVENT")>>)
clCreateSubBuffer == Creates(<<ExistsErrc("BUFFER")>>, Creation("BUFFER", "argument"))
clSetMemObjectDestructorCallback == Uses(<<Exists("MEM")>>)
clCreateUserEvent == CreatesInContext("EVENT")
clSetUserEventStatus == Uses(<<Exists("EVENT")>>)
clEnqueueReadBufferRect == Enqueues(<<Exists("BUFFER")>>)
clEnqueueWriteBufferRect == Enqueues(<<Exists("BUFFER")>>)
clEnqueueCopyBufferRect == Enqueues(<<Exists("BUFFER"), Exists("BUFFER")>>)

-----------------------------------------------------------------------------
(* Device fission and OpenGL sync. *)

clCreateSubDevicesEXT ==
    ReadsCount(Creates(<<Exists("DEVICE")>>, CreationList("SUB_DEVICE", "argument")))

clRetainDeviceEXT == Retains("DEVICE")
clReleaseDeviceEXT == Releases("DEVICE")
clCreateEventFromGLsyncKHR == CreatesInContext("EVENT")

-----------------------------------------------------------------------------
(* OpenCL 1.2. *)

clCreateSubDevices ==
    Creates(<<Exists("DEVICE")>>, CreationList("SUB_DEVICE", "argument"))

clRetainDevice == Retains("DEVICE")
clReleaseDevice == Releases("DEVICE")

clCreateImage ==
    Creates(<<ExistsErrc("CONTEXT"), IfGiven(ExistsErrc("MEM"))>>,
            Creation("IMAGE", "get_parent"))

\* The device list is not checked.
clCreateProgramWithBuiltInKernels ==
    Creates(<<ExistsErrc("CONTEXT"), Unchecked("DEVICE")>>, Creation("PROGRAM", "argument"))

\* The input headers are not checked.
clCompileProgram ==
    Uses(<<Exists("PROGRAM"), ExistList("DEVICE"), Unchecked("PROGRAM")>>)

clLinkProgram ==
    Creates(<<ExistsErrc("CONTEXT"), ExistListErrc("DEVICE"), ExistListErrc("PROGRAM")>>,
            Creation("PROGRAM", "argument"))

clUnloadPlatformCompiler == Uses(<<Exists("PLATFORM")>>)
clGetKernelArgInfo == Uses(<<Exists("KERNEL")>>)
clEnqueueFillBuffer == Enqueues(<<Exists("BUFFER")>>)
clEnqueueFillImage == Enqueues(<<Exists("IMAGE")>>)
clEnqueueMigrateMemObjects == Enqueues(<<ExistList("MEM")>>)
clEnqueueMarkerWithWaitList == Enqueues(<<>>)
clEnqueueBarrierWithWaitList == Enqueues(<<>>)
clGetExtensionFunctionAddressForPlatform == Uses(<<Exists("PLATFORM")>>)
clCreateFromGLTexture == Creates(<<ExistsErrc("CONTEXT")>>, Creation("IMAGE", "get_parent"))

-----------------------------------------------------------------------------
(* Direct3D 11 and DX9 sharing. *)

clGetDeviceIDsFromD3D11KHR == ReadsCount(Lists(<<Exists("PLATFORM")>>, "DEVICE"))

clCreateFromD3D11BufferKHR ==
    Creates(<<ExistsErrc("CONTEXT")>>, Creation("BUFFER", "get_parent"))

clCreateFromD3D11Texture2DKHR ==
    Creates(<<ExistsErrc("CONTEXT")>>, Creation("IMAGE", "get_parent"))

clCreateFromD3D11Texture3DKHR ==
    Creates(<<ExistsErrc("CONTEXT")>>, Creation("IMAGE", "get_parent"))

clCreateFromDX9MediaSurfaceKHR ==
    Creates(<<ExistsErrc("CONTEXT")>>, Creation("IMAGE", "get_parent"))

clEnqueueAcquireD3D11ObjectsKHR == Enqueues(<<ExistList("MEM")>>)
clEnqueueReleaseD3D11ObjectsKHR == Enqueues(<<ExistList("MEM")>>)
clGetDeviceIDsFromDX9MediaAdapterKHR == ReadsCount(Lists(<<Exists("PLATFORM")>>, "DEVICE"))
clEnqueueAcquireDX9MediaSurfacesKHR == Enqueues(<<ExistList("MEM")>>)
clEnqueueReleaseDX9MediaSurfacesKHR == Enqueues(<<ExistList("MEM")>>)

-----------------------------------------------------------------------------
(* EGL. *)

clCreateFromEGLImageKHR == CreatesInContext("IMAGE")
clEnqueueAcquireEGLObjectsKHR == Enqueues(<<ExistList("MEM")>>)
clEnqueueReleaseEGLObjectsKHR == Enqueues(<<ExistList("MEM")>>)

\* The event is returned without a record being made of it.
clCreateEventFromEGLSyncKHR == EntryPoint(<<ExistsErrc("CONTEXT")>>, "EVENT", {})

-----------------------------------------------------------------------------
(* OpenCL 2.0. *)

\* A queue asked for as the on-device default one may exist already.
clCreateCommandQueueWithProperties ==
    EntryPoint(<<ExistsErrc("CONTEXT"), ExistsErrc("DEVICE")>>, "COMMAND_QUEUE",
               {Creation("COMMAND_QUEUE", "argument"),
                CreateOrExistsErrc("COMMAND_QUEUE", "argument")})

clCreatePipe == CreatesInContext("PIPE")
clGetPipeInfo == Uses(<<Exists("PIPE")>>)
clSVMAlloc == Uses(<<Exists("CONTEXT")>>)
clSVMFree == Uses(<<Exists("CONTEXT")>>)
clEnqueueSVMFree == Enqueues(<<>>)
clEnqueueSVMMemcpy == Enqueues(<<>>)
clEnqueueSVMMemFill == Enqueues(<<>>)
clEnqueueSVMMap == Enqueues(<<>>)
clEnqueueSVMUnmap == Enqueues(<<>>)
clCreateSamplerWithProperties == CreatesInContext("SAMPLER")
clSetKernelArgSVMPointer == Uses(<<Exists("KERNEL")>>)
clSetKernelExecInfo == Uses(<<Exists("KERNEL")>>)
clGetKernelSubGroupInfoKHR == Uses(<<Exists("KERNEL"), IfGiven(Exists("DEVICE"))>>)

-----------------------------------------------------------------------------
(* OpenCL 2.1. *)

\* Fault: a clone is put below the kernel it was made from.
CloneBelowKernel ==
    Creates(<<ExistsErrc("KERNEL")>>, Creation("KERNEL", "argument"))

\* A clone belongs to the program of the kernel it was made from.
clCloneKernel ==
    Creates(<<ExistsErrc("KERNEL")>>, Creation("KERNEL", "get_parent(argument)"))

clCreateProgramWithIL == CreatesInContext("PROGRAM")
clEnqueueSVMMigrateMem == Enqueues(<<>>)
clGetDeviceAndHostTimer == Uses(<<Exists("DEVICE")>>)
clGetHostTimer == Uses(<<Exists("DEVICE")>>)
clGetKernelSubGroupInfo == Uses(<<Exists("KERNEL"), IfGiven(Exists("DEVICE"))>>)

clSetDefaultDeviceCommandQueue ==
    Uses(<<Exists("CONTEXT"), Exists("DEVICE"), Exists("COMMAND_QUEUE")>>)

-----------------------------------------------------------------------------
(* OpenCL 2.2. *)

clSetProgramReleaseCallback == Uses(<<Exists("PROGRAM")>>)
clSetProgramSpecializationConstant == Uses(<<Exists("PROGRAM")>>)

-----------------------------------------------------------------------------
(* OpenCL 3.0. *)

clCreateBufferWithProperties == CreatesInContext("BUFFER")

clCreateImageWithProperties ==
    Creates(<<ExistsErrc("CONTEXT"), IfGiven(ExistsErrc("MEM"))>>,
            Creation("IMAGE", "image_desc"))

clSetContextDestructorCallback == Uses(<<Exists("CONTEXT")>>)

-----------------------------------------------------------------------------
\* Wrappers that record what a query answered without testing it for NULL.
RecordsNull == {clGetImageInfo}

\* The dispatch table: what an application reaches through the layer.
Dispatch ==
    {clGetPlatformIDs, clGetPlatformInfo, clGetDeviceIDs, clGetDeviceInfo, clCreateContext,
     clCreateContextFromType, clRetainContext, clReleaseContext, clGetContextInfo,
     clCreateCommandQueue, clRetainCommandQueue, clReleaseCommandQueue, clGetCommandQueueInfo,
     clSetCommandQueueProperty, clCreateBuffer, clCreateImage2D, clCreateImage3D,
     clRetainMemObject, clReleaseMemObject, clGetSupportedImageFormats, clGetMemObjectInfo,
     clGetImageInfo, clCreateSampler, clRetainSampler, clReleaseSampler, clGetSamplerInfo,
     clCreateProgramWithSource, clCreateProgramWithBinary, clRetainProgram, clReleaseProgram,
     clBuildProgram, clGetProgramInfo, clGetProgramBuildInfo, clCreateKernel,
     clCreateKernelsInProgram, clRetainKernel, clReleaseKernel, clSetKernelArg,
     clGetKernelInfo, clGetKernelWorkGroupInfo, clWaitForEvents, clGetEventInfo,
     clRetainEvent, clReleaseEvent, clGetEventProfilingInfo, clFlush, clFinish,
     clEnqueueReadBuffer, clEnqueueWriteBuffer, clEnqueueCopyBuffer, clEnqueueReadImage,
     clEnqueueWriteImage, clEnqueueCopyImage, clEnqueueCopyImageToBuffer,
     clEnqueueCopyBufferToImage, clEnqueueMapBuffer, clEnqueueMapImage,
     clEnqueueUnmapMemObject, clEnqueueNDRangeKernel, clEnqueueTask, clEnqueueNativeKernel,
     clEnqueueMarker, clEnqueueWaitForEvents, clEnqueueBarrier, clCreateFromGLBuffer,
     clCreateFromGLTexture2D, clCreateFromGLTexture3D, clCreateFromGLRenderbuffer,
     clGetGLObjectInfo, clGetGLTextureInfo, clEnqueueAcquireGLObjects,
     clEnqueueReleaseGLObjects, clGetGLContextInfoKHR, clGetDeviceIDsFromD3D10KHR,
     clCreateFromD3D10BufferKHR, clCreateFromD3D10Texture2DKHR, clCreateFromD3D10Texture3DKHR,
     clEnqueueAcquireD3D10ObjectsKHR, clEnqueueReleaseD3D10ObjectsKHR, clSetEventCallback,
     clCreateSubBuffer, clSetMemObjectDestructorCallback, clCreateUserEvent,
     clSetUserEventStatus, clEnqueueReadBufferRect, clEnqueueWriteBufferRect,
     clEnqueueCopyBufferRect, clCreateSubDevicesEXT, clRetainDeviceEXT, clReleaseDeviceEXT,
     clCreateEventFromGLsyncKHR, clCreateSubDevices, clRetainDevice, clReleaseDevice,
     clCreateImage, clCreateProgramWithBuiltInKernels, clCompileProgram, clLinkProgram,
     clUnloadPlatformCompiler, clGetKernelArgInfo, clEnqueueFillBuffer, clEnqueueFillImage,
     clEnqueueMigrateMemObjects, clEnqueueMarkerWithWaitList, clEnqueueBarrierWithWaitList,
     clGetExtensionFunctionAddressForPlatform, clCreateFromGLTexture,
     clGetDeviceIDsFromD3D11KHR, clCreateFromD3D11BufferKHR, clCreateFromD3D11Texture2DKHR,
     clCreateFromD3D11Texture3DKHR, clCreateFromDX9MediaSurfaceKHR,
     clEnqueueAcquireD3D11ObjectsKHR, clEnqueueReleaseD3D11ObjectsKHR,
     clGetDeviceIDsFromDX9MediaAdapterKHR, clEnqueueAcquireDX9MediaSurfacesKHR,
     clEnqueueReleaseDX9MediaSurfacesKHR, clCreateFromEGLImageKHR,
     clEnqueueAcquireEGLObjectsKHR, clEnqueueReleaseEGLObjectsKHR,
     clCreateEventFromEGLSyncKHR, clCreateCommandQueueWithProperties, clCreatePipe,
     clGetPipeInfo, clSVMAlloc, clSVMFree, clEnqueueSVMFree, clEnqueueSVMMemcpy,
     clEnqueueSVMMemFill, clEnqueueSVMMap, clEnqueueSVMUnmap, clCreateSamplerWithProperties,
     clSetKernelArgSVMPointer, clSetKernelExecInfo, clGetKernelSubGroupInfoKHR, clCloneKernel,
     clCreateProgramWithIL, clEnqueueSVMMigrateMem, clGetDeviceAndHostTimer, clGetHostTimer,
     clGetKernelSubGroupInfo, clSetDefaultDeviceCommandQueue, clSetProgramReleaseCallback,
     clSetProgramSpecializationConstant, clCreateBufferWithProperties,
     clCreateImageWithProperties, clSetContextDestructorCallback}
=============================================================================
