------------------------------- MODULE Gralloc -------------------------------
(***************************************************************************)
(* The fake gralloc module (src/android_support/gralloc/gralloc.cpp): the  *)
(* allocator behind GraphicBuffer and the GRALLOC_MAP_FD / UNMAP_FD        *)
(* extension of gralloc_perform that ICameraAdapter uses to import dma     *)
(* fds.                                                                    *)
(*                                                                         *)
(* Its state, as far as its callers can tell it apart, is a record g:      *)
(*   g.regions  the ashmem regions it created and has not closed;          *)
(*   g.handles  the private_handle_t objects it created and not deleted.   *)
(* A buffer is named by the caller's camera buffer; a region or handle of  *)
(* a buffer is that buffer.  Each operation is an operator from a state to *)
(* the set of [ok, g] outcomes it may have, so that a caller takes one in  *)
(* the same atomic step as its own updates.  Sizes, strides and addresses  *)
(* are left out: no property here is about them.  mapBuffer and            *)
(* terminateBuffer (mapper.cpp) and ashmem_create_region are not in this   *)
(* repository; they are modelled by their outcomes.                        *)
(***************************************************************************)
EXTENDS FiniteSets

CONSTANTS
    AshmemMayFail,      \* whether ashmem_create_region may fail
    MapBufferMayFail    \* whether mapBuffer (the mmap of a handle) may fail

\* graphics.h pixel formats gralloc_alloc knows, and the usage bits it reads
HAL_PIXEL_FORMAT_RGBA_8888 == 1
HAL_PIXEL_FORMAT_RGBX_8888 == 2
HAL_PIXEL_FORMAT_RGB_888 == 3
HAL_PIXEL_FORMAT_RGB_565 == 4
HAL_PIXEL_FORMAT_BGRA_8888 == 5
HAL_PIXEL_FORMAT_YCrCb_420_SP == 17
HAL_PIXEL_FORMAT_RAW16 == 32
HAL_PIXEL_FORMAT_BLOB == 33
HAL_PIXEL_FORMAT_IMPLEMENTATION_DEFINED == 34
HAL_PIXEL_FORMAT_YCbCr_420_888 == 35
GRALLOC_USAGE_HW_FB == "HW_FB"
GRALLOC_USAGE_HW_COMPOSER == "HW_COMPOSER"

\* The formats the bitsPerPixel switch of gralloc_alloc accepts.
AllocFormats ==
    {HAL_PIXEL_FORMAT_RGBA_8888, HAL_PIXEL_FORMAT_RGBX_8888,
     HAL_PIXEL_FORMAT_BGRA_8888, HAL_PIXEL_FORMAT_RGB_888,
     HAL_PIXEL_FORMAT_RGB_565, HAL_PIXEL_FORMAT_RAW16,
     HAL_PIXEL_FORMAT_YCrCb_420_SP, HAL_PIXEL_FORMAT_IMPLEMENTATION_DEFINED,
     HAL_PIXEL_FORMAT_YCbCr_420_888, HAL_PIXEL_FORMAT_BLOB}

NoGralloc == [regions |-> {}, handles |-> {}]

Outcome(ok, g) == [ok |-> ok, g |-> g]

\* gralloc_alloc_buffer: ashmem_create_region may fail, with nothing made;
\* otherwise a private_handle_t is made for the fd and mapBuffer maps it.
\* When mapBuffer fails the error is returned, but neither the handle is
\* deleted nor the fd closed.
AllocBufferOutcomes(g, b) ==
    LET made == [regions |-> g.regions \cup {b}, handles |-> g.handles \cup {b}]
    IN  {Outcome(TRUE, made)}
        \cup (IF AshmemMayFail THEN {Outcome(FALSE, g)} ELSE {})
        \cup (IF MapBufferMayFail THEN {Outcome(FALSE, made)} ELSE {})

\* gralloc_alloc: an unknown format is EINVAL; GRALLOC_USAGE_HW_FB usage
\* goes to the framebuffer allocator (no caller here asks for it);
\* otherwise gralloc_alloc_buffer, and on success the handle's width,
\* height, stride, format and usage are filled in.
GrallocAllocOutcomes(g, b, format, usage) ==
    IF format \notin AllocFormats THEN {Outcome(FALSE, g)}
    ELSE AllocBufferOutcomes(g, b)

\* gralloc_free: a handle validate() rejects is EINVAL; otherwise the
\* buffer is unmapped (terminateBuffer), its fd closed and the handle
\* deleted.
GrallocFree(g, b) ==
    IF b \notin g.handles THEN g
    ELSE [regions |-> g.regions \ {b}, handles |-> g.handles \ {b}]

\* gralloc_perform (GRALLOC_MAP_FD): a new private_handle_t for the
\* caller's fd; mapBuffer maps it, or fails and the handle is deleted
\* (EINVAL, *pHandle is not written).  The fd stays the caller's.
PerformMapFdOutcomes(g, b) ==
    {Outcome(TRUE, [g EXCEPT !.handles = @ \cup {b}])}
    \cup (IF MapBufferMayFail THEN {Outcome(FALSE, g)} ELSE {})

\* gralloc_perform (GRALLOC_UNMAP_FD): terminateBuffer and delete the
\* handle *pHandle points to (the fd is not closed).
PerformUnmapFd(g, h) == [g EXCEPT !.handles = @ \ {h}]

GrallocTypeOK(g, Bufs) ==
    g \in [regions : SUBSET Bufs, handles : SUBSET Bufs]
=============================================================================
