---------------------------- MODULE StaticMetadata ----------------------------
(***************************************************************************)
(* The static stream configurations the icamera API reports               *)
(* (src/icamera_adapter/ICameraAdapter.cpp and Parameters.cpp).            *)
(*                                                                         *)
(* camera_hal_init, run from the library constructor and callable again by *)
(* the application, reads each camera's ANDROID_SCALER_AVAILABLE_STREAM_   *)
(* CONFIGURATIONS from the camera3 HAL, keeps the NV12 (YCbCr_420_888)     *)
(* outputs, rewrites each as eight ints and merges them into the static    *)
(* sParameters[camera].  The application then reads them back through      *)
(* get_camera_info(...).capability->getSupportedStreamConfig().  A         *)
(* metadata entry is a flat sequence of ints, as in camera_metadata.       *)
(***************************************************************************)
EXTENDS Integers, Sequences, SequencesExt

CONSTANTS
    NumCameras,     \* HAL_MODULE_INFO_SYM.get_number_of_cameras()
    HalStreamConfigs, \* camera id -> its static stream-configuration entry:
                    \* NoMeta, NoEntry or <<format, width, height, direction, ...>>
    NoMeta,         \* static_camera_characteristics is NULL
    NoEntry         \* the metadata has no stream-configuration entry

\* #define MAX_CAMERAS 2
MAX_CAMERAS == 2
CameraIds == 0..(MAX_CAMERAS - 1)

ASSUME /\ NumCameras \in 1..MAX_CAMERAS
       /\ DOMAIN HalStreamConfigs = 0..(NumCameras - 1)

\* graphics.h, camera3.h and videodev2.h values
HAL_PIXEL_FORMAT_YCbCr_420_888 == 35
CAMERA3_STREAM_OUTPUT == 0
V4L2_PIX_FMT_NV12 == 842094158
\* #define STREAM_MEMBER_NUM (4)
STREAM_MEMBER_NUM == 4

OK == "OK"
UNKNOWN_ERROR == "UNKNOWN_ERROR"
BAD_VALUE == "BAD_VALUE"
NAME_NOT_FOUND == "NAME_NOT_FOUND"

VARIABLES
    initDone,       \* the function-static flag of camera_hal_init
    sParameters,    \* camera id -> the stream-configuration entry of its
                    \* static Parameters (<<>> when none was merged)
    appView         \* camera id -> the last status and stream_t list the
                    \* application read through getSupportedStreamConfig

vars == <<initDone, sParameters, appView>>

\* The k-th quadruple of a flat entry.
Quad(e, k) == SubSeq(e, 4 * k - 3, 4 * k)

\* The loop of camera_hal_init over one entry: every NV12 output becomes
\* format, width, height, field and four dummy ints.
StreamConfigVec(e) ==
    LET keep == SelectSeq([k \in 1..(Len(e) \div 4) |-> Quad(e, k)],
                          LAMBDA q : q[1] = HAL_PIXEL_FORMAT_YCbCr_420_888
                                     /\ q[4] = CAMERA3_STREAM_OUTPUT)
    IN  FlattenSeq([k \in DOMAIN keep |->
                      <<V4L2_PIX_FMT_NV12, keep[k][2], keep[k][3], 0, 0, 0, 0, 0>>])

\* The for loop of camera_hal_init from camera c on.  ac2info is declared
\* before the loop, so for an id the HAL does not know, get_camera_info
\* leaves the previous camera's info in it.  The first camera without
\* usable configurations ends the loop with UNKNOWN_ERROR, after the
\* cameras before it were merged.  Parameters::merge replaces the entry.
RECURSIVE HalInitLoop(_, _, _)
HalInitLoop(c, prevInfo, params) ==
    IF c = MAX_CAMERAS THEN [status |-> OK, params |-> params]
    ELSE LET info == IF c < NumCameras THEN HalStreamConfigs[c] ELSE prevInfo
             vec  == IF info \in {NoMeta, NoEntry} THEN <<>> ELSE StreamConfigVec(info)
         IN  IF info \in {NoMeta, NoEntry} \/ Len(info) < 4 \/ vec = <<>>
             THEN [status |-> UNKNOWN_ERROR, params |-> params]
             ELSE HalInitLoop(c + 1, info, [params EXCEPT ![c] = vec])

\* camera_hal_init(): nothing to do once initDone is set.
CameraHalInit ==
    /\ ~initDone
    /\ LET r == HalInitLoop(0, NoMeta, sParameters)
       IN  /\ sParameters' = r.params
           /\ initDone' = (r.status = OK)
    /\ UNCHANGED appView

\* Parameters::getSupportedStreamConfig(): the entry is read in groups of
\* STREAM_MEMBER_NUM ints; stride is the width and size stride*height*3/2.
SupportedStreamConfig(e) ==
    IF Len(e) = 0 \/ Len(e) % STREAM_MEMBER_NUM # 0
    THEN [status |-> NAME_NOT_FOUND, configs |-> <<>>]
    ELSE [status |-> OK,
          configs |-> [k \in 1..(Len(e) \div STREAM_MEMBER_NUM) |->
                         LET q == SubSeq(e, STREAM_MEMBER_NUM * (k - 1) + 1,
                                            STREAM_MEMBER_NUM * k)
                         IN  [format |-> q[1], width |-> q[2], height |-> q[3],
                              field |-> q[4], stride |-> q[2],
                              size |-> (q[2] * q[3] * 3) \div 2]]]

\* get_camera_info(c) (CAMERA_ID_CHECK first), then
\* info.capability->getSupportedStreamConfig().
GetSupportedStreamConfig(c) ==
    /\ appView' = [appView EXCEPT ![c] =
                     IF c >= NumCameras THEN [status |-> BAD_VALUE, configs |-> <<>>]
                     ELSE SupportedStreamConfig(sParameters[c])]
    /\ UNCHANGED <<initDone, sParameters>>

\* Before the library constructor: static Parameters with empty metadata.
Init ==
    /\ initDone = FALSE
    /\ sParameters = [c \in CameraIds |-> <<>>]
    /\ appView = [c \in CameraIds |-> [status |-> NAME_NOT_FOUND, configs |-> <<>>]]

Next ==
    \/ CameraHalInit
    \/ \E c \in CameraIds : GetSupportedStreamConfig(c)

Spec == Init /\ [][Next]_vars

-----------------------------------------------------------------------------

\* The NV12 outputs a camera's HAL advertises, as <<width, height>>.
HalNv12Outputs(c) ==
    LET e == HalStreamConfigs[c]
    IN  IF e \in {NoMeta, NoEntry} THEN {}
        ELSE {<<Quad(e, k)[2], Quad(e, k)[3]>> : k \in {j \in 1..(Len(e) \div 4) :
                  Quad(e, j)[1] = HAL_PIXEL_FORMAT_YCbCr_420_888
                  /\ Quad(e, j)[4] = CAMERA3_STREAM_OUTPUT}}

\* Every stream configuration getSupportedStreamConfig hands the
\* application (camerasrc picks its caps from them) is an NV12 output the
\* camera's HAL advertises, with stride = width and an NV12 frame size.
SupportedConfigsAreHalOutputs ==
    \A c \in 0..(NumCameras - 1) :
        appView[c].status = OK =>
            \A k \in DOMAIN appView[c].configs :
                LET s == appView[c].configs[k]
                IN  /\ s.format = V4L2_PIX_FMT_NV12
                    /\ <<s.width, s.height>> \in HalNv12Outputs(c)
                    /\ s.stride = s.width
                    /\ s.size = (s.width * s.height * 3) \div 2
=============================================================================
