-------------------------- MODULE CameraParameters --------------------------
(***************************************************************************)
(* The parameter path of the icamera adapter: the application's            *)
(* icamera::Parameters object (Parameters.cpp), ICameraAdapter::           *)
(* setParameters (ICameraAdapter.cpp 372-450), which converts every field  *)
(* with the ParameterAdapter routines (ParameterAdapter.cpp) into the      *)
(* request settings and derives mOperationMode, the operation mode that    *)
(* configStreams passes to configure_streams (line 476).                   *)
(*                                                                         *)
(* The camera's static metadata is a constant.  Each entry is either       *)
(* NoEntry (find_camera_metadata_ro_entry fails) or the entry's data as a  *)
(* sequence, so the code's count checks are kept.  The request settings    *)
(* are a record with one field per tag that setParameters writes; a field  *)
(* the default request template set and nothing overwrote is NoValue.      *)
(* CameraMetadata::update is taken to succeed (it is Android code); its    *)
(* reallocation is modelled in AdapterLifecycle.                           *)
(***************************************************************************)
EXTENDS Integers, Sequences, SequencesExt

CONSTANTS
    AeCompStep,      \* ANDROID_CONTROL_AE_COMPENSATION_STEP: [num, den] or NoEntry
    AeCompRange,     \* ANDROID_CONTROL_AE_COMPENSATION_RANGE: i32 data or NoEntry
    FpsRanges,       \* ANDROID_CONTROL_AE_AVAILABLE_TARGET_FPS_RANGES: i32 data
    DvsModes,        \* ANDROID_CONTROL_AVAILABLE_VIDEO_STABILIZATION_MODES
    EtRange,         \* ANDROID_SENSOR_INFO_EXPOSURE_TIME_RANGE: i64 data (ns)
    BandingModes,    \* ANDROID_CONTROL_AE_AVAILABLE_ANTIBANDING_MODES
    EvValues, FpsValues, EtValues,   \* what the application may set
    NoEntry, NoValue, NULL

\* The enumerations of Parameters.h; the icamera and the Android
\* enumerators with the same name are modelled by the same string.
DvsValues == {"OFF", "ON"}
AeValues == {"AUTO", "MANUAL"}
BandingValues == {"AUTO", "50HZ", "60HZ", "OFF"}

\* The operation-mode bits of ICameraAdapter.h.
OP_MODE_DEFAULT == 0
OP_MODE_30_FPS == 1
OP_MODE_60_FPS == 2
OP_MODE_90_FPS == 4
OP_MODE_120_FPS == 8
OP_MODE_DVS == 256

VARIABLES
    params,          \* the application's Parameters object
    mRequestSettings,\* NULL, or the tags setParameters writes
    mOperationMode,
    requested,       \* auxiliary: the parameters the last setParameters read
    status,          \* what the last setParameters returned: "OK", "ERROR" or NULL
    configured       \* the operation mode configure_streams was given, or NULL

vars == <<params, mRequestSettings, mOperationMode, requested, status, configured>>

-----------------------------------------------------------------------------
(* The Parameters container: its constructor and its setters.  Each        *)
(* setter writes one field under the write lock; getters read it.          *)

DefaultParameters ==
    [ev |-> 0, fps |-> 30, dvs |-> "OFF", ae |-> "AUTO", et |-> 0,
     banding |-> "AUTO"]

SetAeMode(m) == params' = [params EXCEPT !.ae = m]
SetExposureTime(v) == params' = [params EXCEPT !.et = v]
SetAeCompensation(v) == params' = [params EXCEPT !.ev = v]
SetFrameRate(v) == params' = [params EXCEPT !.fps = v]
SetAntiBandingMode(m) == params' = [params EXCEPT !.banding = m]
SetVideoStabilizationMode(m) == params' = [params EXCEPT !.dvs = m]

-----------------------------------------------------------------------------
(* The ParameterAdapter conversions.  Each returns its status and the      *)
(* value it writes; a failed conversion writes nothing.                    *)

Ok(v) == [ok |-> TRUE, val |-> v]
Fail == [ok |-> FALSE, val |-> NoValue]

\* C integer division truncates toward zero; TLA+'s \div floors.
AbsInt(x) == IF x < 0 THEN -x ELSE x
CDiv(a, b) == LET q == AbsInt(a) \div AbsInt(b)
              IN IF (a < 0) = (b < 0) THEN q ELSE -q

\* A clamp that only caps the maximum.
CapAeCompMaxOnly(sc) == IF sc > AeCompRange[2] THEN AeCompRange[2] ELSE sc

\* The clamp order of convertAeComp: the max cap first, then the min cap.
CapAeComp(sc) ==
    LET capped == IF sc > AeCompRange[2] THEN AeCompRange[2] ELSE sc
    IN  IF capped < AeCompRange[1] THEN AeCompRange[1] ELSE capped

ConvertAeComp(ev) ==
    IF \/ AeCompStep = NoEntry
       \/ AeCompStep.den = 0 \/ AeCompStep.num = 0
       \/ AeCompRange = NoEntry \/ Len(AeCompRange) # 2
    THEN Fail
    ELSE Ok(CapAeComp(CDiv(ev * AeCompStep.den, AeCompStep.num)))

\* The fps search loop with the break taken out: a fixed range that
\* matches does not end the search.
RECURSIVE FpsSearchNoBreak(_, _, _)
FpsSearchNoBreak(fps, i, index) ==
    IF i >= Len(FpsRanges) \div 2 THEN index
    ELSE LET lo == FpsRanges[2 * i + 1]
             hi == FpsRanges[2 * i + 2]
         IN  FpsSearchNoBreak(fps, i + 1,
                 IF fps >= lo /\ fps <= hi THEN 2 * i ELSE index)

\* The search loop of convertFps from iteration i (0-based, as in the
\* code) with the index found so far: a matching fixed range ends the
\* search, a range containing fps is remembered and the search goes on.
RECURSIVE FpsSearch(_, _, _)
FpsSearch(fps, i, index) ==
    IF i >= Len(FpsRanges) \div 2 THEN index
    ELSE LET lo == FpsRanges[2 * i + 1]
             hi == FpsRanges[2 * i + 2]
         IN  IF fps = lo /\ fps = hi THEN 2 * i
             ELSE FpsSearch(fps, i + 1,
                      IF fps >= lo /\ fps <= hi THEN 2 * i ELSE index)

ConvertFps(fps) ==
    IF FpsRanges = NoEntry \/ Len(FpsRanges) % 2 # 0 \/ Len(FpsRanges) < 2
    THEN Fail
    ELSE LET found == FpsSearch(fps, 0, -1)
             index == IF found = -1 THEN 0 ELSE found
         IN  Ok(<<FpsRanges[index + 1], FpsRanges[index + 2]>>)

ConvertDvs(mode) ==
    IF DvsModes = NoEntry THEN Fail
    ELSE Ok(IF "ON" \in ToSet(DvsModes) /\ mode = "ON" THEN "ON" ELSE "OFF")

ConvertAeMode(mode) == Ok(IF mode = "MANUAL" THEN "OFF" ELSE "ON")

\* exposureTime is in microseconds, the HAL's range in nanoseconds.
ConvertExposureTime(et) ==
    IF EtRange = NoEntry \/ Len(EtRange) # 2 THEN Fail
    ELSE LET ns == et * 1000
         IN  Ok(IF ns < EtRange[1] THEN EtRange[1]
                ELSE IF ns > EtRange[2] THEN EtRange[2] ELSE ns)

\* The switch maps each icamera mode to the Android mode of the same
\* name; an unsupported one falls back to AUTO.
ConvertBandingMode(mode) ==
    IF BandingModes = NoEntry THEN Fail
    ELSE Ok(IF mode \in ToSet(BandingModes) THEN mode ELSE "AUTO")

-----------------------------------------------------------------------------
(* ICameraAdapter.                                                         *)

\* The requested fps itself taken as the operation mode.
FpsOperationModeRaw(fpsOk, fps) == IF ~fpsOk THEN OP_MODE_DEFAULT ELSE fps

\* The operation mode setParameters derives from the requested fps when
\* convertFps succeeded; OP_MODE_DVS is added for the requested DVS mode.
FpsOperationMode(fpsOk, fps) ==
    IF ~fpsOk THEN OP_MODE_DEFAULT
    ELSE CASE fps = 30             -> OP_MODE_30_FPS
           [] fps > 30 /\ fps <= 60  -> OP_MODE_60_FPS
           [] fps > 60 /\ fps <= 90  -> OP_MODE_90_FPS
           [] fps > 90 /\ fps <= 120 -> OP_MODE_120_FPS
           [] OTHER                  -> OP_MODE_DEFAULT

OperationMode(fpsOk, fps, dvs) ==
    FpsOperationMode(fpsOk, fps) + (IF dvs = "ON" THEN OP_MODE_DVS ELSE 0)

\* open() ends with constructDefaultRequest: the template's settings,
\* built once.
ConstructDefaultRequest ==
    /\ mRequestSettings = NULL
    /\ mRequestSettings' = [aeComp |-> NoValue, fpsRange |-> NoValue,
                            dvs |-> NoValue, aeMode |-> NoValue,
                            exposure |-> NoValue, banding |-> NoValue]

\* A conversion's value replaces the tag; a failed one leaves it.
Written(conv, old) == IF conv.ok THEN conv.val ELSE old

\* A conversion's status as setParameters keeps it.
StatusOf(conv) == IF conv.ok THEN "OK" ELSE "ERROR"

\* setParameters, under mLock: returns early while there are no request
\* settings, then reads every field and writes every conversion.  Each
\* conversion's status overwrites status; the last one is returned.
SetParametersNotReady ==
    /\ mRequestSettings = NULL
    /\ status' = "ERROR"
    /\ UNCHANGED <<params, mRequestSettings, mOperationMode, requested, configured>>

SetParameters ==
    /\ mRequestSettings # NULL
    /\ LET s == mRequestSettings
           fps == ConvertFps(params.fps)
       IN  /\ mRequestSettings' =
                [aeComp   |-> Written(ConvertAeComp(params.ev), s.aeComp),
                 fpsRange |-> Written(fps, s.fpsRange),
                 dvs      |-> Written(ConvertDvs(params.dvs), s.dvs),
                 aeMode   |-> Written(ConvertAeMode(params.ae), s.aeMode),
                 exposure |-> Written(ConvertExposureTime(params.et), s.exposure),
                 banding  |-> Written(ConvertBandingMode(params.banding), s.banding)]
           /\ mOperationMode' = OperationMode(fps.ok, params.fps, params.dvs)
    /\ status' = StatusOf(ConvertBandingMode(params.banding))
    /\ requested' = params
    /\ UNCHANGED <<params, configured>>

\* configStreams, under mLock, with the one-stream list camerasrc passes:
\* configure_streams gets mOperationMode as it is now.
ConfigStreams ==
    /\ configured' = mOperationMode
    /\ UNCHANGED <<params, mRequestSettings, mOperationMode, requested, status>>

Init ==
    /\ params = DefaultParameters
    /\ mRequestSettings = NULL
    /\ mOperationMode = OP_MODE_DEFAULT
    /\ requested = NULL
    /\ status = NULL
    /\ configured = NULL

SetParameter ==
    /\ \/ \E m \in AeValues : SetAeMode(m)
       \/ \E v \in EtValues : SetExposureTime(v)
       \/ \E v \in EvValues : SetAeCompensation(v)
       \/ \E v \in FpsValues : SetFrameRate(v)
       \/ \E m \in BandingValues : SetAntiBandingMode(m)
       \/ \E m \in DvsValues : SetVideoStabilizationMode(m)
    /\ UNCHANGED <<mRequestSettings, mOperationMode, requested, status, configured>>

Next ==
    \/ SetParameter
    \/ ConstructDefaultRequest
       /\ UNCHANGED <<params, mOperationMode, requested, status, configured>>
    \/ SetParametersNotReady
    \/ SetParameters
    \/ ConfigStreams

Spec == Init /\ [][Next]_vars

-----------------------------------------------------------------------------
(* Properties.                                                             *)

\* Types: the parameters hold values of their enumerations and the
\* operation mode is one fps bit at most, plus the DVS bit.
TypeOK ==
    /\ params \in [ev : EvValues \cup {0}, fps : FpsValues \cup {30},
                   dvs : DvsValues, ae : AeValues, et : EtValues \cup {0},
                   banding : BandingValues]
    /\ mOperationMode \in {0, 1, 2, 4, 8} \cup {m + OP_MODE_DVS : m \in {0, 1, 2, 4, 8}}

\* Every value setParameters writes into the request settings is one the
\* camera advertises in its static metadata: the AE compensation and the
\* exposure time are clamped into their ranges, the target fps range is
\* one of the advertised (min, max) pairs, DVS is ON only where it is
\* available and the antibanding mode is a supported one or AUTO.
SettingsWithinCapabilities ==
    mRequestSettings # NULL =>
      LET s == mRequestSettings
          Pairs == {<<FpsRanges[2 * i + 1], FpsRanges[2 * i + 2]>> :
                      i \in 0 .. (Len(FpsRanges) \div 2) - 1}
          Within(v, range) == v = NoValue \/ (range[1] <= v /\ v <= range[2])
      IN  /\ Within(s.aeComp, AeCompRange)
          /\ Within(s.exposure, EtRange)
          /\ s.fpsRange \in Pairs \cup {NoValue}
          /\ s.dvs = "ON" => "ON" \in ToSet(DvsModes)
          /\ s.banding \in ToSet(BandingModes) \cup {"AUTO", NoValue}

\* convertFps "prioritizes the fixed range": the target range the last
\* setParameters wrote is the fixed range [fps, fps] for the fps it read
\* when one is advertised, otherwise a range containing that fps when
\* there is one, otherwise the first range.
FpsRangeSelection ==
    requested # NULL =>
      LET f == requested.fps
          r == mRequestSettings.fpsRange
          Pairs == {<<FpsRanges[2 * i + 1], FpsRanges[2 * i + 2]>> :
                      i \in 0 .. (Len(FpsRanges) \div 2) - 1}
          Containing == {p \in Pairs : p[1] <= f /\ f <= p[2]}
      IN  CASE <<f, f>> \in Pairs -> r = <<f, f>>
            [] Containing # {}    -> r \in Containing
            [] OTHER              -> r = <<FpsRanges[1], FpsRanges[2]>>

\* An operation mode agrees with the request settings when its fps bit
\* names a class of frame rate the target fps range reaches, and its DVS
\* bit comes with settings that turn video stabilization on.
FpsClass(mode) ==
    CASE mode = OP_MODE_30_FPS  -> {30}
      [] mode = OP_MODE_60_FPS  -> 31 .. 60
      [] mode = OP_MODE_90_FPS  -> 61 .. 90
      [] mode = OP_MODE_120_FPS -> 91 .. 120
      [] OTHER                  -> {}

ModeMatchesSettings(mode) ==
    mRequestSettings # NULL =>
      LET fpsBits == mode % OP_MODE_DVS
          r == mRequestSettings.fpsRange
      IN  /\ fpsBits # OP_MODE_DEFAULT =>
               \E f \in FpsClass(fpsBits) : r # NoValue /\ r[1] <= f /\ f <= r[2]
          /\ mode >= OP_MODE_DVS => mRequestSettings.dvs = "ON"

\* The operation mode the stream was configured with (configStreams passes
\* mOperationMode to configure_streams) agrees with the request settings
\* every later request carries, through any later setParameters.
ConfiguredModeMatchesSettings ==
    configured # NULL => ModeMatchesSettings(configured)

\* setParameters returns OK only when every conversion of the parameters
\* it read succeeded, so that a caller learns that a tag kept its old value.
SetParametersReportsFailure ==
    (requested # NULL /\ status = "OK") =>
        LET p == requested
        IN  /\ ConvertAeComp(p.ev).ok /\ ConvertFps(p.fps).ok
            /\ ConvertDvs(p.dvs).ok /\ ConvertAeMode(p.ae).ok
            /\ ConvertExposureTime(p.et).ok /\ ConvertBandingMode(p.banding).ok

\* What reaches the HAL through setParameters and configStreams: the
\* configured operation mode matches the request settings, and a
\* conversion failure is reported to the caller.
SetParametersContract ==
    ConfiguredModeMatchesSettings /\ SetParametersReportsFailure
=============================================================================
