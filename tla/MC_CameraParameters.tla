------------------------ MODULE MC_CameraParameters ------------------------
(* A camera with 1/3 EV steps over [-6, 6], the fps ranges [15, 30],      *)
(* [30, 30] and [30, 60], no DVS, 50 Hz and AUTO antibanding and an      *)
(* exposure range of 1 us to 33 ms.  The application may ask for values *)
(* below, inside and above every range.                                  *)
EXTENDS CameraParameters

MCAeCompStep == [num |-> 1, den |-> 3]
MCAeCompRange == <<-6, 6>>
MCFpsRanges == <<15, 30, 30, 30, 30, 60>>
MCDvsModes == <<"OFF">>
MCEtRange == <<1000, 33000000>>
MCBandingModes == <<"AUTO", "50HZ">>
MCEvValues == {-3, 1, 3}
MCFpsValues == {15, 30, 60, 90}
MCEtValues == {0, 100, 40000}
\* A camera without ANDROID_SENSOR_INFO_EXPOSURE_TIME_RANGE.
MCNoEtRange == NoEntry
=============================================================================
