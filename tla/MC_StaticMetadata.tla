--------------------------- MODULE MC_StaticMetadata ---------------------------
(* One camera whose HAL advertises an NV12 output, a BLOB output and an  *)
(* NV12 input, with small sizes; the second id the loop visits is not a  *)
(* HAL camera.                                                           *)
EXTENDS StaticMetadata, TLC

MCNumCameras == 1
MCHalStreamConfigs ==
    0 :> <<35, 4, 2, 0,   33, 8, 4, 0,   35, 2, 2, 1>>
=============================================================================
