---------------------------- MODULE MCRunApproval ----------------------------
(***************************************************************************)
(* Two low-ROI campaigns, for each of which the analyzer proposes a        *)
(* low-risk review and a high-risk pause, under two approval thresholds;   *)
(* two approval requests, so that one can overtake or repeat the other.    *)
(***************************************************************************)
EXTENDS RunApproval

MCRisk == <<1, 3, 1, 3>>
=============================================================================
