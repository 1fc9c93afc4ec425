----------------------------- MODULE MCCampaign -----------------------------
(* The instance of Campaign for TLC: two passes and their one task. *)
EXTENDS Campaign, TLC

CONSTANTS loop, api, d1
=============================================================================
