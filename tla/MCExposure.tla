----------------------------- MODULE MCExposure -----------------------------
(* Instances of Exposure for TLC. *)
EXTENDS Exposure

AllDisturbances == {"edit", "apiError", "lostReply", "restart", "gateway", "api"}
=============================================================================
