--------------------------- MODULE MCStatusReport ---------------------------
(* Instances of StatusReport for TLC. *)
EXTENDS StatusReport

AllDisturbances ==
    {"recreate", "apiError", "lostReply", "podsFail", "edit", "foreign", "secret"}
=============================================================================
