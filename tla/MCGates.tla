------------------------------ MODULE MCGates ------------------------------
(* Instances of Gates for TLC. *)
EXTENDS Gates

AllDisturbances == {"edit", "apiError", "lostReply", "restart", "platform",
                    "target"}
=============================================================================
