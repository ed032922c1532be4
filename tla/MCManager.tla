----------------------------- MODULE MCManager -----------------------------
(* Instances of Manager for TLC. *)
EXTENDS Manager

AllDisturbances == {"crash", "outage", "lostReply", "rollout"}

\* The defaults; short times; and options that Validate refuses.
SomeSettings == {[lease |-> 0, renew |-> 0, retry |-> 0],
                 [lease |-> 6, renew |-> 3, retry |-> 1],
                 [lease |-> 2, renew |-> 3, retry |-> 1]}

DefaultSettings == {[lease |-> 0, renew |-> 0, retry |-> 0]}
=============================================================================
