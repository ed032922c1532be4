--------------------------- MODULE MCChildEngine ---------------------------
(* Instances of ChildEngine for TLC. *)
EXTENDS ChildEngine

\* A cached and watched child, and the route, which is neither.
MixedKinds == {2, 6}

TwoContents == {1, 2}
=============================================================================
