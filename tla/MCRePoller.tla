----------------------------- MODULE MCRePoller -----------------------------
(* Instances of RePoller for TLC. *)
EXTENDS RePoller

\* A descriptor of the kernel, one of the user's own, and one that the
\* operations must refuse.
MixedFds == {-2, -1, 3}
Begin == -3
=============================================================================
