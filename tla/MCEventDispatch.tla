--------------------------- MODULE MCEventDispatch ---------------------------
(* Instances of EventDispatch for TLC. *)
EXTENDS EventDispatch

MCHandlers == {1, 2}
MCLive == {2}
=============================================================================
