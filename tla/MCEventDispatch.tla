-------------------------- MODULE MCEventDispatch --------------------------
(* A small instance of EventDispatch for TLC. *)
EXTENDS EventDispatch

CONSTANTS good, d1, d2, h1, h2
=============================================================================
