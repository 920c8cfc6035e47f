----------------------------- MODULE MCMemoria -----------------------------
(* The memory and its CPU for TLC. *)
EXTENDS MemoriaCpu
=============================================================================
