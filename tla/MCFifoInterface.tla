-------------------------- MODULE MCFifoInterface ---------------------------
(* Small instances of FifoInterface for TLC: a header of two bytes and a   *)
(* buffer of six stand for 10 and 256.                                     *)
EXTENDS FifoInterface
=============================================================================
