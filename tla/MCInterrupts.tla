---------------------------- MODULE MCInterrupts ----------------------------
(* TLC instance of Interrupts: the constants' values are in the .cfg files. *)
EXTENDS Interrupts
=============================================================================
