---------------------------- MODULE MCKernelHeap ----------------------------
(* TLC instance of KernelHeap: the constants' values are in the .cfg files. *)
EXTENDS KernelHeap
=============================================================================
