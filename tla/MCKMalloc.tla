------------------------------ MODULE MCKMalloc ------------------------------
(* TLC instance of KMalloc: the constants' values are in the .cfg file.    *)
EXTENDS KMalloc
=============================================================================
