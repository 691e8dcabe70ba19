------------------------------ MODULE MCFrames ------------------------------
(* TLC instance of Frames: the constants' values are in the .cfg files.    *)
EXTENDS Frames
=============================================================================
