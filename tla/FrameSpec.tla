------------------------------ MODULE FrameSpec ------------------------------
(***************************************************************************)
(* What the physical frame allocator of frame.c promises its callers: a    *)
(* request for n frames is answered in one step, by the lowest run of n    *)
(* physically contiguous free frames, or refused because there is none;    *)
(* references are counted, and a frame is free when its count is zero.     *)
(***************************************************************************)
EXTENDS Integers

CONSTANTS
  FramesCount,  \* g_frames_context.frames_count
  Reserved,     \* frames that init_ram_frames marks used
  Requests      \* the sizes callers ask for

VARIABLES
  ref,          \* ref_count of every frame
  grant         \* frames handed out by the last request; {} when it failed

Frame == 0..(FramesCount - 1)

Run(s, n) == s..(s + n - 1)

FreeRun(r, s, n) ==
  /\ n >= 1
  /\ s + n <= FramesCount
  /\ \A f \in Run(s, n) : r[f] = 0

FirstFit(r, s, n) ==
  /\ FreeRun(r, s, n)
  /\ \A t \in Frame : t < s => ~FreeRun(r, t, n)

SetRef(r, s, n, v) == [f \in Frame |-> IF f \in Run(s, n) THEN v ELSE r[f]]

-----------------------------------------------------------------------------

InitRef == [f \in Frame |-> IF f < Reserved THEN 1 ELSE 0]

Init ==
  /\ ref = InitRef
  /\ grant = {}

Grant(n) ==
  \E s \in Frame :
    /\ FirstFit(ref, s, n)
    /\ grant' = Run(s, n)
    /\ ref' = SetRef(ref, s, n, 1)

Refuse(n) ==
  /\ \A s \in Frame : ~FreeRun(ref, s, n)
  /\ grant' = {}
  /\ UNCHANGED ref

Retain(f) ==
  /\ ref[f] > 0
  /\ ref' = [ref EXCEPT ![f] = @ + 1]
  /\ UNCHANGED grant

Release(f) ==
  /\ ref' = [ref EXCEPT ![f] = IF @ = 0 THEN 0 ELSE @ - 1]
  /\ UNCHANGED grant

Next ==
  \/ \E n \in Requests \cup {1} : Grant(n) \/ Refuse(n)
  \/ \E f \in Frame : Retain(f) \/ Release(f)

Spec == Init /\ [][Next]_<<ref, grant>>
=============================================================================
