------------------------------- MODULE Frames -------------------------------
(***************************************************************************)
(* The physical frame allocator, src/frame.c.  The two searching functions *)
(* are modelled loop iteration by loop iteration, with their local         *)
(* variables as state; free_frame and the reference map_pages takes are    *)
(* single steps.  The kernel has one thread and no interrupt handler       *)
(* allocates frames, so a call runs to its end before the next one starts. *)
(***************************************************************************)
EXTENDS Integers

CONSTANTS
  FramesCount,  \* g_frames_context.frames_count
  Reserved,     \* how many frames lie below fend_paddr in init_ram_frames
  Requests,     \* the values of n that callers pass to alloc_frames
  MaxRef        \* bound: references a caller takes on one frame

ASSUME FramesAssumption ==
  /\ FramesCount \in Nat
  /\ Reserved \in 0..FramesCount
  /\ Requests \subseteq Int
  /\ MaxRef \in Nat

VARIABLES
  ref,          \* frame->ref_count of every frame
  pc,           \* the function that is running, or "idle"
  n,            \* argument of alloc_frames
  cursor,       \* loop index of the running search
  count,        \* alloc_frames: length of the free run that ends at cursor
  fsaved,       \* alloc_frames: first frame of that run, or NULL
  grant,        \* frames returned by the last request; {} when it failed
  held          \* history: references callers hold on each frame

vars == <<ref, pc, n, cursor, count, fsaved, grant, held>>

NULL == -1
Frame == 0..(FramesCount - 1)
Run(s, m) == s..(s + m - 1)

(* m contiguous free frames start at s.                                     *)
FreeRun(s, m) ==
  /\ m >= 1
  /\ s + m <= FramesCount
  /\ \A f \in Run(s, m) : ref[f] = 0

(* Mutant: the last frame of the run is not marked.                        *)
SetRefCountShort(s, m, v) ==
  [f \in Frame |-> IF f \in Run(s, m - 1) THEN v ELSE ref[f]]

frames_set_ref_count(s, m, v) ==
  [f \in Frame |-> IF f \in Run(s, m) THEN v ELSE ref[f]]

-----------------------------------------------------------------------------

(* init_ram_frames: a frame whose address is below the end of the frame    *)
(* metadata is in use, every other one is free.                            *)
init_ram_frames == [f \in Frame |-> IF f < Reserved THEN 1 ELSE 0]

Init ==
  /\ ref = init_ram_frames
  /\ pc = "idle"
  /\ n = 1
  /\ cursor = 0
  /\ count = 0
  /\ fsaved = NULL
  /\ grant = {}
  /\ held = [f \in Frame |-> 0]

Return(frames) ==
  /\ pc' = "idle"
  /\ grant' = frames
  /\ held' = [f \in Frame |-> IF f \in frames THEN 1 ELSE held[f]]

-----------------------------------------------------------------------------
(* alloc_frame() *)

(* Mutant: the cursor of the previous search is not reset.                 *)
AllocFrameNoReset ==
  /\ pc = "idle"
  /\ pc' = "alloc_frame"
  /\ n' = 1
  /\ UNCHANGED <<ref, cursor, count, fsaved, grant, held>>

alloc_frame ==
  /\ pc = "idle"
  /\ pc' = "alloc_frame"
  /\ n' = 1
  /\ cursor' = 0
  /\ UNCHANGED <<ref, count, fsaved, grant, held>>

alloc_frame_found ==
  /\ pc = "alloc_frame"
  /\ cursor < FramesCount
  /\ ref[cursor] = 0
  /\ ref' = [ref EXCEPT ![cursor] = 1]
  /\ Return({cursor})
  /\ UNCHANGED <<n, cursor, count, fsaved>>

(* Mutant: the cursor does not advance.                                    *)
AllocFrameStuck ==
  /\ pc = "alloc_frame"
  /\ cursor < FramesCount
  /\ ref[cursor] # 0
  /\ UNCHANGED vars

alloc_frame_next ==
  /\ pc = "alloc_frame"
  /\ cursor < FramesCount
  /\ ref[cursor] # 0
  /\ cursor' = cursor + 1
  /\ UNCHANGED <<ref, pc, n, count, fsaved, grant, held>>

alloc_frame_null ==
  /\ pc = "alloc_frame"
  /\ cursor >= FramesCount
  /\ Return({})
  /\ UNCHANGED <<ref, n, cursor, count, fsaved>>

-----------------------------------------------------------------------------
(* alloc_frames(n, &frames) *)

(* Mutant: the cursor of the previous search is not reset.                 *)
AllocFramesNoReset(m) ==
  /\ pc = "idle"
  /\ pc' = "alloc_frames"
  /\ n' = m
  /\ count' = 0
  /\ fsaved' = NULL
  /\ UNCHANGED <<ref, cursor, grant, held>>

alloc_frames(m) ==
  /\ pc = "idle"
  /\ pc' = "alloc_frames"
  /\ n' = m
  /\ cursor' = 0
  /\ count' = 0
  /\ fsaved' = NULL
  /\ UNCHANGED <<ref, grant, held>>

(* The first frame of the run that the free frame at cursor belongs to.    *)
saved == IF fsaved = NULL THEN cursor ELSE fsaved

alloc_frames_found ==
  /\ pc = "alloc_frames"
  /\ cursor < FramesCount
  /\ ref[cursor] = 0
  /\ count + 1 = n
  /\ fsaved' = saved
  /\ count' = count + 1
  /\ ref' = frames_set_ref_count(saved, n, 1)
  /\ Return(Run(saved, n))
  /\ UNCHANGED <<n, cursor>>

alloc_frames_free ==
  /\ pc = "alloc_frames"
  /\ cursor < FramesCount
  /\ ref[cursor] = 0
  /\ count + 1 # n
  /\ fsaved' = saved
  /\ count' = count + 1
  /\ cursor' = cursor + 1
  /\ UNCHANGED <<ref, pc, n, grant, held>>

(* Mutant: a used frame does not forget where the run started.             *)
AllocFramesKeepsStart ==
  /\ pc = "alloc_frames"
  /\ cursor < FramesCount
  /\ ref[cursor] # 0
  /\ count' = 0
  /\ cursor' = cursor + 1
  /\ UNCHANGED <<ref, pc, n, fsaved, grant, held>>

alloc_frames_used ==
  /\ pc = "alloc_frames"
  /\ cursor < FramesCount
  /\ ref[cursor] # 0
  /\ fsaved' = NULL
  /\ count' = 0
  /\ cursor' = cursor + 1
  /\ UNCHANGED <<ref, pc, n, grant, held>>

alloc_frames_failed ==
  /\ pc = "alloc_frames"
  /\ cursor >= FramesCount
  /\ Return({})
  /\ UNCHANGED <<ref, n, cursor, count, fsaved>>

-----------------------------------------------------------------------------

(* Mutant: a count below zero is kept.                                     *)
FreeFrameUnclamped(f) ==
  /\ pc = "idle"
  /\ held[f] > 0 \/ ref[f] = 0
  /\ ref' = [ref EXCEPT ![f] = @ - 1]
  /\ held' = [held EXCEPT ![f] = IF @ = 0 THEN 0 ELSE @ - 1]
  /\ UNCHANGED <<pc, n, cursor, count, fsaved, grant>>

(* free_frame(frame): callers give back a reference they hold; giving back *)
(* a frame that is already free is absorbed by the test for a negative     *)
(* count.                                                                  *)
free_frame(f) ==
  /\ pc = "idle"
  /\ held[f] > 0 \/ ref[f] = 0
  /\ ref' = [ref EXCEPT ![f] = IF @ - 1 < 0 THEN 0 ELSE @ - 1]
  /\ held' = [held EXCEPT ![f] = IF @ = 0 THEN 0 ELSE @ - 1]
  /\ UNCHANGED <<pc, n, cursor, count, fsaved, grant>>

(* The "frames->ref_count += 1" of map_pages, on a frame the caller holds. *)
map_pages_ref(f) ==
  /\ pc = "idle"
  /\ held[f] > 0
  /\ ref[f] < MaxRef
  /\ ref' = [ref EXCEPT ![f] = @ + 1]
  /\ held' = [held EXCEPT ![f] = @ + 1]
  /\ UNCHANGED <<pc, n, cursor, count, fsaved, grant>>

Search ==
  \/ alloc_frame_found
  \/ alloc_frame_next
  \/ alloc_frame_null
  \/ alloc_frames_found
  \/ alloc_frames_free
  \/ alloc_frames_used
  \/ alloc_frames_failed

Next ==
  \/ alloc_frame
  \/ \E m \in Requests : alloc_frames(m)
  \/ Search
  \/ \E f \in Frame : free_frame(f) \/ map_pages_ref(f)

Spec == Init /\ [][Next]_vars

(* The processor keeps executing the loop of a call that has started.      *)
FairSpec == Spec /\ WF_vars(Search)

-----------------------------------------------------------------------------

(* Type invariant: counts never go negative (free_frame clamps them), and  *)
(* the cursor stays in the metadata array or one past it.                  *)
TypeOK ==
  /\ ref \in [Frame -> Nat]
  /\ pc \in {"idle", "alloc_frame", "alloc_frames"}
  /\ n \in Requests \cup {1}
  /\ cursor \in 0..FramesCount
  /\ count \in 0..FramesCount
  /\ fsaved \in Frame \cup {NULL}
  /\ grant \in SUBSET Frame
  /\ held \in [Frame -> Nat]

(* The counts are exact: a frame's ref_count is the number of references   *)
(* its callers hold, plus one for a frame reserved at boot.  Over a long   *)
(* sequence of alloc, map and free calls no reference is lost or counted   *)
(* twice.                                                                  *)
Accounting ==
  \A f \in Frame : ref[f] = held[f] + (IF f < Reserved THEN 1 ELSE 0)

(* Loop invariant of alloc_frames: fsaved and count describe the maximal   *)
(* run of free frames that ends just before cursor, and no run of n free   *)
(* frames was passed over.                                                 *)
ScanInv ==
  pc = "alloc_frames" =>
    /\ fsaved = NULL => count = 0
    /\ fsaved = NULL => cursor = 0 \/ ref[cursor - 1] # 0
    /\ fsaved # NULL => /\ fsaved + count = cursor
                        /\ count >= 1
                        /\ fsaved = 0 \/ ref[fsaved - 1] # 0
    /\ fsaved # NULL => \A f \in Run(fsaved, count) : ref[f] = 0
    /\ n >= 1 => count < n
    /\ \A s \in Frame : s + n <= cursor => ~FreeRun(s, n)

(* Loop invariant of alloc_frame: every frame before cursor is in use.     *)
FirstInv ==
  pc = "alloc_frame" =>
    /\ n = 1
    /\ \A f \in Frame : f < cursor => ref[f] # 0

(* The loop invariants of both searches: neither passes over a frame, or a *)
(* run of frames, that would answer the request.                           *)
LoopInv == ScanInv /\ FirstInv

(* A request is never answered with a frame that a caller still holds or   *)
(* that holds the kernel, its page tables or the frame metadata.           *)
NeverGrantsUsedFrame ==
  [][grant' # grant =>
       \A f \in grant' : held[f] = 0 /\ f >= Reserved]_vars

(* Every call of alloc_frame or alloc_frames returns.                      *)
CallsReturn == (pc # "idle") ~> (pc = "idle")

Abstract == INSTANCE FrameSpec

(* The two loops implement the one-step first-fit allocator of FrameSpec.  *)
Implements == Abstract!Spec
=============================================================================
