---------------------------- MODULE FramesProofs ----------------------------
(***************************************************************************)
(* Proofs about the frame allocator, for every number of frames, every     *)
(* reserved prefix and every set of request sizes: the counts are exact    *)
(* (Accounting), the loops keep their invariants, no used frame is handed  *)
(* out, and the loops implement the one-step allocator of FrameSpec.       *)
(***************************************************************************)
EXTENDS Frames, TLAPS

(* The inductive invariant: each loop invariant needs the types, and the   *)
(* exactness of the counts needs the loop invariant of alloc_frames (the   *)
(* run it overwrites with 1 was entirely at 0).                            *)
IInv == TypeOK /\ Accounting /\ ScanInv /\ FirstInv

(* The run that alloc_frames_found returns is made of free frames, lies    *)
(* inside the metadata array and is the lowest one.                        *)
LEMMA FoundRunIsFirstFit ==
  ASSUME IInv, alloc_frames_found
  PROVE  /\ saved \in Frame
         /\ saved + n = cursor + 1
         /\ n >= 1
         /\ FreeRun(saved, n)
         /\ \A t \in Frame : t < saved => ~FreeRun(t, n)
<1> USE FramesAssumption DEF Frame, NULL, Run
<1>1. /\ saved \in Frame
      /\ saved + n = cursor + 1
      /\ n >= 1
  BY DEF IInv, TypeOK, ScanInv, alloc_frames_found, saved
<1>2. \A f \in Run(saved, n) : ref[f] = 0
  BY <1>1, SMTT(30) DEF IInv, TypeOK, ScanInv, alloc_frames_found, saved
<1>3. FreeRun(saved, n)
  BY <1>1, <1>2 DEF FreeRun, IInv, TypeOK, alloc_frames_found
<1>4. ASSUME NEW t \in Frame, t < saved PROVE ~FreeRun(t, n)
  BY <1>1, <1>4 DEF IInv, TypeOK, ScanInv, alloc_frames_found
<1> QED BY <1>1, <1>3, <1>4

(* The initial state, set up by init_ram_frames, satisfies the invariant.  *)
LEMMA InitIInv == Init => IInv
BY FramesAssumption DEF Init, IInv, TypeOK, Accounting, ScanInv, FirstInv,
   init_ram_frames, Frame, NULL

(* Each step of the allocator preserves the types.                         *)
LEMMA TypeStep == IInv /\ [Next]_vars => TypeOK'
<1> SUFFICES ASSUME IInv, [Next]_vars PROVE TypeOK'
  OBVIOUS
<1> USE FramesAssumption DEF Frame, NULL
<1>1. CASE alloc_frame
  BY <1>1 DEF alloc_frame, IInv, TypeOK
<1>2. ASSUME NEW m \in Requests, alloc_frames(m) PROVE TypeOK'
  BY <1>2 DEF alloc_frames, IInv, TypeOK
<1>3. CASE alloc_frame_found
  BY <1>3 DEF alloc_frame_found, Return, IInv, TypeOK
<1>4. CASE alloc_frame_next
  BY <1>4 DEF alloc_frame_next, IInv, TypeOK
<1>5. CASE alloc_frame_null
  BY <1>5 DEF alloc_frame_null, Return, IInv, TypeOK
<1>6. CASE alloc_frames_found
  <2>0. saved \in Frame /\ saved + n = cursor + 1
    BY <1>6, FoundRunIsFirstFit
  <2>1. Run(saved, n) \subseteq Frame
    BY <1>6, <2>0 DEF Run, IInv, TypeOK, alloc_frames_found
  <2>2. ref' \in [Frame -> Nat] /\ held' \in [Frame -> Nat]
    BY <1>6 DEF alloc_frames_found, frames_set_ref_count, Return, IInv, TypeOK
  <2>3. fsaved' \in Frame /\ count' \in 0..FramesCount
    BY <1>6 DEF alloc_frames_found, saved, IInv, TypeOK, ScanInv
  <2> QED
    BY <1>6, <2>1, <2>2, <2>3 DEF alloc_frames_found, Return, IInv, TypeOK
<1>7. CASE alloc_frames_free
  BY <1>7 DEF alloc_frames_free, saved, IInv, TypeOK, ScanInv
<1>8. CASE alloc_frames_used
  BY <1>8 DEF alloc_frames_used, IInv, TypeOK
<1>9. CASE alloc_frames_failed
  BY <1>9 DEF alloc_frames_failed, Return, IInv, TypeOK
<1>10. ASSUME NEW f \in Frame, free_frame(f) PROVE TypeOK'
  BY <1>10, SMTT(30) DEF free_frame, IInv, TypeOK
<1>11. ASSUME NEW f \in Frame, map_pages_ref(f) PROVE TypeOK'
  BY <1>11 DEF map_pages_ref, IInv, TypeOK
<1>12. CASE UNCHANGED vars
  BY <1>12 DEF vars, IInv, TypeOK
<1> QED
  BY <1>1, <1>2, <1>3, <1>4, <1>5, <1>6, <1>7, <1>8, <1>9, <1>10, <1>11,
     <1>12 DEF Next, Search

(* Each step keeps the counts exact; the interesting one is the run that   *)
(* alloc_frames sets to 1, which must not overwrite a count.               *)
LEMMA AccountingStep == IInv /\ [Next]_vars => Accounting'
<1> SUFFICES ASSUME IInv, [Next]_vars, NEW f \in Frame
             PROVE  ref'[f] = held'[f] + (IF f < Reserved THEN 1 ELSE 0)
  BY DEF Accounting
<1> USE FramesAssumption DEF Frame
<1>0. /\ ref \in [Frame -> Nat] /\ held \in [Frame -> Nat]
      /\ ref[f] = held[f] + (IF f < Reserved THEN 1 ELSE 0)
  BY DEF IInv, TypeOK, Accounting
<1>1. CASE alloc_frame_found
  BY <1>0, <1>1 DEF alloc_frame_found, Return, IInv, Accounting
<1>2. CASE alloc_frames_found
  <2>1. FreeRun(saved, n)
    BY <1>2, FoundRunIsFirstFit
  <2>2. f \in Run(saved, n) => ref[f] = 0
    BY <2>1 DEF FreeRun
  <2>3. /\ ref'[f] = IF f \in Run(saved, n) THEN 1 ELSE ref[f]
        /\ held'[f] = IF f \in Run(saved, n) THEN 1 ELSE held[f]
    BY <1>2 DEF alloc_frames_found, frames_set_ref_count, Return
  <2> QED BY <1>0, <2>2, <2>3
<1>3. ASSUME NEW g \in Frame, free_frame(g)
      PROVE  ref'[f] = held'[f] + (IF f < Reserved THEN 1 ELSE 0)
  BY <1>0, <1>3 DEF free_frame, IInv, Accounting
<1>4. ASSUME NEW g \in Frame, map_pages_ref(g)
      PROVE  ref'[f] = held'[f] + (IF f < Reserved THEN 1 ELSE 0)
  BY <1>0, <1>4 DEF map_pages_ref
<1>5. CASE alloc_frame_null \/ alloc_frames_failed
  BY <1>0, <1>5 DEF alloc_frame_null, alloc_frames_failed, Return
<1>6. CASE UNCHANGED <<ref, held>>
  BY <1>0, <1>6
<1>7. alloc_frame \/ alloc_frame_next \/ alloc_frames_free \/ alloc_frames_used
        => UNCHANGED <<ref, held>>
  BY DEF alloc_frame, alloc_frame_next, alloc_frames_free, alloc_frames_used
<1>8. ASSUME NEW m \in Requests, alloc_frames(m) PROVE UNCHANGED <<ref, held>>
  BY <1>8 DEF alloc_frames
<1> QED
  BY <1>1, <1>2, <1>3, <1>4, <1>5, <1>6, <1>7, <1>8 DEF Next, Search, vars

(* Each step keeps the loop invariant of alloc_frames.  When a free frame  *)
(* extends the run without completing it, a run of n free frames ending at *)
(* cursor would have to start before fsaved and so contain the used frame  *)
(* just before fsaved.                                                     *)
LEMMA ScanStep == IInv /\ [Next]_vars => ScanInv'
<1> SUFFICES ASSUME IInv, [Next]_vars PROVE ScanInv'
  OBVIOUS
<1> USE FramesAssumption DEF Frame, NULL, Run
<1>1. ASSUME NEW m \in Requests, alloc_frames(m) PROVE ScanInv'
  BY <1>1 DEF alloc_frames, ScanInv, FreeRun
<1>2. CASE alloc_frames_free
  <2>1. /\ pc = "alloc_frames" /\ ref' = ref /\ n' = n /\ cursor' = cursor + 1
        /\ cursor \in Frame /\ ref[cursor] = 0 /\ count + 1 # n
        /\ fsaved' = saved /\ count' = count + 1
        /\ n \in Int /\ count \in 0..FramesCount
        /\ fsaved \in Frame \cup {NULL}
    BY <1>2 DEF alloc_frames_free, IInv, TypeOK
  <2>2. /\ saved \in Frame /\ saved + count = cursor
        /\ saved = 0 \/ ref[saved - 1] # 0
        /\ \A f \in Run(saved, count + 1) : ref[f] = 0
    BY <2>1 DEF saved, IInv, ScanInv
  <2>3. n >= 1 => count + 1 < n
    BY <2>1 DEF IInv, ScanInv
  <2>4. ASSUME NEW s \in Frame, s + n <= cursor + 1
        PROVE  ~FreeRun(s, n)
    <3>1. CASE s + n <= cursor
      BY <2>1, <3>1 DEF IInv, ScanInv
    <3>2. CASE s + n = cursor + 1 /\ n >= 1
      <4>1. saved - 1 \in Run(s, n) /\ ref[saved - 1] # 0
        BY <2>1, <2>2, <2>3, <3>2
      <4> QED BY <4>1 DEF FreeRun
    <3>3. CASE n < 1
      BY <2>1, <3>3 DEF FreeRun
    <3> QED BY <2>1, <2>4, <3>1, <3>2, <3>3
  <2>5. \A s \in Frame : s + n' <= cursor' => ~FreeRun(s, n)'
    BY <2>1, <2>4 DEF FreeRun
  <2> QED BY <2>1, <2>2, <2>3, <2>5 DEF ScanInv
<1>3. CASE alloc_frames_used
  <2>1. /\ pc = "alloc_frames" /\ ref' = ref /\ n' = n /\ cursor' = cursor + 1
        /\ cursor \in Frame /\ ref[cursor] # 0 /\ n \in Int
        /\ fsaved' = NULL /\ count' = 0
    BY <1>3 DEF alloc_frames_used, IInv, TypeOK
  <2>2. ASSUME NEW s \in Frame, s + n <= cursor + 1
        PROVE  ~FreeRun(s, n)
    <3>1. CASE s + n <= cursor
      BY <2>1, <3>1 DEF IInv, ScanInv
    <3>2. CASE s + n = cursor + 1 /\ n >= 1
      BY <2>1, <3>2 DEF FreeRun
    <3>3. CASE n < 1
      BY <2>1, <3>3 DEF FreeRun
    <3> QED BY <2>1, <2>2, <3>1, <3>2, <3>3
  <2>3. \A s \in Frame : s + n' <= cursor' => ~FreeRun(s, n)'
    BY <2>1, <2>2 DEF FreeRun
  <2> QED BY <2>1, <2>3 DEF ScanInv
<1>4. CASE pc' # "alloc_frames"
  BY <1>4 DEF ScanInv
<1>5. alloc_frame \/ alloc_frame_found \/ alloc_frame_next \/ alloc_frame_null
        \/ alloc_frames_found \/ alloc_frames_failed
        => pc' # "alloc_frames"
  BY DEF alloc_frame, alloc_frame_found, alloc_frame_next, alloc_frame_null,
     alloc_frames_found, alloc_frames_failed, Return
<1>6. (\E f \in Frame : free_frame(f) \/ map_pages_ref(f)) => pc' # "alloc_frames"
  BY DEF free_frame, map_pages_ref
<1>7. CASE UNCHANGED vars
  BY <1>7 DEF vars, IInv, ScanInv, FreeRun
<1> QED
  BY <1>1, <1>2, <1>3, <1>4, <1>5, <1>6, <1>7 DEF Next, Search

(* Each step keeps the loop invariant of alloc_frame.                      *)
LEMMA FirstStep == IInv /\ [Next]_vars => FirstInv'
<1> SUFFICES ASSUME IInv, [Next]_vars PROVE FirstInv'
  OBVIOUS
<1> USE FramesAssumption DEF Frame, FirstInv
<1>1. CASE alloc_frame
  BY <1>1 DEF alloc_frame
<1>2. CASE alloc_frame_next
  BY <1>2 DEF alloc_frame_next, IInv, TypeOK
<1>3. alloc_frame_found \/ alloc_frame_null \/ alloc_frames_found
        \/ alloc_frames_free \/ alloc_frames_used \/ alloc_frames_failed
        => pc' # "alloc_frame"
  BY DEF alloc_frame_found, alloc_frame_null, alloc_frames_found,
     alloc_frames_free, alloc_frames_used, alloc_frames_failed, Return
<1>4. (\E f \in Frame : free_frame(f) \/ map_pages_ref(f)) => pc' # "alloc_frame"
  BY DEF free_frame, map_pages_ref
<1>5. (\E m \in Requests : alloc_frames(m)) => pc' # "alloc_frame"
  BY DEF alloc_frames
<1>6. CASE UNCHANGED vars
  BY <1>6 DEF vars, IInv
<1> QED
  BY <1>1, <1>2, <1>3, <1>4, <1>5, <1>6 DEF Next, Search

(* The invariant holds in every reachable state of the allocator.          *)
THEOREM FramesInvariant == Spec => []IInv
<1>1. IInv /\ [Next]_vars => IInv'
  BY TypeStep, AccountingStep, ScanStep, FirstStep DEF IInv
<1> QED BY InitIInv, <1>1, PTL DEF Spec

(* Type correctness of src/frame.c for every number of frames.             *)
THEOREM FramesTypeOK == Spec => []TypeOK
<1>1. IInv => TypeOK
  BY DEF IInv
<1> QED BY FramesInvariant, <1>1, PTL

(* ref_count always equals the references that callers hold plus the boot  *)
(* reservation, for every number of frames and every sequence of calls.    *)
THEOREM FramesAccounting == Spec => []Accounting
<1>1. IInv => Accounting
  BY DEF IInv
<1> QED BY FramesInvariant, <1>1, PTL

(* The searches pass over no frame, and no run, that answers the request,  *)
(* and alloc_frames knows the run it stands in, at every step.             *)
THEOREM FramesLoopInv == Spec => []LoopInv
<1>1. IInv => LoopInv
  BY DEF IInv, LoopInv
<1> QED BY FramesInvariant, <1>1, PTL

(* alloc_frame and alloc_frames never hand out a held or reserved frame.   *)
THEOREM FramesNeverGrantsUsed == Spec => NeverGrantsUsedFrame
<1>1. ASSUME IInv, [Next]_vars
      PROVE  [grant' # grant =>
                \A f \in grant' : held[f] = 0 /\ f >= Reserved]_vars
  <2> SUFFICES ASSUME grant' # grant, NEW f \in grant'
               PROVE  held[f] = 0 /\ f >= Reserved
    OBVIOUS
  <2> USE <1>1, FramesAssumption DEF Frame
  <2>1. ASSUME f \in Frame, ref[f] = 0 PROVE held[f] = 0 /\ f >= Reserved
    BY <2>1 DEF IInv, Accounting, TypeOK
  <2>2. CASE alloc_frame_found
    BY <2>1, <2>2 DEF alloc_frame_found, Return, IInv, TypeOK
  <2>3. CASE alloc_frames_found
    <3>1. saved \in Frame /\ saved + n = cursor + 1 /\ FreeRun(saved, n)
      BY <2>3, FoundRunIsFirstFit
    <3>2. f \in Run(saved, n)
      BY <2>3 DEF alloc_frames_found, Return
    <3>3. f \in Frame /\ ref[f] = 0
      BY <3>1, <3>2 DEF FreeRun, Run, IInv, TypeOK
    <3> QED BY <2>1, <3>3
  <2>4. alloc_frame_null \/ alloc_frames_failed => grant' = {}
    BY DEF alloc_frame_null, alloc_frames_failed, Return
  <2>5. alloc_frame \/ alloc_frame_next \/ alloc_frames_free
          \/ alloc_frames_used \/ UNCHANGED vars => grant' = grant
    BY DEF alloc_frame, alloc_frame_next, alloc_frames_free,
       alloc_frames_used, vars
  <2>6. (\E m \in Requests : alloc_frames(m)) => grant' = grant
    BY DEF alloc_frames
  <2>7. (\E g \in Frame : free_frame(g) \/ map_pages_ref(g)) => grant' = grant
    BY DEF free_frame, map_pages_ref
  <2> QED
    BY <2>2, <2>3, <2>4, <2>5, <2>6, <2>7 DEF Next, Search
<1> QED BY FramesInvariant, <1>1, PTL DEF Spec, NeverGrantsUsedFrame

(* The operators of the abstract allocator, in the terms of this module.   *)
LEMMA AbstractTerms ==
  /\ Abstract!Frame = Frame
  /\ \A s, m : Abstract!Run(s, m) = Run(s, m)
  /\ \A s, m : Abstract!FreeRun(ref, s, m) = FreeRun(s, m)
  /\ \A s, m, v : Abstract!SetRef(ref, s, m, v) = frames_set_ref_count(s, m, v)
BY DEF Abstract!Frame, Frame, Abstract!Run, Run, Abstract!FreeRun, FreeRun,
   Abstract!SetRef, frames_set_ref_count

(* The loops of alloc_frame and alloc_frames implement the allocator that  *)
(* answers a request in one step with the lowest free run: iterations map  *)
(* to stuttering, the returning iteration to Grant or Refuse.              *)
THEOREM FramesImplements == Spec => Implements
<1> USE FramesAssumption
<1>1. Init => Abstract!Init
  BY DEF Init, init_ram_frames, Frame, Abstract!Init, Abstract!InitRef,
     Abstract!Frame
<1>2. ASSUME IInv, [Next]_vars
      PROVE  [Abstract!Next]_<<ref, grant>>
  <2> USE <1>2
  <2>0. /\ ref \in [Frame -> Nat] /\ cursor \in 0..FramesCount /\ n \in Int
    BY DEF IInv, TypeOK
  <2>1. CASE alloc_frame_found
    <3>1. cursor \in Frame /\ ref[cursor] = 0 /\ n = 1
      BY <2>0, <2>1 DEF alloc_frame_found, Frame, IInv, FirstInv
    <3>2. Run(cursor, 1) = {cursor}
      BY <3>1 DEF Run, Frame
    <3>3. FreeRun(cursor, 1)
      BY <3>1, <3>2 DEF FreeRun, Frame
    <3>4. ASSUME NEW t \in Frame, t < cursor PROVE ~FreeRun(t, 1)
      <4>1. ref[t] # 0 /\ t \in Run(t, 1)
        BY <2>1, <3>4 DEF alloc_frame_found, IInv, FirstInv, Run, Frame
      <4> QED BY <4>1 DEF FreeRun
    <3>5. ref' = frames_set_ref_count(cursor, 1, 1) /\ grant' = Run(cursor, 1)
      BY <2>0, <2>1, <3>1, <3>2
         DEF alloc_frame_found, Return, frames_set_ref_count
    <3>6. Abstract!Grant(1)
      BY <3>1, <3>3, <3>4, <3>5, AbstractTerms
         DEF Abstract!Grant, Abstract!FirstFit
    <3> QED BY <3>6 DEF Abstract!Next
  <2>2. CASE alloc_frame_null
    <3>1. \A s \in Frame : ~FreeRun(s, 1)
      <4> SUFFICES ASSUME NEW s \in Frame PROVE ~FreeRun(s, 1)
        OBVIOUS
      <4>1. ref[s] # 0 /\ s \in Run(s, 1)
        BY <2>0, <2>2 DEF alloc_frame_null, IInv, FirstInv, Run, Frame
      <4> QED BY <4>1 DEF FreeRun
    <3>2. grant' = {} /\ ref' = ref
      BY <2>2 DEF alloc_frame_null, Return
    <3>3. Abstract!Refuse(1)
      BY <3>1, <3>2, AbstractTerms DEF Abstract!Refuse
    <3> QED BY <3>3 DEF Abstract!Next
  <2>3. CASE alloc_frames_found
    <3>1. /\ saved \in Frame /\ FreeRun(saved, n)
          /\ \A t \in Frame : t < saved => ~FreeRun(t, n)
      BY <2>3, FoundRunIsFirstFit
    <3>2. ref' = frames_set_ref_count(saved, n, 1) /\ grant' = Run(saved, n)
      BY <2>3 DEF alloc_frames_found, Return
    <3>3. Abstract!Grant(n)
      BY <3>1, <3>2, AbstractTerms DEF Abstract!Grant, Abstract!FirstFit
    <3> QED BY <2>3, <3>3 DEF IInv, TypeOK, alloc_frames_found, Abstract!Next
  <2>4. CASE alloc_frames_failed
    <3>1. \A s \in Frame : ~FreeRun(s, n)
      BY <2>0, <2>4 DEF alloc_frames_failed, IInv, ScanInv, FreeRun
    <3>2. grant' = {} /\ ref' = ref
      BY <2>4 DEF alloc_frames_failed, Return
    <3>3. Abstract!Refuse(n)
      BY <3>1, <3>2, AbstractTerms DEF Abstract!Refuse
    <3> QED BY <2>4, <3>3 DEF IInv, TypeOK, alloc_frames_failed, Abstract!Next
  <2>5. ASSUME NEW f \in Frame, free_frame(f) PROVE Abstract!Next
    <3>0. (IF ref[f] - 1 < 0 THEN 0 ELSE ref[f] - 1)
            = (IF ref[f] = 0 THEN 0 ELSE ref[f] - 1)
      BY <2>0
    <3>1. Abstract!Release(f)
      BY <3>0, <2>5 DEF free_frame, Abstract!Release
    <3> QED BY <3>1, AbstractTerms DEF Abstract!Next
  <2>6. ASSUME NEW f \in Frame, map_pages_ref(f) PROVE Abstract!Next
    <3>1. ref[f] > 0
      BY <2>0, <2>6 DEF map_pages_ref, IInv, TypeOK, Accounting
    <3>2. Abstract!Retain(f)
      BY <3>1, <2>6 DEF map_pages_ref, Abstract!Retain
    <3> QED BY <3>2, AbstractTerms DEF Abstract!Next
  <2>7. alloc_frame \/ alloc_frame_next \/ alloc_frames_free
          \/ alloc_frames_used \/ UNCHANGED vars => UNCHANGED <<ref, grant>>
    BY DEF alloc_frame, alloc_frame_next, alloc_frames_free,
       alloc_frames_used, vars
  <2>8. (\E m \in Requests : alloc_frames(m)) => UNCHANGED <<ref, grant>>
    BY DEF alloc_frames
  <2> QED
    BY <2>1, <2>2, <2>3, <2>4, <2>5, <2>6, <2>7, <2>8 DEF Next, Search
<1> QED
  BY <1>1, <1>2, FramesInvariant, PTL DEF Spec, Implements, Abstract!Spec
=============================================================================
