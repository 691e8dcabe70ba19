------------------------------ MODULE HeapSpec ------------------------------
(***************************************************************************)
(* What kmalloc, calloc, realloc and free promise their callers: the       *)
(* memory a caller was given and has not given back is not given to anyone *)
(* else, and stays below the program break whatever the heap does with the *)
(* pages above it.                                                         *)
(***************************************************************************)
EXTENDS Integers

CONSTANTS
  Addr,      \* heap addresses, as offsets from the first heap page
  Sizes      \* the sizes callers ask for

VARIABLES
  live,      \* pointer -> size, of every allocation callers may use
  brk        \* end of the memory the heap got from sbrk

Add(l, p, s) == [q \in DOMAIN l \cup {p} |-> IF q = p THEN s ELSE l[q]]
Drop(l, p) == [q \in DOMAIN l \ {p} |-> l[q]]

Disjoint(l) ==
  \A p, q \in DOMAIN l : p < q => p + l[p] <= q

BelowBreak(l, b) ==
  \A p \in DOMAIN l : p + l[p] <= b

-----------------------------------------------------------------------------

Init ==
  /\ live = [p \in {} |-> 0]
  /\ brk = 0

(* The break may move in any step, as long as no allocation loses memory.  *)
Safe ==
  /\ brk' \in Addr
  /\ Disjoint(live')
  /\ BelowBreak(live', brk')

Alloc(p, s) ==
  /\ p \notin DOMAIN live
  /\ live' = Add(live, p, s)

Free(p) ==
  /\ p \in DOMAIN live
  /\ live' = Drop(live, p)

Resize(p, s) ==
  /\ p \in DOMAIN live
  /\ live' = Add(live, p, s)

(* realloc: the new place is disjoint from every live one, the old one     *)
(* included, which is then no longer the caller's.                         *)
Move(p, q, s) ==
  /\ p \in DOMAIN live
  /\ q \notin DOMAIN live
  /\ Disjoint(Add(live, q, s))
  /\ live' = Drop(Add(live, q, s), p)

Next ==
  /\ Safe
  /\ \/ UNCHANGED live
     \/ \E p \in Addr :
          \/ Free(p)
          \/ \E s \in Sizes : Alloc(p, s) \/ Resize(p, s)
          \/ \E q \in Addr, s \in Sizes : Move(p, q, s)

Spec == Init /\ [][Next]_<<live, brk>>
=============================================================================
