------------------------------ MODULE MCPaging ------------------------------
(* TLC instance of Paging: eight entries per table instead of 1024.        *)
EXTENDS Paging

MCIncrements == {0, 8, 20, -8}
(* No byte, one page, a range that crosses into a second page that its     *)
(* length alone does not ask for, two pages, and more than there is place. *)
MCIoRanges ==
  {[addr |-> 24, len |-> m] : m \in {0, 8, 48}}
    \cup {[addr |-> 29, len |-> 6], [addr |-> 26, len |-> 12]}
=============================================================================
