------------------------------ MODULE MCOutput -------------------------------
(* TLC instance of Output: every directive with numbers at the edges of    *)
(* digits, units and the sign, those that kprintf does not print exactly   *)
(* among them.                                                             *)
EXTENDS Output

MCWords == {0, 1, 9, 10, 64, 513, WIDTH \div 2 - 1, WIDTH \div 2, WIDTH - 1}
Numbers == {C.d, C.i, C.o, C.u, C.x, C.X, C.p, C.b}
MCAmounts == {0, KB - 1, KB, KB + 3, KB * KB - 1, KB * KB, KB * KB + 1, KB ^ 3 - 1, KB ^ 3, KB ^ 3 + 70,
              KB ^ 3 + 100}
Item(flag, arg) == [flag |-> flag, arg |-> arg]
A == Item(LITERAL, 97)

MCFormats ==
  {<<Item(f, n), A>> : f \in Numbers, n \in MCWords}
  \cup {<<Item(C.B, n)>> : n \in MCAmounts}
  \cup {<<Item(C.s, s), Item(C.percent, 0), Item(C.c, 98)>> : s \in {NULL, <<>>, <<99, 100>>}}
  \cup {<<Item(C.percent, 0)>>, <<Item(C.percent, 0), Item(C.d, 12), Item(122, 0), Item(C.x, 171), A>>}
  \cup {<<Item(C.S, s)>> : s \in {<<7, 97>>, <<8, 31>>, <<126, 127>>, <<32>>, <<200>>}}

MCMessages == {<<104, 105, 106, 10>>, <<33>>}
MCUartMessage == <<85, 58>>
=============================================================================
