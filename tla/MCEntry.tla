------------------------------- MODULE MCEntry -------------------------------
(* TLC instance of Entry: bytes of four values.                            *)
EXTENDS Entry

MCTssBases == {b \in 0..(WORD - SIZEOF_TSS - 1) : (b % LIMITS) + SIZEOF_TSS < LIMITS}
=============================================================================
