------------------------- MODULE MC_DecidedStream -------------------------
(* Model-checking instance of DecidedStream: two callers sharing the       *)
(* handler, one identifier and slot, two operators.                        *)
EXTENDS DecidedStreamProofs

CONSTANTS i1, s1, o1, o2, c1, c2

MCIdentifiers == {i1}
MCSlots == {s1}
MCOperators == {o1, o2}
MCCallers == {c1, c2}
=============================================================================
