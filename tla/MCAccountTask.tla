--------------------------- MODULE MCAccountTask ---------------------------
(* AccountTask for TLC: three requests at most and a channel out of        *)
(* capacity 1, as in the code; decimals of three digits instead of 18; up  *)
(* to two numbers, among them the zeros before, after and around a point.  *)
EXTENDS AccountTask

LOCAL INSTANCE SequencesExt

Texts == {Plain(0), Plain(12), Point(0, 5, 3), Point(3, 50, 2), Point(44, 0, 2),
          Point(1, 5, 4), Points, Words}
MCBodies == BoundedSeq(Texts, 2)
=============================================================================
