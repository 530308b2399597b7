------------------------------ MODULE MCWorker ------------------------------
(* Worker for TLC: a stream with two listeners (twenty in the code) and    *)
(* one with one, whose manager sends nothing; a GetTransactions, which may *)
(* hang, and a GetLatest, whose handler may panic.  An account request can *)
(* do nothing that a GetTransactions cannot, whose handler need not wait   *)
(* for sendResp.                                                           *)
EXTENDS Worker

CONSTANTS s1, s2, l1, l2, m1, r1, r2

MCStreams == {s1, s2}
MCListeners == {l1, l2, m1}
MCRequests == {r1, r2}
MCStreamOf == [l \in MCListeners |-> IF l = m1 THEN s2 ELSE s1]
MCSentOn == [r \in MCRequests |-> s1]
=============================================================================
