---------------------------- MODULE TaskService ----------------------------
(***************************************************************************)
(* What a worker promises its managers (README.md): it "can be connected   *)
(* with multiple managers but should always answer only to the one that    *)
(* sent request".  The final responses of a request come on the stream it  *)
(* came by: at most one END and at most one error (a GetTransactions that  *)
(* fails may give both, in either order).  A GetLatest request may have    *)
(* one error more, for a payload that does not unmarshal ("payload" here): *)
(* it is told first, and does not end the task.                            *)
(***************************************************************************)
EXTENDS Sequences

CONSTANTS Streams, Requests,
          Latest,   \* the GetLatest requests
          SentOn    \* the stream each request is sent on

VARIABLES asked,     \* the requests sent
          answers    \* the final responses on each stream: <<request, kind>>

serviceVars == <<asked, answers>>

Kinds == {"payload", "END", "error"}

Given(x) == \E s \in Streams : \E i \in DOMAIN answers[s] : answers[s][i] = x
Told(r) == \E k \in Kinds : Given(<<r, k>>)
Answered(r) == Given(<<r, "END">>) \/ Given(<<r, "error">>)

Init == asked = {} /\ answers = [s \in Streams |-> <<>>]

Ask(r) ==
    /\ asked' = asked \union {r}
    /\ UNCHANGED answers

Answer(r, k) ==
    /\ r \in asked /\ ~Given(<<r, k>>)
    /\ k = "payload" => r \in Latest /\ ~Answered(r)
    /\ answers' = [answers EXCEPT ![SentOn[r]] = Append(@, <<r, k>>)]
    /\ UNCHANGED asked

Next == \E r \in Requests : Ask(r) \/ \E k \in Kinds : Answer(r, k)

Spec == Init /\ [][Next]_serviceVars
=============================================================================
