---------------------------- MODULE RangeAnswer ----------------------------
(***************************************************************************)
(* What the answer to a task promises the manager, with no goroutine,      *)
(* channel or request in sight.  The state is the answer itself, response  *)
(* by response: items of the wanted range, none twice, a transaction only  *)
(* after its block, numbered without gap; one END, after which no item     *)
(* comes; one error, before or after END and among the items.  An answer   *)
(* may hold both finals: the handler that tells a failure leaves END to    *)
(* sendResp.  A task that goes on after its first response was an error    *)
(* may tell one error more.                                                *)
(***************************************************************************)
EXTENDS Integers, Sequences, FiniteSets

CONSTANT Universe    \* <<h, 0>> a block, <<h, i>> its i-th transaction

VARIABLES wanted,    \* the items of the range asked for
          goesOn,    \* an error told at once does not end the task
          answer     \* what the manager was told, in order

answerVars == <<wanted, goesOn, answer>>

Init == wanted \subseteq Universe /\ goesOn \in BOOLEAN /\ answer = <<>>

Told(t) == {n \in DOMAIN answer : answer[n].type = t}
Items == {answer[n].item : n \in Told("data")}
Count == Cardinality(Told("data"))

Item(x) == [type |-> "data", item |-> x, order |-> Count]
EndMark == [type |-> "END", item |-> <<0, 0>>, order |-> Count]
Error == [type |-> "error", item |-> <<0, 0>>, order |-> 0]

Tell(r) == answer' = Append(answer, r) /\ UNCHANGED <<wanted, goesOn>>

Deliver(x) ==
    /\ Told("END") = {} /\ x \notin Items
    /\ x[2] > 0 => <<x[1], 0>> \in Items
    /\ Tell(Item(x))

End == Told("END") = {} /\ Tell(EndMark)

Fail ==
    /\ Told("error") = {} \/ (goesOn /\ answer = <<Error>>)
    /\ Tell(Error)

Next == (\E x \in wanted : Deliver(x)) \/ End \/ Fail

Spec == Init /\ [][Next]_answerVars
=============================================================================
