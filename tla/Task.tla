-------------------------------- MODULE Task --------------------------------
(***************************************************************************)
(* What every task handler of client/client.go shares: the handler's own   *)
(* position, the context it runs under, the manager's stream it answers on *)
(* and the channel "out" its goroutines put the answer's items into.       *)
(***************************************************************************)
EXTENDS Integers, Sequences, FiniteSets

CONSTANTS OutCap,    \* capacity of out (page*2+1 in GetTransactions)
          Faults     \* what the surroundings of the task may do wrong

FaultKinds == {"expire", "disconnect", "fetch", "search"}

ASSUME TaskAssumption ==
    /\ OutCap \in Nat \ {0}
    /\ Faults \subseteq FaultKinds

VARIABLES pc,         \* where the handler's goroutine stands
          ctxDone,    \* the task's context is done
          streamUp,   \* the manager's stream takes what is sent on it
          out,        \* the out channel
          outClosed,
          answer      \* what the manager received for this task, in order

taskVars == <<pc, ctxDone, streamUp, out, outClosed, answer>>

NoItem == <<0, 0>>

Data(x, n) == [type |-> "data", item |-> x, order |-> n]
EndMark(n) == [type |-> "END", item |-> NoItem, order |-> n]
ErrorMark == [type |-> "error", item |-> NoItem, order |-> 0]

(* StreamAccess.Send: a stream that is gone returns an error, which the    *)
(* callers log or ignore.                                                  *)
Send(r) == answer' = IF streamUp THEN Append(answer, r) ELSE answer

\* Seeded fault: one item more than the buffer holds.
OutOverfull == Len(out) <= OutCap

(* A goroutine may put an item into out.                                   *)
OutHasRoom == Len(out) < OutCap

TaskInit ==
    /\ pc = "start"
    /\ ctxDone = FALSE
    /\ streamUp = TRUE
    /\ out = <<>>
    /\ outClosed = FALSE
    /\ answer = <<>>

Returned == pc \in {"done", "panic"}

(* The five minutes Run gives a task are over, or the stream's context is  *)
(* cancelled.                                                              *)
Expire ==
    /\ "expire" \in Faults /\ ~ctxDone /\ ~Returned
    /\ ctxDone' = TRUE
    /\ UNCHANGED <<pc, streamUp, out, outClosed, answer>>

(* The manager goes away; its stream fails every later Send.               *)
Disconnect ==
    /\ "disconnect" \in Faults /\ streamUp
    /\ streamUp' = FALSE
    /\ UNCHANGED <<pc, ctxDone, out, outClosed, answer>>

Surroundings == Expire \/ Disconnect

-----------------------------------------------------------------------------
(* Reading an answer.                                                      *)

OfType(t) == {n \in DOMAIN answer : answer[n].type = t}
Finals == OfType("END") \cup OfType("error")
Delivered == {answer[n].item : n \in OfType("data")}

Responses(items) ==
    [type : {"data", "END", "error"}, item : items \cup {NoItem}, order : Nat]

TaskDataOK(items) ==
    /\ out \in Seq(items)
    /\ Len(out) <= OutCap
    /\ answer \in Seq(Responses(items))

TaskTypeOK(items) ==
    /\ {ctxDone, streamUp, outClosed} \subseteq BOOLEAN
    /\ TaskDataOK(items)
=============================================================================
