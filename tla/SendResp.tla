------------------------------ MODULE SendResp ------------------------------
(***************************************************************************)
(* sendResp (client/client.go): the goroutine that takes items from out,   *)
(* numbers them, sends them to the manager, and closes the answer with END *)
(* when out is closed and drained, or when the task's context is done.     *)
(***************************************************************************)
EXTENDS Task

VARIABLES spc,          \* where sendResp stands; "idle" before it is started
          order,        \* the number of the next response
          contextDone   \* the loop was left because of the context

sendVars == <<spc, order, contextDone>>

SendRespInit == spc = "idle" /\ order = 0 /\ contextDone = FALSE

(* case t, ok := <-out.  The order advances whether or not the stream took *)
(* the response.                                                           *)
SendItem ==
    /\ spc = "loop" /\ out # <<>>
    /\ out' = Tail(out)
    /\ Send(Data(Head(out), order))
    /\ order' = order + 1
    /\ UNCHANGED <<pc, ctxDone, streamUp, outClosed, spc, contextDone>>

(* out is closed and empty: leave the loop.                                *)
OutDrained ==
    /\ spc = "loop" /\ out = <<>> /\ outClosed
    /\ spc' = "end"
    /\ UNCHANGED <<taskVars, order, contextDone>>

\* Seeded fault: the loop is left without noting why.
SenderCancelledUnnoted ==
    /\ spc = "loop" /\ ctxDone
    /\ spc' = "end"
    /\ UNCHANGED <<taskVars, order, contextDone>>

\* Seeded fault: END is sent and the loop is not left.
SenderCancelledStays ==
    /\ spc = "loop" /\ ctxDone
    /\ contextDone' = TRUE
    /\ Send(EndMark(order))
    /\ UNCHANGED <<pc, ctxDone, streamUp, out, outClosed, spc, order>>

(* case <-ctx.Done(): select chooses freely between a done context and an  *)
(* item that is waiting.                                                   *)
SenderCancelled ==
    /\ spc = "loop" /\ ctxDone
    /\ contextDone' = TRUE
    /\ spc' = "end"
    /\ UNCHANGED <<taskVars, order>>

\* Seeded fault: END without its Order field.
SendEndUnnumbered ==
    /\ spc = "end"
    /\ Send(EndMark(0))
    /\ spc' = "fin"
    /\ UNCHANGED <<pc, ctxDone, streamUp, out, outClosed, order, contextDone>>

\* Seeded fault: no END when the context was done.
SendEndIfAllSent ==
    /\ spc = "end"
    /\ IF contextDone THEN UNCHANGED answer ELSE Send(EndMark(order))
    /\ spc' = "fin"
    /\ UNCHANGED <<pc, ctxDone, streamUp, out, outClosed, order, contextDone>>

SendEnd ==
    /\ spc = "end"
    /\ Send(EndMark(order))
    /\ spc' = "fin"
    /\ UNCHANGED <<pc, ctxDone, streamUp, out, outClosed, order, contextDone>>

(* fin <- true unless the context was done, then close(fin): either way a  *)
(* reader of fin goes on.                                                  *)
SignalFin ==
    /\ spc = "fin"
    /\ spc' = "done"
    /\ UNCHANGED <<taskVars, order, contextDone>>

FinReadable == spc = "done"

Sender == SendItem \/ OutDrained \/ SenderCancelled \/ SendEnd \/ SignalFin

SendRespDataOK ==
    /\ spc \in {"idle", "loop", "end", "fin", "done"}
    /\ order \in Nat

SendRespTypeOK == contextDone \in BOOLEAN /\ SendRespDataOK

(* Responses are numbered without gap or repetition in the order the       *)
(* manager receives them, END included, although blocks and transactions   *)
(* of several goroutines mix in out.                                       *)
Numbering ==
    \A n \in DOMAIN answer : answer[n].type # "error" =>
        answer[n].order = Cardinality({m \in OfType("data") : m < n})
=============================================================================
