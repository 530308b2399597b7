------------------------------ MODULE GetLatest ------------------------------
(***************************************************************************)
(* IndexerClient.GetLatest (client/client.go): the newest batch of blocks, *)
(* then the batches between the starting height and that one, then the     *)
(* same pipeline as getRangeSingular.                                      *)
(***************************************************************************)
EXTENDS SendResp, BlocksFetch, TxPipeline

CONSTANTS LastHeights,  \* the values of LastHeight considered
          BadPayload,   \* a payload that is not a LatestDataRequest
          MaxHeights,   \* maximumHeightsToGet
          Word          \* 2^64: heights are uint64

ASSUME GetLatestAssumption ==
    /\ LastHeights \subseteq (0..Top) \cup {BadPayload}
    /\ MaxHeights \in Nat /\ Word \in Nat
    /\ Top < Word /\ MaxHeights < Word /\ BatchLimit < Word

VARIABLES req,     \* LastHeight of the payload
          start,   \* startingHeight
          hi       \* bhr.EndHeight of the batch being prepared

vars == <<taskVars, sendVars, fetchVars, pipeVars, req, start, hi>>

Init ==
    /\ TaskInit /\ SendRespInit /\ BlocksFetchInit /\ TxPipelineInit
    /\ req \in LastHeights
    /\ start = 0 /\ hi = 0

-----------------------------------------------------------------------------

Minus(a, b) == (a - b + Word) % Word

(* getStartingHeight, in the arithmetic of uint64.                         *)
StartingHeight(lastHeight, chain) ==
    IF lastHeight = 0 /\ Minus(chain, MaxHeights) > 0 THEN Minus(chain, MaxHeights)
    ELSE IF MaxHeights < Minus(chain, lastHeight)
         THEN IF MaxHeights > chain THEN 0 ELSE chain - MaxHeights
         ELSE lastHeight

LastHeight == IF req = BadPayload THEN 0 ELSE req

-----------------------------------------------------------------------------
(* The handler's goroutine.                                                *)

(* A payload that does not unmarshal is answered with an error, and the    *)
(* handler goes on.  GetBlocksMeta for the newest blocks runs in this      *)
(* goroutine: it is entry 1 of fetch, and the handler waits for it.        *)
AskNewest ==
    /\ pc = "start"
    /\ IF req = BadPayload THEN Send(ErrorMark) ELSE UNCHANGED answer
    /\ GoFetch(0, 0)
    /\ pc' = "newest"
    /\ UNCHANGED <<ctxDone, streamUp, out, outClosed>>
    /\ UNCHANGED <<ctrl, ctrlClosed, got, nerr, blocks, summary>>
    /\ UNCHANGED <<sendVars, pipeVars, req, start, hi>>

(* got counts this report too, as fetch counts entry 1.                    *)
TakeNewest ==
    /\ pc = "newest" /\ ctrl # <<>>
    /\ ctrl' = Tail(ctrl)
    /\ got' = 1
    /\ pc' = IF Head(ctrl) = "failed" THEN "failed" ELSE "plan"
    /\ UNCHANGED <<ctxDone, streamUp, out, outClosed, answer>>
    /\ UNCHANGED <<fetch, ctrlClosed, nerr, blocks, summary>>
    /\ UNCHANGED <<sendVars, pipeVars, req, start, hi>>

Plan ==
    /\ pc = "plan"
    /\ start' = StartingHeight(LastHeight, summary.end)
    /\ pc' = IF start' <= summary.start THEN "clamp" ELSE "launch"
    /\ UNCHANGED <<ctxDone, streamUp, out, outClosed, answer>>
    /\ UNCHANGED <<sendVars, fetchVars, pipeVars, req, hi>>

(* The loop that starts the batches reads blocksAll.StartHeight three times*)
(* a turn, without the mutex, while the batches already started lower it.  *)
BatchStart == start + (Len(fetch) - 1) * BatchLimit

Clamp ==
    /\ pc = "clamp"
    /\ hi' = BatchStart + BatchLimit - 1
    /\ pc' = IF hi' > summary.start THEN "cut" ELSE "go"
    /\ UNCHANGED <<ctxDone, streamUp, out, outClosed, answer>>
    /\ UNCHANGED <<sendVars, fetchVars, pipeVars, req, start>>

Cut ==
    /\ pc = "cut"
    /\ hi' = summary.start
    /\ pc' = "go"
    /\ UNCHANGED <<ctxDone, streamUp, out, outClosed, answer>>
    /\ UNCHANGED <<sendVars, fetchVars, pipeVars, req, start>>

SpawnBatch ==
    /\ pc = "go"
    /\ GoFetch(BatchStart, hi)
    /\ pc' = "more"
    /\ UNCHANGED <<ctxDone, streamUp, out, outClosed, answer>>
    /\ UNCHANGED <<ctrl, ctrlClosed, got, nerr, blocks, summary>>
    /\ UNCHANGED <<sendVars, pipeVars, req, start, hi>>

MoreBatches ==
    /\ pc = "more"
    /\ pc' = IF hi = summary.start THEN "collect" ELSE "clamp"
    /\ UNCHANGED <<ctxDone, streamUp, out, outClosed, answer>>
    /\ UNCHANGED <<sendVars, fetchVars, pipeVars, req, start, hi>>

Collect ==
    /\ CollectReport("launch")
    /\ UNCHANGED <<sendVars, pipeVars, req, start, hi>>

\* Seeded fault: the return after the error is missing.
ReportFailureAndGoOn ==
    /\ pc = "failed"
    /\ Send(ErrorMark)
    /\ pc' = "launch"
    /\ UNCHANGED <<ctxDone, streamUp, out, outClosed>>
    /\ UNCHANGED <<sendVars, fetchVars, pipeVars, req, start, hi>>

(* The handler sends the error and returns: the context is cancelled and   *)
(* batchesCtrl closed.                                                     *)
ReportFailure ==
    /\ pc = "failed"
    /\ Send(ErrorMark)
    /\ ctrlClosed' = TRUE
    /\ pc' = "done" /\ ctxDone' = TRUE
    /\ UNCHANGED <<streamUp, out, outClosed>>
    /\ UNCHANGED <<fetch, ctrl, got, nerr, blocks, summary>>
    /\ UNCHANGED <<sendVars, pipeVars, req, start, hi>>

(* The loop over the blocks passes over those above blocksAll.StartHeight. *)
Skipped(h) == summary.start < h

(* go sendResp, the converter and the workers.                             *)
LaunchPipeline ==
    /\ Launch({h \in blocks : ~Skipped(h)})
    /\ spc' = "loop"
    /\ UNCHANGED <<order, contextDone, fetchVars, req, start, hi>>

FeedPipeline ==
    /\ PipelineMain
    /\ UNCHANGED <<sendVars, fetchVars, req, start, hi>>

(* close(out) and the deferred calls; nothing waits for sendResp.          *)
Return ==
    /\ Converted
    /\ outClosed' = TRUE
    /\ ctrlClosed' = TRUE
    /\ pc' = "done" /\ ctxDone' = TRUE
    /\ UNCHANGED <<streamUp, out, answer>>
    /\ UNCHANGED <<fetch, ctrl, got, nerr, blocks, summary>>
    /\ UNCHANGED <<sendVars, pipeVars, req, start, hi>>

Handler ==
    \/ AskNewest \/ TakeNewest \/ Plan \/ Clamp \/ Cut \/ SpawnBatch
    \/ MoreBatches \/ Collect \/ ReportFailure \/ LaunchPipeline
    \/ FeedPipeline \/ Return

-----------------------------------------------------------------------------
(* The other goroutines and the surroundings.                              *)

FetchStep ==
    /\ \E f \in DOMAIN fetch : Fetcher(f)
    /\ UNCHANGED <<taskVars, sendVars, pipeVars, req, start, hi>>

WorkerStep ==
    /\ \E w \in Workers : Worker(w)
    /\ UNCHANGED <<sendVars, fetchVars, req, start, hi>>

ConverterStep ==
    /\ Converter
    /\ UNCHANGED <<sendVars, fetchVars, req, start, hi>>

SenderStep ==
    /\ Sender
    /\ UNCHANGED <<fetchVars, pipeVars, req, start, hi>>

SurroundingsStep ==
    /\ Surroundings
    /\ UNCHANGED <<sendVars, fetchVars, pipeVars, req, start, hi>>

Terminated ==
    /\ pc = "done" /\ spc \in {"idle", "done"}
    /\ UNCHANGED vars

Next ==
    \/ Handler \/ FetchStep \/ WorkerStep \/ ConverterStep \/ SenderStep
    \/ SurroundingsStep \/ Terminated

(* As for GetTransactions: every goroutine that can run does, and an HTTP  *)
(* request ends.                                                           *)
Fairness ==
    /\ WF_vars(Handler) /\ WF_vars(FetchStep) /\ WF_vars(WorkerStep)
    /\ WF_vars(ConverterStep) /\ WF_vars(SenderStep)

Spec == Init /\ [][Next]_vars
FairSpec == Spec /\ Fairness

-----------------------------------------------------------------------------
(* Properties.                                                             *)

TypeOK ==
    /\ TaskTypeOK(Items) /\ SendRespTypeOK /\ BlocksFetchTypeOK /\ TxPipelineTypeOK
    /\ pc \in {"start", "newest", "plan", "clamp", "cut", "go", "more", "collect",
               "failed", "launch", "range", "pages", "waitHttp", "waitConv", "done"}
    /\ req \in LastHeights
    /\ start \in 0..Word - 1
    /\ hi \in Nat

(* Each channel of a task is closed only when every goroutine that sends on*)
(* it has finished, whatever the batches read of each other's progress.    *)
ChannelsSafe ==
    /\ ctrlClosed => \A f \in DOMAIN fetch : fetch[f].pc = "done"
    /\ toGetClosed => pc \notin {"range", "pages"}
    /\ txInClosed => \A w \in Workers : worker[w].pc = "done"
    /\ outClosed => conv.pc = "done" /\ pc = "done"

Chosen == {x \in Items : x[1] \in blocks /\ ~Skipped(x[1])}

(* An END that follows the drained channel closes an answer that holds all *)
(* the blocks the handler did not pass over, with every transaction of the *)
(* pages that could be fetched.                                            *)
CompleteAnswer ==
    spc \in {"fin", "done"} /\ ~contextDone /\ streamUp =>
        Delivered = {x \in Chosen : x[2] > 0 => \A p \in lost : x \notin TxsOf({p})}

(* The manager is told of an error exactly when the payload or a batch of  *)
(* blocks failed.                                                          *)
ErrorMeansFailure ==
    pc = "done" /\ streamUp =>
        (OfType("error") # {} <=>
            req = BadPayload \/ \E f \in DOMAIN fetch : fetch[f].report = "failed")

(* The answer, response by response as the manager receives it, implements *)
(* RangeAnswer for the range of the whole chain.  A payload that does not  *)
(* unmarshal is told at once and the task goes on, so that a failing batch *)
(* may tell one error more.                                                *)
Abstract == INSTANCE RangeAnswer WITH
                Universe <- Items,
                wanted <- Items,
                goesOn <- req = BadPayload
ImplementsRangeAnswer == Abstract!Spec

(* A final response is the last one, whatever batch failed and whoever     *)
(* ended the context; only the error of a payload that does not unmarshal  *)
(* comes first and is followed by others.                                  *)
OneFinal == \A n \in Finals : n = Len(answer) \/ (req = BadPayload /\ n = 1)

(* Every goroutine of the task ends, or the handler or the converter is    *)
(* left with an item before a full out whose reader, sendResp, has gone    *)
(* with the context; either way the manager has a final response or its    *)
(* stream is gone.                                                         *)
Ended ==
    /\ pc = "done" /\ spc \in {"idle", "done"}
    /\ \A f \in DOMAIN fetch : fetch[f].pc = "done"
    /\ HttpWaitGroupZero /\ ConvertWaitGroupZero
LeftBeforeFullOut ==
    /\ spc = "done" /\ ~OutHasRoom
    /\ (pc = "range" /\ todo # {}) \/ conv.pc = "emit"
EndsWithFinal == <>((Ended \/ LeftBeforeFullOut) /\ (Finals # {} \/ ~streamUp))

-----------------------------------------------------------------------------
(* What the comments of the code say and the code does not do.             *)

(* "skip processing blocks before given range": blocks that are not before *)
(* the range are processed.                                                *)
OnlyEarlierSkipped ==
    pc = "range" /\ todo = {} => \A h \in blocks : h >= start => ~Skipped(h)

(* "gets latest transactions and blocks": when no request failed, the      *)
(* blocks fetched reach without a gap from the starting height to the tip. *)
NoGap ==
    pc = "range" /\ start <= summary.start =>
        \A h \in 1..Top : h >= start => h \in blocks
=============================================================================
