-------------------------- MODULE GetTransactions --------------------------
(***************************************************************************)
(* IndexerClient.GetTransactions (client/client.go) with getRangeSingular, *)
(* the goroutines it starts (sendResp, GetBlocksMeta, SingularHeightWorker,*)
(* RawToTransactionCh) and the surroundings of the task.                   *)
(***************************************************************************)
EXTENDS SendResp, BlocksFetch, TxPipeline

CONSTANTS Requests,   \* the payloads considered: <<StartHeight, EndHeight>>
          BadPayload, \* a payload that is not a HeightRange
          BigPage     \* heights per getRangeSingular call (config BIG_PAGE)

ASSUME GetTransactionsAssumption ==
    /\ Requests \subseteq (Nat \X Nat) \cup {BadPayload}
    /\ BigPage \in Nat \ {0}

VARIABLES req,    \* the payload of this task
          page    \* i of the page loop

vars == <<taskVars, sendVars, fetchVars, pipeVars, req, page>>

Init ==
    /\ TaskInit /\ SendRespInit /\ BlocksFetchInit /\ TxPipelineInit
    /\ req \in Requests
    /\ page = 0

-----------------------------------------------------------------------------
(* The heights of page p and of batch b in it (uint64; no wrap-around for  *)
(* heights of a chain and BigPage > 0).                                    *)

Least(a, b) == IF a < b THEN a ELSE b

\* Seeded fault: a page starts where the one before ended.
PageStartOverlapping(p) == req[1] + p * (BigPage - 1)

PageStart(p) == req[1] + p * BigPage

PageEnd(p) == Least(req[1] + p * BigPage + BigPage - 1, req[2])

BatchStart(p, b) == PageStart(p) + b * BatchLimit
BatchEnd(p, b) == Least(BatchStart(p, b) + BatchLimit - 1, PageEnd(p))

-----------------------------------------------------------------------------
(* The handler's goroutine.                                                *)

(* The payload does not unmarshal.                                         *)
RefusePayload ==
    /\ pc = "start" /\ req = BadPayload
    /\ Send(ErrorMark)
    /\ pc' = "done" /\ ctxDone' = TRUE
    /\ UNCHANGED <<streamUp, out, outClosed>>
    /\ UNCHANGED <<sendVars, fetchVars, pipeVars, req, page>>

(* EndHeight is 0: the message is built from err, which is nil here, and   *)
(* the call of its Error method panics.  Nothing recovers; the process     *)
(* ends.                                                                   *)
ZeroEndHeight ==
    /\ pc = "start" /\ req # BadPayload /\ req[2] = 0
    /\ pc' = "panic"
    /\ UNCHANGED <<ctxDone, streamUp, out, outClosed, answer>>
    /\ UNCHANGED <<sendVars, fetchVars, pipeVars, req, page>>

(* go sendResp.                                                            *)
StartSender ==
    /\ pc = "start" /\ req # BadPayload /\ req[2] # 0
    /\ spc' = "loop"
    /\ pc' = "page"
    /\ UNCHANGED <<ctxDone, streamUp, out, outClosed, answer>>
    /\ UNCHANGED <<order, contextDone, fetchVars, pipeVars, req, page>>

(* One turn of the page loop calls getRangeSingular with a fresh control   *)
(* channel and a fresh BlocksMap.                                          *)
BeginPage ==
    /\ pc = "page"
    /\ FreshFetch
    /\ pc' = "spawn"
    /\ UNCHANGED <<ctxDone, streamUp, out, outClosed, answer>>
    /\ UNCHANGED <<sendVars, pipeVars, req, page>>

(* go client.GetBlocksMeta for the next batch of the page.                 *)
SpawnBatch ==
    /\ pc = "spawn"
    /\ GoFetch(BatchStart(page, Len(fetch)), BatchEnd(page, Len(fetch)))
    /\ pc' = IF BatchEnd(page, Len(fetch)) = PageEnd(page) THEN "collect" ELSE "spawn"
    /\ UNCHANGED <<ctxDone, streamUp, out, outClosed, answer>>
    /\ UNCHANGED <<ctrl, ctrlClosed, got, nerr, blocks, summary>>
    /\ UNCHANGED <<sendVars, pipeVars, req, page>>

Collect ==
    /\ CollectReport("launch")
    /\ UNCHANGED <<sendVars, pipeVars, req, page>>

(* getRangeSingular returns the collected errors, which closes batchesCtrl;*)
(* the handler sends them as the final response and returns, which cancels *)
(* the context under sendResp.                                             *)
\* Seeded fault: the error is logged and not sent.
LogFailure ==
    /\ pc = "failed"
    /\ ctrlClosed' = TRUE
    /\ pc' = "done" /\ ctxDone' = TRUE
    /\ UNCHANGED <<streamUp, out, outClosed, answer>>
    /\ UNCHANGED <<fetch, ctrl, got, nerr, blocks, summary>>
    /\ UNCHANGED <<sendVars, pipeVars, req, page>>

ReportFailure ==
    /\ pc = "failed"
    /\ ctrlClosed' = TRUE
    /\ Send(ErrorMark)
    /\ pc' = "done" /\ ctxDone' = TRUE
    /\ UNCHANGED <<streamUp, out, outClosed>>
    /\ UNCHANGED <<fetch, ctrl, got, nerr, blocks, summary>>
    /\ UNCHANGED <<sendVars, pipeVars, req, page>>

LaunchPipeline ==
    /\ Launch(blocks)
    /\ UNCHANGED <<sendVars, fetchVars, req, page>>

FeedPipeline ==
    /\ PipelineMain
    /\ UNCHANGED <<sendVars, fetchVars, req, page>>

(* getRangeSingular returns; after the last page out is closed.            *)
EndPage ==
    /\ Converted
    /\ ctrlClosed' = TRUE
    /\ page' = page + 1
    /\ outClosed' = (PageEnd(page) = req[2])
    /\ pc' = IF PageEnd(page) = req[2] THEN "waitFin" ELSE "page"
    /\ UNCHANGED <<ctxDone, streamUp, out, answer>>
    /\ UNCHANGED <<fetch, ctrl, got, nerr, blocks, summary>>
    /\ UNCHANGED <<sendVars, pipeVars, req>>

(* The last loop waits for sendResp or for the context; returning runs     *)
(* the deferred cancel.                                                    *)
WaitFin ==
    /\ pc = "waitFin"
    /\ FinReadable \/ ctxDone
    /\ pc' = "done" /\ ctxDone' = TRUE
    /\ UNCHANGED <<streamUp, out, outClosed, answer>>
    /\ UNCHANGED <<sendVars, fetchVars, pipeVars, req, page>>

Handler ==
    \/ RefusePayload \/ ZeroEndHeight \/ StartSender \/ BeginPage \/ SpawnBatch
    \/ Collect \/ ReportFailure \/ LaunchPipeline \/ FeedPipeline \/ EndPage
    \/ WaitFin

-----------------------------------------------------------------------------
(* The other goroutines and the surroundings.                              *)

FetchStep ==
    /\ \E f \in DOMAIN fetch : Fetcher(f)
    /\ UNCHANGED <<taskVars, sendVars, pipeVars, req, page>>

WorkerStep ==
    /\ \E w \in Workers : Worker(w)
    /\ UNCHANGED <<sendVars, fetchVars, req, page>>

ConverterStep ==
    /\ Converter
    /\ UNCHANGED <<sendVars, fetchVars, req, page>>

SenderStep ==
    /\ Sender
    /\ UNCHANGED <<fetchVars, pipeVars, req, page>>

SurroundingsStep ==
    /\ Surroundings
    /\ UNCHANGED <<sendVars, fetchVars, pipeVars, req, page>>

(* The handler has returned and sendResp, if started, has ended; or the    *)
(* process is gone.                                                        *)
Terminated ==
    /\ pc = "panic" \/ (pc = "done" /\ spc \in {"idle", "done"})
    /\ UNCHANGED vars

Next ==
    \/ Handler \/ FetchStep \/ WorkerStep \/ ConverterStep \/ SenderStep
    \/ SurroundingsStep \/ Terminated

(* The Go scheduler runs every goroutine that can run; an HTTP request     *)
(* ends, by its client's timeout of 40 seconds at the latest.              *)
Fairness ==
    /\ WF_vars(Handler) /\ WF_vars(FetchStep) /\ WF_vars(WorkerStep)
    /\ WF_vars(ConverterStep) /\ WF_vars(SenderStep)

Spec == Init /\ [][Next]_vars
FairSpec == Spec /\ Fairness

-----------------------------------------------------------------------------
(* Properties.                                                             *)

TypeOK ==
    /\ TaskTypeOK(Items) /\ SendRespTypeOK /\ BlocksFetchTypeOK /\ TxPipelineTypeOK
    /\ pc \in {"start", "page", "spawn", "collect", "failed", "launch", "range",
               "pages", "waitHttp", "waitConv", "waitFin", "done", "panic"}
    /\ req \in Requests
    /\ page \in Nat

(* Sending on a closed channel or closing one twice would crash the worker:*)
(* each channel of a task is closed only when every goroutine that sends on*)
(* it has finished, also on the error path of getRangeSingular.            *)
ChannelsSafe ==
    /\ ctrlClosed => \A f \in DOMAIN fetch : fetch[f].pc = "done"
    /\ toGetClosed => pc \notin {"range", "pages"}
    /\ txInClosed => \A w \in Workers : worker[w].pc = "done"
    /\ outClosed => conv.pc = "done" /\ pc \in {"waitFin", "done"}

IsRange == req # BadPayload
WantedItems == {x \in Items : IsRange /\ x[1] \in req[1]..req[2]}
Kept == {x \in WantedItems : x[2] > 0 => \A p \in lost : x \notin TxsOf({p})}

(* An END that sendResp sends because out was closed and drained, not      *)
(* because of the context, closes a whole answer: every block of the range *)
(* that the chain has and every transaction of the pages that could be     *)
(* fetched, and END carries their number.                                  *)
CompleteAnswer ==
    spc \in {"fin", "done"} /\ ~contextDone /\ streamUp =>
        /\ Delivered = Kept
        /\ \E n \in OfType("END") : answer[n].order = Cardinality(Kept)

(* The handler tells the manager of an error exactly when the payload or a *)
(* batch of blocks failed, whichever of the batches it was.                *)
ErrorMeansFailure ==
    pc = "done" /\ streamUp =>
        (OfType("error") # {} <=> ~IsRange \/ \E f \in DOMAIN fetch : fetch[f].report = "failed")

(* The answer, response by response as the manager receives it, implements *)
(* RangeAnswer: no item twice over pages, batches and workers, no          *)
(* transaction before its block, every response numbered, one END at most  *)
(* and no item after it, one error at most.                                *)
Abstract == INSTANCE RangeAnswer WITH
                Universe <- Items,
                wanted <- WantedItems,
                goesOn <- FALSE
ImplementsRangeAnswer == Abstract!Spec

(* Every goroutine of the task ends.                                       *)
Ended ==
    /\ pc = "done" /\ spc \in {"idle", "done"}
    /\ \A f \in DOMAIN fetch : fetch[f].pc = "done"
    /\ HttpWaitGroupZero /\ ConvertWaitGroupZero
NoGoroutineLeft == <>(pc = "panic" \/ Ended)

(* The manager gets a final response, or its stream is gone.               *)
GetsFinal == <>(Finals # {} \/ ~streamUp \/ pc = "panic")

-----------------------------------------------------------------------------
(* What the comments and messages of the code say and the code does not do.*)

(* "getRange gets given range of blocks and transactions": when sendResp   *)
(* has drained out and no error was told, nothing of the range is missing. *)
NothingLost == spc = "done" /\ ~contextDone /\ streamUp => Delivered = WantedItems

(* A task whose EndHeight is zero is answered with the error the code      *)
(* builds for it.                                                          *)
ZeroEndAnswered == pc # "panic"

(* The "fixed number" of listeners of a stream stays: the handler returns  *)
(* to the listener that called it, at the latest when its context is done. *)
HandlerReturns == <>Returned
=============================================================================
