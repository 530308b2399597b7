----------------------- MODULE GetTransactionsProofs -----------------------
(***************************************************************************)
(* Theorems about GetTransactions, for every chain, every range, every     *)
(* capacity and every number of workers: types, capacities and the closing *)
(* of channels; then the answer: its numbers, its error, that it is a      *)
(* RangeAnswer and complete; and the summary of each page's blocks.        *)
(***************************************************************************)
EXTENDS GetTransactions, BlockTaskProofs

(***************************************************************************)
(* The inductive invariant.  TypeOK alone is not inductive: beside         *)
(* PagesInv, the heights of a batch are numbers because the loop is        *)
(* reached with a range only.                                              *)
(***************************************************************************)
RangeInv == pc \notin {"start", "done", "panic"} => req \in Nat \X Nat

(* Outside the spawning and collecting loops all fetchers are done.        *)
FetchersInv ==
    /\ ReportsCounted
    /\ pc \in {"spawn", "collect"} => ~ctrlClosed
    /\ pc \notin {"spawn", "collect"} => DoneFetchers = 1..Len(fetch)

Flags ==
    {ctxDone, streamUp, outClosed, contextDone, ctrlClosed, toGetClosed, txInClosed}
        \subseteq BOOLEAN

Positions ==
    {"start", "page", "spawn", "collect", "failed", "launch", "range",
     "pages", "waitHttp", "waitConv", "waitFin", "done", "panic"}
HandlerDataOK == pc \in Positions /\ req \in Requests /\ page \in Nat

IInv ==
    /\ Flags
    /\ HandlerDataOK /\ TaskDataOK(Items) /\ SendRespDataOK
    /\ BlocksFetchDataOK /\ TxPipelineDataOK
    /\ PagesInv /\ RangeInv /\ FetchersInv /\ ChannelsSafe

-----------------------------------------------------------------------------

(* The bounds of a batch are heights.                                      *)
LEMMA BatchType ==
    ASSUME NEW p \in Nat, NEW b \in Nat, req \in Nat \X Nat
    PROVE  BatchStart(p, b) \in Nat /\ BatchEnd(p, b) \in Nat
<1>1. BigPage \in Nat /\ BigPage >= 1 /\ BatchLimit \in Nat /\ BatchLimit >= 1
  BY GetTransactionsAssumption, BlocksFetchAssumption
  DEF GetTransactionsAssumption, BlocksFetchAssumption
<1>2. p * BigPage \in Nat /\ b * BatchLimit \in Nat
  BY <1>1
<1>3. req[1] \in Nat /\ req[2] \in Nat
  OBVIOUS
<1>4. PageStart(p) \in Nat /\ PageEnd(p) \in Nat
  BY <1>1, <1>2, <1>3 DEF PageStart, PageEnd, Least
<1>5. BatchStart(p, b) \in Nat
  BY <1>2, <1>4 DEF BatchStart
<1>6. QED
  BY <1>1, <1>4, <1>5 DEF BatchEnd, Least

(* The flags are Boolean.                                                  *)
LEMMA FlagsKept ==
    ASSUME Flags, [Next]_vars
    PROVE  Flags'
<1> USE DEF Flags
<1>1. CASE Handler
  <2>1. CASE RefusePayload
    BY <2>1 DEF RefusePayload, sendVars, fetchVars, pipeVars
  <2>2. CASE ZeroEndHeight
    BY <2>2 DEF ZeroEndHeight, sendVars, fetchVars, pipeVars
  <2>3. CASE StartSender
    BY <2>3 DEF StartSender, fetchVars, pipeVars
  <2>4. CASE BeginPage
    BY <2>4 DEF BeginPage, FreshFetch, sendVars, pipeVars
  <2>5. CASE SpawnBatch
    BY <2>5 DEF SpawnBatch, sendVars, pipeVars
  <2>6. CASE Collect
    BY <2>6 DEF Collect, CollectReport, sendVars, pipeVars
  <2>7. CASE ReportFailure
    BY <2>7 DEF ReportFailure, sendVars, pipeVars
  <2>8. CASE LaunchPipeline
    BY <2>8 DEF LaunchPipeline, Launch, sendVars, fetchVars
  <2>9. CASE FeedPipeline
    BY <2>9 DEF FeedPipeline, PipelineMain, SendBlock, QueuePage, CloseToGet, CloseTxIn,
                sendVars, fetchVars
  <2>10. CASE EndPage
    BY <2>10 DEF EndPage, sendVars, pipeVars
  <2>11. CASE WaitFin
    BY <2>11 DEF WaitFin, sendVars, fetchVars, pipeVars
  <2>12. QED
    BY <1>1, <2>1, <2>2, <2>3, <2>4, <2>5, <2>6, <2>7, <2>8, <2>9, <2>10, <2>11 DEF Handler
<1>2. CASE FetchStep
  BY <1>2 DEF FetchStep, Fetcher, AskLimiter, GetMetas, LockBlocks, MergeBlock,
              UnlockBlocks, ReportBatch, taskVars, sendVars, pipeVars
<1>3. CASE WorkerStep
  BY <1>3 DEF WorkerStep, Worker, taskVars, sendVars, fetchVars
<1>4. CASE ConverterStep
  BY <1>4 DEF ConverterStep, Converter, sendVars, fetchVars
<1>5. CASE SenderStep
  <2>1. UNCHANGED <<ctxDone, streamUp, outClosed>>
    BY <1>5 DEF SenderStep, Sender, SendItem, OutDrained, SenderCancelled, SendEnd, SignalFin, taskVars
  <2>2. contextDone' \in BOOLEAN
    BY <1>5 DEF SenderStep, Sender, SendItem, OutDrained, SenderCancelled, SendEnd, SignalFin
  <2>3. UNCHANGED <<ctrlClosed, toGetClosed, txInClosed>>
    BY <1>5 DEF SenderStep, fetchVars, pipeVars
  <2>4. QED
    BY <2>1, <2>2, <2>3
<1>6. CASE SurroundingsStep
  BY <1>6 DEF SurroundingsStep, Surroundings, Expire, Disconnect, sendVars, fetchVars, pipeVars
<1>7. CASE UNCHANGED vars
  BY <1>7 DEF vars, taskVars, sendVars, fetchVars, pipeVars
<1>8. QED
  BY <1>1, <1>2, <1>3, <1>4, <1>5, <1>6, <1>7 DEF Next, Terminated

-----------------------------------------------------------------------------
(* The steps of the other goroutines and of the surroundings.              *)

LEMMA FetchStepInv ==
    ASSUME IInv, FetchStep
    PROVE  IInv'
<1>1. PICK f \in DOMAIN fetch : Fetcher(f)
  BY DEF FetchStep
<1>2. UNCHANGED <<pc, out, answer, outClosed, spc, order, req, page>>
  BY DEF FetchStep, taskVars, sendVars
<1>3. UNCHANGED <<todo, cur, toGet, toGetClosed, worker, txIn, txInClosed, conv, lost>>
  BY DEF FetchStep, pipeVars
<1>4. BlocksFetchDataOK'
  BY <1>1, FetcherDataOK DEF IInv
<1>5. ReportsCounted' /\ pc \in {"spawn", "collect"} /\ ~ctrlClosed'
  BY <1>1, FetcherReports DEF IInv, FetchersInv
<1>6. TaskDataOK(Items)' /\ SendRespDataOK' /\ TxPipelineDataOK' /\ PagesInv'
  BY <1>2, <1>3, TaskUnmoved, SendRespUnmoved, TxPipelineUnmoved, PagesUnmoved DEF IInv
<1>7. HandlerDataOK' /\ RangeInv' /\ FetchersInv'
  BY <1>2, <1>5 DEF IInv, HandlerDataOK, RangeInv, FetchersInv
<1>8. ChannelsSafe'
  BY <1>2, <1>3, <1>5 DEF IInv, ChannelsSafe
<1>9. Flags'
  BY FlagsKept DEF IInv, Next
<1>10. QED
  BY <1>4, <1>6, <1>7, <1>8, <1>9 DEF IInv

LEMMA WorkerStepInv ==
    ASSUME IInv, WorkerStep
    PROVE  IInv'
<1>1. PICK w \in Workers : Worker(w)
  BY DEF WorkerStep
<1>2. UNCHANGED <<pc, out, answer, outClosed, spc, order, req, page>>
  BY <1>1 DEF WorkerStep, Worker, taskVars, sendVars
<1>3. UNCHANGED <<fetch, ctrl, ctrlClosed, got, nerr, blocks, summary>>
  BY DEF WorkerStep, fetchVars
<1>4. UNCHANGED <<toGetClosed, txInClosed, conv>>
  BY <1>1 DEF Worker
<1>5. TxPipelineDataOK' /\ PagesInv'
  BY <1>1, WorkerOK DEF IInv
<1>6. TaskDataOK(Items)' /\ SendRespDataOK' /\ BlocksFetchDataOK' /\ ReportsCounted' /\ DoneFetchers' = DoneFetchers
  BY <1>2, <1>3, TaskUnmoved, SendRespUnmoved, BlocksFetchUnmoved, FetchersUnmoved DEF IInv, FetchersInv
<1>7. HandlerDataOK' /\ RangeInv' /\ FetchersInv'
  BY <1>2, <1>3, <1>6 DEF IInv, HandlerDataOK, RangeInv, FetchersInv
<1>8. ~txInClosed
  <2>1. worker[w].pc # "done"
    BY <1>1 DEF Worker, TakePage, WorkerDone, AskSearchLimiter, Search, PutTx, PageDone
  <2>2. QED
    BY <2>1 DEF IInv, ChannelsSafe
<1>9. ChannelsSafe'
  BY <1>2, <1>3, <1>4, <1>8 DEF IInv, ChannelsSafe
<1>10. Flags'
  BY FlagsKept DEF IInv, Next
<1>11. QED
  BY <1>5, <1>6, <1>7, <1>9, <1>10 DEF IInv

LEMMA ConverterStepInv ==
    ASSUME IInv, ConverterStep
    PROVE  IInv'
<1>1. UNCHANGED <<pc, answer, outClosed, spc, order, req, page>>
  BY DEF ConverterStep, Converter, sendVars
<1>2. UNCHANGED <<fetch, ctrl, ctrlClosed, got, nerr, blocks, summary>>
  BY DEF ConverterStep, fetchVars
<1>3. UNCHANGED <<toGetClosed, worker, txInClosed>>
  BY DEF ConverterStep, Converter
<1>4. TaskDataOK(Items)' /\ TxPipelineDataOK' /\ PagesInv' /\ conv.pc # "done"
  BY ConverterOK DEF IInv, ConverterStep
<1>5. SendRespDataOK' /\ BlocksFetchDataOK' /\ ReportsCounted' /\ DoneFetchers' = DoneFetchers
  BY <1>1, <1>2, SendRespUnmoved, BlocksFetchUnmoved, FetchersUnmoved DEF IInv, FetchersInv
<1>6. HandlerDataOK' /\ RangeInv' /\ FetchersInv'
  BY <1>1, <1>2, <1>5 DEF IInv, HandlerDataOK, RangeInv, FetchersInv
<1>7. ChannelsSafe'
  BY <1>1, <1>2, <1>3, <1>4 DEF IInv, ChannelsSafe
<1>8. Flags'
  BY FlagsKept DEF IInv, Next
<1>9. QED
  BY <1>4, <1>5, <1>6, <1>7, <1>8 DEF IInv

LEMMA SenderStepInv ==
    ASSUME IInv, SenderStep
    PROVE  IInv'
<1>1. UNCHANGED <<pc, outClosed, req, page>>
  BY DEF SenderStep, Sender, SendItem, OutDrained, SenderCancelled, SendEnd, SignalFin, taskVars
<1>2. UNCHANGED <<fetch, ctrl, ctrlClosed, got, nerr, blocks, summary>>
  BY DEF SenderStep, fetchVars
<1>3. UNCHANGED <<todo, cur, toGet, toGetClosed, worker, txIn, txInClosed, conv, lost>>
  BY DEF SenderStep, pipeVars
<1>4. TaskDataOK(Items)' /\ SendRespDataOK'
  BY SenderOK DEF IInv, SenderStep
<1>5. /\ BlocksFetchDataOK' /\ TxPipelineDataOK' /\ PagesInv'
      /\ ReportsCounted' /\ DoneFetchers' = DoneFetchers
  BY <1>1, <1>2, <1>3, BlocksFetchUnmoved, FetchersUnmoved, TxPipelineUnmoved, PagesUnmoved
  DEF IInv, FetchersInv
<1>6. HandlerDataOK' /\ RangeInv' /\ FetchersInv'
  BY <1>1, <1>2, <1>5 DEF IInv, HandlerDataOK, RangeInv, FetchersInv
<1>7. ChannelsSafe'
  BY <1>1, <1>2, <1>3 DEF IInv, ChannelsSafe
<1>8. Flags'
  BY FlagsKept DEF IInv, Next
<1>9. QED
  BY <1>4, <1>5, <1>6, <1>7, <1>8 DEF IInv

LEMMA SurroundingsStepInv ==
    ASSUME IInv, SurroundingsStep
    PROVE  IInv'
<1>1. UNCHANGED <<pc, out, outClosed, answer, req, page, spc, order>>
  BY DEF SurroundingsStep, Surroundings, Expire, Disconnect, sendVars
<1>2. UNCHANGED <<fetch, ctrl, ctrlClosed, got, nerr, blocks, summary>>
  BY DEF SurroundingsStep, fetchVars
<1>3. UNCHANGED <<todo, cur, toGet, toGetClosed, worker, txIn, txInClosed, conv, lost>>
  BY DEF SurroundingsStep, pipeVars
<1>4. TaskDataOK(Items)' /\ SendRespDataOK'
  BY <1>1, TaskUnmoved, SendRespUnmoved DEF IInv
<1>5. /\ BlocksFetchDataOK' /\ TxPipelineDataOK' /\ PagesInv'
      /\ ReportsCounted' /\ DoneFetchers' = DoneFetchers
  BY <1>1, <1>2, <1>3, BlocksFetchUnmoved, FetchersUnmoved, TxPipelineUnmoved, PagesUnmoved
  DEF IInv, FetchersInv
<1>6. HandlerDataOK' /\ RangeInv' /\ FetchersInv' /\ ChannelsSafe'
  BY <1>1, <1>2, <1>3, <1>5 DEF IInv, HandlerDataOK, RangeInv, FetchersInv, ChannelsSafe
<1>7. Flags'
  BY FlagsKept DEF IInv, Next
<1>8. QED
  BY <1>4, <1>5, <1>6, <1>7 DEF IInv

-----------------------------------------------------------------------------
(* The steps of the handler that change its position and flags only.       *)

QuietStep ==
    \/ ZeroEndHeight \/ StartSender \/ RefusePayload \/ ReportFailure \/ EndPage \/ WaitFin

LEMMA QuietStepInv ==
    ASSUME IInv, QuietStep
    PROVE  IInv'
<1>1. UNCHANGED <<out, order, req, fetch, ctrl, got, nerr, blocks, summary>>
  BY DEF QuietStep, ZeroEndHeight, StartSender, RefusePayload, ReportFailure, EndPage, WaitFin,
         sendVars, fetchVars
<1>2. UNCHANGED <<todo, cur, toGet, toGetClosed, worker, txIn, txInClosed, conv, lost>>
  BY DEF QuietStep, ZeroEndHeight, StartSender, RefusePayload, ReportFailure, EndPage, WaitFin,
         pipeVars
<1>3. /\ pc \notin {"spawn", "collect"}
      /\ pc' \in {"panic", "page", "done", "waitFin"}
  BY DEF QuietStep, ZeroEndHeight, StartSender, RefusePayload, ReportFailure, EndPage, WaitFin,
         Converted
<1>4. page \in Nat /\ page' \in Nat
  BY DEF IInv, HandlerDataOK, QuietStep, ZeroEndHeight, StartSender, RefusePayload,
         ReportFailure, EndPage, WaitFin
<1>5. HandlerDataOK'
  BY <1>1, <1>3, <1>4 DEF IInv, HandlerDataOK, Positions
<1>6. TaskDataOK(Items)'
  <2>1. CASE UNCHANGED answer
    BY <1>1, <2>1, TaskUnmoved DEF IInv
  <2>2. CASE Send(ErrorMark)
    <3>1. ErrorMark \in Responses(Items)
      BY DEF ErrorMark, Responses
    <3>2. QED
      BY <1>1, <2>2, <3>1, AnswerOK DEF IInv
  <2>3. QED
    BY <2>1, <2>2 DEF QuietStep, ZeroEndHeight, StartSender, RefusePayload, ReportFailure,
                      EndPage, WaitFin
<1>7. SendRespDataOK'
  <2>1. spc' = spc \/ spc' = "loop"
    BY DEF QuietStep, ZeroEndHeight, StartSender, RefusePayload, ReportFailure, EndPage,
           WaitFin, sendVars
  <2>2. QED
    BY <1>1, <2>1 DEF IInv, SendRespDataOK
<1>8. BlocksFetchDataOK' /\ TxPipelineDataOK' /\ PagesInv'
  BY <1>1, <1>2, <1>3, BlocksFetchUnmoved, TxPipelineUnmoved, PagesUnmoved DEF IInv
<1>9. RangeInv'
  <2>1. CASE StartSender
    <3>1. req \in Requests /\ req # BadPayload
      BY <2>1 DEF IInv, HandlerDataOK, StartSender
    <3>2. req \in Nat \X Nat
      BY <3>1, GetTransactionsAssumption DEF GetTransactionsAssumption
    <3>3. QED
      BY <1>1, <3>2 DEF RangeInv
  <2>2. CASE EndPage
    BY <1>1, <2>2 DEF IInv, RangeInv, EndPage, Converted
  <2>3. CASE pc' \in {"done", "panic"}
    BY <2>3 DEF RangeInv
  <2>4. QED
    BY <2>1, <2>2, <2>3 DEF QuietStep, ZeroEndHeight, RefusePayload, ReportFailure, WaitFin
<1>10. DoneFetchers = 1..Len(fetch) /\ DoneFetchers' = DoneFetchers
  BY <1>1, <1>3, FetchersUnmoved DEF IInv, FetchersInv
<1>11. FetchersInv'
  BY <1>1, <1>3, <1>10, FetchersUnmoved DEF IInv, FetchersInv
<1>12. \A f \in DOMAIN fetch : fetch[f].pc = "done"
  BY <1>10 DEF DoneFetchers, IInv, BlocksFetchDataOK
<1>13. outClosed' => conv.pc = "done" /\ pc' \in {"waitFin", "done"}
  <2>1. CASE EndPage
    BY <2>1 DEF EndPage, Converted, ConvertWaitGroupZero
  <2>2. CASE ZeroEndHeight \/ StartSender \/ RefusePayload \/ ReportFailure \/ WaitFin
    BY <2>2 DEF IInv, ChannelsSafe, ZeroEndHeight, StartSender, RefusePayload,
                ReportFailure, WaitFin
  <2>3. QED
    BY <2>1, <2>2 DEF QuietStep
<1>14. ChannelsSafe'
  BY <1>1, <1>2, <1>3, <1>12, <1>13 DEF IInv, ChannelsSafe
<1>15. Flags'
  BY FlagsKept DEF IInv, Next, Handler, QuietStep
<1>16. QED
  BY <1>5, <1>6, <1>7, <1>8, <1>9, <1>11, <1>14, <1>15 DEF IInv

-----------------------------------------------------------------------------
(* The steps of the handler around the fetching of blocks.                 *)

(* While it starts and collects batches, out is open and the position is   *)
(* one of the loop's: these parts of the invariant do not move.            *)
LEMMA FetchingInv ==
    ASSUME IInv, pc \in {"page", "spawn", "collect"},
           pc' \in {"spawn", "collect", "failed", "launch"},
           UNCHANGED <<ctxDone, streamUp, out, outClosed, answer>>,
           UNCHANGED <<sendVars, pipeVars, req, page>>
    PROVE  /\ HandlerDataOK' /\ TaskDataOK(Items)' /\ SendRespDataOK'
           /\ TxPipelineDataOK' /\ PagesInv' /\ RangeInv'
           /\ ~outClosed' /\ UNCHANGED <<toGetClosed, txInClosed, worker, conv>>
<1>1. UNCHANGED <<todo, cur, toGet, toGetClosed, worker, txIn, txInClosed, conv, lost>>
  BY DEF pipeVars
<1>2. UNCHANGED <<spc, order, req, page>>
  BY DEF sendVars
<1>3. HandlerDataOK' /\ RangeInv'
  BY <1>2 DEF IInv, HandlerDataOK, RangeInv, Positions
<1>4. TaskDataOK(Items)' /\ SendRespDataOK' /\ TxPipelineDataOK' /\ PagesInv'
  BY <1>1, <1>2, TaskUnmoved, SendRespUnmoved, TxPipelineUnmoved, PagesUnmoved DEF IInv
<1>5. ~outClosed'
  BY DEF IInv, ChannelsSafe
<1>6. QED
  BY <1>1, <1>3, <1>4, <1>5

LEMMA BeginPageInv ==
    ASSUME IInv, BeginPage
    PROVE  IInv'
<1>1. /\ HandlerDataOK' /\ TaskDataOK(Items)' /\ SendRespDataOK'
      /\ TxPipelineDataOK' /\ PagesInv' /\ RangeInv'
      /\ ~outClosed' /\ UNCHANGED <<toGetClosed, txInClosed, worker, conv>>
  BY FetchingInv DEF BeginPage
<1>2. fetch' = <<>> /\ ctrl' = <<>> /\ ~ctrlClosed' /\ got' = 0 /\ nerr' = 0 /\ blocks' = {}
  BY DEF BeginPage, FreshFetch
<1>3. fetch' \in Seq(FetchRecords) /\ ctrl' \in Seq(Report)
  BY <1>2
<1>4. Len(ctrl') <= CtrlCap
  BY <1>2, BlocksFetchAssumption DEF BlocksFetchAssumption
<1>5. summary' \in [numTxs : Nat, start : Nat, end : Nat]
  BY DEF BeginPage, FreshFetch, EmptySummary
<1>6. BlocksFetchDataOK'
  BY <1>2, <1>3, <1>4, <1>5 DEF BlocksFetchDataOK
<1>7. DoneFetchers' = {}
  BY <1>2 DEF DoneFetchers
<1>8. FetchersInv'
  <2>1. got' + Len(ctrl') = Cardinality(DoneFetchers')
    BY <1>2, <1>7, FS_EmptySet
  <2>2. pc' = "spawn"
    BY DEF BeginPage
  <2>3. QED
    BY <1>2, <2>1, <2>2 DEF FetchersInv, ReportsCounted
<1>9. ChannelsSafe'
  BY <1>1, <1>2 DEF IInv, ChannelsSafe, BeginPage
<1>10. Flags'
  BY FlagsKept DEF IInv, Next, Handler
<1>11. QED
  BY <1>1, <1>6, <1>8, <1>9, <1>10 DEF IInv

LEMMA SpawnBatchInv ==
    ASSUME IInv, SpawnBatch
    PROVE  IInv'
<1>1. pc = "spawn" /\ pc' \in {"spawn", "collect"}
  BY DEF SpawnBatch
<1>2. /\ HandlerDataOK' /\ TaskDataOK(Items)' /\ SendRespDataOK'
      /\ TxPipelineDataOK' /\ PagesInv' /\ RangeInv'
      /\ ~outClosed' /\ UNCHANGED <<toGetClosed, txInClosed, worker, conv>>
  BY <1>1, FetchingInv DEF SpawnBatch
<1>3. UNCHANGED <<ctrl, ctrlClosed, got, nerr, blocks, summary>>
  BY DEF SpawnBatch
<1>4. BatchStart(page, Len(fetch)) \in Nat /\ BatchEnd(page, Len(fetch)) \in Nat
  <2>1. req \in Nat \X Nat /\ page \in Nat /\ Len(fetch) \in Nat
    BY <1>1 DEF IInv, RangeInv, HandlerDataOK, BlocksFetchDataOK
  <2>2. QED
    BY <2>1, BatchType
<1>5. BlocksFetchDataOK' /\ DoneFetchers' = DoneFetchers
  BY <1>3, <1>4, GoFetchOK DEF IInv, SpawnBatch
<1>6. FetchersInv' /\ ~ctrlClosed'
  BY <1>1, <1>3, <1>5 DEF IInv, FetchersInv, ReportsCounted
<1>7. ChannelsSafe'
  BY <1>1, <1>2, <1>6 DEF IInv, ChannelsSafe
<1>8. Flags'
  BY FlagsKept DEF IInv, Next, Handler
<1>9. QED
  BY <1>2, <1>5, <1>6, <1>7, <1>8 DEF IInv

LEMMA CollectInv ==
    ASSUME IInv, Collect
    PROVE  IInv'
<1>1. /\ BlocksFetchDataOK' /\ ReportsCounted' /\ DoneFetchers' = DoneFetchers
      /\ pc = "collect" /\ pc' \in {"collect", "failed", "launch"}
      /\ got' = Len(fetch) => DoneFetchers = 1..Len(fetch)
  BY CollectOK DEF IInv, FetchersInv, Collect
<1>2. /\ HandlerDataOK' /\ TaskDataOK(Items)' /\ SendRespDataOK'
      /\ TxPipelineDataOK' /\ PagesInv' /\ RangeInv'
      /\ ~outClosed' /\ UNCHANGED <<toGetClosed, txInClosed, worker, conv>>
  BY <1>1, FetchingInv DEF Collect, CollectReport
<1>3. UNCHANGED <<fetch, ctrlClosed>> /\ (pc' # "collect" => got' = Len(fetch))
  BY DEF Collect, CollectReport, AllReported
<1>4. FetchersInv' /\ ~ctrlClosed'
  BY <1>1, <1>3 DEF IInv, FetchersInv
<1>5. ChannelsSafe'
  BY <1>1, <1>2, <1>4 DEF IInv, ChannelsSafe
<1>6. Flags'
  BY FlagsKept DEF IInv, Next, Handler
<1>7. QED
  BY <1>1, <1>2, <1>4, <1>5, <1>6 DEF IInv

-----------------------------------------------------------------------------
(* The steps of the handler that start, feed and close the pipeline.       *)

(* They leave the fetched blocks alone; out is open.                       *)
LEMMA FeedingInv ==
    ASSUME IInv, pc \in {"launch", "range", "pages", "waitHttp"},
           pc' \in {"range", "pages", "waitHttp", "waitConv"},
           UNCHANGED <<ctxDone, streamUp, outClosed, answer>>,
           UNCHANGED <<sendVars, fetchVars, req, page>>
    PROVE  /\ HandlerDataOK' /\ SendRespDataOK' /\ BlocksFetchDataOK'
           /\ RangeInv' /\ FetchersInv'
           /\ ~outClosed' /\ UNCHANGED <<ctrlClosed, fetch>>
           /\ \A f \in DOMAIN fetch : fetch[f].pc = "done"
<1>1. UNCHANGED <<fetch, ctrl, ctrlClosed, got, nerr, blocks, summary>>
  BY DEF fetchVars
<1>2. UNCHANGED <<spc, order, req, page>>
  BY DEF sendVars
<1>3. HandlerDataOK' /\ RangeInv'
  BY <1>2 DEF IInv, HandlerDataOK, RangeInv, Positions
<1>4. SendRespDataOK' /\ BlocksFetchDataOK'
  BY <1>1, <1>2, SendRespUnmoved, BlocksFetchUnmoved DEF IInv
<1>5. DoneFetchers = 1..Len(fetch) /\ DoneFetchers' = DoneFetchers
  BY <1>1, FetchersUnmoved DEF IInv, FetchersInv
<1>6. FetchersInv'
  BY <1>1, <1>5, FetchersUnmoved DEF IInv, FetchersInv
<1>7. \A f \in DOMAIN fetch : fetch[f].pc = "done"
  BY <1>5 DEF DoneFetchers, IInv, BlocksFetchDataOK
<1>8. ~outClosed'
  BY DEF IInv, ChannelsSafe
<1>9. QED
  BY <1>1, <1>3, <1>4, <1>6, <1>7, <1>8

LEMMA LaunchInv ==
    ASSUME IInv, LaunchPipeline
    PROVE  IInv'
<1>1. /\ TaskDataOK(Items)' /\ TxPipelineDataOK' /\ PagesInv' /\ PipelineChannels'
      /\ pc = "launch" /\ pc' = "range"
  <2>1. blocks \in SUBSET (1..Top)
    BY DEF IInv, BlocksFetchDataOK
  <2>2. QED
    BY <2>1, LaunchOK DEF IInv, LaunchPipeline
<1>2. /\ HandlerDataOK' /\ SendRespDataOK' /\ BlocksFetchDataOK'
      /\ RangeInv' /\ FetchersInv'
      /\ ~outClosed' /\ UNCHANGED <<ctrlClosed, fetch>>
      /\ \A f \in DOMAIN fetch : fetch[f].pc = "done"
  BY <1>1, FeedingInv DEF LaunchPipeline, Launch
<1>3. ChannelsSafe'
  BY <1>1, <1>2 DEF ChannelsSafe, PipelineChannels
<1>4. Flags'
  BY FlagsKept DEF IInv, Next, Handler
<1>5. QED
  BY <1>1, <1>2, <1>3, <1>4 DEF IInv

LEMMA FeedInv ==
    ASSUME IInv, FeedPipeline
    PROVE  IInv'
<1>1. /\ TaskDataOK(Items)' /\ TxPipelineDataOK' /\ PagesInv' /\ PipelineChannels'
      /\ pc \in {"range", "pages", "waitHttp"}
      /\ pc' \in {"range", "pages", "waitHttp", "waitConv"}
      /\ UNCHANGED <<ctxDone, streamUp, outClosed, answer>>
  <2>1. PipelineChannels
    BY DEF IInv, ChannelsSafe, PipelineChannels
  <2>2. QED
    BY <2>1, FeedOK DEF IInv, FeedPipeline
<1>2. /\ HandlerDataOK' /\ SendRespDataOK' /\ BlocksFetchDataOK'
      /\ RangeInv' /\ FetchersInv'
      /\ ~outClosed' /\ UNCHANGED <<ctrlClosed, fetch>>
      /\ \A f \in DOMAIN fetch : fetch[f].pc = "done"
  BY <1>1, FeedingInv DEF FeedPipeline
<1>3. ChannelsSafe'
  BY <1>1, <1>2 DEF ChannelsSafe, PipelineChannels
<1>4. Flags'
  BY FlagsKept DEF IInv, Next, Handler
<1>5. QED
  BY <1>1, <1>2, <1>3, <1>4 DEF IInv

-----------------------------------------------------------------------------
(* The invariant.                                                          *)

LEMMA InitIInv ==
    ASSUME Init
    PROVE  IInv
<1>1. /\ TaskDataOK(Items) /\ SendRespDataOK /\ BlocksFetchDataOK /\ TxPipelineDataOK
      /\ PagesInv /\ ReportsCounted /\ DoneFetchers = 1..Len(fetch)
  BY PartsInit DEF Init
<1> USE DEF Init, TaskInit, SendRespInit, BlocksFetchInit, TxPipelineInit
<1>2. Flags
  BY DEF Flags
<1>3. HandlerDataOK /\ RangeInv /\ FetchersInv
  BY <1>1 DEF HandlerDataOK, Positions, RangeInv, FetchersInv
<1>4. ChannelsSafe
  BY DEF ChannelsSafe
<1>5. QED
  BY <1>1, <1>2, <1>3, <1>4 DEF IInv

LEMMA StutterInv ==
    ASSUME IInv, UNCHANGED vars
    PROVE  IInv'
<1>1. UNCHANGED <<pc, out, answer, outClosed, spc, order, req, page>>
  BY DEF vars, taskVars, sendVars
<1>2. UNCHANGED <<fetch, ctrl, ctrlClosed, got, nerr, blocks, summary>>
  BY DEF vars, fetchVars
<1>3. UNCHANGED <<todo, cur, toGet, toGetClosed, worker, txIn, txInClosed, conv, lost>>
  BY DEF vars, pipeVars
<1>4. TaskDataOK(Items)' /\ SendRespDataOK' /\ BlocksFetchDataOK' /\ TxPipelineDataOK'
  BY <1>1, <1>2, <1>3, TaskUnmoved, SendRespUnmoved, BlocksFetchUnmoved, TxPipelineUnmoved DEF IInv
<1>5. PagesInv' /\ FetchersInv'
  BY <1>1, <1>2, <1>3, PagesUnmoved, FetchersUnmoved DEF IInv, FetchersInv
<1>6. HandlerDataOK' /\ RangeInv' /\ ChannelsSafe'
  BY <1>1, <1>2, <1>3 DEF IInv, HandlerDataOK, RangeInv, ChannelsSafe
<1>7. Flags'
  BY FlagsKept DEF IInv
<1>8. QED
  BY <1>4, <1>5, <1>6, <1>7 DEF IInv

LEMMA NextIInv ==
    ASSUME IInv, [Next]_vars
    PROVE  IInv'
<1>1. CASE Handler
  <2>1. CASE QuietStep
    BY <2>1, QuietStepInv
  <2>2. CASE BeginPage
    BY <2>2, BeginPageInv
  <2>3. CASE SpawnBatch
    BY <2>3, SpawnBatchInv
  <2>4. CASE Collect
    BY <2>4, CollectInv
  <2>5. CASE LaunchPipeline
    BY <2>5, LaunchInv
  <2>6. CASE FeedPipeline
    BY <2>6, FeedInv
  <2>7. QED
    BY <1>1, <2>1, <2>2, <2>3, <2>4, <2>5, <2>6 DEF Handler, QuietStep
<1>2. CASE FetchStep
  BY <1>2, FetchStepInv
<1>3. CASE WorkerStep
  BY <1>3, WorkerStepInv
<1>4. CASE ConverterStep
  BY <1>4, ConverterStepInv
<1>5. CASE SenderStep
  BY <1>5, SenderStepInv
<1>6. CASE SurroundingsStep
  BY <1>6, SurroundingsStepInv
<1>7. CASE UNCHANGED vars
  BY <1>7, StutterInv
<1>8. QED
  BY <1>1, <1>2, <1>3, <1>4, <1>5, <1>6, <1>7 DEF Next, Terminated

(* The inductive invariant holds in every reachable state of a task, with  *)
(* whatever faults of its surroundings.                                    *)
THEOREM Invariance == Spec => []IInv
<1>1. Init => IInv
  BY InitIInv
<1>2. IInv /\ [Next]_vars => IInv'
  BY NextIInv
<1>3. QED
  BY <1>1, <1>2, PTL DEF Spec

(* Every variable of a GetTransactions task keeps its type, and no channel *)
(* ever holds more than its buffer (make(chan ..., n) in client.go).       *)
THEOREM TypeCorrect == Spec => []TypeOK
<1>1. IInv => TypeOK
  <2> SUFFICES ASSUME IInv PROVE TypeOK
    OBVIOUS
  <2>1. /\ {ctxDone, streamUp, outClosed} \subseteq BOOLEAN
        /\ contextDone \in BOOLEAN /\ ctrlClosed \in BOOLEAN
        /\ {toGetClosed, txInClosed} \subseteq BOOLEAN
    BY DEF IInv, Flags
  <2>2. TaskTypeOK(Items)
    BY <2>1 DEF IInv, TaskTypeOK
  <2>3. SendRespTypeOK
    BY <2>1 DEF IInv, SendRespTypeOK
  <2>4. BlocksFetchTypeOK
    BY <2>1 DEF IInv, BlocksFetchTypeOK
  <2>5. TxPipelineTypeOK
    BY <2>1 DEF IInv, TxPipelineTypeOK
  <2>6. QED
    BY <2>2, <2>3, <2>4, <2>5 DEF IInv, TypeOK, HandlerDataOK, Positions
<1>2. QED
  BY <1>1, Invariance, PTL

(* No goroutine of a task ever sends on a closed channel, whatever fails   *)
(* and however long the range: batchesCtrl, toGet, txIn and out are closed *)
(* when every goroutine that sends on them has finished.                   *)
THEOREM ChannelsAreSafe == Spec => []ChannelsSafe
<1>1. IInv => ChannelsSafe
  BY DEF IInv
<1>2. QED
  BY <1>1, Invariance, PTL

-----------------------------------------------------------------------------
(* The answer.                                                             *)

Fetching == {"spawn", "collect"}

SomeFailed == \E f \in DOMAIN fetch : fetch[f].report = "failed"

(* What the handler's position says of failed batches and of errors told.  *)
FailureInv ==
    /\ pc # "done" => OfType("error") = {}
    /\ pc \notin {"start", "done"} => IsRange
    /\ pc = "start" => fetch = <<>> /\ spc = "idle"
    /\ pc \in Fetching => FailuresKnown
    /\ pc = "failed" => SomeFailed
    /\ pc \in Feeding \cup {"page", "launch", "waitFin", "panic"} => ~SomeFailed
    /\ ErrorMeansFailure

(* The batches of a page ask for heights of the page, and get no others.   *)
PageInv ==
    /\ pc \notin {"start", "done", "panic"} => req[2] # 0
    /\ pc \in Fetching \cup {"launch"} =>
         /\ \A f \in DOMAIN fetch :
              /\ PageStart(page) <= fetch[f].lo
              /\ 1 <= fetch[f].hi /\ fetch[f].hi <= PageEnd(page)
              /\ Range(fetch[f].metas) \subseteq fetch[f].lo .. fetch[f].hi
         /\ blocks \subseteq PageStart(page)..PageEnd(page)

(* The heights of which nothing was asked yet, seen from where the handler *)
(* stands.                                                                 *)
Later ==
    IF pc = "start" THEN Nat
    ELSE IF pc \in Fetching \cup {"page", "launch"} THEN {h \in Nat : h >= PageStart(page)}
    ELSE IF pc \in Feeding THEN {h \in Nat : h >= PageStart(page) /\ h > PageEnd(page)}
    ELSE {}

RangeOnceInv ==
    /\ Touched \cap Later = {}
    /\ \A h \in Touched \cup todo : IsRange /\ h \in req[1]..req[2]
    /\ pc \in Feeding => todo \cap Later = {}

-----------------------------------------------------------------------------
(* Numbers and errors.                                                     *)

LEMMA StartInit ==
    ASSUME Init
    PROVE  SenderInv /\ FailureInv
<1>1. /\ answer = <<>> /\ order = 0 /\ spc = "idle" /\ pc = "start" /\ fetch = <<>>
  BY DEF Init, TaskInit, SendRespInit, BlocksFetchInit
<1>2. \A t : OfType(t) = {}
  BY <1>1 DEF OfType
<1>3. SenderInv
  BY <1>1, <1>2, FS_EmptySet DEF SenderInv, Numbering
<1>4. FailureInv
  BY <1>1, <1>2 DEF FailureInv, ErrorMeansFailure, Fetching, Feeding
<1>5. QED
  BY <1>3, <1>4

(* What the handler does to the answer: nothing, or it tells an error and  *)
(* returns.                                                                *)
LEMMA HandlerAnswers ==
    ASSUME IInv, SenderInv, FailureInv, Handler
    PROVE  /\ SenderInv' /\ Delivered' = Delivered /\ OfType("END")' = OfType("END")
           /\ UNCHANGED <<req, streamUp>>
           /\ \/ UNCHANGED answer /\ ~RefusePayload /\ ~ReportFailure
              \/ /\ RefusePayload \/ ReportFailure
                 /\ streamUp => OfType("error")' # {}
                 /\ ~streamUp => OfType("error")' = OfType("error")
<1>1. UNCHANGED <<req, streamUp, order>>
  BY DEF Handler, RefusePayload, ZeroEndHeight, StartSender, BeginPage, SpawnBatch, Collect,
         CollectReport, ReportFailure, LaunchPipeline, Launch, FeedPipeline, PipelineMain,
         SendBlock, QueuePage, CloseToGet, CloseTxIn, EndPage, WaitFin, sendVars
<1>2. spc' = spc \/ (spc = "idle" /\ spc' = "loop")
  BY DEF FailureInv, Handler, RefusePayload, ZeroEndHeight, StartSender, BeginPage, SpawnBatch,
         Collect, ReportFailure, LaunchPipeline, FeedPipeline, EndPage, WaitFin, sendVars
<1>3. CASE RefusePayload \/ ReportFailure
  <2>1. Send(ErrorMark) /\ UNCHANGED spc
    BY <1>3 DEF RefusePayload, ReportFailure, sendVars
  <2>2. TaskDataOK(Items) /\ streamUp \in BOOLEAN
    BY DEF IInv, Flags
  <2>3. QED
    BY <1>1, <1>3, <2>1, <2>2, ErrorTold
<1>4. CASE ~RefusePayload /\ ~ReportFailure
  <2>1. UNCHANGED answer
    BY <1>4 DEF Handler, ZeroEndHeight, StartSender, BeginPage, SpawnBatch, Collect,
                CollectReport, LaunchPipeline, Launch, FeedPipeline, PipelineMain,
                SendBlock, QueuePage, CloseToGet, CloseTxIn, EndPage, WaitFin
  <2>2. SenderInv'
    BY <1>1, <1>2, <2>1, SenderInvUnmoved
  <2>3. QED
    BY <1>1, <1>4, <2>1, <2>2, DeliveredUnmoved
<1>5. QED
  BY <1>3, <1>4

LEMMA SenderInvNext ==
    ASSUME IInv, SenderInv, FailureInv, [Next]_vars
    PROVE  SenderInv'
<1>1. CASE Handler
  BY <1>1, HandlerAnswers
<1>2. CASE SenderStep
  BY <1>2, SenderInvSender DEF SenderStep, IInv, Flags
<1>3. CASE UNCHANGED <<answer, order, spc>> /\ (streamUp' => streamUp)
  BY <1>3, SenderInvUnmoved
<1>4. CASE FetchStep \/ WorkerStep \/ ConverterStep \/ UNCHANGED vars
  BY <1>3, <1>4 DEF FetchStep, WorkerStep, Worker, ConverterStep, Converter,
                    vars, taskVars, sendVars
<1>5. CASE SurroundingsStep
  BY <1>3, <1>5 DEF SurroundingsStep, Surroundings, Expire, Disconnect, sendVars
<1>6. QED
  BY <1>1, <1>2, <1>4, <1>5 DEF Next, Terminated

LEMMA FailureUnmoved ==
    ASSUME FailureInv, UNCHANGED <<pc, req, fetch, ctrl, nerr>>,
           OfType("error")' = OfType("error"), streamUp' => streamUp,
           pc = "start" => spc' = spc
    PROVE  FailureInv'
<1>1. SomeFailed' = SomeFailed /\ IsRange' = IsRange
  BY DEF SomeFailed, IsRange
<1>2. FailuresKnown => FailuresKnown'
  BY FailuresUnmoved
<1>3. ErrorMeansFailure'
  BY <1>1 DEF FailureInv, ErrorMeansFailure
<1>4. QED
  BY <1>1, <1>2, <1>3 DEF FailureInv

(* The steps of the handler that send nothing.                             *)
LEMMA FailureSilent ==
    ASSUME IInv, FailureInv, Handler, UNCHANGED <<answer, req>>,
           ~RefusePayload, ~ReportFailure
    PROVE  FailureInv'
<1>1. pc # "done" /\ OfType("error") = {} /\ OfType("error")' = {}
  <2>1. pc # "done"
    BY DEF Handler, ZeroEndHeight, StartSender, BeginPage, SpawnBatch, Collect,
           CollectReport, LaunchPipeline, Launch, FeedPipeline, PipelineMain,
           SendBlock, QueuePage, CloseToGet, CloseTxIn, EndPage, Converted, WaitFin
  <2>2. QED
    BY <2>1, DeliveredUnmoved DEF FailureInv
<1>2. IsRange' = IsRange
  BY DEF IsRange
<1>3. CASE ZeroEndHeight \/ StartSender
  <2>1. /\ pc = "start" /\ pc' \in {"page", "panic"} /\ fetch' = fetch /\ IsRange
    BY <1>3 DEF ZeroEndHeight, StartSender, fetchVars, IsRange
  <2>2. ~SomeFailed'
    BY <2>1 DEF FailureInv, SomeFailed
  <2>3. QED
    BY <1>1, <1>2, <2>1, <2>2 DEF FailureInv, ErrorMeansFailure, Fetching, Feeding
<1>4. CASE BeginPage
  <2>1. /\ pc = "page" /\ pc' = "spawn" /\ fetch' = <<>> /\ ctrl' = <<>> /\ nerr' = 0
    BY <1>4 DEF BeginPage, FreshFetch
  <2>2. DoneFetchers' = {}
    BY <2>1 DEF DoneFetchers
  <2>3. FailuresKnown'
    BY <2>1, <2>2, QueueEmpty DEF FailuresKnown
  <2>4. QED
    BY <1>1, <1>2, <2>1, <2>3 DEF FailureInv, ErrorMeansFailure, Fetching, Feeding
<1>5. CASE SpawnBatch
  <2>1. /\ pc = "spawn" /\ pc' \in Fetching
        /\ GoFetch(BatchStart(page, Len(fetch)), BatchEnd(page, Len(fetch)))
        /\ UNCHANGED <<ctrl, got, nerr, blocks, summary>>
    BY <1>5 DEF SpawnBatch, Fetching
  <2>2. BatchStart(page, Len(fetch)) \in Nat /\ BatchEnd(page, Len(fetch)) \in Nat
    <3>1. req \in Nat \X Nat /\ page \in Nat /\ Len(fetch) \in Nat
      BY <2>1 DEF IInv, RangeInv, HandlerDataOK, BlocksFetchDataOK
    <3>2. QED
      BY <3>1, BatchType
  <2>3. FailuresKnown'
    <3>1. BlocksFetchDataOK /\ FailuresKnown
      BY <2>1 DEF IInv, FailureInv, Fetching
    <3>2. QED
      BY <2>1, <2>2, <3>1, FailuresGoFetch
  <2>4. QED
    BY <1>1, <1>2, <2>1, <2>3 DEF FailureInv, ErrorMeansFailure, Fetching, Feeding
<1>6. CASE Collect
  <2>1. /\ pc = "collect" /\ pc' \in {"collect", "failed", "launch"} /\ CollectReport("launch")
    BY <1>6 DEF Collect, CollectReport
  <2>2. /\ FailuresKnown' /\ (pc' = "failed" => SomeFailed')
        /\ (pc' = "launch" => ~SomeFailed')
    <3>1. BlocksFetchDataOK /\ FailuresKnown /\ ReportsCounted
      BY <2>1 DEF IInv, FailureInv, FetchersInv, Fetching
    <3>2. QED
      BY <2>1, <3>1, FailuresCollect DEF SomeFailed
  <2>3. QED
    BY <1>1, <1>2, <2>1, <2>2 DEF FailureInv, ErrorMeansFailure, Fetching, Feeding
<1>7. CASE LaunchPipeline \/ FeedPipeline \/ EndPage \/ WaitFin
  <2>1. /\ pc \in Feeding \cup {"launch", "waitFin"}
        /\ pc' \in Feeding \cup {"page", "waitFin", "done"}
        /\ fetch' = fetch
    BY <1>7 DEF LaunchPipeline, Launch, FeedPipeline, PipelineMain, SendBlock, QueuePage,
                CloseToGet, CloseTxIn, EndPage, Converted, WaitFin, fetchVars, Feeding
  <2>2. IsRange /\ ~SomeFailed /\ ~SomeFailed'
    BY <2>1 DEF FailureInv, Feeding, SomeFailed
  <2>3. QED
    BY <1>1, <1>2, <2>1, <2>2 DEF FailureInv, ErrorMeansFailure, Fetching, Feeding, SomeFailed
<1>8. QED
  BY <1>3, <1>4, <1>5, <1>6, <1>7 DEF Handler

LEMMA FailureNext ==
    ASSUME IInv, SenderInv, FailureInv, [Next]_vars
    PROVE  FailureInv'
<1>1. CASE Handler
  <2>1. CASE RefusePayload \/ ReportFailure
    <3>1. /\ pc' = "done" /\ UNCHANGED <<req, fetch, streamUp>> /\ pc # "done"
          /\ ~IsRange \/ SomeFailed
      BY <2>1 DEF RefusePayload, ReportFailure, FailureInv, IsRange, fetchVars
    <3>2. streamUp => OfType("error")' # {}
      BY <1>1, <2>1, HandlerAnswers
    <3>3. IsRange' = IsRange /\ SomeFailed' = SomeFailed
      BY <3>1 DEF IsRange, SomeFailed
    <3>4. QED
      BY <3>1, <3>2, <3>3 DEF FailureInv, ErrorMeansFailure, Fetching, Feeding, SomeFailed
  <2>2. CASE ~RefusePayload /\ ~ReportFailure
    BY <1>1, <2>2, HandlerAnswers, FailureSilent
  <2>3. QED
    BY <2>1, <2>2
<1>2. CASE FetchStep
  <2>1. PICK f \in DOMAIN fetch : Fetcher(f)
    BY <1>2 DEF FetchStep
  <2>2. UNCHANGED <<pc, req, answer, streamUp, spc>>
    BY <1>2 DEF FetchStep, taskVars, sendVars
  <2>3. pc \in Fetching
    BY <2>1, FetcherReports DEF IInv, FetchersInv, Fetching
  <2>4. FailuresKnown'
    BY <2>1, <2>3, FailuresFetcher DEF IInv, FailureInv
  <2>5. OfType("error")' = OfType("error") /\ IsRange' = IsRange
    BY <2>2, DeliveredUnmoved DEF IsRange
  <2>6. QED
    BY <2>2, <2>3, <2>4, <2>5 DEF FailureInv, ErrorMeansFailure, Fetching, Feeding
<1>3. CASE SenderStep
  <2>1. UNCHANGED <<pc, req, streamUp, fetch, ctrl, nerr>> /\ spc # "idle"
    BY <1>3 DEF SenderStep, Sender, SendItem, OutDrained, SenderCancelled, SendEnd, SignalFin,
                taskVars, fetchVars
  <2>2. OfType("error")' = OfType("error")
    BY <1>3, SenderAnswers DEF SenderStep, IInv, Flags
  <2>3. QED
    BY <2>1, <2>2, FailureUnmoved DEF FailureInv
<1>4. CASE UNCHANGED <<pc, req, fetch, ctrl, nerr, answer, spc>> /\ (streamUp' => streamUp)
  BY <1>4, FailureUnmoved, DeliveredUnmoved
<1>5. CASE WorkerStep \/ ConverterStep \/ UNCHANGED vars
  BY <1>4, <1>5 DEF WorkerStep, Worker, ConverterStep, Converter,
                    vars, taskVars, sendVars, fetchVars
<1>6. CASE SurroundingsStep
  BY <1>4, <1>6 DEF SurroundingsStep, Surroundings, Expire, Disconnect, sendVars, fetchVars
<1>7. QED
  BY <1>1, <1>2, <1>3, <1>5, <1>6 DEF Next, Terminated

(* Numbers, END and errors are as the invariants say in every reachable    *)
(* state.                                                                  *)
LEMMA AnswerInvariance == Spec => [](IInv /\ SenderInv /\ FailureInv)
<1>1. Init => SenderInv /\ FailureInv
  BY StartInit
<1>2. IInv /\ SenderInv /\ FailureInv /\ [Next]_vars => SenderInv' /\ FailureInv'
  BY SenderInvNext, FailureNext
<1>3. QED
  BY <1>1, <1>2, Invariance, PTL DEF Spec

(* The responses of a GetTransactions task are numbered 0, 1, 2, ... in the*)
(* order the manager receives them, and END carries the number of items    *)
(* (sendResp in client.go), however many goroutines fill out and whatever  *)
(* fails.                                                                  *)
THEOREM ResponsesAreNumbered == Spec => []Numbering
<1>1. SenderInv => Numbering
  BY DEF SenderInv
<1>2. QED
  BY <1>1, AnswerInvariance, PTL

(* A task that is over has told the manager of an error exactly when the   *)
(* payload or a batch failed, as long as the stream stood: a failure of any*)
(* of the batches reaches the handler through batchesCtrl, in whatever     *)
(* order they report (getRangeSingular in client.go).                      *)
THEOREM FailuresAreTold == Spec => []ErrorMeansFailure
<1>1. FailureInv => ErrorMeansFailure
  BY DEF FailureInv
<1>2. QED
  BY <1>1, AnswerInvariance, PTL

-----------------------------------------------------------------------------
(* The answer is a RangeAnswer.                                            *)

(* The only bound of a batch that is not sent to the node is 0 (block.go   *)
(* takes it for "no bound"), and EndHeight is not 0.  The end of a batch is*)
(* then 0 only for a range that starts at 0 and is cut into single heights.*)
EndsAreSent ==
    \A r \in Requests : r # BadPayload /\ r[1] = 0 => BatchLimit > 1 /\ BigPage > 1

(* The bounds of pages and batches.                                        *)
LEMMA PageBounds ==
    ASSUME NEW p \in Nat, req \in Nat \X Nat
    PROVE  /\ PageStart(p) \in Nat /\ PageEnd(p) \in Nat
           /\ req[1] <= PageStart(p) /\ PageEnd(p) <= req[2]
           /\ PageStart(p + 1) = PageStart(p) + BigPage
           /\ PageEnd(p) # req[2] => PageEnd(p) = PageStart(p) + BigPage - 1
           /\ BigPage \in Nat /\ BigPage >= 1
<1>1. BigPage \in Nat /\ BigPage >= 1
  BY GetTransactionsAssumption DEF GetTransactionsAssumption
<1>2. p * BigPage \in Nat /\ (p + 1) * BigPage = p * BigPage + BigPage
  BY <1>1
<1>3. req[1] \in Nat /\ req[2] \in Nat
  OBVIOUS
<1>4. PageStart(p + 1) = PageStart(p) + BigPage
  BY <1>1, <1>2, <1>3 DEF PageStart
<1>5. QED
  BY <1>1, <1>2, <1>3, <1>4 DEF PageStart, PageEnd, Least

LEMMA BatchBounds ==
    ASSUME EndsAreSent, req \in Requests, req \in Nat \X Nat, IsRange, req[2] # 0,
           NEW p \in Nat, NEW b \in Nat
    PROVE  /\ PageStart(p) <= BatchStart(p, b)
           /\ 1 <= BatchEnd(p, b) /\ BatchEnd(p, b) <= PageEnd(p)
<1>1. /\ BigPage \in Nat /\ BigPage >= 1 /\ BatchLimit \in Nat /\ BatchLimit >= 1
      /\ req[1] = 0 => BatchLimit > 1 /\ BigPage > 1
  BY GetTransactionsAssumption, BlocksFetchAssumption
  DEF GetTransactionsAssumption, BlocksFetchAssumption, EndsAreSent, IsRange
<1>2. p * BigPage \in Nat /\ b * BatchLimit \in Nat
  BY <1>1
<1>3. req[1] \in Nat /\ req[2] \in Nat /\ req[2] >= 1
  OBVIOUS
<1>4. PageStart(p) \in Nat /\ PageStart(p) >= req[1] /\ PageEnd(p) \in Nat
  BY PageBounds
<1>5. PageEnd(p) >= 1
  BY <1>1, <1>2, <1>3 DEF PageEnd, Least
<1>6. BatchStart(p, b) \in Nat /\ BatchStart(p, b) >= PageStart(p)
  BY <1>2, <1>4 DEF BatchStart
<1>7. BatchStart(p, b) + BatchLimit - 1 >= 1 /\ BatchStart(p, b) + BatchLimit - 1 \in Int
  BY <1>1, <1>3, <1>4, <1>6
<1>8. QED
  BY <1>4, <1>5, <1>6, <1>7 DEF BatchEnd, Least

(* Where the handler's position, page and blocks stay, so does PageInv.    *)
LEMMA PageUnmoved ==
    ASSUME PageInv, UNCHANGED <<req, page, fetch, blocks>>,
           pc' = pc \/ pc' \notin Fetching \cup {"launch"} \/ {pc, pc'} \subseteq Fetching \cup {"launch"},
           pc \in {"start", "done", "panic"} => pc' = pc \/ req[2] # 0 \/ pc' \in {"done", "panic"}
    PROVE  PageInv'
BY DEF PageInv, PageStart, PageEnd, Least, Fetching

LEMMA PageFetch ==
    ASSUME IInv, PageInv, FetchStep
    PROVE  PageInv'
<1>1. PICK f \in DOMAIN fetch : Fetcher(f)
  BY DEF FetchStep
<1>2. UNCHANGED <<pc, req, page>> /\ pc \in Fetching
  BY <1>1, FetcherReports DEF FetchStep, taskVars, IInv, FetchersInv, Fetching
<1>3. /\ PageStart(page) <= fetch[f].lo
      /\ 1 <= fetch[f].hi /\ fetch[f].hi <= PageEnd(page)
      /\ Range(fetch[f].metas) \subseteq fetch[f].lo .. fetch[f].hi
      /\ blocks \subseteq PageStart(page)..PageEnd(page)
  BY <1>2 DEF PageInv
<1>4. /\ DOMAIN fetch' = DOMAIN fetch
      /\ \A g \in DOMAIN fetch : g # f => fetch'[g] = fetch[g]
      /\ fetch'[f].lo = fetch[f].lo /\ fetch'[f].hi = fetch[f].hi
      /\ Range(fetch'[f].metas) \subseteq fetch[f].lo .. fetch[f].hi
      /\ blocks' \subseteq blocks \cup (fetch[f].lo .. fetch[f].hi)
  BY <1>1, <1>3, FetcherHeights DEF IInv
<1>5. PageStart(page) \in Nat /\ PageEnd(page) \in Nat /\ fetch[f].lo \in Nat /\ fetch[f].hi \in Nat
  <2>1. req \in Nat \X Nat /\ page \in Nat
    BY <1>2 DEF IInv, RangeInv, HandlerDataOK, Fetching
  <2>2. fetch[f] \in FetchRecords
    BY DEF IInv, BlocksFetchDataOK
  <2>3. QED
    BY <2>1, <2>2, PageBounds DEF FetchRecords
<1>6. fetch[f].lo .. fetch[f].hi \subseteq PageStart(page)..PageEnd(page)
  BY <1>3, <1>5
<1>7. PageStart(page)' = PageStart(page) /\ PageEnd(page)' = PageEnd(page)
  BY <1>2 DEF PageStart, PageEnd, Least
<1>8. blocks' \subseteq PageStart(page)'..PageEnd(page)'
  BY <1>3, <1>4, <1>6, <1>7
<1>9. ASSUME NEW g \in DOMAIN fetch'
      PROVE  /\ PageStart(page)' <= fetch'[g].lo
             /\ 1 <= fetch'[g].hi /\ fetch'[g].hi <= PageEnd(page)'
             /\ Range(fetch'[g].metas) \subseteq fetch'[g].lo .. fetch'[g].hi
  <2>1. CASE g = f
    BY <1>3, <1>4, <1>7, <2>1
  <2>2. CASE g # f
    BY <1>2, <1>4, <1>7, <2>2 DEF PageInv
  <2>3. QED
    BY <2>1, <2>2
<1>10. QED
  BY <1>2, <1>8, <1>9 DEF PageInv

LEMMA PageSpawn ==
    ASSUME EndsAreSent, IInv, FailureInv, PageInv, SpawnBatch
    PROVE  PageInv'
<1>1. /\ pc = "spawn" /\ pc' \in Fetching /\ UNCHANGED <<req, page, ctrl, got, nerr, blocks, summary>>
      /\ GoFetch(BatchStart(page, Len(fetch)), BatchEnd(page, Len(fetch)))
  BY DEF SpawnBatch, Fetching
<1>2. /\ req \in Requests /\ req \in Nat \X Nat /\ IsRange /\ req[2] # 0
      /\ page \in Nat /\ Len(fetch) \in Nat /\ DOMAIN fetch = 1..Len(fetch)
  BY <1>1 DEF IInv, HandlerDataOK, RangeInv, BlocksFetchDataOK, FailureInv, PageInv
<1> DEFINE lo == BatchStart(page, Len(fetch))
           hi == BatchEnd(page, Len(fetch))
           n == Len(fetch) + 1
<1>3. lo \in Nat /\ hi \in Nat
  BY <1>2, BatchType
<1>4. PageStart(page) <= lo /\ 1 <= hi /\ hi <= PageEnd(page)
  BY <1>2, BatchBounds
<1>5. GoFetch(lo, hi)
  BY <1>1
<1> HIDE DEF lo, hi
<1>6. /\ Len(fetch') = n /\ \A f \in 1..Len(fetch) : fetch'[f] = fetch[f]
      /\ fetch'[n] = [pc |-> "limit", lo |-> lo, hi |-> hi, metas |-> <<>>, report |-> "ok"]
      /\ fetch' \in Seq(FetchRecords)
  BY <1>1, <1>3, <1>5, GoFetchOK DEF IInv, BlocksFetchDataOK
<1>7. fetch'[n].lo = lo /\ fetch'[n].hi = hi /\ Range(fetch'[n].metas) = {}
  BY <1>6, QueueEmpty
<1>8. DOMAIN fetch' = (1..Len(fetch)) \cup {n}
  <2>1. DOMAIN fetch' = 1..n
    BY <1>6
  <2>2. QED
    BY <1>2, <2>1
<1>9. PageStart(page)' = PageStart(page) /\ PageEnd(page)' = PageEnd(page)
  BY <1>1 DEF PageStart, PageEnd, Least
<1>10. \A f \in 1..Len(fetch) :
         /\ PageStart(page) <= fetch[f].lo
         /\ 1 <= fetch[f].hi /\ fetch[f].hi <= PageEnd(page)
         /\ Range(fetch[f].metas) \subseteq fetch[f].lo .. fetch[f].hi
  BY <1>1, <1>2 DEF PageInv, Fetching
<1> HIDE DEF n
<1>11. \A f \in DOMAIN fetch' :
         /\ PageStart(page)' <= fetch'[f].lo
         /\ 1 <= fetch'[f].hi /\ fetch'[f].hi <= PageEnd(page)'
         /\ Range(fetch'[f].metas) \subseteq fetch'[f].lo .. fetch'[f].hi
  BY <1>4, <1>6, <1>7, <1>8, <1>9, <1>10
<1>12. blocks' \subseteq PageStart(page)'..PageEnd(page)'
  BY <1>1, <1>9 DEF PageInv, Fetching
<1>13. QED
  BY <1>1, <1>2, <1>11, <1>12 DEF PageInv, Fetching

LEMMA PageNext ==
    ASSUME EndsAreSent, IInv, FailureInv, PageInv, [Next]_vars
    PROVE  PageInv'
<1>1. CASE FetchStep
  BY <1>1, PageFetch
<1>2. CASE SpawnBatch
  BY <1>2, PageSpawn
<1>3. CASE BeginPage
  <2>1. pc = "page" /\ pc' = "spawn" /\ fetch' = <<>> /\ blocks' = {} /\ req' = req
    BY <1>3 DEF BeginPage, FreshFetch
  <2>2. QED
    BY <2>1 DEF PageInv, Fetching
<1>4. CASE Collect
  <2>1. /\ pc = "collect" /\ pc' \in {"collect", "failed", "launch"}
        /\ UNCHANGED <<req, page, fetch, blocks>>
    BY <1>4 DEF Collect, CollectReport
  <2>2. QED
    BY <2>1, PageUnmoved DEF Fetching
<1>5. CASE RefusePayload \/ ZeroEndHeight \/ StartSender \/ ReportFailure \/ WaitFin
  <2>1. /\ pc' \in {"done", "panic", "page"} /\ UNCHANGED <<req, page, fetch, blocks>>
        /\ pc \in {"start", "done", "panic"} => req[2] # 0 \/ pc' \in {"done", "panic"}
    BY <1>5 DEF RefusePayload, ZeroEndHeight, StartSender, ReportFailure, WaitFin, fetchVars
  <2>2. QED
    BY <2>1, PageUnmoved DEF Fetching
<1>6. CASE EndPage
  <2>1. pc = "waitConv" /\ pc' \in {"waitFin", "page"} /\ req' = req
    BY <1>6 DEF EndPage, Converted
  <2>2. QED
    BY <2>1 DEF PageInv, Fetching
<1>7. CASE LaunchPipeline \/ FeedPipeline
  <2>1. /\ pc' \in Feeding /\ pc \in Feeding \cup {"launch"} /\ UNCHANGED <<req, page, fetch, blocks>>
    BY <1>7 DEF LaunchPipeline, Launch, FeedPipeline, PipelineMain, SendBlock, QueuePage,
                CloseToGet, CloseTxIn, fetchVars, Feeding
  <2>2. QED
    BY <2>1, PageUnmoved DEF Fetching, Feeding
<1>8. CASE UNCHANGED <<pc, req, page, fetch, blocks>>
  BY <1>8, PageUnmoved
<1>9. CASE WorkerStep \/ ConverterStep \/ UNCHANGED vars
  BY <1>8, <1>9 DEF WorkerStep, Worker, ConverterStep, Converter, vars, taskVars, fetchVars
<1>10. CASE SenderStep \/ SurroundingsStep
  BY <1>8, <1>10 DEF SenderStep, Sender, SendItem, OutDrained, SenderCancelled, SendEnd, SignalFin,
                     SurroundingsStep, Surroundings, Expire, Disconnect, taskVars, fetchVars
<1>11. QED
  BY <1>1, <1>2, <1>3, <1>4, <1>5, <1>6, <1>7, <1>9, <1>10 DEF Next, Handler, Terminated

-----------------------------------------------------------------------------
(* Every height is visited on one page.                                    *)

RangeAnswerInv == OnceInv /\ BlockFirst /\ RangeOnceInv

LEMMA LaterUnmoved ==
    ASSUME UNCHANGED <<pc, req, page>>
    PROVE  Later' = Later
BY DEF Later, PageStart, PageEnd, Least

LEMMA RangeOnceKept ==
    ASSUME RangeOnceInv, UNCHANGED <<req, todo>>, Touched' \subseteq Touched, Later' \subseteq Later,
           pc' \in Feeding => pc \in Feeding
    PROVE  RangeOnceInv'
BY DEF RangeOnceInv, IsRange

(* The goroutines of the task leave the handler where it is.               *)
LEMMA RangeFetch ==
    ASSUME IInv, RangeAnswerInv, FetchStep
    PROVE  RangeAnswerInv'
<1>1. /\ UNCHANGED <<pc, req, page, streamUp, answer>>
      /\ UNCHANGED <<out, txIn, conv, worker, toGet, cur, todo>>
  BY DEF FetchStep, taskVars, pipeVars
<1>2. OnceInv' /\ Touched' \subseteq Touched /\ InOut' = InOut /\ Delivered' = Delivered
  BY <1>1, OnceUnmoved, DeliveredUnmoved DEF RangeAnswerInv
<1>3. BlockFirst'
  BY <1>1, <1>2, BlockFirstUnmoved DEF RangeAnswerInv
<1>4. RangeOnceInv'
  BY <1>1, <1>2, RangeOnceKept, LaterUnmoved DEF RangeAnswerInv
<1>5. QED
  BY <1>2, <1>3, <1>4 DEF RangeAnswerInv

LEMMA RangeWorker ==
    ASSUME IInv, RangeAnswerInv, WorkerStep
    PROVE  RangeAnswerInv'
<1>1. PICK w \in Workers : Worker(w)
  BY DEF WorkerStep
<1>2. UNCHANGED <<pc, req, page, streamUp, answer, out, todo>>
  BY <1>1 DEF WorkerStep, Worker, taskVars
<1>3. OnceInv' /\ Touched' \subseteq Touched /\ InOut' = InOut /\ Delivered' = Delivered
  BY <1>1, <1>2, WorkerOnce, DeliveredUnmoved DEF RangeAnswerInv, IInv
<1>4. BlockFirst'
  BY <1>2, <1>3, BlockFirstUnmoved DEF RangeAnswerInv
<1>5. RangeOnceInv'
  BY <1>2, <1>3, RangeOnceKept, LaterUnmoved DEF RangeAnswerInv
<1>6. QED
  BY <1>3, <1>4, <1>5 DEF RangeAnswerInv

LEMMA RangeConverter ==
    ASSUME IInv, RangeAnswerInv, ConverterStep
    PROVE  RangeAnswerInv'
<1>1. UNCHANGED <<pc, req, page, todo>> /\ Converter
  BY DEF ConverterStep, Converter
<1>2. OnceInv' /\ Touched' \subseteq Touched
  BY <1>1, ConverterOnce DEF RangeAnswerInv, IInv
<1>3. BlockFirst'
  BY <1>1, BlockFirstConverter DEF RangeAnswerInv, IInv
<1>4. RangeOnceInv'
  BY <1>1, <1>2, RangeOnceKept, LaterUnmoved DEF RangeAnswerInv
<1>5. QED
  BY <1>2, <1>3, <1>4 DEF RangeAnswerInv

LEMMA RangeSender ==
    ASSUME IInv, RangeAnswerInv, SenderStep
    PROVE  RangeAnswerInv'
<1>1. UNCHANGED <<pc, req, page>> /\ Sender /\ UNCHANGED <<worker, toGet, cur, todo, txIn, conv>>
  BY DEF SenderStep, Sender, SendItem, OutDrained, SenderCancelled, SendEnd, SignalFin,
         taskVars, pipeVars
<1>2. TaskDataOK(Items) /\ SendRespDataOK /\ streamUp \in BOOLEAN /\ OnceInv /\ BlockFirst
  BY DEF IInv, Flags, RangeAnswerInv
<1>3. OnceInv' /\ Touched' \subseteq Touched
  BY <1>1, <1>2, SenderOnce
<1>4. BlockFirst'
  BY <1>1, <1>2, BlockFirstSender
<1>5. RangeOnceInv'
  BY <1>1, <1>3, RangeOnceKept, LaterUnmoved DEF RangeAnswerInv
<1>6. QED
  BY <1>3, <1>4, <1>5 DEF RangeAnswerInv

(* The handler goes on without touching the pipeline: what was later stays *)
(* later, or is done with.                                                 *)
LEMMA LaterMoves ==
    ASSUME IInv, Handler, ~LaunchPipeline, ~FeedPipeline
    PROVE  /\ Later' \subseteq Later /\ pc' \notin Feeding
<1>1. CASE RefusePayload \/ ZeroEndHeight \/ ReportFailure \/ WaitFin
  BY <1>1 DEF RefusePayload, ZeroEndHeight, ReportFailure, WaitFin, Later, Fetching, Feeding
<1>2. CASE StartSender
  BY <1>2 DEF StartSender, Later, Fetching, Feeding
<1>3. CASE BeginPage \/ SpawnBatch \/ Collect
  <2>1. /\ pc \in Fetching \cup {"page"} /\ UNCHANGED <<req, page>>
        /\ pc' \in Fetching \cup {"launch", "failed"}
    BY <1>3 DEF BeginPage, SpawnBatch, Collect, CollectReport, Fetching
  <2>2. PageStart(page)' = PageStart(page)
    BY <2>1 DEF PageStart
  <2>3. QED
    BY <2>1, <2>2 DEF Later, Fetching, Feeding
<1>4. CASE EndPage
  <2>1. /\ pc = "waitConv" /\ UNCHANGED req /\ page' = page + 1
        /\ pc' = IF PageEnd(page) = req[2] THEN "waitFin" ELSE "page"
    BY <1>4 DEF EndPage, Converted
  <2>2. CASE PageEnd(page) = req[2]
    BY <2>1, <2>2 DEF Later, Fetching, Feeding
  <2>3. CASE PageEnd(page) # req[2]
    <3>1. req \in Nat \X Nat /\ page \in Nat
      BY <2>1 DEF IInv, RangeInv, HandlerDataOK
    <3>2. /\ PageStart(page) \in Nat /\ PageStart(page + 1) = PageStart(page) + BigPage
          /\ PageEnd(page) = PageStart(page) + BigPage - 1 /\ BigPage \in Nat /\ BigPage >= 1
      BY <2>3, <3>1, PageBounds
    <3>3. PageStart(page)' = PageStart(page + 1)
      BY <2>1 DEF PageStart
    <3>4. Later' = {h \in Nat : h >= PageStart(page + 1)}
      BY <2>1, <2>3, <3>3 DEF Later, Fetching, Feeding
    <3>5. Later = {h \in Nat : h >= PageStart(page) /\ h > PageEnd(page)}
      BY <2>1 DEF Later, Fetching, Feeding
    <3>6. QED
      BY <2>1, <2>3, <3>2, <3>4, <3>5 DEF Feeding
  <2>4. QED
    BY <2>2, <2>3
<1>5. QED
  BY <1>1, <1>2, <1>3, <1>4 DEF Handler

LEMMA RangeHandler ==
    ASSUME IInv, SenderInv, FailureInv, RangeAnswerInv, Handler, ~LaunchPipeline, ~FeedPipeline
    PROVE  RangeAnswerInv'
<1>1. UNCHANGED <<out, txIn, conv, worker, toGet, cur, todo>>
  BY DEF Handler, RefusePayload, ZeroEndHeight, StartSender, BeginPage, SpawnBatch, Collect,
         CollectReport, ReportFailure, EndPage, WaitFin, pipeVars
<1>2. Delivered' = Delivered /\ UNCHANGED <<req, streamUp>>
  BY HandlerAnswers
<1>3. Later' \subseteq Later /\ pc' \notin Feeding
  BY LaterMoves
<1>4. OnceInv' /\ Touched' \subseteq Touched /\ InOut' = InOut
  BY <1>1, <1>2, <1>3, OnceUnmoved DEF RangeAnswerInv, Feeding
<1>5. BlockFirst'
  BY <1>1, <1>2, <1>4, BlockFirstUnmoved DEF RangeAnswerInv
<1>6. RangeOnceInv'
  BY <1>1, <1>2, <1>3, <1>4, RangeOnceKept DEF RangeAnswerInv
<1>7. QED
  BY <1>4, <1>5, <1>6 DEF RangeAnswerInv

(* The blocks of a page were not asked before, and are of the range.       *)
LEMMA BlocksAreNew ==
    ASSUME IInv, FailureInv, PageInv, RangeOnceInv, LaunchPipeline
    PROVE  /\ blocks \cap Touched = {} /\ blocks \cap Later' = {}
           /\ blocks \subseteq req[1]..req[2] /\ Later' \subseteq Later
           /\ IsRange /\ req \in Nat \X Nat /\ page \in Nat
           /\ Later = {h \in Nat : h >= PageStart(page)}
           /\ Later' = {h \in Nat : h >= PageStart(page) /\ h > PageEnd(page)}
<1>1. pc = "launch" /\ pc' = "range" /\ UNCHANGED <<req, page>>
  BY DEF LaunchPipeline, Launch
<1>2. /\ req \in Nat \X Nat /\ page \in Nat /\ IsRange
      /\ blocks \subseteq PageStart(page)..PageEnd(page)
  BY <1>1 DEF IInv, RangeInv, HandlerDataOK, FailureInv, PageInv
<1>3. /\ PageStart(page) \in Nat /\ PageEnd(page) \in Nat
      /\ req[1] <= PageStart(page) /\ PageEnd(page) <= req[2] /\ req[1] \in Nat /\ req[2] \in Nat
  BY <1>2, PageBounds
<1>4. /\ Later = {h \in Nat : h >= PageStart(page)}
      /\ Later' = {h \in Nat : h >= PageStart(page) /\ h > PageEnd(page)}
  <2>1. PageStart(page)' = PageStart(page) /\ PageEnd(page)' = PageEnd(page)
    BY <1>1 DEF PageStart, PageEnd, Least
  <2>2. QED
    BY <1>1, <2>1 DEF Later, Fetching, Feeding
<1>5. blocks \subseteq Later /\ blocks \cap Later' = {} /\ blocks \subseteq req[1]..req[2]
  <2> SUFFICES ASSUME NEW h \in blocks PROVE h \in Later /\ h \notin Later' /\ h \in req[1]..req[2]
    OBVIOUS
  <2>1. h \in Int /\ PageStart(page) <= h /\ h <= PageEnd(page)
    BY <1>2, <1>3
  <2>2. QED
    BY <1>3, <1>4, <2>1
<1>6. blocks \cap Touched = {} /\ Later' \subseteq Later
  BY <1>4, <1>5 DEF RangeOnceInv
<1>7. QED
  BY <1>2, <1>4, <1>5, <1>6

LEMMA RangeLaunch ==
    ASSUME IInv, FailureInv, PageInv, RangeAnswerInv, LaunchPipeline
    PROVE  RangeAnswerInv'
<1>1. /\ Launch(blocks) /\ pc' = "range"
      /\ UNCHANGED <<req, page, streamUp, answer, out>>
  BY DEF LaunchPipeline, Launch
<1>2. /\ blocks \cap Touched = {} /\ blocks \cap Later' = {}
      /\ blocks \subseteq req[1]..req[2] /\ Later' \subseteq Later /\ IsRange
  BY BlocksAreNew DEF RangeAnswerInv
<1>3. /\ OnceInv' /\ Touched' \subseteq Touched /\ InOut' = InOut /\ todo' = blocks
  BY <1>1, <1>2, LaunchOnce DEF RangeAnswerInv
<1>4. BlockFirst'
  BY <1>1, <1>3, BlockFirstUnmoved, DeliveredUnmoved DEF RangeAnswerInv
<1>5. RangeOnceInv'
  <2>1. Touched' \cap Later' = {}
    BY <1>2, <1>3 DEF RangeAnswerInv, RangeOnceInv
  <2>2. \A h \in Touched' \cup todo' : IsRange' /\ h \in req'[1]..req'[2]
    BY <1>1, <1>2, <1>3 DEF RangeAnswerInv, RangeOnceInv, IsRange
  <2>3. QED
    BY <1>2, <1>3, <2>1, <2>2 DEF RangeOnceInv
<1>6. QED
  BY <1>3, <1>4, <1>5 DEF RangeAnswerInv

LEMMA RangeFeed ==
    ASSUME IInv, RangeAnswerInv, FeedPipeline
    PROVE  RangeAnswerInv'
<1>1. PipelineMain /\ UNCHANGED <<req, page>>
  BY DEF FeedPipeline
<1>2. TaskDataOK(Items) /\ TxPipelineDataOK /\ PagesInv /\ OnceInv /\ BlockFirst
  BY DEF IInv, RangeAnswerInv
<1>3. OnceInv' /\ todo' \subseteq todo /\ Touched' \subseteq Touched \cup todo
  BY <1>1, <1>2, FeedOnce
<1>4. BlockFirst'
  BY <1>1, <1>2, BlockFirstFeed
<1>5. pc \in Feeding /\ pc' \in Feeding
  BY <1>1 DEF PipelineMain, SendBlock, QueuePage, CloseToGet, CloseTxIn, Feeding
<1>6. Later' = Later
  <2>1. PageStart(page)' = PageStart(page) /\ PageEnd(page)' = PageEnd(page)
    BY <1>1 DEF PageStart, PageEnd, Least
  <2>2. QED
    BY <1>5, <2>1 DEF Later, Fetching, Feeding
<1>7. RangeOnceInv'
  BY <1>1, <1>3, <1>5, <1>6 DEF RangeAnswerInv, RangeOnceInv, IsRange
<1>8. QED
  BY <1>3, <1>4, <1>7 DEF RangeAnswerInv

LEMMA RangeNext ==
    ASSUME IInv, SenderInv, FailureInv, PageInv, RangeAnswerInv, [Next]_vars
    PROVE  RangeAnswerInv'
<1>1. CASE LaunchPipeline
  BY <1>1, RangeLaunch
<1>2. CASE FeedPipeline
  BY <1>2, RangeFeed
<1>3. CASE Handler /\ ~LaunchPipeline /\ ~FeedPipeline
  BY <1>3, RangeHandler
<1>4. CASE FetchStep
  BY <1>4, RangeFetch
<1>5. CASE WorkerStep
  BY <1>5, RangeWorker
<1>6. CASE ConverterStep
  BY <1>6, RangeConverter
<1>7. CASE SenderStep
  BY <1>7, RangeSender
<1>8. CASE SurroundingsStep \/ UNCHANGED vars
  <2>1. /\ UNCHANGED <<pc, req, page, answer>> /\ (streamUp' => streamUp)
        /\ UNCHANGED <<out, txIn, conv, worker, toGet, cur, todo>>
    BY <1>8 DEF SurroundingsStep, Surroundings, Expire, Disconnect, vars, taskVars, pipeVars
  <2>2. OnceInv' /\ Touched' \subseteq Touched /\ InOut' = InOut /\ Delivered' = Delivered
    BY <2>1, OnceUnmoved, DeliveredUnmoved DEF RangeAnswerInv
  <2>3. BlockFirst'
    BY <2>1, <2>2, BlockFirstUnmoved DEF RangeAnswerInv
  <2>4. RangeOnceInv'
    BY <2>1, <2>2, RangeOnceKept, LaterUnmoved DEF RangeAnswerInv
  <2>5. QED
    BY <2>2, <2>3, <2>4 DEF RangeAnswerInv
<1>9. QED
  BY <1>1, <1>2, <1>3, <1>4, <1>5, <1>6, <1>7, <1>8 DEF Next, Terminated, Handler

LEMMA RangeInit ==
    ASSUME Init
    PROVE  PageInv /\ RangeAnswerInv
<1>1. OnceInv /\ Touched = {} /\ InOut = {} /\ out = <<>> /\ todo = {} /\ pc = "start"
  BY OnceInit DEF Init, TaskInit, TxPipelineInit
<1>2. BlockFirst
  BY <1>1 DEF BlockFirst
<1>3. RangeOnceInv
  BY <1>1 DEF RangeOnceInv, Feeding
<1>4. PageInv
  BY <1>1 DEF PageInv, Fetching
<1>5. QED
  BY <1>1, <1>2, <1>3, <1>4 DEF RangeAnswerInv

LEMMA RangeInvariance ==
    ASSUME EndsAreSent
    PROVE  Spec => [](IInv /\ SenderInv /\ FailureInv /\ PageInv /\ RangeAnswerInv)
<1>1. Init => PageInv /\ RangeAnswerInv
  BY RangeInit
<1>2. IInv /\ SenderInv /\ FailureInv /\ PageInv /\ RangeAnswerInv /\ [Next]_vars
        => PageInv' /\ RangeAnswerInv'
  BY PageNext, RangeNext
<1>3. QED
  BY <1>1, <1>2, AnswerInvariance, PTL DEF Spec

-----------------------------------------------------------------------------
(* The refinement, step by step.                                           *)

(* Both modules count with the Cardinality of FiniteSets.                  *)
LEMMA AbstractCount == Abstract!Count = Cardinality(OfType("data"))
BY DEF Abstract!Count, Abstract!Told, OfType, Abstract!Cardinality, Cardinality

LEMMA StepImplements ==
    ASSUME IInv, SenderInv, FailureInv, RangeAnswerInv, [Next]_vars
    PROVE  [Abstract!Next]_Abstract!answerVars
<1>1. WantedItems' = WantedItems
  <2>1. req' = req
    BY HandlerAnswers
    DEF Next, Terminated, FetchStep, WorkerStep, ConverterStep, SenderStep, SurroundingsStep, vars
  <2>2. QED
    BY <2>1 DEF WantedItems, IsRange
<1>2. /\ Abstract!Told("END") = OfType("END") /\ Abstract!Told("error") = OfType("error")
      /\ Abstract!Items = Delivered /\ Abstract!Count = Cardinality(OfType("data"))
  BY AbstractCount DEF Abstract!Told, Abstract!Items, OfType, Delivered
<1>3. CASE UNCHANGED answer
  BY <1>1, <1>3 DEF Abstract!answerVars
<1>4. CASE Handler
  <2>1. UNCHANGED answer \/ ((RefusePayload \/ ReportFailure) /\ Send(ErrorMark))
    BY <1>4, HandlerAnswers DEF RefusePayload, ReportFailure
  <2>2. CASE (RefusePayload \/ ReportFailure) /\ answer' = Append(answer, ErrorMark)
    <3>1. OfType("error") = {}
      BY <2>2 DEF FailureInv, RefusePayload, ReportFailure
    <3>2. Abstract!Fail
      BY <1>1, <1>2, <2>2, <3>1 DEF Abstract!Fail, Abstract!Tell, Abstract!Error, ErrorMark, NoItem
    <3>3. QED
      BY <3>2 DEF Abstract!Next
  <2>3. QED
    BY <1>3, <2>1, <2>2 DEF Send
<1>5. CASE SenderStep
  <2>1. \/ UNCHANGED answer
        \/ /\ streamUp /\ out # <<>> /\ OfType("END") = {}
           /\ answer' = Append(answer, Data(Head(out), Cardinality(OfType("data"))))
        \/ /\ OfType("END") = {}
           /\ answer' = Append(answer, EndMark(Cardinality(OfType("data"))))
    BY <1>5, SenderAnswers DEF SenderStep, IInv, Flags
  <2>2. ASSUME streamUp, out # <<>>, OfType("END") = {},
               answer' = Append(answer, Data(Head(out), Cardinality(OfType("data"))))
        PROVE  Abstract!Next
    <3>1. /\ Head(out) \in Items /\ Head(out)[1] \in Touched /\ Head(out) \notin Delivered
          /\ Head(out)[2] > 0 => <<Head(out)[1], 0>> \in Delivered
      BY <2>2, HeadIsNext DEF IInv, RangeAnswerInv
    <3>2. Head(out) \in WantedItems
      BY <3>1 DEF WantedItems, RangeAnswerInv, RangeOnceInv
    <3>3. Abstract!Deliver(Head(out))
      BY <1>1, <1>2, <2>2, <3>1 DEF Abstract!Deliver, Abstract!Tell, Abstract!Item, Data
    <3>4. QED
      BY <3>2, <3>3 DEF Abstract!Next
  <2>3. ASSUME OfType("END") = {}, answer' = Append(answer, EndMark(Cardinality(OfType("data"))))
        PROVE  Abstract!Next
    <3>1. Abstract!End
      BY <1>1, <1>2, <2>3 DEF Abstract!End, Abstract!Tell, Abstract!EndMark, EndMark, NoItem
    <3>2. QED
      BY <3>1 DEF Abstract!Next
  <2>4. QED
    BY <1>3, <2>1, <2>2, <2>3
<1>6. CASE FetchStep \/ WorkerStep \/ ConverterStep \/ SurroundingsStep \/ UNCHANGED vars
  BY <1>3, <1>6 DEF FetchStep, WorkerStep, Worker, ConverterStep, Converter, SurroundingsStep,
                    Surroundings, Expire, Disconnect, vars, taskVars
<1>7. QED
  BY <1>4, <1>5, <1>6 DEF Next, Terminated

(* The sequence of responses the manager receives for a range is one of    *)
(* RangeAnswer: items of the range only, no item twice, a transaction after*)
(* its block, each response with the number of the items before it, END at *)
(* most once and no item after it, an error at most once.  For any chain,  *)
(* range, page size, number of workers and buffers, whatever fails or times*)
(* out, and however long the range.                                        *)
THEOREM TaskImplementsRangeAnswer ==
    ASSUME EndsAreSent
    PROVE  Spec => ImplementsRangeAnswer
<1>1. Init => Abstract!Init
  <2>1. Init => answer = <<>> /\ WantedItems \subseteq Items
    BY DEF Init, TaskInit, WantedItems
  <2>2. QED
    BY <2>1 DEF Abstract!Init
<1>2. IInv /\ SenderInv /\ FailureInv /\ RangeAnswerInv /\ [Next]_vars
        => [Abstract!Next]_Abstract!answerVars
  BY StepImplements
<1>3. QED
  BY <1>1, <1>2, RangeInvariance, PTL DEF Spec, ImplementsRangeAnswer, Abstract!Spec

-----------------------------------------------------------------------------
(* The answer is complete: nothing found is left behind.                   *)

LEMMA LeftNext ==
    ASSUME IInv, SenderInv, FailureInv, PageInv, RangeAnswerInv, LeftInv, DrainInv, EndInv,
           [Next]_vars
    PROVE  LeftInv' /\ DrainInv' /\ EndInv'
<1> USE DEF RangeAnswerInv
<1>1. /\ TaskDataOK(Items) /\ SendRespDataOK /\ TxPipelineDataOK /\ PagesInv
      /\ PipelineChannels /\ streamUp \in BOOLEAN /\ answer \in Seq(Responses(Items))
      /\ outClosed => conv.pc = "done" /\ pc \in {"waitFin", "done"}
  BY DEF IInv, Flags, ChannelsSafe, PipelineChannels, TaskDataOK
<1>2. CASE LaunchPipeline
  <2>1. Launch(blocks) /\ pc = "launch" /\ blocks \cap Touched = {}
    BY <1>2, BlocksAreNew DEF LaunchPipeline, Launch
  <2>2. OpenPages = {} /\ Found = InOut
    BY <2>1, Drained DEF Feeding
  <2>3. LeftInv' /\ DrainInv'
    BY <2>1, <2>2, LeftLaunch, DrainLaunch
  <2>4. UNCHANGED <<answer, contextDone, streamUp, outClosed, out, spc>>
    BY <1>2 DEF LaunchPipeline, Launch, sendVars
  <2>5. QED
    BY <1>1, <2>3, <2>4, EndKept
<1>3. CASE FeedPipeline
  <2>1. LeftInv' /\ DrainInv'
    BY <1>1, <1>3, LeftFeed, DrainFeed DEF FeedPipeline
  <2>2. UNCHANGED <<answer, contextDone, streamUp, outClosed, spc>> /\ pc \in Feeding
    BY <1>3 DEF FeedPipeline, PipelineMain, SendBlock, QueuePage, CloseToGet, CloseTxIn, sendVars,
                Feeding
  <2>3. ~outClosed
    BY <1>1, <2>2 DEF Feeding
  <2>4. QED
    BY <1>1, <2>1, <2>2, <2>3, EndKept
<1>4. CASE WorkerStep
  <2>1. PICK w \in Workers : Worker(w)
    BY <1>4 DEF WorkerStep
  <2>2. LeftInv' /\ DrainInv'
    BY <1>1, <2>1, LeftWorker, DrainWorker
  <2>3. UNCHANGED <<answer, contextDone, streamUp, outClosed, out, spc>>
    BY <1>4, <2>1 DEF WorkerStep, Worker, taskVars, sendVars
  <2>4. QED
    BY <1>1, <2>2, <2>3, EndKept
<1>5. CASE ConverterStep
  <2>1. LeftInv' /\ DrainInv'
    BY <1>1, <1>5, LeftConverter, DrainConverter DEF ConverterStep
  <2>2. UNCHANGED <<answer, contextDone, streamUp, outClosed, spc>> /\ conv.pc # "done"
    BY <1>5 DEF ConverterStep, Converter, TakeTx, PutTransaction, ConverterDone, sendVars
  <2>3. QED
    BY <1>1, <2>1, <2>2, EndKept
<1>6. CASE SenderStep
  <2>1. Sender /\ UNCHANGED <<pipeVars, pc>>
    BY <1>6 DEF SenderStep, Sender, SendItem, OutDrained, SenderCancelled, SendEnd, SignalFin,
                taskVars
  <2>2. LeftInv' /\ EndInv'
    BY <1>1, <2>1, LeftSender, EndSender
  <2>3. DrainInv'
    BY <2>1, DrainUnmoved DEF pipeVars
  <2>4. QED
    BY <2>2, <2>3
<1>7. ASSUME UNCHANGED <<out, pipeVars, contextDone>>,
             streamUp' => streamUp, outClosed => outClosed', spc' = spc \/ spc' = "loop",
             UNCHANGED answer \/ Send(ErrorMark), Delivered' = Delivered,
             \/ UNCHANGED pc
             \/ /\ pc # "pages" /\ pc' \notin Feeding
                /\ pc \in Feeding => todo = {} /\ HttpWaitGroupZero /\ ConvertWaitGroupZero
      PROVE  LeftInv' /\ DrainInv' /\ EndInv'
  <2>1. UNCHANGED <<txIn, conv, worker, toGet, cur, todo, toGetClosed, txInClosed, lost>>
    BY <1>7 DEF pipeVars
  <2>2. pc' = pc \/ (pc # "pages" /\ pc' # "pages")
    BY <1>7 DEF Feeding
  <2>3. InOut' = InOut /\ Found' = Found /\ OpenPages' = OpenPages
    BY <1>7, <2>1, <2>2, OnceUnmoved
  <2>4. LeftInv'
    BY <1>7, <2>1, <2>2, <2>3, LeftUnmoved
  <2>5. DrainInv'
    BY <1>7, <2>1, DrainUnmoved
  <2>6. EndInv'
    BY <1>1, <1>7, EndKept
  <2>7. QED
    BY <2>4, <2>5, <2>6
<1>8. CASE Handler /\ ~LaunchPipeline /\ ~FeedPipeline
  <2>1. /\ UNCHANGED <<out, pipeVars, contextDone, streamUp>>
        /\ pc # "pages" /\ pc' \notin Feeding /\ (spc' = spc \/ spc' = "loop")
        /\ UNCHANGED answer \/ Send(ErrorMark)
        /\ UNCHANGED outClosed \/ pc = "waitConv"
        /\ pc \in Feeding => Converted
    BY <1>8 DEF Handler, RefusePayload, ZeroEndHeight, StartSender, BeginPage, SpawnBatch,
                Collect, CollectReport, ReportFailure, EndPage, WaitFin, Converted, sendVars, Feeding
  <2>2. Delivered' = Delivered
    BY <1>8, HandlerAnswers
  <2>3. Converted => todo = {} /\ HttpWaitGroupZero /\ ConvertWaitGroupZero
    BY DEF Converted, DrainInv
  <2>4. outClosed => outClosed'
    BY <1>1, <2>1
  <2>5. QED
    BY <1>7, <2>1, <2>2, <2>3, <2>4
<1>9. CASE FetchStep \/ SurroundingsStep \/ UNCHANGED vars
  <2>1. /\ UNCHANGED <<out, pipeVars, pc, spc, contextDone, answer, outClosed>>
        /\ streamUp' => streamUp
    BY <1>9 DEF FetchStep, SurroundingsStep, Surroundings, Expire, Disconnect,
                vars, taskVars, sendVars
  <2>2. QED
    BY <1>7, <2>1, DeliveredUnmoved
<1>10. QED
  BY <1>2, <1>3, <1>4, <1>5, <1>6, <1>8, <1>9 DEF Next, Terminated, Handler

-----------------------------------------------------------------------------
(* The answer is complete: every height of the range is asked for.         *)

(***************************************************************************)
(* While a page is fetched its heights up to the next batch are those of   *)
(* the batches started, none of which is longer than the node's limit, and *)
(* each of which has put its heights into the map, holds them, has still to*)
(* ask or has failed.                                                      *)
(***************************************************************************)
CoverInv ==
    pc \in Fetching \cup {"launch"} =>
        /\ \A f \in DOMAIN fetch :
              fetch[f].hi <= fetch[f].lo + BatchLimit - 1 /\ FetchedBy(fetch[f], blocks)
        /\ \A h \in PageStart(page)..PageEnd(page) :
              (pc = "spawn" => h < BatchStart(page, Len(fetch)))
                => \E f \in DOMAIN fetch : fetch[f].lo <= h /\ h <= fetch[f].hi

LEMMA CoverUnmoved ==
    ASSUME CoverInv, UNCHANGED <<req, page, fetch, blocks>>,
           pc' = pc \/ pc' \notin Fetching \cup {"launch"}
             \/ (pc = "collect" /\ pc' = "launch")
    PROVE  CoverInv'
BY DEF CoverInv, PageStart, PageEnd, BatchStart, Least, Fetching, FetchedBy

LEMMA CoverFetch ==
    ASSUME IInv, PageInv, CoverInv, FetchStep
    PROVE  CoverInv'
<1>1. PICK f \in DOMAIN fetch : Fetcher(f)
  BY DEF FetchStep
<1>2. UNCHANGED <<pc, req, page>> /\ pc \in Fetching
  BY <1>1, FetcherReports DEF FetchStep, taskVars, IInv, FetchersInv, Fetching
<1>3. /\ 1 <= fetch[f].hi /\ fetch[f].hi <= fetch[f].lo + BatchLimit - 1
      /\ Range(fetch[f].metas) \subseteq fetch[f].lo .. fetch[f].hi
      /\ FetchedBy(fetch[f], blocks)
  BY <1>2 DEF PageInv, CoverInv
<1>4. fetch[f].hi >= 1
  <2>1. fetch[f] \in FetchRecords
    BY DEF IInv, BlocksFetchDataOK
  <2>2. QED
    BY <1>3, <2>1 DEF FetchRecords
<1>5. /\ DOMAIN fetch' = DOMAIN fetch
      /\ \A g \in DOMAIN fetch : g # f => fetch'[g] = fetch[g]
      /\ fetch'[f].lo = fetch[f].lo /\ fetch'[f].hi = fetch[f].hi
  BY <1>1, <1>3, <1>4, FetcherHeights DEF IInv
<1>6. FetchedBy(fetch'[f], blocks') /\ blocks \subseteq blocks'
  BY <1>1, <1>3, FetcherCovers DEF IInv
<1>7. \A g \in DOMAIN fetch' :
        fetch'[g].hi <= fetch'[g].lo + BatchLimit - 1 /\ FetchedBy(fetch'[g], blocks')
  <2> SUFFICES ASSUME NEW g \in DOMAIN fetch'
               PROVE  fetch'[g].hi <= fetch'[g].lo + BatchLimit - 1 /\ FetchedBy(fetch'[g], blocks')
    OBVIOUS
  <2>1. CASE g = f
    BY <1>3, <1>5, <1>6, <2>1
  <2>2. CASE g # f
    <3>1. fetch'[g] = fetch[g] /\ fetch[g].hi <= fetch[g].lo + BatchLimit - 1
          /\ FetchedBy(fetch[g], blocks)
      BY <1>2, <1>5, <2>2 DEF CoverInv
    <3>2. QED
      BY <1>6, <3>1 DEF FetchedBy
  <2>3. QED
    BY <2>1, <2>2
<1>8. Len(fetch') = Len(fetch)
  BY <1>1, FetcherReports DEF IInv, FetchersInv
<1>9. /\ PageStart(page)' = PageStart(page) /\ PageEnd(page)' = PageEnd(page)
      /\ BatchStart(page, Len(fetch))' = BatchStart(page, Len(fetch))
  BY <1>2, <1>8 DEF PageStart, PageEnd, BatchStart, Least
<1>10. \A g \in DOMAIN fetch : fetch'[g].lo = fetch[g].lo /\ fetch'[g].hi = fetch[g].hi
  BY <1>5
<1>11. QED
  BY <1>2, <1>5, <1>7, <1>9, <1>10 DEF CoverInv

LEMMA CoverSpawn ==
    ASSUME IInv, CoverInv, SpawnBatch
    PROVE  CoverInv'
<1>1. /\ pc = "spawn" /\ pc' \in Fetching /\ UNCHANGED <<req, page, ctrl, got, nerr, blocks, summary>>
      /\ GoFetch(BatchStart(page, Len(fetch)), BatchEnd(page, Len(fetch)))
      /\ pc' = IF BatchEnd(page, Len(fetch)) = PageEnd(page) THEN "collect" ELSE "spawn"
  BY DEF SpawnBatch, Fetching
<1>2. /\ req \in Nat \X Nat /\ page \in Nat /\ Len(fetch) \in Nat /\ DOMAIN fetch = 1..Len(fetch)
      /\ BatchLimit \in Nat /\ BatchLimit >= 1
  BY <1>1, BlocksFetchAssumption
  DEF IInv, HandlerDataOK, RangeInv, BlocksFetchDataOK, BlocksFetchAssumption
<1> DEFINE lo == BatchStart(page, Len(fetch))
           hi == BatchEnd(page, Len(fetch))
           n == Len(fetch) + 1
<1>3. /\ lo \in Nat /\ hi \in Nat /\ PageStart(page) \in Nat /\ PageEnd(page) \in Nat
  BY <1>2, BatchType, PageBounds
<1>4. hi <= lo + BatchLimit - 1 /\ (hi = lo + BatchLimit - 1 \/ hi = PageEnd(page))
  BY <1>2, <1>3 DEF BatchEnd, Least
<1>5. BatchStart(page, n) = lo + BatchLimit
  <2>1. n * BatchLimit = Len(fetch) * BatchLimit + BatchLimit /\ Len(fetch) * BatchLimit \in Nat
    BY <1>2
  <2>2. QED
    BY <1>2, <1>3, <2>1 DEF BatchStart
<1>6. GoFetch(lo, hi) /\ pc' = (IF hi = PageEnd(page) THEN "collect" ELSE "spawn")
  BY <1>1
<1>7. \A h \in PageStart(page)..PageEnd(page) :
        h < lo => \E f \in 1..Len(fetch) : fetch[f].lo <= h /\ h <= fetch[f].hi
  BY <1>1, <1>2 DEF CoverInv, Fetching
<1> HIDE DEF lo, hi
<1>8. /\ Len(fetch') = n /\ \A f \in 1..Len(fetch) : fetch'[f] = fetch[f]
      /\ fetch'[n] = [pc |-> "limit", lo |-> lo, hi |-> hi, metas |-> <<>>, report |-> "ok"]
      /\ fetch' \in Seq(FetchRecords)
  BY <1>1, <1>3, <1>6, GoFetchOK DEF IInv, BlocksFetchDataOK
<1>9. fetch'[n].lo = lo /\ fetch'[n].hi = hi /\ FetchedBy(fetch'[n], blocks')
  BY <1>8 DEF FetchedBy
<1>10. DOMAIN fetch' = (1..Len(fetch)) \cup {n}
  <2>1. DOMAIN fetch' = 1..n
    BY <1>8
  <2>2. QED
    BY <1>2, <2>1
<1>11. /\ PageStart(page)' = PageStart(page) /\ PageEnd(page)' = PageEnd(page)
       /\ BatchStart(page, Len(fetch))' = lo + BatchLimit
  <2>1. BatchStart(page, Len(fetch))' = BatchStart(page, n)
    BY <1>1, <1>8 DEF BatchStart, PageStart
  <2>2. QED
    BY <1>1, <1>5, <2>1 DEF PageStart, PageEnd, Least
<1> HIDE DEF n
<1>12. \A f \in DOMAIN fetch' :
         fetch'[f].hi <= fetch'[f].lo + BatchLimit - 1 /\ FetchedBy(fetch'[f], blocks')
  <2>1. \A f \in 1..Len(fetch) :
          fetch[f].hi <= fetch[f].lo + BatchLimit - 1 /\ FetchedBy(fetch[f], blocks')
    BY <1>1, <1>2 DEF CoverInv, Fetching
  <2>2. QED
    BY <1>4, <1>8, <1>9, <1>10, <2>1
<1>13. ASSUME NEW h \in PageStart(page)..PageEnd(page), pc' = "spawn" => h < lo + BatchLimit
       PROVE  \E f \in DOMAIN fetch' : fetch'[f].lo <= h /\ h <= fetch'[f].hi
  <2>1. CASE h < lo
    BY <1>7, <1>8, <1>10, <2>1
  <2>2. CASE ~(h < lo)
    <3>1. lo <= h /\ h <= hi
      BY <1>2, <1>3, <1>4, <1>6, <1>13, <2>2
    <3>2. QED
      BY <1>9, <1>10, <3>1
  <2>3. QED
    BY <2>1, <2>2
<1>14. QED
  BY <1>11, <1>12, <1>13 DEF CoverInv

LEMMA CoverNext ==
    ASSUME IInv, PageInv, CoverInv, [Next]_vars
    PROVE  CoverInv'
<1>1. CASE FetchStep
  BY <1>1, CoverFetch
<1>2. CASE SpawnBatch
  BY <1>2, CoverSpawn
<1>3. CASE BeginPage
  <2>1. pc = "page" /\ pc' = "spawn" /\ fetch' = <<>> /\ UNCHANGED <<req, page>>
    BY <1>3 DEF BeginPage, FreshFetch
  <2>2. req \in Nat \X Nat /\ page \in Nat /\ BatchLimit \in Nat
    BY <2>1, BlocksFetchAssumption DEF IInv, HandlerDataOK, RangeInv, BlocksFetchAssumption
  <2>3. PageStart(page) \in Nat /\ PageEnd(page) \in Nat
    BY <2>2, PageBounds
  <2>4. BatchStart(page, 0) = PageStart(page)
    BY <2>2, <2>3 DEF BatchStart
  <2>5. /\ PageStart(page)' = PageStart(page) /\ PageEnd(page)' = PageEnd(page)
        /\ BatchStart(page, Len(fetch))' = PageStart(page)
    <3>1. Len(fetch') = 0
      BY <2>1
    <3>2. QED
      BY <2>1, <2>4, <3>1 DEF BatchStart, PageStart, PageEnd, Least
  <2>6. \A h \in PageStart(page)..PageEnd(page) : ~(h < PageStart(page))
    BY <2>3
  <2>7. QED
    BY <2>1, <2>5, <2>6 DEF CoverInv
<1>4. CASE Collect
  <2>1. /\ pc = "collect" /\ pc' \in {"collect", "failed", "launch"}
        /\ UNCHANGED <<req, page, fetch, blocks>>
    BY <1>4 DEF Collect, CollectReport
  <2>2. QED
    BY <2>1, CoverUnmoved DEF Fetching
<1>5. CASE RefusePayload \/ ZeroEndHeight \/ StartSender \/ ReportFailure \/ WaitFin
           \/ EndPage \/ LaunchPipeline \/ FeedPipeline
  <2>1. pc' \notin Fetching \cup {"launch"}
    BY <1>5 DEF RefusePayload, ZeroEndHeight, StartSender, ReportFailure, WaitFin, EndPage,
                LaunchPipeline, Launch, FeedPipeline, PipelineMain, SendBlock, QueuePage,
                CloseToGet, CloseTxIn, Fetching
  <2>2. QED
    BY <2>1 DEF CoverInv
<1>6. CASE UNCHANGED <<pc, req, page, fetch, blocks>>
  BY <1>6, CoverUnmoved
<1>7. CASE WorkerStep \/ ConverterStep \/ UNCHANGED vars
  BY <1>6, <1>7 DEF WorkerStep, Worker, ConverterStep, Converter, vars, taskVars, fetchVars
<1>8. CASE SenderStep \/ SurroundingsStep
  BY <1>6, <1>8 DEF SenderStep, Sender, SendItem, OutDrained, SenderCancelled, SendEnd, SignalFin,
                    SurroundingsStep, Surroundings, Expire, Disconnect, taskVars, fetchVars
<1>9. QED
  BY <1>1, <1>2, <1>3, <1>4, <1>5, <1>7, <1>8 DEF Next, Handler, Terminated

(* When the pipeline starts the map has every block of the page that the   *)
(* chain has.                                                              *)
LEMMA PageCovered ==
    ASSUME IInv, FailureInv, CoverInv, pc = "launch",
           NEW h \in 1..Top, h \in PageStart(page)..PageEnd(page)
    PROVE  h \in blocks
<1>1. ~SomeFailed /\ DoneFetchers = 1..Len(fetch) /\ DOMAIN fetch = 1..Len(fetch)
  BY DEF FailureInv, IInv, FetchersInv, BlocksFetchDataOK
<1>2. PICK f \in DOMAIN fetch : fetch[f].lo <= h /\ h <= fetch[f].hi
  BY DEF CoverInv, Fetching
<1>3. fetch[f].pc = "done" /\ fetch[f].report # "failed"
  BY <1>1, <1>2 DEF DoneFetchers, SomeFailed
<1>4. FetchedBy(fetch[f], blocks)
  BY <1>2 DEF CoverInv, Fetching
<1>5. h \in blocks \cup Range(fetch[f].metas) /\ fetch[f].metas = <<>>
  BY <1>2, <1>3, <1>4 DEF FetchedBy
<1>6. QED
  BY <1>5, QueueEmpty

(***************************************************************************)
(* As long as the stream takes what is sent, each height of the range that *)
(* the chain has is still to ask for, or its block is still to visit or on *)
(* its way; out is closed after the last page only.                        *)
(***************************************************************************)
Pursuing == pc \notin {"start", "failed", "done", "panic"} \/ outClosed

WantedInv ==
    /\ pc = "start" => page = 0
    /\ outClosed => IsRange
    /\ streamUp /\ Pursuing =>
         \A h \in 1..Top : h \in req[1]..req[2] =>
            h \in Later \/ h \in todo \/ <<h, 0>> \in InOut

LEMMA WantedKept ==
    ASSUME WantedInv, UNCHANGED <<pc, req, page, todo, outClosed>>, streamUp' => streamUp,
           streamUp' => InOut \subseteq InOut'
    PROVE  WantedInv'
<1>1. Later' = Later /\ Pursuing' = Pursuing /\ IsRange' = IsRange
  BY LaterUnmoved DEF Pursuing, IsRange
<1>2. QED
  BY <1>1 DEF WantedInv

LEMMA WantedLaunch ==
    ASSUME IInv, FailureInv, PageInv, RangeAnswerInv, DrainInv, CoverInv, WantedInv, LaunchPipeline
    PROVE  WantedInv'
<1>1. /\ Launch(blocks) /\ pc = "launch" /\ pc' = "range" /\ ~outClosed
      /\ UNCHANGED <<req, page, streamUp, outClosed>>
  BY DEF LaunchPipeline, Launch, IInv, ChannelsSafe
<1>2. /\ blocks \cap Touched = {} /\ req \in Nat \X Nat /\ page \in Nat
      /\ Later = {h \in Nat : h >= PageStart(page)}
      /\ Later' = {h \in Nat : h >= PageStart(page) /\ h > PageEnd(page)}
  BY BlocksAreNew DEF RangeAnswerInv
<1>3. PageStart(page) \in Nat /\ PageEnd(page) \in Nat
  BY <1>2, PageBounds
<1>4. todo' = blocks /\ InOut' = InOut
  BY <1>1, <1>2, LaunchOnce DEF RangeAnswerInv
<1>5. todo = {}
  BY <1>1, Drained DEF Feeding
<1>6. ASSUME streamUp, NEW h \in 1..Top, h \in req[1]..req[2]
      PROVE  h \in Later' \/ h \in todo' \/ <<h, 0>> \in InOut'
  <2>1. h \in Later \/ <<h, 0>> \in InOut
    BY <1>1, <1>5, <1>6 DEF WantedInv, Pursuing
  <2>2. CASE h \in Later /\ h \notin Later'
    <3>1. h \in PageStart(page)..PageEnd(page)
      BY <1>2, <1>3, <2>2
    <3>2. h \in blocks
      BY <1>1, <3>1, PageCovered
    <3>3. QED
      BY <1>4, <3>2
  <2>3. QED
    BY <1>4, <2>1, <2>2
<1>7. QED
  BY <1>1, <1>6 DEF WantedInv

LEMMA WantedFeed ==
    ASSUME IInv, RangeAnswerInv, WantedInv, FeedPipeline
    PROVE  WantedInv'
<1>1. /\ PipelineMain /\ UNCHANGED <<req, page, streamUp, outClosed>>
      /\ pc \in Feeding /\ pc' \in Feeding /\ ~outClosed
  BY DEF FeedPipeline, PipelineMain, SendBlock, QueuePage, CloseToGet, CloseTxIn, Feeding,
         IInv, ChannelsSafe
<1>2. Later' = Later
  <2>1. PageStart(page)' = PageStart(page) /\ PageEnd(page)' = PageEnd(page)
    BY <1>1 DEF PageStart, PageEnd, Least
  <2>2. QED
    BY <1>1, <2>1 DEF Later, Fetching, Feeding
<1>3. TaskDataOK(Items) /\ TxPipelineDataOK /\ PagesInv /\ OnceInv
  BY DEF IInv, RangeAnswerInv
<1>4. InOut \subseteq InOut'
  BY <1>1, <1>3, FeedOnce
<1>5. \A h \in todo : h \in todo' \/ <<h, 0>> \in InOut'
  <2>1. CASE \E h \in todo : SendBlock(h)
    <3>1. PICK h \in todo : SendBlock(h)
      BY <2>1
    <3>2. InOut' = InOut \cup {<<h, 0>>}
      BY <1>3, <3>1, SendBlockOnce
    <3>3. todo' = todo \ {h}
      BY <3>1 DEF SendBlock
    <3>4. QED
      BY <3>2, <3>3
  <2>2. CASE QueuePage \/ CloseToGet \/ CloseTxIn
    BY <2>2 DEF QueuePage, CloseToGet, CloseTxIn
  <2>3. QED
    BY <1>1, <2>1, <2>2 DEF PipelineMain
<1>6. Pursuing
  BY <1>1 DEF Pursuing, Feeding
<1>7. pc' # "start" /\ IsRange' = IsRange
  BY <1>1 DEF Feeding, IsRange
<1>8. QED
  BY <1>1, <1>2, <1>4, <1>5, <1>6, <1>7 DEF WantedInv

(* A page ends, and its heights are no longer later: what follows it is    *)
(* the next page, or it was the last.                                      *)
LEMMA WantedEndPage ==
    ASSUME IInv, FailureInv, DrainInv, WantedInv, EndPage,
           InOut' = InOut, UNCHANGED todo
    PROVE  WantedInv'
<1>1. /\ pc = "waitConv" /\ page' = page + 1 /\ UNCHANGED <<req, streamUp>>
      /\ pc' = (IF PageEnd(page) = req[2] THEN "waitFin" ELSE "page")
      /\ req \in Nat \X Nat /\ page \in Nat /\ IsRange
  BY DEF EndPage, Converted, IInv, RangeInv, HandlerDataOK, FailureInv
<1>2. /\ PageStart(page) \in Nat /\ PageEnd(page) \in Nat /\ PageEnd(page) <= req[2]
      /\ PageStart(page + 1) = PageStart(page) + BigPage
      /\ PageEnd(page) # req[2] => PageEnd(page) = PageStart(page) + BigPage - 1
      /\ BigPage \in Nat /\ BigPage >= 1
  BY <1>1, PageBounds
<1>3. todo = {} /\ Pursuing
  BY <1>1 DEF DrainInv, Pursuing
<1>4. Later = {h \in Nat : h >= PageStart(page) /\ h > PageEnd(page)}
  BY <1>1 DEF Later, Fetching, Feeding
<1>5. ASSUME streamUp, NEW h \in 1..Top, h \in req[1]..req[2]
      PROVE  h \in Later' \/ <<h, 0>> \in InOut'
  <2>1. h \in Later \/ <<h, 0>> \in InOut
    BY <1>3, <1>5 DEF WantedInv
  <2>2. CASE h \in Later
    <3>1. h \in Nat /\ h >= PageStart(page) /\ h > PageEnd(page) /\ h <= req[2]
      BY <1>1, <1>4, <1>5, <2>2
    <3>2. PageEnd(page) # req[2] /\ h >= PageStart(page + 1)
      BY <1>1, <1>2, <3>1
    <3>3. PageStart(page)' = PageStart(page + 1) /\ pc' = "page"
      BY <1>1, <3>2 DEF PageStart
    <3>4. Later' = {k \in Nat : k >= PageStart(page + 1)}
      BY <3>3 DEF Later, Fetching
    <3>5. QED
      BY <3>1, <3>2, <3>4
  <2>3. QED
    BY <2>1, <2>2
<1>6. IsRange' /\ pc' # "start"
  BY <1>1 DEF IsRange
<1>7. QED
  BY <1>1, <1>5, <1>6 DEF WantedInv

LEMMA WantedHandler ==
    ASSUME IInv, SenderInv, FailureInv, RangeAnswerInv, DrainInv, WantedInv,
           Handler, ~LaunchPipeline, ~FeedPipeline
    PROVE  WantedInv'
<1>1. UNCHANGED <<out, txIn, conv, worker, toGet, cur, todo>>
  BY DEF Handler, RefusePayload, ZeroEndHeight, StartSender, BeginPage, SpawnBatch, Collect,
         CollectReport, ReportFailure, EndPage, WaitFin, pipeVars
<1>2. Delivered' = Delivered /\ UNCHANGED <<req, streamUp>> /\ IsRange' = IsRange
  BY HandlerAnswers DEF IsRange
<1>3. InOut' = InOut
  BY <1>1, <1>2 DEF InOut
<1>4. outClosed => pc \in {"waitFin", "done"}
  BY DEF IInv, ChannelsSafe
<1>5. CASE RefusePayload \/ ZeroEndHeight \/ ReportFailure
  <2>1. pc' \in {"done", "panic"} /\ outClosed' = outClosed /\ ~outClosed
    BY <1>4, <1>5 DEF RefusePayload, ZeroEndHeight, ReportFailure
  <2>2. QED
    BY <2>1 DEF WantedInv, Pursuing
<1>6. CASE StartSender
  <2>1. /\ pc = "start" /\ pc' = "page" /\ outClosed' = outClosed /\ ~outClosed /\ page' = page
        /\ req \in Requests /\ req # BadPayload
    BY <1>4, <1>6 DEF StartSender, IInv, HandlerDataOK
  <2>2. req \in Nat \X Nat /\ page = 0 /\ BigPage \in Nat
    BY <2>1, GetTransactionsAssumption DEF GetTransactionsAssumption, WantedInv
  <2>3. PageStart(page)' = req[1]
    BY <1>2, <2>1, <2>2 DEF PageStart
  <2>4. Later' = {h \in Nat : h >= req[1]}
    BY <2>1, <2>3 DEF Later, Fetching
  <2>5. \A h \in 1..Top : h \in req[1]..req[2] => h \in Later'
    BY <2>2, <2>4
  <2>6. QED
    BY <1>2, <2>1, <2>5 DEF WantedInv
<1>7. CASE BeginPage \/ SpawnBatch \/ Collect
  <2>1. /\ pc \in Fetching \cup {"page"} /\ UNCHANGED <<page, outClosed>>
        /\ pc' \in Fetching \cup {"launch", "failed"}
    BY <1>7 DEF BeginPage, SpawnBatch, Collect, CollectReport, Fetching
  <2>2. ~outClosed /\ Pursuing
    BY <1>4, <2>1 DEF Fetching, Pursuing
  <2>3. CASE pc' = "failed"
    BY <2>1, <2>2, <2>3 DEF WantedInv, Pursuing
  <2>4. CASE pc' # "failed"
    <3>1. PageStart(page)' = PageStart(page)
      BY <1>2, <2>1 DEF PageStart
    <3>2. Later' = Later
      BY <2>1, <2>4, <3>1 DEF Later, Fetching
    <3>3. pc' # "start"
      BY <2>1 DEF Fetching
    <3>4. QED
      BY <1>1, <1>2, <1>3, <2>1, <2>2, <3>2, <3>3 DEF WantedInv
  <2>5. QED
    BY <2>3, <2>4
<1>8. CASE EndPage
  BY <1>1, <1>3, <1>8, WantedEndPage
<1>9. CASE WaitFin
  <2>1. pc = "waitFin" /\ pc' = "done" /\ outClosed' = outClosed /\ Pursuing
    BY <1>9 DEF WaitFin, Pursuing
  <2>2. Later' = {} /\ Later = {}
    BY <2>1 DEF Later, Fetching, Feeding
  <2>3. QED
    BY <1>1, <1>2, <1>3, <2>1, <2>2 DEF WantedInv
<1>10. QED
  BY <1>5, <1>6, <1>7, <1>8, <1>9 DEF Handler

LEMMA WantedNext ==
    ASSUME IInv, SenderInv, FailureInv, PageInv, RangeAnswerInv, DrainInv, CoverInv, WantedInv,
           [Next]_vars
    PROVE  WantedInv'
<1>1. /\ TaskDataOK(Items) /\ SendRespDataOK /\ TxPipelineDataOK /\ PagesInv
      /\ OnceInv /\ streamUp \in BOOLEAN
  BY DEF IInv, Flags, RangeAnswerInv
<1>2. CASE LaunchPipeline
  BY <1>2, WantedLaunch
<1>3. CASE FeedPipeline
  BY <1>3, WantedFeed
<1>4. CASE Handler /\ ~LaunchPipeline /\ ~FeedPipeline
  BY <1>4, WantedHandler
<1>5. CASE WorkerStep
  <2>1. PICK w \in Workers : Worker(w)
    BY <1>5 DEF WorkerStep
  <2>2. UNCHANGED <<pc, req, page, todo, outClosed, streamUp>>
    BY <1>5, <2>1 DEF WorkerStep, Worker, taskVars
  <2>3. InOut' = InOut
    BY <1>1, <2>1, WorkerOnce
  <2>4. QED
    BY <2>2, <2>3, WantedKept
<1>6. CASE ConverterStep
  <2>1. UNCHANGED <<pc, req, page, todo, outClosed, streamUp>> /\ Converter
    BY <1>6 DEF ConverterStep, Converter
  <2>2. InOut \subseteq InOut'
    BY <1>1, <2>1, ConverterOnce
  <2>3. QED
    BY <2>1, <2>2, WantedKept
<1>7. CASE SenderStep
  <2>1. /\ UNCHANGED <<pc, req, page, outClosed, streamUp>> /\ Sender
        /\ UNCHANGED <<worker, toGet, cur, todo, txIn, conv>>
    BY <1>7 DEF SenderStep, Sender, SendItem, OutDrained, SenderCancelled, SendEnd, SignalFin,
                taskVars, pipeVars
  <2>2. streamUp => InOut' = InOut
    BY <1>1, <2>1, SenderOnce
  <2>3. QED
    BY <2>1, <2>2, WantedKept
<1>8. CASE FetchStep \/ SurroundingsStep \/ UNCHANGED vars
  <2>1. /\ UNCHANGED <<pc, req, page, todo, outClosed, out, answer>> /\ (streamUp' => streamUp)
    BY <1>8 DEF FetchStep, SurroundingsStep, Surroundings, Expire, Disconnect, vars, taskVars,
                pipeVars
  <2>2. InOut' = InOut
    BY <2>1, DeliveredUnmoved DEF InOut
  <2>3. QED
    BY <2>1, <2>2, WantedKept
<1>9. QED
  BY <1>2, <1>3, <1>4, <1>5, <1>6, <1>7, <1>8 DEF Next, Terminated, Handler

CompleteInv == LeftInv /\ DrainInv /\ EndInv /\ CoverInv /\ WantedInv

(* An END that sendResp sends because out was closed and drained closes a  *)
(* whole answer: all blocks of the range that the chain has, on however    *)
(* many pages and batches they were asked for, all their transactions but  *)
(* those of pages whose search failed, and their number.                   *)
THEOREM AnswersAreComplete ==
    ASSUME EndsAreSent
    PROVE  Spec => []CompleteAnswer
<1>1. Init => CompleteInv
  <2> SUFFICES ASSUME Init PROVE CompleteInv
    OBVIOUS
  <2>1. EndInv /\ LeftInv /\ DrainInv
    BY EndInit, DrainInit DEF Init, SendRespInit
  <2>2. pc = "start" /\ page = 0 /\ ~outClosed
    BY DEF Init, TaskInit
  <2>3. QED
    BY <2>1, <2>2 DEF CompleteInv, CoverInv, WantedInv, Pursuing, Fetching
<1>2. IInv /\ SenderInv /\ FailureInv /\ PageInv /\ RangeAnswerInv /\ CompleteInv /\ [Next]_vars
        => CompleteInv'
  BY LeftNext, CoverNext, WantedNext DEF CompleteInv
<1>3. IInv /\ RangeAnswerInv /\ CompleteInv => CompleteAnswer
  <2> SUFFICES ASSUME IInv, RangeAnswerInv, CompleteInv,
                      spc \in {"fin", "done"}, ~contextDone, streamUp
               PROVE  /\ Delivered = Kept
                      /\ \E n \in OfType("END") : answer[n].order = Cardinality(Kept)
    BY DEF CompleteAnswer
  <2> DEFINE H == {h \in 1..Top : h \in req[1]..req[2]}
  <2>1. outClosed /\ out = <<>> /\ pc \in {"waitFin", "done"} /\ IsRange
    BY DEF CompleteInv, EndInv, IInv, ChannelsSafe, WantedInv
  <2>2. Later = {} /\ todo = {} /\ pc \notin Feeding
    BY <2>1, Drained DEF CompleteInv, Later, Fetching, Feeding
  <2>3. Touched \subseteq H
    <3>1. Touched \subseteq 1..Top
      <4>1. OpenPages = {} /\ Found = InOut /\ pc # "pages"
        BY <2>2, Drained DEF CompleteInv, Feeding
      <4>2. Found \subseteq Items
        BY FoundType DEF RangeAnswerInv, IInv
      <4>3. \A x \in Items : x[1] \in 1..Top
        BY ItemParts
      <4>4. QED
        BY <4>1, <4>2, <4>3 DEF Touched
    <3>2. QED
      BY <3>1 DEF RangeAnswerInv, RangeOnceInv
  <2>4. \A h \in H : <<h, 0>> \in InOut
    BY <2>1, <2>2 DEF CompleteInv, WantedInv, Pursuing
  <2> HIDE DEF H
  <2>5. Delivered = {x \in Items : /\ x[1] \in H
                                   /\ x[2] > 0 => \A p \in lost : x \notin TxsOf({p})}
    BY <2>1, <2>2, <2>3, <2>4, NothingLeft DEF CompleteInv, RangeAnswerInv
  <2>6. \A x \in Items : x \in WantedItems <=> x[1] \in H
    BY <2>1, ItemParts DEF WantedItems, H
  <2>7. WantedItems \subseteq Items
    BY DEF WantedItems
  <2>8. Delivered = Kept
    BY <2>5, <2>6, <2>7 DEF Kept
  <2>9. QED
    BY <2>8 DEF CompleteInv, EndInv
<1>4. QED
  BY <1>1, <1>2, <1>3, RangeInvariance, PTL DEF Spec

-----------------------------------------------------------------------------
(* The summary of a page's blocks.                                         *)

(***************************************************************************)
(* The batches of a page lie one after the other, the map holds heights of *)
(* those started only, and what a batch holds or may get is new to it.     *)
(***************************************************************************)
MergeInv ==
    pc \in Fetching =>
        /\ \A f \in DOMAIN fetch :
              /\ NewTo(blocks, fetch[f])
              /\ \A g \in DOMAIN fetch : f < g => fetch[f].hi < fetch[g].lo
        /\ pc = "spawn" =>
              /\ \A f \in DOMAIN fetch : fetch[f].hi < BatchStart(page, Len(fetch))
              /\ \A h \in blocks : h < BatchStart(page, Len(fetch))

SummaryInv == SummaryOf(blocks, summary)

LEMMA MergeUnmoved ==
    ASSUME MergeInv, UNCHANGED <<req, page, fetch, blocks>>,
           pc' = pc \/ pc' \notin Fetching
    PROVE  MergeInv'
BY DEF MergeInv, PageStart, BatchStart, Fetching, NewTo

(* A batch merges one of its own heights, which no other has.              *)
LEMMA MergeFetch ==
    ASSUME IInv, PageInv, MergeInv, SummaryInv, FetchStep
    PROVE  MergeInv' /\ SummaryInv'
<1>1. PICK f \in DOMAIN fetch : Fetcher(f)
  BY DEF FetchStep
<1>2. UNCHANGED <<pc, req, page>> /\ pc \in Fetching
  BY <1>1, FetcherReports DEF FetchStep, taskVars, IInv, FetchersInv, Fetching
<1>3. \A g \in DOMAIN fetch :
        /\ 1 <= fetch[g].hi /\ Range(fetch[g].metas) \subseteq fetch[g].lo .. fetch[g].hi
        /\ fetch[g].lo \in Nat /\ fetch[g].hi \in Nat /\ NewTo(blocks, fetch[g])
  <2>1. \A g \in DOMAIN fetch : fetch[g] \in FetchRecords
    BY DEF IInv, BlocksFetchDataOK
  <2>2. QED
    BY <1>2, <2>1 DEF PageInv, MergeInv, FetchRecords
<1>4. /\ DOMAIN fetch' = DOMAIN fetch
      /\ \A g \in DOMAIN fetch : g # f => fetch'[g] = fetch[g]
      /\ fetch'[f].lo = fetch[f].lo /\ fetch'[f].hi = fetch[f].hi
  BY <1>1, <1>3, FetcherHeights DEF IInv
<1>5. /\ NewTo(blocks', fetch'[f])
      /\ \/ UNCHANGED <<blocks, summary>>
         \/ \E h \in Range(fetch[f].metas) :
               /\ h \in (1..Top) \ blocks
               /\ blocks' = blocks \cup {h} /\ summary' = WithBlock(summary, h)
  BY <1>1, <1>3, FetcherMerges DEF IInv
<1>6. SummaryInv'
  <2>1. CASE UNCHANGED <<blocks, summary>>
    BY <2>1 DEF SummaryInv
  <2>2. CASE \E h \in (1..Top) \ blocks :
               blocks' = blocks \cup {h} /\ summary' = WithBlock(summary, h)
    <3>1. PICK h \in (1..Top) \ blocks :
            blocks' = blocks \cup {h} /\ summary' = WithBlock(summary, h)
      BY <2>2
    <3>2. SummaryOf(blocks \cup {h}, WithBlock(summary, h))
      BY SummaryGrows DEF IInv, BlocksFetchDataOK, SummaryInv
    <3>3. QED
      BY <3>1, <3>2 DEF SummaryInv
  <2>3. QED
    BY <1>5, <2>1, <2>2
<1>7. blocks' \subseteq blocks \cup (fetch[f].lo .. fetch[f].hi)
  BY <1>3, <1>5
<1>8. \A g \in DOMAIN fetch : NewTo(blocks', fetch'[g])
  <2> SUFFICES ASSUME NEW g \in DOMAIN fetch PROVE NewTo(blocks', fetch'[g])
    OBVIOUS
  <2>1. CASE g = f
    BY <1>5, <2>1
  <2>2. CASE g # f
    <3>1. \A i, j \in DOMAIN fetch : i < j => fetch[i].hi < fetch[j].lo
      BY <1>2 DEF MergeInv
    <3>2. DOMAIN fetch = 1..Len(fetch) /\ Len(fetch) \in Nat
      BY DEF IInv, BlocksFetchDataOK
    <3>3. (fetch[f].lo .. fetch[f].hi) \cap (fetch[g].lo .. fetch[g].hi) = {}
      <4>1. f < g \/ g < f
        BY <2>2, <3>2
      <4>2. fetch[f].hi < fetch[g].lo \/ fetch[g].hi < fetch[f].lo
        BY <3>1, <4>1
      <4>3. QED
        BY <1>3, <4>2
    <3>4. NewTo(blocks, fetch[g]) /\ Range(fetch[g].metas) \subseteq fetch[g].lo .. fetch[g].hi
      BY <1>3
    <3>5. fetch'[g] = fetch[g]
      BY <1>4, <2>2
    <3>6. QED
      BY <1>7, <3>3, <3>4, <3>5 DEF NewTo
  <2>3. QED
    BY <2>1, <2>2
<1>9. \A g \in DOMAIN fetch : fetch'[g].lo = fetch[g].lo /\ fetch'[g].hi = fetch[g].hi
  BY <1>4
<1>10. BatchStart(page, Len(fetch))' = BatchStart(page, Len(fetch))
  <2>1. Len(fetch') = Len(fetch)
    BY <1>1, FetcherReports DEF IInv, FetchersInv
  <2>2. QED
    BY <1>2, <2>1 DEF PageStart, BatchStart
<1>11. ASSUME pc = "spawn"
       PROVE  \A h \in blocks' : h < BatchStart(page, Len(fetch))
  <2> DEFINE next == BatchStart(page, Len(fetch))
  <2>1. fetch[f].hi < next /\ \A h \in blocks : h < next
    BY <1>11, <1>2 DEF MergeInv
  <2>2. next \in Nat
    <3>1. req \in Nat \X Nat /\ page \in Nat /\ Len(fetch) \in Nat
      BY <1>11 DEF IInv, HandlerDataOK, RangeInv, BlocksFetchDataOK
    <3>2. QED
      BY <3>1, BatchType
  <2> HIDE DEF next
  <2>3. \A h \in fetch[f].lo .. fetch[f].hi : h < next
    BY <1>3, <2>1, <2>2
  <2>4. \A h \in blocks' : h < next
    BY <1>7, <2>1, <2>3
  <2>5. QED
    BY <2>4 DEF next
<1>12. MergeInv'
  BY <1>2, <1>4, <1>8, <1>9, <1>10, <1>11 DEF MergeInv
<1>13. QED
  BY <1>6, <1>12

(* The next batch starts after the last one, with nothing of it in the map.*)
LEMMA MergeSpawn ==
    ASSUME IInv, PageInv, MergeInv, SpawnBatch
    PROVE  MergeInv'
<1>1. /\ pc = "spawn" /\ pc' \in Fetching /\ UNCHANGED <<req, page, ctrl, got, nerr, blocks, summary>>
      /\ GoFetch(BatchStart(page, Len(fetch)), BatchEnd(page, Len(fetch)))
  BY DEF SpawnBatch, Fetching
<1>2. /\ req \in Nat \X Nat /\ page \in Nat /\ Len(fetch) \in Nat /\ DOMAIN fetch = 1..Len(fetch)
      /\ BatchLimit \in Nat /\ BatchLimit >= 1 /\ blocks \subseteq 1..Top
  BY <1>1, BlocksFetchAssumption
  DEF IInv, HandlerDataOK, RangeInv, BlocksFetchDataOK, BlocksFetchAssumption
<1> DEFINE lo == BatchStart(page, Len(fetch))
           hi == BatchEnd(page, Len(fetch))
           n == Len(fetch) + 1
<1>3. /\ lo \in Nat /\ hi \in Nat /\ PageStart(page) \in Nat /\ PageEnd(page) \in Nat
  BY <1>2, BatchType, PageBounds
<1>4. hi <= lo + BatchLimit - 1
  BY <1>2, <1>3 DEF BatchEnd, Least
<1>5. BatchStart(page, n) = lo + BatchLimit
  <2>1. n * BatchLimit = Len(fetch) * BatchLimit + BatchLimit /\ Len(fetch) * BatchLimit \in Nat
    BY <1>2
  <2>2. QED
    BY <1>2, <1>3, <2>1 DEF BatchStart
<1>6. GoFetch(lo, hi)
  BY <1>1
<1>7. /\ \A f \in 1..Len(fetch) : /\ fetch[f].hi < lo /\ NewTo(blocks, fetch[f]) /\ fetch[f].hi \in Nat
                                  /\ \A g \in 1..Len(fetch) : f < g => fetch[f].hi < fetch[g].lo
      /\ \A h \in blocks : h < lo /\ h \in Nat
  <2>1. \A g \in DOMAIN fetch : fetch[g].hi \in Nat
    <3>1. \A g \in DOMAIN fetch : fetch[g] \in FetchRecords
      BY DEF IInv, BlocksFetchDataOK
    <3>2. QED
      BY <3>1 DEF FetchRecords
  <2>2. \A h \in blocks : h \in Nat
    BY <1>2, ChainAssumption DEF ChainAssumption
  <2>3. /\ \A f \in DOMAIN fetch : /\ fetch[f].hi < lo /\ NewTo(blocks, fetch[f])
                                  /\ \A g \in DOMAIN fetch : f < g => fetch[f].hi < fetch[g].lo
        /\ \A h \in blocks : h < lo
    BY <1>1 DEF MergeInv, Fetching
  <2>4. QED
    BY <1>2, <2>1, <2>2, <2>3
<1>8. BatchStart(page, Len(fetch))' = lo + BatchLimit
  <2>1. Len(fetch') = n
    BY <1>1, <1>3, <1>6, GoFetchOK DEF IInv, BlocksFetchDataOK
  <2>2. BatchStart(page, Len(fetch))' = BatchStart(page, n)
    BY <1>1, <2>1 DEF BatchStart, PageStart
  <2>3. QED
    BY <1>5, <2>2
<1> HIDE DEF lo, hi
<1>9. /\ Len(fetch') = n /\ \A f \in 1..Len(fetch) : fetch'[f] = fetch[f]
      /\ fetch'[n] = [pc |-> "limit", lo |-> lo, hi |-> hi, metas |-> <<>>, report |-> "ok"]
      /\ fetch' \in Seq(FetchRecords)
  BY <1>1, <1>3, <1>6, GoFetchOK DEF IInv, BlocksFetchDataOK
<1>10. fetch'[n].lo = lo /\ fetch'[n].hi = hi /\ fetch'[n].metas = <<>>
  BY <1>9
<1>11. (lo..hi) \cap blocks = {}
  BY <1>3, <1>7
<1>12. NewTo(blocks', fetch'[n])
  BY <1>1, <1>10, <1>11, QueueEmpty DEF NewTo
<1>13. DOMAIN fetch' = (1..Len(fetch)) \cup {n} /\ \A f \in 1..Len(fetch) : f < n /\ ~(n < f)
  <2>1. DOMAIN fetch' = 1..n
    BY <1>9
  <2>2. QED
    BY <1>2, <2>1
<1>14. ~(n < n) /\ n \in Nat
  BY <1>2
<1> HIDE DEF n
<1>15. \A f \in DOMAIN fetch' : NewTo(blocks', fetch'[f])
  BY <1>1, <1>7, <1>9, <1>12, <1>13
<1>16. \A f, g \in DOMAIN fetch' : f < g => fetch'[f].hi < fetch'[g].lo
  BY <1>7, <1>9, <1>10, <1>13, <1>14
<1>17. \A f \in DOMAIN fetch' : fetch'[f].hi < lo + BatchLimit
  <2>1. \A f \in 1..Len(fetch) : fetch[f].hi < lo + BatchLimit
    BY <1>2, <1>3, <1>7
  <2>2. hi < lo + BatchLimit
    BY <1>2, <1>3, <1>4
  <2>3. QED
    BY <1>9, <1>10, <1>13, <2>1, <2>2
<1>18. \A h \in blocks' : h < lo + BatchLimit
  BY <1>1, <1>2, <1>3, <1>7
<1>19. QED
  BY <1>8, <1>15, <1>16, <1>17, <1>18 DEF MergeInv

LEMMA MergeNext ==
    ASSUME IInv, PageInv, MergeInv, SummaryInv, [Next]_vars
    PROVE  MergeInv' /\ SummaryInv'
<1>1. CASE FetchStep
  BY <1>1, MergeFetch
<1>2. CASE SpawnBatch
  <2>1. UNCHANGED <<blocks, summary>>
    BY <1>2 DEF SpawnBatch
  <2>2. QED
    BY <1>2, <2>1, MergeSpawn DEF SummaryInv
<1>3. CASE BeginPage
  <2>1. fetch' = <<>> /\ blocks' = {} /\ summary' = EmptySummary
    BY <1>3 DEF BeginPage, FreshFetch
  <2>2. QED
    BY <2>1, SummaryOfNothing DEF MergeInv, SummaryInv
<1>4. CASE /\ UNCHANGED <<req, page, fetch, blocks, summary>>
           /\ pc' = pc \/ pc' \notin Fetching
  BY <1>4, MergeUnmoved DEF SummaryInv
<1>5. CASE Collect
  <2>1. /\ pc = "collect" /\ pc' \in {"collect", "failed", "launch"}
        /\ UNCHANGED <<req, page, fetch, blocks, summary>>
    BY <1>5 DEF Collect, CollectReport
  <2>2. QED
    BY <1>4, <2>1 DEF Fetching
<1>6. CASE RefusePayload \/ ZeroEndHeight \/ StartSender \/ ReportFailure \/ WaitFin
           \/ EndPage \/ LaunchPipeline \/ FeedPipeline
  <2>1. pc' \notin Fetching /\ UNCHANGED <<blocks, summary>>
    BY <1>6 DEF RefusePayload, ZeroEndHeight, StartSender, ReportFailure, WaitFin, EndPage,
                LaunchPipeline, Launch, FeedPipeline, PipelineMain, SendBlock, QueuePage,
                CloseToGet, CloseTxIn, Fetching, fetchVars
  <2>2. QED
    BY <2>1 DEF MergeInv, SummaryInv
<1>7. CASE WorkerStep \/ ConverterStep \/ UNCHANGED vars
  BY <1>4, <1>7 DEF WorkerStep, Worker, ConverterStep, Converter, vars, taskVars, fetchVars
<1>8. CASE SenderStep \/ SurroundingsStep
  BY <1>4, <1>8 DEF SenderStep, Sender, SendItem, OutDrained, SenderCancelled, SendEnd, SignalFin,
                    SurroundingsStep, Surroundings, Expire, Disconnect, taskVars, fetchVars
<1>9. QED
  BY <1>1, <1>2, <1>3, <1>5, <1>6, <1>7, <1>8 DEF Next, Handler, Terminated

(* The summary GetBlocksMeta keeps (block.go) counts the transactions of   *)
(* the blocks in the map, each once, and has their lowest and highest, in  *)
(* whatever order the batches of a page merge theirs.                      *)
THEOREM SummariesCount ==
    ASSUME EndsAreSent
    PROVE  Spec => []SummaryCounts
<1>1. Init => MergeInv /\ SummaryInv
  <2> SUFFICES ASSUME Init PROVE MergeInv /\ SummaryInv
    OBVIOUS
  <2>1. pc = "start" /\ blocks = {} /\ summary = EmptySummary
    BY DEF Init, TaskInit, BlocksFetchInit
  <2>2. QED
    BY <2>1, SummaryOfNothing DEF MergeInv, SummaryInv, Fetching
<1>2. IInv /\ PageInv /\ MergeInv /\ SummaryInv /\ [Next]_vars => MergeInv' /\ SummaryInv'
  BY MergeNext
<1>3. SummaryInv => SummaryCounts
  <2>1. TxsIn(blocks) = TxsOfBlocks
    BY DEF TxsIn, TxsOfBlocks
  <2>2. QED
    BY <2>1 DEF SummaryInv, SummaryOf, SummaryCounts
<1>4. QED
  BY <1>1, <1>2, <1>3, RangeInvariance, PTL DEF Spec
=============================================================================
