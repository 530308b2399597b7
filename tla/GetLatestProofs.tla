--------------------------- MODULE GetLatestProofs ---------------------------
(***************************************************************************)
(* Theorems about GetLatest, for every chain, every payload, every         *)
(* capacity and every number of workers: types and channels, and the       *)
(* numbers, the error, the promise and the completeness of its answer.     *)
(***************************************************************************)
EXTENDS GetLatest, BlockTaskProofs

(***************************************************************************)
(* The inductive invariant of the data.  The newest batch is entry 1 of    *)
(* fetch; the handler reads its report alone, before there is another.     *)
(***************************************************************************)
Spawning == {"clamp", "cut", "go", "more"}
Fetching == {"newest", "collect"} \cup Spawning

FetchersInv ==
    /\ ReportsCounted
    /\ pc # "done" => ~ctrlClosed
    /\ pc = "start" => fetch = <<>>
    /\ pc # "start" => Len(fetch) >= 1
    /\ pc = "newest" => got = 0 /\ Len(fetch) = 1
    /\ pc \notin Fetching => DoneFetchers = 1..Len(fetch)

Flags ==
    {ctxDone, streamUp, outClosed, contextDone, ctrlClosed, toGetClosed, txInClosed}
        \subseteq BOOLEAN

HandlerDataOK ==
    /\ pc \in {"start", "plan", "failed", "launch", "done"} \cup Fetching \cup Feeding
    /\ req \in LastHeights /\ start \in 0..Word - 1 /\ hi \in Nat
    /\ summary.end <= Top

IInv ==
    /\ Flags
    /\ HandlerDataOK /\ TaskDataOK(Items) /\ SendRespDataOK
    /\ BlocksFetchDataOK /\ TxPipelineDataOK
    /\ PagesInv /\ FetchersInv /\ ChannelsSafe

-----------------------------------------------------------------------------

(* A height in the arithmetic of uint64 is a height again.                 *)
LEMMA StartingHeightType ==
    ASSUME req \in LastHeights, NEW chain \in 0..Top
    PROVE  StartingHeight(LastHeight, chain) \in 0..Word - 1
<1>1. Word \in Nat /\ Word >= 1 /\ Top \in Nat /\ Top < Word /\ MaxHeights \in Nat
  BY GetLatestAssumption, ChainAssumption DEF GetLatestAssumption, ChainAssumption
<1>2. LastHeight \in 0..Top
  BY <1>1, GetLatestAssumption DEF GetLatestAssumption, LastHeight
<1>3. Minus(chain, MaxHeights) \in 0..Word - 1
  BY <1>1 DEF Minus
<1>4. ~(MaxHeights > chain) => chain - MaxHeights \in 0..Word - 1
  BY <1>1
<1>5. QED
  BY <1>1, <1>2, <1>3, <1>4 DEF StartingHeight

(* Heights of the chain are merged into the summary only.                  *)
LEMMA FetcherSummary ==
    ASSUME BlocksFetchDataOK, summary.end <= Top, NEW f \in DOMAIN fetch, Fetcher(f)
    PROVE  summary'.end <= Top
<1>1. CASE MergeBlock(f)
  <2>1. fetch[f] \in FetchRecords /\ fetch[f].metas # <<>>
    BY <1>1 DEF BlocksFetchDataOK, MergeBlock
  <2>2. Head(fetch[f].metas) \in 1..Top
    <3>1. fetch[f].metas \in Seq(1..Top)
      BY <2>1 DEF FetchRecords
    <3>2. QED
      BY <2>1, <3>1, SequenceTail
  <2>3. summary' = WithBlock(summary, Head(fetch[f].metas))
    BY <1>1 DEF MergeBlock
  <2>4. Top \in Nat
    BY ChainAssumption DEF ChainAssumption
  <2>5. QED
    BY <2>2, <2>3, <2>4 DEF WithBlock
<1>2. CASE ~MergeBlock(f)
  <2>1. summary' = summary
    BY <1>2 DEF Fetcher, AskLimiter, GetMetas, LockBlocks, UnlockBlocks, ReportBatch
  <2>2. QED
    BY <2>1
<1>3. QED
  BY <1>1, <1>2

(* The flags are Boolean.                                                  *)
LEMMA FlagsKept ==
    ASSUME Flags, [Next]_vars
    PROVE  Flags'
<1> USE DEF Flags
<1>1. CASE AskNewest \/ TakeNewest \/ Plan \/ Clamp \/ Cut \/ SpawnBatch \/ MoreBatches \/ Collect
  <2>1. UNCHANGED <<ctxDone, streamUp, outClosed, ctrlClosed, sendVars, pipeVars>>
    BY <1>1 DEF AskNewest, TakeNewest, Plan, Clamp, Cut, SpawnBatch, MoreBatches, Collect,
                CollectReport, fetchVars
  <2>2. QED
    BY <2>1 DEF sendVars, pipeVars
<1>2. CASE ReportFailure \/ Return
  BY <1>2 DEF ReportFailure, Return, sendVars, pipeVars
<1>3. CASE LaunchPipeline
  BY <1>3 DEF LaunchPipeline, Launch, fetchVars
<1>4. CASE FeedPipeline
  BY <1>4 DEF FeedPipeline, PipelineMain, SendBlock, QueuePage, CloseToGet, CloseTxIn,
              sendVars, fetchVars
<1>5. CASE FetchStep
  BY <1>5 DEF FetchStep, Fetcher, AskLimiter, GetMetas, LockBlocks, MergeBlock,
              UnlockBlocks, ReportBatch, taskVars, sendVars, pipeVars
<1>6. CASE WorkerStep
  BY <1>6 DEF WorkerStep, Worker, taskVars, sendVars, fetchVars
<1>7. CASE ConverterStep
  BY <1>7 DEF ConverterStep, Converter, sendVars, fetchVars
<1>8. CASE SenderStep
  <2>1. UNCHANGED <<ctxDone, streamUp, outClosed>>
    BY <1>8 DEF SenderStep, Sender, SendItem, OutDrained, SenderCancelled, SendEnd, SignalFin, taskVars
  <2>2. contextDone' \in BOOLEAN
    BY <1>8 DEF SenderStep, Sender, SendItem, OutDrained, SenderCancelled, SendEnd, SignalFin
  <2>3. UNCHANGED <<ctrlClosed, toGetClosed, txInClosed>>
    BY <1>8 DEF SenderStep, fetchVars, pipeVars
  <2>4. QED
    BY <2>1, <2>2, <2>3
<1>9. CASE SurroundingsStep
  BY <1>9 DEF SurroundingsStep, Surroundings, Expire, Disconnect, sendVars, fetchVars, pipeVars
<1>10. CASE UNCHANGED vars
  BY <1>10 DEF vars, taskVars, sendVars, fetchVars, pipeVars
<1>11. QED
  BY <1>1, <1>2, <1>3, <1>4, <1>5, <1>6, <1>7, <1>8, <1>9, <1>10 DEF Next, Terminated, Handler

-----------------------------------------------------------------------------
(* The steps of the other goroutines and of the surroundings.              *)

LEMMA FetchStepInv ==
    ASSUME IInv, FetchStep
    PROVE  IInv'
<1>1. PICK f \in DOMAIN fetch : Fetcher(f)
  BY DEF FetchStep
<1>2. UNCHANGED <<pc, out, answer, outClosed, spc, order, req, start, hi>>
  BY DEF FetchStep, taskVars, sendVars
<1>3. UNCHANGED <<todo, cur, toGet, toGetClosed, worker, txIn, txInClosed, conv, lost>>
  BY DEF FetchStep, pipeVars
<1>4. BlocksFetchDataOK' /\ summary'.end <= Top
  BY <1>1, FetcherDataOK, FetcherSummary DEF IInv, HandlerDataOK
<1>5. /\ ReportsCounted' /\ DoneFetchers # 1..Len(fetch)
      /\ Len(fetch') = Len(fetch) /\ UNCHANGED <<ctrlClosed, got>>
  BY <1>1, FetcherReports DEF IInv, FetchersInv
<1>6. pc \in Fetching /\ ~ctrlClosed
  <2>1. pc \in Fetching
    BY <1>5 DEF IInv, FetchersInv
  <2>2. QED
    BY <2>1 DEF IInv, FetchersInv, Fetching, Spawning
<1>7. TaskDataOK(Items)' /\ SendRespDataOK' /\ TxPipelineDataOK' /\ PagesInv'
  BY <1>2, <1>3, TaskUnmoved, SendRespUnmoved, TxPipelineUnmoved, PagesUnmoved DEF IInv
<1>8. HandlerDataOK'
  BY <1>2, <1>4 DEF IInv, HandlerDataOK
<1>9. FetchersInv'
  BY <1>2, <1>5, <1>6 DEF IInv, FetchersInv, Fetching, Spawning
<1>10. ChannelsSafe'
  BY <1>2, <1>3, <1>5, <1>6 DEF IInv, ChannelsSafe
<1>11. Flags'
  BY FlagsKept DEF IInv, Next
<1>12. QED
  BY <1>4, <1>7, <1>8, <1>9, <1>10, <1>11 DEF IInv

(* Whatever leaves the handler's data and the fetchers alone keeps what is *)
(* said of them.                                                           *)
LEMMA HandlerUnmoved ==
    ASSUME IInv, UNCHANGED <<pc, req, start, hi>>, UNCHANGED fetchVars
    PROVE  HandlerDataOK' /\ BlocksFetchDataOK' /\ FetchersInv'
<1>1. UNCHANGED <<fetch, ctrl, ctrlClosed, got, nerr, blocks, summary>>
  BY DEF fetchVars
<1>2. BlocksFetchDataOK' /\ ReportsCounted' /\ DoneFetchers' = DoneFetchers
  BY <1>1, BlocksFetchUnmoved, FetchersUnmoved DEF IInv, FetchersInv
<1>3. QED
  BY <1>1, <1>2 DEF IInv, HandlerDataOK, FetchersInv

LEMMA WorkerStepInv ==
    ASSUME IInv, WorkerStep
    PROVE  IInv'
<1>1. PICK w \in Workers : Worker(w)
  BY DEF WorkerStep
<1>2. UNCHANGED <<pc, out, answer, outClosed, spc, order, req, start, hi>>
  BY <1>1 DEF WorkerStep, Worker, taskVars, sendVars
<1>3. UNCHANGED <<fetch, ctrlClosed, toGetClosed, txInClosed, conv>>
  BY <1>1 DEF WorkerStep, Worker, fetchVars
<1>4. TxPipelineDataOK' /\ PagesInv'
  BY <1>1, WorkerOK DEF IInv
<1>5. TaskDataOK(Items)' /\ SendRespDataOK' /\ HandlerDataOK' /\ BlocksFetchDataOK' /\ FetchersInv'
  BY <1>2, TaskUnmoved, SendRespUnmoved, HandlerUnmoved DEF IInv, WorkerStep
<1>6. ~txInClosed
  <2>1. worker[w].pc # "done"
    BY <1>1 DEF Worker, TakePage, WorkerDone, AskSearchLimiter, Search, PutTx, PageDone
  <2>2. QED
    BY <2>1 DEF IInv, ChannelsSafe
<1>7. ChannelsSafe'
  BY <1>2, <1>3, <1>6 DEF IInv, ChannelsSafe
<1>8. Flags'
  BY FlagsKept DEF IInv, Next
<1>9. QED
  BY <1>4, <1>5, <1>7, <1>8 DEF IInv

LEMMA ConverterStepInv ==
    ASSUME IInv, ConverterStep
    PROVE  IInv'
<1>1. UNCHANGED <<pc, answer, outClosed, spc, order, req, start, hi>>
  BY DEF ConverterStep, Converter, sendVars
<1>2. UNCHANGED <<fetch, ctrlClosed, toGetClosed, worker, txInClosed>>
  BY DEF ConverterStep, Converter, fetchVars
<1>3. TaskDataOK(Items)' /\ TxPipelineDataOK' /\ PagesInv' /\ conv.pc # "done"
  BY ConverterOK DEF IInv, ConverterStep
<1>4. SendRespDataOK' /\ HandlerDataOK' /\ BlocksFetchDataOK' /\ FetchersInv'
  BY <1>1, SendRespUnmoved, HandlerUnmoved DEF IInv, ConverterStep
<1>5. ChannelsSafe'
  BY <1>1, <1>2, <1>3 DEF IInv, ChannelsSafe
<1>6. Flags'
  BY FlagsKept DEF IInv, Next
<1>7. QED
  BY <1>3, <1>4, <1>5, <1>6 DEF IInv

LEMMA SenderStepInv ==
    ASSUME IInv, SenderStep
    PROVE  IInv'
<1>1. UNCHANGED <<pc, outClosed, req, start, hi>>
  BY DEF SenderStep, Sender, SendItem, OutDrained, SenderCancelled, SendEnd, SignalFin, taskVars
<1>2. UNCHANGED <<todo, cur, toGet, toGetClosed, worker, txIn, txInClosed, conv, lost>>
  BY DEF SenderStep, pipeVars
<1>3. TaskDataOK(Items)' /\ SendRespDataOK'
  BY SenderOK DEF IInv, SenderStep
<1>4. HandlerDataOK' /\ BlocksFetchDataOK' /\ FetchersInv'
  BY <1>1, HandlerUnmoved DEF SenderStep
<1>5. TxPipelineDataOK' /\ PagesInv'
  BY <1>1, <1>2, TxPipelineUnmoved, PagesUnmoved DEF IInv
<1>6. ChannelsSafe'
  BY <1>1, <1>2 DEF IInv, ChannelsSafe, SenderStep, fetchVars
<1>7. Flags'
  BY FlagsKept DEF IInv, Next
<1>8. QED
  BY <1>3, <1>4, <1>5, <1>6, <1>7 DEF IInv

(* The surroundings, and steps that change nothing.                        *)
LEMMA SurroundingsStepInv ==
    ASSUME IInv, SurroundingsStep \/ UNCHANGED vars
    PROVE  IInv'
<1>1. UNCHANGED <<pc, out, outClosed, answer, req, start, hi, spc, order>> /\ UNCHANGED fetchVars
  BY DEF SurroundingsStep, Surroundings, Expire, Disconnect, sendVars, vars, taskVars
<1>2. UNCHANGED <<todo, cur, toGet, toGetClosed, worker, txIn, txInClosed, conv, lost>>
  BY DEF SurroundingsStep, pipeVars, vars
<1>3. TaskDataOK(Items)' /\ SendRespDataOK' /\ HandlerDataOK' /\ BlocksFetchDataOK' /\ FetchersInv'
  BY <1>1, TaskUnmoved, SendRespUnmoved, HandlerUnmoved DEF IInv
<1>4. TxPipelineDataOK' /\ PagesInv'
  BY <1>1, <1>2, TxPipelineUnmoved, PagesUnmoved DEF IInv
<1>5. ChannelsSafe'
  BY <1>1, <1>2 DEF IInv, ChannelsSafe, fetchVars
<1>6. Flags'
  BY FlagsKept DEF IInv, Next
<1>7. QED
  BY <1>3, <1>4, <1>5, <1>6 DEF IInv

-----------------------------------------------------------------------------
(* The steps of the handler before the pipeline.                           *)

(* They leave the pipeline, sendResp and out alone.                        *)
LEMMA PreparingInv ==
    ASSUME IInv, UNCHANGED <<streamUp, out, outClosed>>, UNCHANGED <<sendVars, pipeVars, req>>,
           UNCHANGED answer \/ Send(ErrorMark),
           pc \notin Feeding \cup {"done"}, pc' \notin Feeding
    PROVE  /\ TaskDataOK(Items)' /\ SendRespDataOK' /\ TxPipelineDataOK' /\ PagesInv'
           /\ ~outClosed' /\ UNCHANGED <<toGetClosed, txInClosed, worker, conv>>
<1>1. UNCHANGED <<todo, cur, toGet, toGetClosed, worker, txIn, txInClosed, conv, lost, spc, order>>
  BY DEF pipeVars, sendVars
<1>2. ErrorMark \in Responses(Items)
  BY DEF ErrorMark, Responses
<1>3. TaskDataOK(Items)'
  BY <1>2, TaskUnmoved, AnswerOK DEF IInv
<1>4. SendRespDataOK' /\ TxPipelineDataOK' /\ PagesInv'
  BY <1>1, SendRespUnmoved, TxPipelineUnmoved, PagesUnmoved DEF IInv, Feeding
<1>5. ~outClosed'
  BY DEF IInv, ChannelsSafe
<1>6. QED
  BY <1>1, <1>3, <1>4, <1>5

LEMMA AskNewestInv ==
    ASSUME IInv, AskNewest
    PROVE  IInv'
<1>1. /\ pc = "start" /\ pc' = "newest" /\ UNCHANGED <<streamUp, out, outClosed>>
      /\ UNCHANGED <<sendVars, pipeVars, req>> /\ (UNCHANGED answer \/ Send(ErrorMark))
      /\ UNCHANGED <<ctrl, ctrlClosed, got, nerr, blocks, summary, start, hi>> /\ GoFetch(0, 0)
  BY DEF AskNewest
<1>2. /\ TaskDataOK(Items)' /\ SendRespDataOK' /\ TxPipelineDataOK' /\ PagesInv'
      /\ ~outClosed' /\ UNCHANGED <<toGetClosed, txInClosed, worker, conv>>
  BY <1>1, PreparingInv DEF Feeding
<1>3. BlocksFetchDataOK' /\ DoneFetchers' = DoneFetchers /\ Len(fetch') = Len(fetch) + 1
  BY <1>1, GoFetchOK DEF IInv
<1>4. fetch = <<>> /\ Len(fetch) = 0 /\ Len(fetch') = 1 /\ DoneFetchers = {} /\ ~ctrlClosed
  BY <1>1, <1>3 DEF IInv, FetchersInv, DoneFetchers
<1>5. got = 0
  <2>1. got + Len(ctrl) = 0 /\ got \in Nat /\ Len(ctrl) \in Nat
    BY <1>4, FS_EmptySet DEF IInv, FetchersInv, ReportsCounted, BlocksFetchDataOK
  <2>2. QED
    BY <2>1
<1>6. FetchersInv'
  BY <1>1, <1>3, <1>4, <1>5 DEF IInv, FetchersInv, ReportsCounted, Fetching, Spawning
<1>7. HandlerDataOK'
  BY <1>1 DEF IInv, HandlerDataOK, Fetching
<1>8. ChannelsSafe'
  BY <1>1, <1>2, <1>4 DEF IInv, ChannelsSafe
<1>9. Flags'
  BY FlagsKept DEF IInv, Next, Handler
<1>10. QED
  BY <1>2, <1>3, <1>6, <1>7, <1>8, <1>9 DEF IInv

(* Nobody else has reported when the handler reads the newest batch's      *)
(* report.                                                                 *)
LEMMA NewestReport ==
    ASSUME IInv, TakeNewest
    PROVE  /\ Range(ctrl) = {Head(ctrl)} /\ ctrl' = <<>> /\ got' = 1
           /\ DoneFetchers = 1..Len(fetch) /\ Len(fetch) = 1 /\ Cardinality(DoneFetchers) = 1
<1>1. pc = "newest" /\ ctrl # <<>> /\ ctrl' = Tail(ctrl) /\ got' = 1
  BY DEF TakeNewest
<1>2. got = 0 /\ Len(fetch) = 1 /\ got + Len(ctrl) = Cardinality(DoneFetchers) /\ ctrl \in Seq(Report)
  BY <1>1 DEF IInv, FetchersInv, ReportsCounted, BlocksFetchDataOK
<1>3. /\ Cardinality(DoneFetchers) \in Nat /\ Cardinality(DoneFetchers) <= 1
      /\ Cardinality(DoneFetchers) = 1 => DoneFetchers = 1..Len(fetch)
  BY <1>2, DoneFetchersFinite DEF IInv
<1>4. Len(ctrl) = 1 /\ Cardinality(DoneFetchers) = 1
  BY <1>1, <1>2, <1>3
<1>5. Tail(ctrl) \in Seq(Report) /\ Len(Tail(ctrl)) = 0
  BY <1>1, <1>2, <1>4, SequenceTail
<1>6. Tail(ctrl) = <<>>
  <2>1. ASSUME NEW s \in Seq(Report), Len(s) = 0
        PROVE  s = <<>>
    BY <2>1
  <2>2. QED
    BY <1>5, <2>1
<1>7. Range(ctrl) = {Head(ctrl)}
  BY <1>1, <1>2, <1>6, QueueTail, QueueEmpty
<1>8. QED
  BY <1>1, <1>2, <1>3, <1>4, <1>6, <1>7

LEMMA TakeNewestInv ==
    ASSUME IInv, TakeNewest
    PROVE  IInv'
<1>1. /\ pc = "newest" /\ pc' \in {"failed", "plan"} /\ UNCHANGED <<streamUp, out, outClosed>>
      /\ UNCHANGED <<sendVars, pipeVars, req>> /\ UNCHANGED answer
      /\ UNCHANGED <<fetch, ctrlClosed, nerr, blocks, summary, start, hi>>
  BY DEF TakeNewest
<1>2. /\ TaskDataOK(Items)' /\ SendRespDataOK' /\ TxPipelineDataOK' /\ PagesInv'
      /\ ~outClosed' /\ UNCHANGED <<toGetClosed, txInClosed, worker, conv>>
  BY <1>1, PreparingInv DEF Feeding
<1>3. /\ ctrl' = <<>> /\ got' = 1
      /\ DoneFetchers = 1..Len(fetch) /\ Len(fetch) = 1 /\ Cardinality(DoneFetchers) = 1
  BY NewestReport
<1>4. ctrl' \in Seq(Report) /\ Len(ctrl') = 0
  BY <1>3
<1>5. BlocksFetchDataOK'
  BY <1>1, <1>3, <1>4, BlocksFetchAssumption DEF IInv, BlocksFetchDataOK, BlocksFetchAssumption
<1>6. DoneFetchers' = DoneFetchers
  BY <1>1 DEF DoneFetchers
<1>7. FetchersInv'
  BY <1>1, <1>3, <1>4, <1>6 DEF IInv, FetchersInv, ReportsCounted, Fetching
<1>8. HandlerDataOK'
  BY <1>1 DEF IInv, HandlerDataOK
<1>9. ChannelsSafe'
  BY <1>1, <1>2 DEF IInv, ChannelsSafe, FetchersInv
<1>10. Flags'
  BY FlagsKept DEF IInv, Next, Handler
<1>11. QED
  BY <1>2, <1>5, <1>7, <1>8, <1>9, <1>10 DEF IInv

(* The steps that reckon the heights of the next batch.                    *)
LEMMA ReckonInv ==
    ASSUME IInv, Plan \/ Clamp \/ Cut \/ MoreBatches
    PROVE  IInv'
<1>1. /\ pc \in {"plan"} \cup Spawning /\ pc' \in {"launch", "collect"} \cup Spawning
      /\ pc' = "launch" => pc = "plan"
      /\ UNCHANGED <<streamUp, out, outClosed>>
      /\ UNCHANGED <<sendVars, pipeVars, req>> /\ UNCHANGED answer
      /\ UNCHANGED <<fetch, ctrl, ctrlClosed, got, nerr, blocks, summary>>
  BY DEF Plan, Clamp, Cut, MoreBatches, Spawning, fetchVars
<1>2. /\ TaskDataOK(Items)' /\ SendRespDataOK' /\ TxPipelineDataOK' /\ PagesInv'
      /\ ~outClosed' /\ UNCHANGED <<toGetClosed, txInClosed, worker, conv>>
  BY <1>1, PreparingInv DEF Feeding, Spawning
<1>3. BlocksFetchDataOK' /\ ReportsCounted' /\ DoneFetchers' = DoneFetchers
  BY <1>1, BlocksFetchUnmoved, FetchersUnmoved DEF IInv, FetchersInv
<1>4. FetchersInv'
  BY <1>1, <1>3 DEF IInv, FetchersInv, Fetching, Spawning
<1>5. /\ Word \in Nat /\ start \in 0..Word - 1 /\ start \in Nat /\ hi \in Nat
      /\ summary.end \in 0..Top /\ summary.start \in Nat
  <2>1. Word \in Nat /\ Top \in Nat
    BY GetLatestAssumption, ChainAssumption DEF GetLatestAssumption, ChainAssumption
  <2>2. summary.end \in Nat /\ summary.start \in Nat /\ summary.end <= Top
    BY DEF IInv, HandlerDataOK, BlocksFetchDataOK
  <2>3. QED
    BY <2>1, <2>2 DEF IInv, HandlerDataOK
<1>6. start' \in 0..Word - 1 /\ hi' \in Nat
  <2>1. CASE Plan
    <3>1. start' = StartingHeight(LastHeight, summary.end) /\ hi' = hi
      BY <2>1 DEF Plan
    <3>2. QED
      BY <1>5, <3>1, StartingHeightType DEF IInv, HandlerDataOK
  <2>2. CASE Clamp
    <3>1. start' = start /\ hi' = BatchStart + BatchLimit - 1 /\ pc = "clamp"
      BY <2>2 DEF Clamp
    <3>2. Len(fetch) \in Nat /\ Len(fetch) >= 1 /\ BatchLimit \in Nat /\ BatchLimit >= 1
      BY <3>1, BlocksFetchAssumption DEF IInv, FetchersInv, BlocksFetchDataOK, BlocksFetchAssumption
    <3>3. (Len(fetch) - 1) * BatchLimit \in Nat
      BY <3>2
    <3>4. QED
      BY <1>5, <3>1, <3>2, <3>3 DEF BatchStart
  <2>3. CASE Cut \/ MoreBatches
    BY <1>5, <2>3 DEF Cut, MoreBatches
  <2>4. QED
    BY <2>1, <2>2, <2>3
<1>7. HandlerDataOK'
  BY <1>1, <1>6 DEF IInv, HandlerDataOK, Fetching, Spawning
<1>8. ChannelsSafe'
  BY <1>1, <1>2 DEF IInv, ChannelsSafe, FetchersInv, Spawning
<1>9. Flags'
  BY FlagsKept DEF IInv, Next, Handler
<1>10. QED
  BY <1>2, <1>3, <1>4, <1>7, <1>8, <1>9 DEF IInv

(* The bounds of a batch.                                                  *)
LEMMA BatchType ==
    ASSUME IInv, Len(fetch) >= 1
    PROVE  BatchStart \in Nat
<1>1. Len(fetch) \in Nat /\ BatchLimit \in Nat /\ start \in Nat
  BY BlocksFetchAssumption, GetLatestAssumption
  DEF IInv, BlocksFetchDataOK, HandlerDataOK, BlocksFetchAssumption, GetLatestAssumption
<1>2. (Len(fetch) - 1) * BatchLimit \in Nat
  BY <1>1
<1>3. QED
  BY <1>1, <1>2 DEF BatchStart

LEMMA SpawnBatchInv ==
    ASSUME IInv, SpawnBatch
    PROVE  IInv'
<1>1. /\ pc = "go" /\ pc' = "more" /\ UNCHANGED <<streamUp, out, outClosed>>
      /\ UNCHANGED <<sendVars, pipeVars, req>> /\ UNCHANGED answer
      /\ UNCHANGED <<ctrl, ctrlClosed, got, nerr, blocks, summary, start, hi>>
      /\ GoFetch(BatchStart, hi)
  BY DEF SpawnBatch
<1>2. /\ TaskDataOK(Items)' /\ SendRespDataOK' /\ TxPipelineDataOK' /\ PagesInv'
      /\ ~outClosed' /\ UNCHANGED <<toGetClosed, txInClosed, worker, conv>>
  BY <1>1, PreparingInv DEF Feeding
<1>3. Len(fetch) \in Nat /\ Len(fetch) >= 1 /\ hi \in Nat /\ ~ctrlClosed
  BY <1>1 DEF IInv, FetchersInv, BlocksFetchDataOK, HandlerDataOK
<1>4. BlocksFetchDataOK' /\ DoneFetchers' = DoneFetchers /\ Len(fetch') = Len(fetch) + 1
  BY <1>1, <1>3, GoFetchOK, BatchType DEF IInv
<1>5. FetchersInv'
  BY <1>1, <1>3, <1>4 DEF IInv, FetchersInv, ReportsCounted, Fetching, Spawning
<1>6. HandlerDataOK'
  BY <1>1 DEF IInv, HandlerDataOK, Fetching, Spawning
<1>7. ChannelsSafe'
  BY <1>1, <1>2, <1>3 DEF IInv, ChannelsSafe
<1>8. Flags'
  BY FlagsKept DEF IInv, Next, Handler
<1>9. QED
  BY <1>2, <1>4, <1>5, <1>6, <1>7, <1>8 DEF IInv

LEMMA CollectInv ==
    ASSUME IInv, Collect
    PROVE  IInv'
<1>1. /\ BlocksFetchDataOK' /\ ReportsCounted' /\ DoneFetchers' = DoneFetchers
      /\ pc = "collect" /\ pc' \in {"collect", "failed", "launch"}
      /\ got' = Len(fetch) => DoneFetchers = 1..Len(fetch)
  BY CollectOK DEF IInv, FetchersInv, Collect
<1>2. /\ UNCHANGED <<streamUp, out, outClosed>>
      /\ UNCHANGED <<sendVars, pipeVars, req>> /\ UNCHANGED answer
      /\ UNCHANGED <<fetch, ctrlClosed, summary, start, hi>>
      /\ (pc' # "collect" => got' = Len(fetch))
  BY DEF Collect, CollectReport, AllReported
<1>3. /\ TaskDataOK(Items)' /\ SendRespDataOK' /\ TxPipelineDataOK' /\ PagesInv'
      /\ ~outClosed' /\ UNCHANGED <<toGetClosed, txInClosed, worker, conv>>
  BY <1>1, <1>2, PreparingInv DEF Feeding
<1>4. FetchersInv'
  BY <1>1, <1>2 DEF IInv, FetchersInv, Fetching
<1>5. HandlerDataOK'
  BY <1>1, <1>2 DEF IInv, HandlerDataOK, Fetching
<1>6. ChannelsSafe'
  BY <1>1, <1>2, <1>3 DEF IInv, ChannelsSafe, FetchersInv
<1>7. Flags'
  BY FlagsKept DEF IInv, Next, Handler
<1>8. QED
  BY <1>1, <1>3, <1>4, <1>5, <1>6, <1>7 DEF IInv

-----------------------------------------------------------------------------
(* The steps of the handler that start, feed and close the pipeline, and   *)
(* those it returns with.                                                  *)

LEMMA FeedingInv ==
    ASSUME IInv, pc \in {"launch", "range", "pages", "waitHttp"},
           pc' \in {"range", "pages", "waitHttp", "waitConv"},
           UNCHANGED <<outClosed, order, req, start, hi>>, UNCHANGED fetchVars,
           spc' = spc \/ spc' = "loop"
    PROVE  /\ HandlerDataOK' /\ SendRespDataOK' /\ BlocksFetchDataOK' /\ FetchersInv'
           /\ ~outClosed' /\ ~ctrlClosed'
<1>1. UNCHANGED <<fetch, ctrl, ctrlClosed, got, nerr, blocks, summary>>
  BY DEF fetchVars
<1>2. BlocksFetchDataOK' /\ ReportsCounted' /\ DoneFetchers' = DoneFetchers
  BY <1>1, BlocksFetchUnmoved, FetchersUnmoved DEF IInv, FetchersInv
<1>3. FetchersInv' /\ ~ctrlClosed'
  BY <1>1, <1>2 DEF IInv, FetchersInv, Fetching, Spawning
<1>4. HandlerDataOK' /\ SendRespDataOK'
  BY <1>1 DEF IInv, HandlerDataOK, SendRespDataOK, Feeding
<1>5. ~outClosed'
  BY DEF IInv, ChannelsSafe
<1>6. QED
  BY <1>2, <1>3, <1>4, <1>5

LEMMA LaunchInv ==
    ASSUME IInv, LaunchPipeline
    PROVE  IInv'
<1>1. /\ TaskDataOK(Items)' /\ TxPipelineDataOK' /\ PagesInv' /\ PipelineChannels'
      /\ pc = "launch" /\ pc' = "range"
  <2>1. {h \in blocks : ~Skipped(h)} \in SUBSET (1..Top)
    BY DEF IInv, BlocksFetchDataOK
  <2>2. QED
    BY <2>1, LaunchOK DEF IInv, LaunchPipeline
<1>2. /\ HandlerDataOK' /\ SendRespDataOK' /\ BlocksFetchDataOK' /\ FetchersInv'
      /\ ~outClosed' /\ ~ctrlClosed'
  BY <1>1, FeedingInv DEF LaunchPipeline, Launch
<1>3. ChannelsSafe'
  BY <1>1, <1>2 DEF ChannelsSafe, PipelineChannels
<1>4. Flags'
  BY FlagsKept DEF IInv, Next, Handler
<1>5. QED
  BY <1>1, <1>2, <1>3, <1>4 DEF IInv

LEMMA FeedInv ==
    ASSUME IInv, FeedPipeline
    PROVE  IInv'
<1>1. /\ TaskDataOK(Items)' /\ TxPipelineDataOK' /\ PagesInv' /\ PipelineChannels'
      /\ pc \in {"range", "pages", "waitHttp"}
      /\ pc' \in {"range", "pages", "waitHttp", "waitConv"}
      /\ UNCHANGED <<ctxDone, streamUp, outClosed, answer>>
  <2>1. PipelineChannels
    BY DEF IInv, ChannelsSafe, PipelineChannels
  <2>2. QED
    BY <2>1, FeedOK DEF IInv, FeedPipeline
<1>2. /\ HandlerDataOK' /\ SendRespDataOK' /\ BlocksFetchDataOK' /\ FetchersInv'
      /\ ~outClosed' /\ ~ctrlClosed'
  BY <1>1, FeedingInv DEF FeedPipeline, sendVars
<1>3. ChannelsSafe'
  BY <1>1, <1>2 DEF ChannelsSafe, PipelineChannels
<1>4. Flags'
  BY FlagsKept DEF IInv, Next, Handler
<1>5. QED
  BY <1>1, <1>2, <1>3, <1>4 DEF IInv

LEMMA ReturnInv ==
    ASSUME IInv, ReportFailure \/ Return
    PROVE  IInv'
<1>1. /\ pc \in {"failed", "waitConv"} /\ pc' = "done" /\ UNCHANGED <<out, req, start, hi>>
      /\ UNCHANGED <<fetch, ctrl, got, nerr, blocks, summary>>
      /\ UNCHANGED answer \/ Send(ErrorMark)
  BY DEF ReportFailure, Return, Converted
<1>2. UNCHANGED <<todo, cur, toGet, toGetClosed, worker, txIn, txInClosed, conv, lost, spc, order>>
  BY DEF ReportFailure, Return, sendVars, pipeVars
<1>3. ErrorMark \in Responses(Items)
  BY DEF ErrorMark, Responses
<1>4. TaskDataOK(Items)' /\ SendRespDataOK' /\ TxPipelineDataOK' /\ PagesInv'
  BY <1>1, <1>2, <1>3, TaskUnmoved, AnswerOK, SendRespUnmoved, TxPipelineUnmoved, PagesUnmoved DEF IInv
<1>5. BlocksFetchDataOK' /\ ReportsCounted' /\ DoneFetchers' = DoneFetchers
  BY <1>1, BlocksFetchUnmoved, FetchersUnmoved DEF IInv, FetchersInv
<1>6. FetchersInv'
  BY <1>1, <1>5 DEF IInv, FetchersInv, Fetching, Spawning
<1>7. HandlerDataOK'
  BY <1>1 DEF IInv, HandlerDataOK
<1>8. \A f \in DOMAIN fetch' : fetch'[f].pc = "done"
  <2>1. DoneFetchers = 1..Len(fetch)
    BY <1>1 DEF IInv, FetchersInv, Fetching, Spawning
  <2>2. QED
    BY <1>1, <2>1 DEF DoneFetchers, IInv, BlocksFetchDataOK
<1>9. outClosed' => conv.pc = "done"
  BY DEF ReportFailure, Return, Converted, ConvertWaitGroupZero, IInv, ChannelsSafe
<1>10. ChannelsSafe'
  BY <1>1, <1>2, <1>8, <1>9 DEF IInv, ChannelsSafe
<1>11. Flags'
  BY FlagsKept DEF IInv, Next, Handler
<1>12. QED
  BY <1>4, <1>5, <1>6, <1>7, <1>10, <1>11 DEF IInv

-----------------------------------------------------------------------------
(* The invariant.                                                          *)

LEMMA InitIInv ==
    ASSUME Init
    PROVE  IInv
<1>1. /\ TaskDataOK(Items) /\ SendRespDataOK /\ BlocksFetchDataOK /\ TxPipelineDataOK
      /\ PagesInv /\ ReportsCounted /\ DoneFetchers = 1..Len(fetch)
  BY PartsInit DEF Init
<1>2. Word \in Nat /\ Word >= 1 /\ Top \in Nat
  BY GetLatestAssumption, ChainAssumption DEF GetLatestAssumption, ChainAssumption
<1> USE DEF Init, TaskInit, SendRespInit, BlocksFetchInit, TxPipelineInit
<1>3. Flags
  BY DEF Flags
<1>4. HandlerDataOK
  BY <1>2 DEF HandlerDataOK, EmptySummary
<1>5. FetchersInv
  BY <1>1 DEF FetchersInv, Fetching, Spawning
<1>6. ChannelsSafe
  BY DEF ChannelsSafe
<1>7. QED
  BY <1>1, <1>3, <1>4, <1>5, <1>6 DEF IInv

LEMMA NextIInv ==
    ASSUME IInv, [Next]_vars
    PROVE  IInv'
<1>1. CASE Handler
  <2>1. CASE AskNewest
    BY <2>1, AskNewestInv
  <2>2. CASE TakeNewest
    BY <2>2, TakeNewestInv
  <2>3. CASE Plan \/ Clamp \/ Cut \/ MoreBatches
    BY <2>3, ReckonInv
  <2>4. CASE SpawnBatch
    BY <2>4, SpawnBatchInv
  <2>5. CASE Collect
    BY <2>5, CollectInv
  <2>6. CASE ReportFailure \/ Return
    BY <2>6, ReturnInv
  <2>7. CASE LaunchPipeline
    BY <2>7, LaunchInv
  <2>8. CASE FeedPipeline
    BY <2>8, FeedInv
  <2>9. QED
    BY <1>1, <2>1, <2>2, <2>3, <2>4, <2>5, <2>6, <2>7, <2>8 DEF Handler
<1>2. CASE FetchStep
  BY <1>2, FetchStepInv
<1>3. CASE WorkerStep
  BY <1>3, WorkerStepInv
<1>4. CASE ConverterStep
  BY <1>4, ConverterStepInv
<1>5. CASE SenderStep
  BY <1>5, SenderStepInv
<1>6. CASE SurroundingsStep \/ UNCHANGED vars
  BY <1>6, SurroundingsStepInv
<1>7. QED
  BY <1>1, <1>2, <1>3, <1>4, <1>5, <1>6 DEF Next, Terminated

(* The inductive invariant holds in every reachable state of a GetLatest   *)
(* task, whatever the batches read of each other's progress and whatever   *)
(* fails.                                                                  *)
THEOREM Invariance == Spec => []IInv
<1>1. Init => IInv
  BY InitIInv
<1>2. IInv /\ [Next]_vars => IInv'
  BY NextIInv
<1>3. QED
  BY <1>1, <1>2, PTL DEF Spec

(* Every variable of a GetLatest task keeps its type, the starting height  *)
(* stays a uint64 although it is a difference, and no channel holds more   *)
(* than its buffer.                                                        *)
THEOREM TypeCorrect == Spec => []TypeOK
<1>1. IInv => TypeOK
  <2> SUFFICES ASSUME IInv PROVE TypeOK
    OBVIOUS
  <2>1. /\ {ctxDone, streamUp, outClosed} \subseteq BOOLEAN
        /\ contextDone \in BOOLEAN /\ ctrlClosed \in BOOLEAN
        /\ {toGetClosed, txInClosed} \subseteq BOOLEAN
    BY DEF IInv, Flags
  <2>2. TaskTypeOK(Items) /\ SendRespTypeOK
    BY <2>1 DEF IInv, TaskTypeOK, SendRespTypeOK
  <2>3. BlocksFetchTypeOK /\ TxPipelineTypeOK
    BY <2>1 DEF IInv, BlocksFetchTypeOK, TxPipelineTypeOK
  <2>4. QED
    BY <2>2, <2>3 DEF IInv, TypeOK, HandlerDataOK, Fetching, Spawning, Feeding
<1>2. QED
  BY <1>1, Invariance, PTL

(* No goroutine of a GetLatest task ever sends on a closed channel,        *)
(* although the loop that starts the batches reads blocksAll.StartHeight   *)
(* without the mutex and may start any number of them.                     *)
THEOREM ChannelsAreSafe == Spec => []ChannelsSafe
<1>1. IInv => ChannelsSafe
  BY DEF IInv
<1>2. QED
  BY <1>1, Invariance, PTL

-----------------------------------------------------------------------------
(* The answer.                                                             *)

SomeFailed == \E f \in DOMAIN fetch : fetch[f].report = "failed"

BeforePipeline == {"start", "plan", "failed", "launch"} \cup Fetching

(***************************************************************************)
(* A payload that does not unmarshal is told of first, and the handler     *)
(* goes on; it returns at the first failed report of the newest batch,     *)
(* before any other, and at the last report of the others.                 *)
(***************************************************************************)
FailureInv ==
    /\ pc = "start" => OfType("error") = {}
    /\ pc \notin {"start", "done"} /\ streamUp => (OfType("error") # {} <=> req = BadPayload)
    /\ pc \in {"start", "newest"} => nerr = 0
    /\ pc \in {"start", "plan"} \cup Fetching => FailuresKnown
    /\ pc = "failed" => SomeFailed
    /\ pc \in {"start", "plan", "launch"} \cup Feeding => ~SomeFailed
    /\ ErrorMeansFailure

(* Nothing is on its way to the manager before the pipeline is started.    *)
IdleInv == pc \in BeforePipeline => spc = "idle" /\ Touched = {}

(***************************************************************************)
(* Where finals stand: before the pipeline there is at most the error of a *)
(* bad payload, and sendResp adds to no other.                             *)
(***************************************************************************)
FirstIsPayloadError == answer = <<>> \/ (req = BadPayload /\ answer = <<ErrorMark>>)
FinalsFirst == \A n \in Finals : req = BadPayload /\ n = 1
FinalsInv ==
    /\ pc = "start" => answer = <<>>
    /\ pc \in BeforePipeline => FirstIsPayloadError
    /\ spc \in {"loop", "end"} => FinalsFirst
    /\ OneFinal

AnswerInv == SenderInv /\ FailureInv /\ OnceInv /\ BlockFirst /\ IdleInv /\ FinalsInv

LEMMA StartInit ==
    ASSUME Init
    PROVE  AnswerInv
<1>1. /\ answer = <<>> /\ order = 0 /\ spc = "idle" /\ pc = "start"
      /\ fetch = <<>> /\ ctrl = <<>> /\ nerr = 0 /\ out = <<>>
  BY DEF Init, TaskInit, SendRespInit, BlocksFetchInit
<1>2. OnceInv /\ Touched = {} /\ InOut = {} /\ \A t : OfType(t) = {}
  BY OnceInit DEF Init
<1>3. SenderInv
  BY <1>1, <1>2, FS_EmptySet DEF SenderInv, Numbering
<1>4. FailuresKnown /\ ~SomeFailed
  BY <1>1, QueueEmpty DEF FailuresKnown, DoneFetchers, SomeFailed
<1>5. FailureInv
  BY <1>1, <1>2, <1>4 DEF FailureInv, ErrorMeansFailure, Feeding
<1>6. BlockFirst
  BY <1>1, <1>2 DEF BlockFirst
<1>7. IdleInv
  BY <1>1, <1>2 DEF IdleInv
<1>8. FinalsInv
  BY <1>1 DEF FinalsInv, FirstIsPayloadError, OneFinal, Finals, OfType
<1>9. QED
  BY <1>2, <1>3, <1>5, <1>6, <1>7, <1>8 DEF AnswerInv

(* What the handler does to the answer: nothing, or it tells an error.     *)
LEMMA HandlerAnswers ==
    ASSUME IInv, AnswerInv, Handler
    PROVE  /\ SenderInv' /\ Delivered' = Delivered /\ OfType("END")' = OfType("END")
           /\ UNCHANGED <<req, streamUp>>
           /\ \/ UNCHANGED answer /\ ~ReportFailure /\ ~(AskNewest /\ req = BadPayload)
              \/ /\ ReportFailure \/ (AskNewest /\ req = BadPayload)
                 /\ streamUp => OfType("error")' # {}
                 /\ ~streamUp => OfType("error")' = OfType("error")
<1>1. UNCHANGED <<req, streamUp, order>>
  BY DEF Handler, AskNewest, TakeNewest, Plan, Clamp, Cut, SpawnBatch, MoreBatches, Collect,
         CollectReport, ReportFailure, LaunchPipeline, Launch, FeedPipeline, PipelineMain,
         SendBlock, QueuePage, CloseToGet, CloseTxIn, Return, sendVars
<1>2. spc' = spc \/ (spc = "idle" /\ spc' = "loop")
  BY DEF AnswerInv, IdleInv, BeforePipeline, Handler, AskNewest, TakeNewest, Plan, Clamp, Cut,
         SpawnBatch, MoreBatches, Collect, ReportFailure, LaunchPipeline, Launch, FeedPipeline,
         Return, sendVars
<1>3. CASE ReportFailure \/ (AskNewest /\ req = BadPayload)
  <2>1. Send(ErrorMark) /\ UNCHANGED spc
    BY <1>3 DEF ReportFailure, AskNewest, sendVars
  <2>2. TaskDataOK(Items) /\ streamUp \in BOOLEAN /\ SenderInv
    BY DEF IInv, Flags, AnswerInv
  <2>3. QED
    BY <1>1, <1>3, <2>1, <2>2, ErrorTold
<1>4. CASE ~(ReportFailure \/ (AskNewest /\ req = BadPayload))
  <2>1. UNCHANGED answer
    BY <1>4 DEF Handler, AskNewest, TakeNewest, Plan, Clamp, Cut, SpawnBatch, MoreBatches,
                Collect, CollectReport, LaunchPipeline, Launch, FeedPipeline, PipelineMain,
                SendBlock, QueuePage, CloseToGet, CloseTxIn, Return
  <2>2. SenderInv'
    BY <1>1, <1>2, <2>1, SenderInvUnmoved DEF AnswerInv
  <2>3. QED
    BY <1>1, <1>4, <2>1, <2>2, DeliveredUnmoved
<1>5. QED
  BY <1>3, <1>4

(* The steps of the handler that take no report and tell no error.         *)
LEMMA FailureQuiet ==
    ASSUME FailureInv, UNCHANGED <<req, fetch, ctrl, nerr, streamUp, answer>>,
           \/ /\ pc \in {"plan"} \cup Spawning
              /\ pc' \in {"collect"} \cup Spawning
           \/ /\ pc \in {"plan", "launch"} \cup Feeding
              /\ pc' \in {"launch", "done"} \cup Feeding
    PROVE  FailureInv'
<1>1. SomeFailed' = SomeFailed /\ \A t : OfType(t)' = OfType(t)
  BY DeliveredUnmoved DEF SomeFailed
<1>2. FailuresKnown => FailuresKnown'
  BY FailuresUnmoved
<1>3. CASE pc \in {"plan"} \cup Spawning /\ pc' \in {"collect"} \cup Spawning
  BY <1>1, <1>2, <1>3 DEF FailureInv, ErrorMeansFailure, Fetching, Spawning, Feeding
<1>4. CASE pc \in {"plan", "launch"} \cup Feeding /\ pc' \in {"launch", "done"} \cup Feeding
  <2>1. /\ pc \notin {"start", "done"} /\ ~SomeFailed
        /\ streamUp => (OfType("error") # {} <=> req = BadPayload)
    BY <1>4 DEF FailureInv, Feeding
  <2>2. ErrorMeansFailure'
    BY <1>1, <2>1 DEF ErrorMeansFailure, SomeFailed
  <2>3. QED
    BY <1>1, <1>4, <2>1, <2>2 DEF FailureInv, Fetching, Spawning, Feeding
<1>5. QED
  BY <1>3, <1>4

LEMMA FailureNewest ==
    ASSUME IInv, AnswerInv, AskNewest \/ TakeNewest
    PROVE  FailureInv'
<1>1. FailureInv
  BY DEF AnswerInv
<1>2. CASE AskNewest
  <2>1. /\ pc = "start" /\ pc' = "newest" /\ UNCHANGED <<req, streamUp>> /\ GoFetch(0, 0)
        /\ UNCHANGED <<ctrl, got, nerr, blocks, summary>>
    BY <1>2 DEF AskNewest
  <2>2. FailuresKnown' /\ nerr' = 0
    BY <1>1, <2>1, FailuresGoFetch DEF IInv, FailureInv
  <2>3. streamUp => (OfType("error")' # {} <=> req = BadPayload)
    <3>1. OfType("error") = {}
      BY <1>1, <2>1 DEF FailureInv
    <3>2. Handler /\ ~ReportFailure
      BY <1>2, <2>1 DEF Handler, ReportFailure
    <3>3. QED
      BY <1>2, <3>1, <3>2, HandlerAnswers, DeliveredUnmoved
  <2>4. QED
    BY <2>1, <2>2, <2>3 DEF FailureInv, ErrorMeansFailure, Fetching, Spawning, Feeding
<1>3. CASE TakeNewest
  <2>1. /\ pc = "newest" /\ pc' = IF Head(ctrl) = "failed" THEN "failed" ELSE "plan"
        /\ UNCHANGED <<req, streamUp, answer, fetch, nerr>>
    BY <1>3 DEF TakeNewest
  <2>2. Range(ctrl) = {Head(ctrl)} /\ ctrl' = <<>> /\ DoneFetchers = 1..Len(fetch)
    BY <1>3, NewestReport
  <2>3. nerr = 0 /\ FailuresKnown
    BY <1>1, <2>1 DEF FailureInv, Fetching
  <2>4. SomeFailed <=> Head(ctrl) = "failed"
    BY <2>2, <2>3 DEF FailuresKnown, SomeFailed, IInv, BlocksFetchDataOK
  <2>5. SomeFailed' = SomeFailed /\ OfType("error")' = OfType("error") /\ DoneFetchers' = DoneFetchers
    BY <2>1, DeliveredUnmoved DEF SomeFailed, DoneFetchers
  <2>6. ~SomeFailed => FailuresKnown'
    BY <2>1, <2>2, <2>3, <2>5, QueueEmpty DEF FailuresKnown, SomeFailed, IInv, BlocksFetchDataOK
  <2>7. CASE Head(ctrl) = "failed"
    BY <1>1, <2>1, <2>4, <2>5, <2>7 DEF FailureInv, ErrorMeansFailure, Fetching, Spawning, Feeding
  <2>8. CASE Head(ctrl) # "failed"
    BY <1>1, <2>1, <2>4, <2>5, <2>6, <2>8
    DEF FailureInv, ErrorMeansFailure, Fetching, Spawning, Feeding
  <2>9. QED
    BY <2>7, <2>8
<1>4. QED
  BY <1>2, <1>3

LEMMA FailureHandler ==
    ASSUME IInv, AnswerInv, Handler
    PROVE  FailureInv'
<1>1. FailureInv
  BY DEF AnswerInv
<1>2. CASE AskNewest \/ TakeNewest
  BY <1>2, FailureNewest
<1>3. CASE Plan \/ Clamp \/ Cut \/ MoreBatches \/ LaunchPipeline \/ FeedPipeline \/ Return
  <2>1. UNCHANGED <<req, fetch, ctrl, nerr, streamUp, answer>>
    BY <1>3 DEF Plan, Clamp, Cut, MoreBatches, LaunchPipeline, Launch, FeedPipeline,
                PipelineMain, SendBlock, QueuePage, CloseToGet, CloseTxIn, Return, fetchVars
  <2>2. \/ /\ pc \in {"plan"} \cup Spawning
           /\ pc' \in {"collect"} \cup Spawning
        \/ /\ pc \in {"plan", "launch"} \cup Feeding
           /\ pc' \in {"launch", "done"} \cup Feeding
    BY <1>3 DEF Plan, Clamp, Cut, MoreBatches, LaunchPipeline, Launch, FeedPipeline, Converted,
                PipelineMain, SendBlock, QueuePage, CloseToGet, CloseTxIn, Return,
                Spawning, Feeding
  <2>3. QED
    BY <1>1, <2>1, <2>2, FailureQuiet
<1>4. CASE SpawnBatch
  <2>1. /\ pc = "go" /\ pc' = "more" /\ UNCHANGED <<req, streamUp, answer>> /\ GoFetch(BatchStart, hi)
        /\ UNCHANGED <<ctrl, got, nerr, blocks, summary>>
    BY <1>4 DEF SpawnBatch
  <2>2. BatchStart \in Nat /\ hi \in Nat
    BY <2>1, BatchType DEF IInv, FetchersInv, HandlerDataOK
  <2>3. FailuresKnown'
    <3>1. BlocksFetchDataOK /\ FailuresKnown
      BY <1>1, <2>1 DEF IInv, FailureInv, Fetching, Spawning
    <3>2. QED
      BY <2>1, <2>2, <3>1, FailuresGoFetch
  <2>4. OfType("error")' = OfType("error")
    BY <2>1, DeliveredUnmoved
  <2>5. QED
    BY <1>1, <2>1, <2>3, <2>4 DEF FailureInv, ErrorMeansFailure, Fetching, Spawning, Feeding
<1>5. CASE Collect
  <2>1. /\ pc = "collect" /\ pc' \in {"collect", "failed", "launch"} /\ CollectReport("launch")
        /\ UNCHANGED <<req, streamUp, answer>>
    BY <1>5 DEF Collect, CollectReport
  <2>2. /\ FailuresKnown' /\ (pc' = "failed" => SomeFailed')
        /\ (pc' = "launch" => ~SomeFailed')
    <3>1. BlocksFetchDataOK /\ FailuresKnown /\ ReportsCounted
      BY <1>1, <2>1 DEF IInv, FailureInv, FetchersInv, Fetching
    <3>2. QED
      BY <2>1, <3>1, FailuresCollect DEF SomeFailed
  <2>3. OfType("error")' = OfType("error")
    BY <2>1, DeliveredUnmoved
  <2>4. QED
    BY <1>1, <2>1, <2>2, <2>3 DEF FailureInv, ErrorMeansFailure, Fetching, Spawning, Feeding
<1>6. CASE ReportFailure
  <2>1. /\ pc = "failed" /\ pc' = "done" /\ UNCHANGED <<req, fetch, streamUp>> /\ SomeFailed
    BY <1>1, <1>6 DEF ReportFailure, FailureInv
  <2>2. streamUp => OfType("error")' # {}
    BY <1>6, HandlerAnswers
  <2>3. QED
    BY <2>1, <2>2 DEF FailureInv, ErrorMeansFailure, Fetching, Spawning, Feeding, SomeFailed
<1>7. QED
  BY <1>2, <1>3, <1>4, <1>5, <1>6 DEF Handler

LEMMA FailureUnmoved ==
    ASSUME FailureInv, UNCHANGED <<pc, req, fetch, ctrl, nerr>>,
           OfType("error")' = OfType("error"), streamUp' => streamUp
    PROVE  FailureInv'
<1>1. SomeFailed' = SomeFailed
  BY DEF SomeFailed
<1>2. FailuresKnown => FailuresKnown'
  BY FailuresUnmoved
<1>3. ErrorMeansFailure'
  BY <1>1 DEF FailureInv, ErrorMeansFailure
<1>4. QED
  BY <1>1, <1>2, <1>3 DEF FailureInv

LEMMA FailureNext ==
    ASSUME IInv, AnswerInv, [Next]_vars
    PROVE  FailureInv'
<1>1. CASE Handler
  BY <1>1, FailureHandler
<1>2. CASE FetchStep
  <2>1. PICK f \in DOMAIN fetch : Fetcher(f)
    BY <1>2 DEF FetchStep
  <2>2. UNCHANGED <<pc, req, answer, streamUp, nerr>>
    BY <1>2, <2>1, FetcherReports DEF FetchStep, taskVars, IInv, FetchersInv
  <2>3. pc \in Fetching
    BY <2>1, FetcherReports DEF IInv, FetchersInv
  <2>4. FailuresKnown'
    BY <2>1, <2>3, FailuresFetcher DEF IInv, AnswerInv, FailureInv
  <2>5. OfType("error")' = OfType("error")
    BY <2>2, DeliveredUnmoved
  <2>6. QED
    BY <2>2, <2>3, <2>4, <2>5
    DEF AnswerInv, FailureInv, ErrorMeansFailure, Fetching, Spawning, Feeding
<1>3. CASE SenderStep
  <2>1. UNCHANGED <<pc, req, streamUp, fetch, ctrl, nerr>>
    BY <1>3 DEF SenderStep, Sender, SendItem, OutDrained, SenderCancelled, SendEnd, SignalFin,
                taskVars, fetchVars
  <2>2. OfType("error")' = OfType("error")
    BY <1>3, SenderAnswers DEF SenderStep, IInv, Flags, AnswerInv
  <2>3. QED
    BY <2>1, <2>2, FailureUnmoved DEF AnswerInv
<1>4. CASE UNCHANGED <<pc, req, fetch, ctrl, nerr, answer>> /\ (streamUp' => streamUp)
  BY <1>4, FailureUnmoved, DeliveredUnmoved DEF AnswerInv
<1>5. CASE WorkerStep \/ ConverterStep \/ UNCHANGED vars
  BY <1>4, <1>5 DEF WorkerStep, Worker, ConverterStep, Converter,
                    vars, taskVars, sendVars, fetchVars
<1>6. CASE SurroundingsStep
  BY <1>4, <1>6 DEF SurroundingsStep, Surroundings, Expire, Disconnect, fetchVars
<1>7. QED
  BY <1>1, <1>2, <1>3, <1>5, <1>6 DEF Next, Terminated

LEMMA SenderInvNext ==
    ASSUME IInv, AnswerInv, [Next]_vars
    PROVE  SenderInv'
<1>1. CASE Handler
  BY <1>1, HandlerAnswers
<1>2. CASE SenderStep
  BY <1>2, SenderInvSender DEF SenderStep, IInv, Flags, AnswerInv
<1>3. CASE UNCHANGED <<answer, order, spc>> /\ (streamUp' => streamUp)
  BY <1>3, SenderInvUnmoved DEF AnswerInv
<1>4. CASE FetchStep \/ WorkerStep \/ ConverterStep \/ UNCHANGED vars
  BY <1>3, <1>4 DEF FetchStep, WorkerStep, Worker, ConverterStep, Converter,
                    vars, taskVars, sendVars
<1>5. CASE SurroundingsStep
  BY <1>3, <1>5 DEF SurroundingsStep, Surroundings, Expire, Disconnect, sendVars
<1>6. QED
  BY <1>1, <1>2, <1>4, <1>5 DEF Next, Terminated

-----------------------------------------------------------------------------
(* Items and where they are.                                               *)

LEMMA PlacesNext ==
    ASSUME IInv, AnswerInv, [Next]_vars
    PROVE  OnceInv' /\ BlockFirst' /\ IdleInv'
<1> USE DEF AnswerInv
<1>1. CASE LaunchPipeline
  <2>1. PICK hs : Launch(hs)
    BY <1>1 DEF LaunchPipeline
  <2>2. /\ pc = "launch" /\ pc' = "range" /\ UNCHANGED <<streamUp, answer, out>>
    BY <2>1 DEF Launch
  <2>3. Touched = {} /\ hs \cap Touched = {}
    BY <2>2 DEF IdleInv, BeforePipeline
  <2>4. OnceInv' /\ Touched' \subseteq Touched /\ InOut' = InOut
    BY <2>1, <2>3, LaunchOnce
  <2>5. BlockFirst'
    BY <2>2, <2>4, BlockFirstUnmoved, DeliveredUnmoved
  <2>6. QED
    BY <2>2, <2>4, <2>5 DEF IdleInv, BeforePipeline, Fetching, Spawning
<1>2. CASE FeedPipeline
  <2>1. TaskDataOK(Items) /\ TxPipelineDataOK /\ PagesInv
    BY DEF IInv
  <2>2. OnceInv' /\ BlockFirst'
    BY <1>2, <2>1, FeedOnce, BlockFirstFeed DEF FeedPipeline
  <2>3. pc' \in Feeding
    BY <1>2 DEF FeedPipeline, PipelineMain, SendBlock, QueuePage, CloseToGet, CloseTxIn, Feeding
  <2>4. QED
    BY <2>2, <2>3 DEF IdleInv, BeforePipeline, Fetching, Spawning, Feeding
<1>3. CASE WorkerStep
  <2>1. PICK w \in Workers : Worker(w)
    BY <1>3 DEF WorkerStep
  <2>2. UNCHANGED <<pc, spc, streamUp, answer, out>>
    BY <1>3, <2>1 DEF WorkerStep, Worker, taskVars, sendVars
  <2>3. OnceInv' /\ Touched' \subseteq Touched /\ InOut' = InOut /\ Delivered' = Delivered
    BY <2>1, <2>2, WorkerOnce, DeliveredUnmoved DEF IInv
  <2>4. BlockFirst'
    BY <2>2, <2>3, BlockFirstUnmoved
  <2>5. QED
    BY <2>2, <2>3, <2>4 DEF IdleInv
<1>4. CASE ConverterStep
  <2>1. UNCHANGED <<pc, spc>> /\ Converter
    BY <1>4 DEF ConverterStep, Converter, sendVars
  <2>2. OnceInv' /\ Touched' \subseteq Touched /\ BlockFirst'
    BY <2>1, ConverterOnce, BlockFirstConverter DEF IInv
  <2>3. QED
    BY <2>1, <2>2 DEF IdleInv
<1>5. CASE SenderStep
  <2>1. /\ UNCHANGED pc /\ Sender /\ spc # "idle"
        /\ UNCHANGED <<worker, toGet, cur, todo, txIn, conv>>
    BY <1>5 DEF SenderStep, Sender, SendItem, OutDrained, SenderCancelled, SendEnd, SignalFin,
                taskVars, pipeVars
  <2>2. TaskDataOK(Items) /\ SendRespDataOK /\ streamUp \in BOOLEAN
    BY DEF IInv, Flags
  <2>3. OnceInv' /\ BlockFirst'
    BY <2>1, <2>2, SenderOnce, BlockFirstSender
  <2>4. QED
    BY <2>1, <2>3 DEF IdleInv
<1>6. ASSUME UNCHANGED <<out, txIn, conv, worker, toGet, cur, todo>>, Delivered' = Delivered,
             streamUp' => streamUp, pc' = pc \/ pc' # "pages",
             pc' \in BeforePipeline => pc \in BeforePipeline /\ spc' = spc
      PROVE  OnceInv' /\ BlockFirst' /\ IdleInv'
  <2>1. OnceInv' /\ Touched' \subseteq Touched /\ InOut' = InOut
    BY <1>6, OnceUnmoved
  <2>2. BlockFirst'
    BY <1>6, <2>1, BlockFirstUnmoved
  <2>3. QED
    BY <1>6, <2>1, <2>2 DEF IdleInv
<1>7. CASE Handler /\ ~LaunchPipeline /\ ~FeedPipeline
  <2>1. /\ UNCHANGED <<out, txIn, conv, worker, toGet, cur, todo>>
        /\ UNCHANGED spc /\ pc' # "pages"
        /\ pc' \in BeforePipeline => pc \in BeforePipeline
    BY <1>7 DEF Handler, AskNewest, TakeNewest, Plan, Clamp, Cut, SpawnBatch, MoreBatches,
                Collect, CollectReport, ReportFailure, Return, pipeVars, sendVars,
                BeforePipeline, Fetching, Spawning
  <2>2. Delivered' = Delivered /\ UNCHANGED streamUp
    BY <1>7, HandlerAnswers
  <2>3. QED
    BY <1>6, <2>1, <2>2
<1>8. CASE FetchStep \/ SurroundingsStep \/ UNCHANGED vars
  <2>1. /\ UNCHANGED <<out, txIn, conv, worker, toGet, cur, todo, pc, spc, answer>>
        /\ streamUp' => streamUp
    BY <1>8 DEF FetchStep, SurroundingsStep, Surroundings, Expire, Disconnect,
                vars, taskVars, pipeVars, sendVars
  <2>2. QED
    BY <1>6, <2>1, DeliveredUnmoved
<1>9. QED
  BY <1>1, <1>2, <1>3, <1>4, <1>5, <1>7, <1>8 DEF Next, Terminated, Handler

-----------------------------------------------------------------------------
(* The place of the finals.                                                *)

LEMMA FinalsOfFirst ==
    ASSUME FirstIsPayloadError
    PROVE  FinalsFirst
<1>1. CASE answer = <<>>
  BY <1>1 DEF FinalsFirst, Finals, OfType
<1>2. CASE req = BadPayload /\ answer = <<ErrorMark>>
  BY <1>2 DEF FinalsFirst, Finals, OfType
<1>3. QED
  BY <1>1, <1>2 DEF FirstIsPayloadError

(* A response added where the finals before it are the first is the last.  *)
LEMMA FinalAdded ==
    ASSUME answer \in Seq(Responses(Items)), NEW r \in Responses(Items),
           answer' = Append(answer, r), FinalsFirst, req' = req
    PROVE  /\ OneFinal'
           /\ r.type = "data" => FinalsFirst'
<1>1. /\ Finals' \subseteq Finals \cup {Len(answer) + 1}
      /\ r.type = "data" => Finals' = Finals
  <2>1. /\ OfType("END")' = OfType("END") \cup (IF r.type = "END" THEN {Len(answer) + 1} ELSE {})
        /\ OfType("error")' = OfType("error") \cup (IF r.type = "error" THEN {Len(answer) + 1} ELSE {})
    BY Sent
  <2>2. QED
    BY <2>1 DEF Finals
<1>2. Len(answer') = Len(answer) + 1
  OBVIOUS
<1>3. QED
  BY <1>1, <1>2 DEF OneFinal, FinalsFirst

LEMMA FinalsNext ==
    ASSUME IInv, AnswerInv, [Next]_vars
    PROVE  FinalsInv'
<1>1. /\ FinalsInv /\ answer \in Seq(Responses(Items)) /\ ErrorMark \in Responses(Items)
      /\ pc \in BeforePipeline => spc = "idle"
  BY DEF AnswerInv, IInv, TaskDataOK, IdleInv, ErrorMark, Responses
<1>2. ASSUME UNCHANGED <<answer, req>>, pc' # "start" \/ pc' = pc,
             pc' \in BeforePipeline => pc \in BeforePipeline,
             spc' \in {"loop", "end"} => spc \in {"loop", "end"} \/ pc = "launch"
      PROVE  FinalsInv'
  <2>1. FirstIsPayloadError' = FirstIsPayloadError /\ FinalsFirst' = FinalsFirst /\ OneFinal'
    BY <1>1, <1>2 DEF FirstIsPayloadError, FinalsFirst, Finals, OfType, FinalsInv, OneFinal
  <2>2. pc = "launch" => FinalsFirst
    BY <1>1, FinalsOfFirst DEF FinalsInv, BeforePipeline
  <2>3. QED
    BY <1>1, <1>2, <2>1, <2>2 DEF FinalsInv
<1>3. CASE Handler /\ UNCHANGED answer
  <2>1. /\ req' = req /\ pc' # "start" /\ (pc' \in BeforePipeline => pc \in BeforePipeline)
        /\ spc' = spc \/ pc = "launch"
    BY <1>3 DEF Handler, AskNewest, TakeNewest, Plan, Clamp, Cut, SpawnBatch, MoreBatches,
                Collect, CollectReport, ReportFailure, LaunchPipeline, Launch, FeedPipeline,
                PipelineMain, SendBlock, QueuePage, CloseToGet, CloseTxIn, Return, sendVars,
                BeforePipeline, Fetching, Spawning
  <2>2. QED
    BY <1>2, <1>3, <2>1
<1>4. CASE AskNewest /\ req = BadPayload /\ answer' = Append(answer, ErrorMark)
  <2>1. answer' = <<ErrorMark>> /\ req' = req /\ pc' = "newest" /\ spc' = "idle"
    BY <1>1, <1>4 DEF AskNewest, FinalsInv, sendVars, BeforePipeline
  <2>2. OneFinal'
    BY <1>4, <2>1 DEF OneFinal, Finals, OfType
  <2>3. QED
    BY <1>4, <2>1, <2>2 DEF FinalsInv, FirstIsPayloadError
<1>5. CASE ReportFailure /\ answer' = Append(answer, ErrorMark)
  <2>1. FinalsFirst /\ req' = req /\ pc' = "done" /\ spc' = "idle"
    BY <1>1, <1>5, FinalsOfFirst DEF ReportFailure, FinalsInv, sendVars, BeforePipeline
  <2>2. OneFinal'
    BY <1>1, <1>5, <2>1, FinalAdded
  <2>3. QED
    BY <2>1, <2>2 DEF FinalsInv, BeforePipeline, Fetching, Spawning
<1>6. CASE Handler
  <2>1. \/ UNCHANGED answer
        \/ (ReportFailure \/ (AskNewest /\ req = BadPayload)) /\ answer' = Append(answer, ErrorMark)
    BY <1>6, HandlerAnswers DEF ReportFailure, AskNewest, Send
  <2>2. QED
    BY <1>3, <1>4, <1>5, <1>6, <2>1
<1>7. CASE SenderStep
  <2>1. /\ UNCHANGED <<pc, req>> /\ (spc' \in {"loop", "end"} => spc \in {"loop", "end"})
        /\ spc # "idle" /\ pc \notin BeforePipeline
    BY <1>1, <1>7 DEF SenderStep, Sender, SendItem, OutDrained, SenderCancelled, SendEnd, SignalFin,
                      taskVars
  <2>2. CASE UNCHANGED answer
    BY <1>2, <2>1, <2>2
  <2>3. CASE SendItem /\ answer' # answer
    <3>1. answer' = Append(answer, Data(Head(out), order)) /\ spc = "loop"
      BY <2>3 DEF SendItem, Send
    <3>2. Data(Head(out), order) \in Responses(Items) /\ Data(Head(out), order).type = "data"
      <4>1. Head(out) \in Items /\ order \in Nat
        BY <2>3, SequenceTail DEF SendItem, IInv, TaskDataOK, SendRespDataOK
      <4>2. QED
        BY <4>1, ResponseTypes DEF Data
    <3>3. OneFinal' /\ FinalsFirst'
      BY <1>1, <2>1, <3>1, <3>2, FinalAdded DEF FinalsInv
    <3>4. QED
      BY <2>1, <3>3 DEF FinalsInv, BeforePipeline
  <2>4. CASE SendEnd /\ answer' # answer
    <3>1. answer' = Append(answer, EndMark(order)) /\ spc = "end" /\ spc' = "fin"
      BY <2>4 DEF SendEnd, Send
    <3>2. EndMark(order) \in Responses(Items)
      BY DEF EndMark, Responses, IInv, SendRespDataOK
    <3>3. OneFinal'
      BY <1>1, <2>1, <3>1, <3>2, FinalAdded DEF FinalsInv
    <3>4. QED
      BY <2>1, <3>1, <3>3 DEF FinalsInv, BeforePipeline
  <2>5. QED
    BY <1>7, <2>2, <2>3, <2>4
    DEF SenderStep, Sender, OutDrained, SenderCancelled, SignalFin, taskVars
<1>8. CASE FetchStep \/ WorkerStep \/ ConverterStep \/ SurroundingsStep \/ UNCHANGED vars
  <2>1. UNCHANGED <<pc, spc, answer, req>>
    BY <1>8 DEF FetchStep, WorkerStep, Worker, ConverterStep, Converter, SurroundingsStep,
                Surroundings, Expire, Disconnect, vars, taskVars, sendVars
  <2>2. QED
    BY <1>2, <2>1
<1>9. QED
  BY <1>6, <1>7, <1>8 DEF Next, Terminated

LEMMA AnswerInvariance == Spec => [](IInv /\ AnswerInv)
<1>1. Init => AnswerInv
  BY StartInit
<1>2. IInv /\ AnswerInv /\ [Next]_vars => AnswerInv'
  <2> SUFFICES ASSUME IInv, AnswerInv, [Next]_vars PROVE AnswerInv'
    OBVIOUS
  <2>1. SenderInv' /\ FailureInv' /\ OnceInv' /\ BlockFirst' /\ IdleInv' /\ FinalsInv'
    BY SenderInvNext, FailureNext, PlacesNext, FinalsNext
  <2>2. QED
    BY <2>1 DEF AnswerInv
<1>3. QED
  BY <1>1, <1>2, Invariance, PTL DEF Spec

(* The responses of a GetLatest task are numbered 0, 1, 2, ... in the order*)
(* the manager receives them, and END carries the number of items.         *)
THEOREM ResponsesAreNumbered == Spec => []Numbering
<1>1. AnswerInv => Numbering
  BY DEF AnswerInv, SenderInv
<1>2. QED
  BY <1>1, AnswerInvariance, PTL

(* A GetLatest task that is over has told the manager of an error exactly  *)
(* when the payload or a batch failed, as long as the stream stood: the    *)
(* failure of the newest batch, read before the others are started, and    *)
(* that of any other.                                                      *)
THEOREM FailuresAreTold == Spec => []ErrorMeansFailure
<1>1. AnswerInv => ErrorMeansFailure
  BY DEF AnswerInv, FailureInv
<1>2. QED
  BY <1>1, AnswerInvariance, PTL

(* A final response of a GetLatest task is its last one, but for the error *)
(* of a payload that does not unmarshal: that is the first, and another    *)
(* error or items and END may follow.                                      *)
THEOREM FinalIsLast == Spec => []OneFinal
<1>1. AnswerInv => OneFinal
  BY DEF AnswerInv, FinalsInv
<1>2. QED
  BY <1>1, AnswerInvariance, PTL

-----------------------------------------------------------------------------
(* The answer is a RangeAnswer for the whole chain.                        *)

(* Both modules count with the Cardinality of FiniteSets.                  *)
LEMMA AbstractCount == Abstract!Count = Cardinality(OfType("data"))
BY DEF Abstract!Count, Abstract!Told, OfType, Abstract!Cardinality, Cardinality

LEMMA StepImplements ==
    ASSUME IInv, AnswerInv, [Next]_vars
    PROVE  [Abstract!Next]_Abstract!answerVars
<1>1. req' = req
  BY HandlerAnswers
  DEF Next, Terminated, FetchStep, WorkerStep, ConverterStep, SenderStep, SurroundingsStep, vars
<1>2. /\ Abstract!Told("END") = OfType("END") /\ Abstract!Told("error") = OfType("error")
      /\ Abstract!Items = Delivered /\ Abstract!Count = Cardinality(OfType("data"))
  BY AbstractCount DEF Abstract!Told, Abstract!Items, OfType, Delivered
<1>3. CASE UNCHANGED answer
  BY <1>1, <1>3 DEF Abstract!answerVars
<1>4. CASE Handler
  <2>1. \/ UNCHANGED answer
        \/ /\ pc \in {"start", "failed"} /\ answer' = Append(answer, ErrorMark)
    BY <1>4, HandlerAnswers DEF ReportFailure, AskNewest, Send
  <2>2. CASE pc \in {"start", "failed"} /\ answer' = Append(answer, ErrorMark)
    <3>1. answer = <<>> \/ (req = BadPayload /\ answer = <<Abstract!Error>>)
      BY <2>2 DEF AnswerInv, FinalsInv, FirstIsPayloadError, BeforePipeline,
                  Abstract!Error, ErrorMark, NoItem
    <3>2. answer = <<>> => OfType("error") = {}
      BY DEF OfType
    <3>3. Abstract!Fail
      BY <1>1, <1>2, <2>2, <3>1, <3>2
      DEF Abstract!Fail, Abstract!Tell, Abstract!Error, ErrorMark, NoItem
    <3>4. QED
      BY <3>3 DEF Abstract!Next
  <2>3. QED
    BY <1>3, <2>1, <2>2
<1>5. CASE SenderStep
  <2>1. \/ UNCHANGED answer
        \/ /\ streamUp /\ out # <<>> /\ OfType("END") = {}
           /\ answer' = Append(answer, Data(Head(out), Cardinality(OfType("data"))))
        \/ /\ OfType("END") = {}
           /\ answer' = Append(answer, EndMark(Cardinality(OfType("data"))))
    BY <1>5, SenderAnswers DEF SenderStep, IInv, Flags, AnswerInv
  <2>2. ASSUME streamUp, out # <<>>, OfType("END") = {},
               answer' = Append(answer, Data(Head(out), Cardinality(OfType("data"))))
        PROVE  Abstract!Next
    <3>1. /\ Head(out) \in Items /\ Head(out) \notin Delivered
          /\ Head(out)[2] > 0 => <<Head(out)[1], 0>> \in Delivered
      BY <2>2, HeadIsNext DEF IInv, AnswerInv
    <3>2. Abstract!Deliver(Head(out))
      BY <1>1, <1>2, <2>2, <3>1 DEF Abstract!Deliver, Abstract!Tell, Abstract!Item, Data
    <3>3. QED
      BY <3>1, <3>2 DEF Abstract!Next
  <2>3. ASSUME OfType("END") = {}, answer' = Append(answer, EndMark(Cardinality(OfType("data"))))
        PROVE  Abstract!Next
    <3>1. Abstract!End
      BY <1>1, <1>2, <2>3 DEF Abstract!End, Abstract!Tell, Abstract!EndMark, EndMark, NoItem
    <3>2. QED
      BY <3>1 DEF Abstract!Next
  <2>4. QED
    BY <1>3, <2>1, <2>2, <2>3
<1>6. CASE FetchStep \/ WorkerStep \/ ConverterStep \/ SurroundingsStep \/ UNCHANGED vars
  BY <1>3, <1>6 DEF FetchStep, WorkerStep, Worker, ConverterStep, Converter, SurroundingsStep,
                    Surroundings, Expire, Disconnect, vars, taskVars
<1>7. QED
  BY <1>4, <1>5, <1>6 DEF Next, Terminated

(* The sequence of responses the manager receives for a GetLatest task is  *)
(* one of RangeAnswer for the range of the whole chain: no item twice      *)
(* although the newest batch and those of the loop may ask for the same    *)
(* heights, a transaction after its block, each response with the number   *)
(* of the items before it, END at most once and no item after it, and one  *)
(* error, two only when the first response told of a bad payload.          *)
THEOREM TaskImplementsRangeAnswer == Spec => ImplementsRangeAnswer
<1>1. Init => Abstract!Init
  <2>1. Init => answer = <<>>
    BY DEF Init, TaskInit
  <2>2. QED
    BY <2>1 DEF Abstract!Init
<1>2. IInv /\ AnswerInv /\ [Next]_vars => [Abstract!Next]_Abstract!answerVars
  BY StepImplements
<1>3. QED
  BY <1>1, <1>2, AnswerInvariance, PTL DEF Spec, ImplementsRangeAnswer, Abstract!Spec

-----------------------------------------------------------------------------
(* The answer is complete.                                                 *)

ChosenHeights == {h \in blocks : ~Skipped(h)}

(***************************************************************************)
(* From the start of the pipeline on, the heights whose items are anywhere *)
(* are the chosen ones, which no longer change; as long as the stream takes*)
(* what is sent, the block of each is on its way or still to visit.        *)
(***************************************************************************)
HeightsInv ==
    spc # "idle" =>
        /\ Touched \cup todo \subseteq ChosenHeights
        /\ streamUp => \A h \in ChosenHeights : h \in todo \/ <<h, 0>> \in InOut

CompleteInv == LeftInv /\ DrainInv /\ EndInv /\ HeightsInv

LEMMA LeftNext ==
    ASSUME IInv, AnswerInv, LeftInv, DrainInv, EndInv, [Next]_vars
    PROVE  LeftInv' /\ DrainInv' /\ EndInv'
<1> USE DEF AnswerInv
<1>1. /\ TaskDataOK(Items) /\ SendRespDataOK /\ TxPipelineDataOK /\ PagesInv
      /\ PipelineChannels /\ streamUp \in BOOLEAN /\ answer \in Seq(Responses(Items))
      /\ outClosed => conv.pc = "done" /\ pc = "done"
  BY DEF IInv, Flags, ChannelsSafe, PipelineChannels, TaskDataOK
<1>2. CASE LaunchPipeline
  <2>1. PICK hs : Launch(hs)
    BY <1>2 DEF LaunchPipeline
  <2>2. pc = "launch" /\ Touched = {} /\ hs \cap Touched = {}
    BY <2>1 DEF Launch, IdleInv, BeforePipeline
  <2>3. OpenPages = {} /\ Found = InOut
    BY <2>2, Drained DEF Feeding
  <2>4. LeftInv' /\ DrainInv'
    BY <2>1, <2>2, <2>3, LeftLaunch, DrainLaunch
  <2>5. /\ UNCHANGED <<answer, contextDone, streamUp, outClosed, out>> /\ spc' = "loop"
    BY <1>2, <2>1 DEF LaunchPipeline, Launch
  <2>6. QED
    BY <1>1, <2>4, <2>5, EndKept
<1>3. CASE FeedPipeline
  <2>1. LeftInv' /\ DrainInv'
    BY <1>1, <1>3, LeftFeed, DrainFeed DEF FeedPipeline
  <2>2. UNCHANGED <<answer, contextDone, streamUp, outClosed, spc>> /\ pc # "done"
    BY <1>3 DEF FeedPipeline, PipelineMain, SendBlock, QueuePage, CloseToGet, CloseTxIn, sendVars
  <2>3. QED
    BY <1>1, <2>1, <2>2, EndKept
<1>4. CASE WorkerStep
  <2>1. PICK w \in Workers : Worker(w)
    BY <1>4 DEF WorkerStep
  <2>2. LeftInv' /\ DrainInv'
    BY <1>1, <2>1, LeftWorker, DrainWorker
  <2>3. UNCHANGED <<answer, contextDone, streamUp, outClosed, out, spc>>
    BY <1>4, <2>1 DEF WorkerStep, Worker, taskVars, sendVars
  <2>4. QED
    BY <1>1, <2>2, <2>3, EndKept
<1>5. CASE ConverterStep
  <2>1. LeftInv' /\ DrainInv'
    BY <1>1, <1>5, LeftConverter, DrainConverter DEF ConverterStep
  <2>2. UNCHANGED <<answer, contextDone, streamUp, outClosed, spc>> /\ conv.pc # "done"
    BY <1>5 DEF ConverterStep, Converter, TakeTx, PutTransaction, ConverterDone, sendVars
  <2>3. QED
    BY <1>1, <2>1, <2>2, EndKept
<1>6. CASE SenderStep
  <2>1. Sender /\ UNCHANGED <<pipeVars, pc>>
    BY <1>6 DEF SenderStep, Sender, SendItem, OutDrained, SenderCancelled, SendEnd, SignalFin,
                taskVars
  <2>2. LeftInv' /\ EndInv'
    BY <1>1, <2>1, LeftSender, EndSender
  <2>3. DrainInv'
    BY <2>1, DrainUnmoved DEF pipeVars
  <2>4. QED
    BY <2>2, <2>3
<1>7. ASSUME UNCHANGED <<out, pipeVars, contextDone, spc>>,
             streamUp' => streamUp, outClosed => outClosed',
             UNCHANGED answer \/ Send(ErrorMark), Delivered' = Delivered,
             \/ UNCHANGED pc
             \/ /\ pc # "pages" /\ pc' \notin Feeding
                /\ pc \in Feeding => todo = {} /\ HttpWaitGroupZero /\ ConvertWaitGroupZero
      PROVE  LeftInv' /\ DrainInv' /\ EndInv'
  <2>1. UNCHANGED <<txIn, conv, worker, toGet, cur, todo, toGetClosed, txInClosed, lost>>
    BY <1>7 DEF pipeVars
  <2>2. pc' = pc \/ (pc # "pages" /\ pc' # "pages")
    BY <1>7 DEF Feeding
  <2>3. InOut' = InOut /\ Found' = Found /\ OpenPages' = OpenPages
    BY <1>7, <2>1, <2>2, OnceUnmoved
  <2>4. LeftInv'
    BY <1>7, <2>1, <2>2, <2>3, LeftUnmoved
  <2>5. DrainInv'
    BY <1>7, <2>1, DrainUnmoved
  <2>6. EndInv'
    BY <1>1, <1>7, EndKept
  <2>7. QED
    BY <2>4, <2>5, <2>6
<1>8. CASE Handler /\ ~LaunchPipeline /\ ~FeedPipeline
  <2>1. /\ UNCHANGED <<out, pipeVars, contextDone, spc, streamUp>>
        /\ pc # "pages" /\ pc' \notin Feeding /\ (outClosed => outClosed')
        /\ UNCHANGED answer \/ Send(ErrorMark)
        /\ pc \in Feeding => Converted
    BY <1>8 DEF Handler, AskNewest, TakeNewest, Plan, Clamp, Cut, SpawnBatch, MoreBatches,
                Collect, CollectReport, ReportFailure, Return, Converted, sendVars, Feeding
  <2>2. Delivered' = Delivered
    BY <1>8, HandlerAnswers
  <2>3. Converted => todo = {} /\ HttpWaitGroupZero /\ ConvertWaitGroupZero
    BY DEF Converted, DrainInv
  <2>4. QED
    BY <1>7, <2>1, <2>2, <2>3
<1>9. CASE FetchStep \/ SurroundingsStep \/ UNCHANGED vars
  <2>1. /\ UNCHANGED <<out, pipeVars, pc, spc, contextDone, answer, outClosed>>
        /\ streamUp' => streamUp
    BY <1>9 DEF FetchStep, SurroundingsStep, Surroundings, Expire, Disconnect,
                vars, taskVars, sendVars
  <2>2. QED
    BY <1>7, <2>1, DeliveredUnmoved
<1>10. QED
  BY <1>2, <1>3, <1>4, <1>5, <1>6, <1>8, <1>9 DEF Next, Terminated, Handler

LEMMA HeightsNext ==
    ASSUME IInv, AnswerInv, HeightsInv, [Next]_vars
    PROVE  HeightsInv'
<1> USE DEF AnswerInv
<1>1. /\ TaskDataOK(Items) /\ SendRespDataOK /\ TxPipelineDataOK /\ PagesInv
      /\ streamUp \in BOOLEAN
  BY DEF IInv, Flags
<1>2. UNCHANGED <<blocks, summary>> => ChosenHeights' = ChosenHeights
  BY DEF ChosenHeights, Skipped
<1>3. ASSUME UNCHANGED <<blocks, summary, spc, todo>>, streamUp' => streamUp,
             Touched' \subseteq Touched, streamUp' => InOut \subseteq InOut'
      PROVE  HeightsInv'
  BY <1>2, <1>3 DEF HeightsInv
<1>4. CASE LaunchPipeline
  <2>1. PICK hs : Launch(hs) /\ hs = ChosenHeights
    BY <1>4 DEF LaunchPipeline, ChosenHeights
  <2>2. /\ pc = "launch" /\ Touched = {} /\ UNCHANGED <<blocks, summary>>
    BY <1>4, <2>1 DEF LaunchPipeline, Launch, fetchVars, IdleInv, BeforePipeline
  <2>3. Touched' = {} /\ todo' = ChosenHeights
    BY <2>1, <2>2, LaunchOnce
  <2>4. QED
    BY <1>2, <2>2, <2>3 DEF HeightsInv
<1>5. CASE FeedPipeline
  <2>1. UNCHANGED <<blocks, summary, spc, streamUp>> /\ PipelineMain
    BY <1>5 DEF FeedPipeline, PipelineMain, SendBlock, QueuePage, CloseToGet, CloseTxIn,
                fetchVars, sendVars
  <2>2. CASE \E h \in todo : SendBlock(h)
    <3>1. PICK h \in todo : SendBlock(h)
      BY <2>2
    <3>2. /\ Touched' \subseteq Touched \cup {h} /\ InOut' = InOut \cup {<<h, 0>>}
          /\ todo' = todo \ {h}
      BY <1>1, <3>1, SendBlockOnce DEF SendBlock
    <3>3. QED
      BY <1>2, <2>1, <3>1, <3>2 DEF HeightsInv
  <2>3. CASE QueuePage
    <3>1. Touched' \subseteq Touched /\ InOut' = InOut /\ todo' = todo
      BY <1>1, <2>3, QueuePageOnce DEF QueuePage
    <3>2. QED
      BY <1>3, <2>1, <3>1
  <2>4. CASE CloseToGet \/ CloseTxIn
    <3>1. UNCHANGED <<out, answer, txIn, conv, worker, toGet, cur, todo>> /\ pc' # "pages"
      BY <2>4 DEF CloseToGet, CloseTxIn
    <3>2. Touched' \subseteq Touched /\ InOut' = InOut
      BY <3>1, OnceUnmoved, DeliveredUnmoved
    <3>3. QED
      BY <1>3, <2>1, <3>1, <3>2
  <2>5. QED
    BY <2>1, <2>2, <2>3, <2>4 DEF PipelineMain
<1>6. CASE WorkerStep
  <2>1. PICK w \in Workers : Worker(w)
    BY <1>6 DEF WorkerStep
  <2>2. UNCHANGED <<blocks, summary, spc, todo, streamUp>>
    BY <1>6, <2>1 DEF WorkerStep, Worker, taskVars, sendVars, fetchVars
  <2>3. Touched' \subseteq Touched /\ InOut' = InOut
    BY <1>1, <2>1, WorkerOnce
  <2>4. QED
    BY <1>3, <2>2, <2>3
<1>7. CASE ConverterStep
  <2>1. UNCHANGED <<blocks, summary, spc, todo, streamUp>> /\ Converter
    BY <1>7 DEF ConverterStep, Converter, sendVars, fetchVars
  <2>2. Touched' \subseteq Touched /\ InOut \subseteq InOut'
    BY <1>1, <2>1, ConverterOnce
  <2>3. QED
    BY <1>3, <2>1, <2>2
<1>8. CASE SenderStep
  <2>1. /\ UNCHANGED <<blocks, summary, streamUp, worker, toGet, cur, todo, txIn, conv>>
        /\ Sender /\ spc # "idle"
    BY <1>8 DEF SenderStep, Sender, SendItem, OutDrained, SenderCancelled, SendEnd, SignalFin,
                taskVars, pipeVars, fetchVars
  <2>2. Touched' \subseteq Touched /\ (streamUp => InOut' = InOut)
    BY <1>1, <2>1, SenderOnce
  <2>3. QED
    BY <1>2, <2>1, <2>2 DEF HeightsInv
<1>9. CASE FetchStep
  <2>1. PICK f \in DOMAIN fetch : Fetcher(f)
    BY <1>9 DEF FetchStep
  <2>2. fetch[f].pc # "done" /\ f \in 1..Len(fetch)
    BY <2>1 DEF Fetcher, AskLimiter, GetMetas, LockBlocks, MergeBlock, UnlockBlocks, ReportBatch,
                IInv, BlocksFetchDataOK
  <2>3. pc \in Fetching
    BY <2>2 DEF IInv, FetchersInv, DoneFetchers
  <2>4. spc = "idle" /\ spc' = spc
    BY <1>9, <2>3 DEF IdleInv, BeforePipeline, FetchStep, sendVars
  <2>5. QED
    BY <2>4 DEF HeightsInv
<1>10. CASE Handler /\ ~LaunchPipeline /\ ~FeedPipeline
  <2>1. /\ UNCHANGED <<blocks, summary, spc, out, txIn, conv, worker, toGet, cur, todo, streamUp>>
        /\ pc' # "pages"
    BY <1>10 DEF Handler, AskNewest, TakeNewest, Plan, Clamp, Cut, SpawnBatch, MoreBatches,
                 Collect, CollectReport, ReportFailure, Return, pipeVars, sendVars, fetchVars
  <2>2. Delivered' = Delivered
    BY <1>10, HandlerAnswers
  <2>3. QED
    BY <1>3, <2>1, <2>2, OnceUnmoved
<1>11. CASE SurroundingsStep \/ UNCHANGED vars
  <2>1. /\ UNCHANGED <<blocks, summary, spc, out, txIn, conv, worker, toGet, cur, todo, pc, answer>>
        /\ streamUp' => streamUp
    BY <1>11 DEF SurroundingsStep, Surroundings, Expire, Disconnect,
                 vars, taskVars, pipeVars, sendVars, fetchVars
  <2>2. QED
    BY <1>3, <2>1, OnceUnmoved, DeliveredUnmoved
<1>12. QED
  BY <1>4, <1>5, <1>6, <1>7, <1>8, <1>9, <1>10, <1>11 DEF Next, Terminated, Handler

(* An END that GetLatest's sendResp sends because out was closed and       *)
(* drained, not because of the context, closes an answer with all blocks   *)
(* at or below the lowest height the summary knew and all their            *)
(* transactions but those of pages whose search failed, in whatever order  *)
(* the workers, the converter and sendResp ran.                            *)
THEOREM AnswersAreComplete == Spec => []CompleteAnswer
<1>1. Init => CompleteInv
  BY EndInit, DrainInit DEF Init, SendRespInit, CompleteInv, HeightsInv
<1>2. IInv /\ AnswerInv /\ CompleteInv /\ [Next]_vars => CompleteInv'
  BY LeftNext, HeightsNext DEF CompleteInv
<1>3. IInv /\ AnswerInv /\ CompleteInv => CompleteAnswer
  <2> SUFFICES ASSUME IInv, AnswerInv, CompleteInv,
                      spc \in {"fin", "done"}, ~contextDone, streamUp
               PROVE  Delivered = {x \in Chosen : x[2] > 0 => \A p \in lost : x \notin TxsOf({p})}
    BY DEF CompleteAnswer
  <2>1. outClosed /\ out = <<>> /\ pc \notin Feeding
    BY DEF CompleteInv, EndInv, IInv, ChannelsSafe, Feeding
  <2>2. /\ Touched \subseteq ChosenHeights
        /\ \A h \in ChosenHeights : <<h, 0>> \in InOut
    <3>1. todo = {}
      BY <2>1, Drained DEF CompleteInv
    <3>2. QED
      BY <3>1 DEF CompleteInv, HeightsInv
  <2>3. Delivered = {x \in Items : /\ x[1] \in ChosenHeights
                                   /\ x[2] > 0 => \A p \in lost : x \notin TxsOf({p})}
    BY <2>1, <2>2, NothingLeft DEF CompleteInv, AnswerInv
  <2>4. \A x \in Items : x \in Chosen <=> x[1] \in ChosenHeights
    BY DEF Chosen, ChosenHeights
  <2>5. Chosen \subseteq Items
    BY DEF Chosen
  <2>6. QED
    BY <2>3, <2>4, <2>5
<1>4. QED
  BY <1>1, <1>2, <1>3, AnswerInvariance, PTL DEF Spec
=============================================================================
