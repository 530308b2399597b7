---------------------------- MODULE BlocksFetch ----------------------------
(***************************************************************************)
(* GetBlocksMeta (api/block.go) run by one goroutine per batch of heights, *)
(* all of them filling one BlocksMap under its mutex and reporting on the  *)
(* channel batchesCtrl, and the loop of the handler that collects the      *)
(* reports.                                                                *)
(***************************************************************************)
EXTENDS Task, NodeBlocks

Sets == INSTANCE FiniteSetsExt

CONSTANTS BatchLimit,   \* blockchainEndpointLimit, 20
          CtrlCap       \* capacity of batchesCtrl, 2

ASSUME BlocksFetchAssumption ==
    /\ BatchLimit \in Nat \ {0}
    /\ CtrlCap \in Nat \ {0}

VARIABLES fetch,        \* the GetBlocksMeta goroutines, in the order started
          ctrl,         \* batchesCtrl: what each one reported
          ctrlClosed,
          got,          \* responses: how many reports the handler has read
          nerr,         \* len(errors)
          blocks,       \* the heights BlocksMap.Blocks holds
          summary       \* BlocksMap.NumTxs, StartHeight and EndHeight

fetchVars == <<fetch, ctrl, ctrlClosed, got, nerr, blocks, summary>>

Report == {"ok", "failed"}
FetchPC == {"limit", "http", "lock", "merge", "end", "done"}

EmptySummary == [numTxs |-> 0, start |-> 0, end |-> 0]

FreshFetch ==
    /\ fetch' = <<>>
    /\ ctrl' = <<>>
    /\ ctrlClosed' = FALSE
    /\ got' = 0
    /\ nerr' = 0
    /\ blocks' = {}
    /\ summary' = EmptySummary

BlocksFetchInit ==
    /\ fetch = <<>>
    /\ ctrl = <<>>
    /\ ctrlClosed = FALSE
    /\ got = 0
    /\ nerr = 0
    /\ blocks = {}
    /\ summary = EmptySummary

(* The node's /blockchain answer: the last BatchLimit heights of lo..hi    *)
(* that exist, highest first.  A bound of 0 is not sent.                   *)
LastAsked(hi) == IF hi = 0 \/ hi > Top THEN Top ELSE hi
FirstAnswered(lo, hi) ==
    LET least == LastAsked(hi) - BatchLimit + 1
        first == IF lo = 0 THEN 1 ELSE lo
    IN  IF least > first THEN least ELSE first
NodeMetas(lo, hi) ==
    [k \in 1..(LastAsked(hi) - FirstAnswered(lo, hi) + 1) |-> LastAsked(hi) - k + 1]
NodeRefuses(lo, hi) == FirstAnswered(lo, hi) > LastAsked(hi)

(* rateLimiter.Wait fails when the context is done, and already when the   *)
(* wait would outlast the context's deadline.                              *)
LimiterMayRefuse == ctxDone \/ "expire" \in Faults

GoFetch(lo, hi) ==
    fetch' = Append(fetch, [pc |-> "limit", lo |-> lo, hi |-> hi,
                            metas |-> <<>>, report |-> "ok"])

Becomes(f, r) == fetch' = [fetch EXCEPT ![f] = r]

\* Seeded fault: the limiter's error is returned without a report.
AskLimiterUnreported(f) ==
    /\ fetch[f].pc = "limit"
    /\ \/ ~ctxDone /\ Becomes(f, [fetch[f] EXCEPT !.pc = "http"])
       \/ LimiterMayRefuse /\ Becomes(f, [fetch[f] EXCEPT !.pc = "done", !.report = "failed"])
    /\ UNCHANGED <<ctrl, ctrlClosed, got, nerr, blocks, summary>>

AskLimiter(f) ==
    /\ fetch[f].pc = "limit"
    /\ \/ ~ctxDone /\ Becomes(f, [fetch[f] EXCEPT !.pc = "http"])
       \/ LimiterMayRefuse /\ Becomes(f, [fetch[f] EXCEPT !.pc = "end", !.report = "failed"])
    /\ UNCHANGED <<ctrl, ctrlClosed, got, nerr, blocks, summary>>

(* httpClient.Do does not see the context: once sent, a request ends with  *)
(* the node's answer or with an error of its own.                          *)
GetMetas(f) ==
    /\ fetch[f].pc = "http"
    /\ \/ /\ ~NodeRefuses(fetch[f].lo, fetch[f].hi)
          /\ Becomes(f, [fetch[f] EXCEPT !.pc = "lock",
                         !.metas = NodeMetas(fetch[f].lo, fetch[f].hi)])
       \/ /\ NodeRefuses(fetch[f].lo, fetch[f].hi) \/ "fetch" \in Faults
          /\ Becomes(f, [fetch[f] EXCEPT !.pc = "end", !.report = "failed"])
    /\ UNCHANGED <<ctrl, ctrlClosed, got, nerr, blocks, summary>>

LockHolders == {f \in DOMAIN fetch : fetch[f].pc = "merge"}

LockBlocks(f) ==
    /\ fetch[f].pc = "lock" /\ LockHolders = {}
    /\ Becomes(f, [fetch[f] EXCEPT !.pc = "merge"])
    /\ UNCHANGED <<ctrl, ctrlClosed, got, nerr, blocks, summary>>

(* One turn of the decoder's loop over BlockMetas; leaving it unlocks.     *)
\* Seeded fault: the count is set where it should grow.
WithLastBlock(s, h) ==
    [numTxs |-> NumTxs[h],
     start  |-> IF s.start = 0 \/ s.start > h THEN h ELSE s.start,
     end    |-> IF s.end = 0 \/ s.end < h THEN h ELSE s.end]

WithBlock(s, h) ==
    [numTxs |-> s.numTxs + NumTxs[h],
     start  |-> IF s.start = 0 \/ s.start > h THEN h ELSE s.start,
     end    |-> IF s.end = 0 \/ s.end < h THEN h ELSE s.end]

MergeBlock(f) ==
    /\ fetch[f].pc = "merge" /\ fetch[f].metas # <<>>
    /\ blocks' = blocks \cup {Head(fetch[f].metas)}
    /\ summary' = WithBlock(summary, Head(fetch[f].metas))
    /\ Becomes(f, [fetch[f] EXCEPT !.metas = Tail(@)])
    /\ UNCHANGED <<ctrl, ctrlClosed, got, nerr>>

UnlockBlocks(f) ==
    /\ fetch[f].pc = "merge" /\ fetch[f].metas = <<>>
    /\ Becomes(f, [fetch[f] EXCEPT !.pc = "end"])
    /\ UNCHANGED <<ctrl, ctrlClosed, got, nerr, blocks, summary>>

(* end <- err or end <- nil.                                               *)
ReportBatch(f) ==
    /\ fetch[f].pc = "end" /\ Len(ctrl) < CtrlCap
    /\ ctrl' = Append(ctrl, fetch[f].report)
    /\ Becomes(f, [fetch[f] EXCEPT !.pc = "done"])
    /\ UNCHANGED <<ctrlClosed, got, nerr, blocks, summary>>

Fetcher(f) ==
    \/ AskLimiter(f) \/ GetMetas(f) \/ LockBlocks(f)
    \/ MergeBlock(f) \/ UnlockBlocks(f) \/ ReportBatch(f)

\* Seeded fault: the loop is left at the first failure.
AllReportedOrFailed(n) == n = Len(fetch) \/ Head(ctrl) = "failed"

(* The handler's loop "for err := range batchesCtrl": it reads as many     *)
(* reports as goroutines were started, failures included.                  *)
AllReported(n) == n = Len(fetch)

\* Seeded fault: one failed batch is let pass.
SeveralFailed(n) == n > 1

AnyFailed(n) == n > 0

CollectReport(onSuccess) ==
    /\ pc = "collect" /\ ctrl # <<>>
    /\ ctrl' = Tail(ctrl)
    /\ got' = got + 1
    /\ nerr' = nerr + (IF Head(ctrl) = "failed" THEN 1 ELSE 0)
    /\ pc' = IF ~AllReported(got') THEN "collect"
             ELSE IF AnyFailed(nerr') THEN "failed" ELSE onSuccess
    /\ UNCHANGED <<ctxDone, streamUp, out, outClosed, answer>>
    /\ UNCHANGED <<fetch, ctrlClosed, blocks, summary>>

-----------------------------------------------------------------------------

FetchRecords ==
    [pc : FetchPC, lo : Nat, hi : Nat, metas : Seq(1..Top), report : Report]

BlocksFetchDataOK ==
    /\ fetch \in Seq(FetchRecords)
    /\ ctrl \in Seq(Report)
    /\ Len(ctrl) <= CtrlCap
    /\ got \in Nat
    /\ nerr \in Nat
    /\ blocks \subseteq 1..Top
    /\ summary \in [numTxs : Nat, start : Nat, end : Nat]

BlocksFetchTypeOK == ctrlClosed \in BOOLEAN /\ BlocksFetchDataOK

(* "extra summary of number of transactions" (BlocksMap): whenever nobody  *)
(* holds the mutex, the summary's count and bounds are those of the blocks *)
(* in the map, although several batches fill it.                           *)
TxsOfBlocks == Sets!MapThenSumSet(LAMBDA h : NumTxs[h], blocks)
SummaryCounts ==
    LockHolders = {} =>
        /\ summary.numTxs = TxsOfBlocks
        /\ \A h \in blocks : summary.start <= h /\ h <= summary.end
        /\ blocks # {} => {summary.start, summary.end} \subseteq blocks
=============================================================================
