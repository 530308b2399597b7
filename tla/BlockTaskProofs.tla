-------------------------- MODULE BlockTaskProofs --------------------------
(***************************************************************************)
(* Lemmas about the parts GetTransactions and GetLatest are made of:       *)
(* sendResp, the goroutines that fetch block metadata and the pipeline of  *)
(* transaction pages.  Each says what one step of a part preserves,        *)
(* whichever handler started it.                                           *)
(*                                                                         *)
(* The first half is about types, channels and the count of reports, and   *)
(* about the summary of the merged blocks.  The second half is what the    *)
(* answer rests on: an item is in one place on its way from the page it is *)
(* found on to the manager, a block goes ahead of its transactions,        *)
(* responses are numbered, a failed batch is remembered, nothing is left   *)
(* behind when out is drained, and which heights a batch asks for.         *)
(***************************************************************************)
EXTENDS SendResp, BlocksFetch, TxPipeline, FiniteSetTheorems, TLAPS

(* What a worker puts into txIn are transactions of the chain because the  *)
(* page at its hand is a page of a block of the chain; what the converter  *)
(* puts into out was taken from txIn.                                      *)
PageAtHand(r) == r.pc \in {"limit", "http", "emit"} => r.job \in PageIds

PagesInv ==
    /\ pc = "pages" => cur \in PageIds
    /\ \A w \in Workers : PageAtHand(worker[w])
    /\ conv.pc = "emit" => conv.tx \in Items

(* Every goroutine that is done has left one report, read or waiting in    *)
(* ctrl.                                                                   *)
DoneFetchers == {f \in 1..Len(fetch) : fetch[f].pc = "done"}
ReportsCounted == got + Len(ctrl) = Cardinality(DoneFetchers)

PipelineChannels ==
    /\ toGetClosed => pc \notin {"range", "pages"}
    /\ txInClosed => \A w \in Workers : worker[w].pc = "done"

-----------------------------------------------------------------------------
(* Lemmas about sequences and about the operators of the model.            *)

LEMMA SequenceOf ==
    ASSUME NEW S, NEW m \in Int, NEW f \in [1..m -> S]
    PROVE  f \in Seq(S)
<1>1. CASE m \in Nat
  BY <1>1
<1>2. CASE m < 0
  <2>1. 1..m = 1..0
    BY <1>2
  <2>2. QED
    BY <2>1
<1>3. QED
  BY <1>1, <1>2

LEMMA SequenceExcept ==
    ASSUME NEW S, NEW s \in Seq(S), NEW i \in DOMAIN s, NEW x \in S
    PROVE  /\ [s EXCEPT ![i] = x] \in Seq(S)
           /\ Len([s EXCEPT ![i] = x]) = Len(s)
           /\ \A j \in 1..Len(s) : [s EXCEPT ![i] = x][j] = IF j = i THEN x ELSE s[j]
OBVIOUS

LEMMA SequenceAppend ==
    ASSUME NEW S, NEW s \in Seq(S), NEW x \in S
    PROVE  Append(s, x) \in Seq(S) /\ Len(Append(s, x)) = Len(s) + 1
OBVIOUS

LEMMA SequenceTail ==
    ASSUME NEW S, NEW s \in Seq(S), s # <<>>
    PROVE  /\ Head(s) \in S /\ Tail(s) \in Seq(S)
           /\ Len(Tail(s)) = Len(s) - 1 /\ Len(s) >= 1
OBVIOUS

(* Every block, and each of its transactions, is an item.                  *)
LEMMA ItemsOfBlock ==
    ASSUME NEW h \in 1..Top, NEW i \in 0..NumTxs[h]
    PROVE  <<h, i>> \in Items
BY DEF Items

(* The answer of /tx_search holds transactions of the block only.          *)
LEMMA PageTxsType ==
    ASSUME NEW p \in PageIds
    PROVE  PageTxs(p[1], p[2]) \in Seq(Items)
<1> DEFINE first == (p[2] - 1) * PerPage
           rest == NumTxs[p[1]] - first
           n == IF rest < PerPage THEN rest ELSE PerPage
<1>1. p[1] \in 1..Top /\ p[2] \in Nat /\ p[2] >= 1
  BY DEF PageIds
<1>2. NumTxs[p[1]] \in Nat /\ PerPage \in Nat
  BY <1>1, ChainAssumption, TxPipelineAssumption DEF ChainAssumption, TxPipelineAssumption
<1>3. first \in Nat
  BY <1>1, <1>2
<1>4. rest \in Int /\ n \in Int
  BY <1>2, <1>3
<1> HIDE DEF first
<1>5. ASSUME NEW k \in 1..n PROVE <<p[1], first + k>> \in Items
  <2>1. first + k \in 0..NumTxs[p[1]]
    BY <1>2, <1>3, <1>4
  <2>2. QED
    BY <1>1, <2>1, ItemsOfBlock
<1>6. [k \in 1..n |-> <<p[1], first + k>>] \in Seq(Items)
  BY <1>4, <1>5, SequenceOf
<1>7. PageTxs(p[1], p[2]) = [k \in 1..n |-> <<p[1], first + k>>]
  BY DEF PageTxs, first
<1>8. QED
  BY <1>6, <1>7

(* The answer of /blockchain holds heights of the chain only.              *)
LEMMA NodeMetasType ==
    ASSUME NEW lo \in Nat, NEW hi \in Nat, ~NodeRefuses(lo, hi)
    PROVE  NodeMetas(lo, hi) \in Seq(1..Top)
<1> DEFINE a == FirstAnswered(lo, hi)
           b == LastAsked(hi)
           metas == [k \in 1..(b - a + 1) |-> b - k + 1]
<1>1. Top \in Nat \ {0} /\ BatchLimit \in Nat
  BY ChainAssumption, BlocksFetchAssumption DEF ChainAssumption, BlocksFetchAssumption
<1>2. b \in Nat /\ b <= Top
  BY <1>1 DEF LastAsked
<1>3. a \in Nat /\ a >= 1 /\ a <= b
  BY <1>1, <1>2 DEF FirstAnswered, NodeRefuses
<1> HIDE DEF a, b
<1>4. b - a + 1 \in Int
  BY <1>2, <1>3
<1>5. \A k \in 1..(b - a + 1) : b - k + 1 \in 1..Top
  BY <1>1, <1>2, <1>3
<1>6. metas \in [1..(b - a + 1) -> 1..Top]
  BY <1>2, <1>3, <1>5
<1> HIDE DEF metas
<1>7. metas \in Seq(1..Top)
  BY <1>4, <1>6, SequenceOf
<1>8. QED
  BY <1>7 DEF NodeMetas, metas, a, b

(* The responses the handler and sendResp build.                           *)
LEMMA ResponseTypes ==
    ASSUME NEW x \in Items, NEW n \in Nat
    PROVE  {Data(x, n), EndMark(n), ErrorMark} \subseteq Responses(Items)
BY DEF Data, EndMark, ErrorMark, Responses

LEMMA SendType ==
    ASSUME answer \in Seq(Responses(Items)), NEW r \in Responses(Items), Send(r)
    PROVE  answer' \in Seq(Responses(Items))
BY SequenceAppend DEF Send

-----------------------------------------------------------------------------
(* The goroutines that fetch block metadata.                               *)

LEMMA BecomesType ==
    ASSUME BlocksFetchDataOK, NEW f \in DOMAIN fetch, NEW r \in FetchRecords, Becomes(f, r)
    PROVE  /\ fetch' \in Seq(FetchRecords)
           /\ Len(fetch') = Len(fetch)
           /\ \A g \in 1..Len(fetch) : fetch'[g] = IF g = f THEN r ELSE fetch[g]
BY SequenceExcept DEF BlocksFetchDataOK, Becomes

(* Every step of a fetcher turns its record into another record of a       *)
(* GetBlocksMeta goroutine; only a report makes one done.                  *)
LEMMA FetcherRecord ==
    ASSUME BlocksFetchDataOK, NEW f \in DOMAIN fetch, Fetcher(f)
    PROVE  \E r \in FetchRecords :
              /\ Becomes(f, r)
              /\ fetch[f].pc # "done"
              /\ r.pc = "done" <=> ReportBatch(f)
<1> DEFINE old == fetch[f]
<1>1. old \in FetchRecords
  BY DEF BlocksFetchDataOK
<1>2. CASE AskLimiter(f)
  <2>1. [old EXCEPT !.pc = "http"] \in FetchRecords
    BY <1>1 DEF FetchRecords, FetchPC
  <2>2. [old EXCEPT !.pc = "end", !.report = "failed"] \in FetchRecords
    BY <1>1 DEF FetchRecords, FetchPC, Report
  <2>3. QED
    BY <1>1, <1>2, <2>1, <2>2 DEF AskLimiter, ReportBatch, FetchRecords
<1>3. CASE GetMetas(f)
  <2>1. old.lo \in Nat /\ old.hi \in Nat
    BY <1>1 DEF FetchRecords
  <2>2. [old EXCEPT !.pc = "end", !.report = "failed"] \in FetchRecords
    BY <1>1 DEF FetchRecords, FetchPC, Report
  <2>3. ASSUME ~NodeRefuses(old.lo, old.hi)
        PROVE  [old EXCEPT !.pc = "lock", !.metas = NodeMetas(old.lo, old.hi)] \in FetchRecords
    <3>1. NodeMetas(old.lo, old.hi) \in Seq(1..Top)
      BY <2>1, <2>3, NodeMetasType
    <3>2. QED
      BY <1>1, <3>1 DEF FetchRecords, FetchPC
  <2>4. QED
    BY <1>1, <1>3, <2>2, <2>3 DEF GetMetas, ReportBatch, FetchRecords
<1>4. CASE LockBlocks(f)
  <2>1. [old EXCEPT !.pc = "merge"] \in FetchRecords
    BY <1>1 DEF FetchRecords, FetchPC
  <2>2. QED
    BY <1>1, <1>4, <2>1 DEF LockBlocks, ReportBatch, FetchRecords
<1>5. CASE MergeBlock(f)
  <2>1. [old EXCEPT !.metas = Tail(old.metas)] \in FetchRecords
    BY <1>1, <1>5 DEF FetchRecords, FetchPC, MergeBlock
  <2>2. QED
    BY <1>1, <1>5, <2>1 DEF MergeBlock, ReportBatch, FetchRecords
<1>6. CASE UnlockBlocks(f)
  <2>1. [old EXCEPT !.pc = "end"] \in FetchRecords
    BY <1>1 DEF FetchRecords, FetchPC
  <2>2. QED
    BY <1>1, <1>6, <2>1 DEF UnlockBlocks, ReportBatch, FetchRecords
<1>7. CASE ReportBatch(f)
  <2>1. [old EXCEPT !.pc = "done"] \in FetchRecords
    BY <1>1 DEF FetchRecords, FetchPC
  <2>2. QED
    BY <1>1, <1>7, <2>1 DEF ReportBatch, FetchRecords
<1>8. QED
  BY <1>2, <1>3, <1>4, <1>5, <1>6, <1>7 DEF Fetcher

LEMMA IntervalSize ==
    ASSUME NEW n \in Nat
    PROVE  IsFiniteSet(1..n) /\ Cardinality(1..n) = n
BY FS_Interval

LEMMA DoneFetchersFinite ==
    ASSUME BlocksFetchDataOK
    PROVE  /\ IsFiniteSet(DoneFetchers)
           /\ Cardinality(DoneFetchers) \in Nat
           /\ Cardinality(DoneFetchers) <= Len(fetch)
           /\ Cardinality(DoneFetchers) = Len(fetch) => DoneFetchers = 1..Len(fetch)
<1>1. Len(fetch) \in Nat
  BY DEF BlocksFetchDataOK
<1>2. IsFiniteSet(1..Len(fetch)) /\ Cardinality(1..Len(fetch)) = Len(fetch)
  BY <1>1, IntervalSize
<1>3. DoneFetchers \in SUBSET (1..Len(fetch))
  BY DEF DoneFetchers
<1>4. QED
  BY <1>2, <1>3, FS_Subset, FS_CardinalityType

(* A step of a fetcher keeps the data well formed and the count of the     *)
(* reports right.                                                          *)
LEMMA FetcherDataOK ==
    ASSUME BlocksFetchDataOK, NEW f \in DOMAIN fetch, Fetcher(f)
    PROVE  BlocksFetchDataOK'
<1>1. PICK r \in FetchRecords : Becomes(f, r)
  BY FetcherRecord
<1>2. fetch' \in Seq(FetchRecords)
  BY <1>1, BecomesType
<1>3. CASE ReportBatch(f)
  <2>1. fetch[f] \in FetchRecords
    BY DEF BlocksFetchDataOK
  <2>2. fetch[f].report \in Report
    BY <2>1 DEF FetchRecords
  <2>3. ctrl' \in Seq(Report) /\ Len(ctrl') = Len(ctrl) + 1 /\ Len(ctrl) < CtrlCap
    BY <1>3, <2>2, SequenceAppend DEF ReportBatch, BlocksFetchDataOK
  <2>4. Len(ctrl') <= CtrlCap
    BY <2>3, BlocksFetchAssumption DEF BlocksFetchAssumption, BlocksFetchDataOK
  <2>5. QED
    BY <1>2, <1>3, <2>3, <2>4 DEF ReportBatch, BlocksFetchDataOK
<1>4. CASE MergeBlock(f)
  <2>1. fetch[f] \in FetchRecords
    BY DEF BlocksFetchDataOK
  <2>2. fetch[f].metas \in Seq(1..Top) /\ fetch[f].metas # <<>>
    BY <1>4, <2>1 DEF FetchRecords, MergeBlock
  <2>3. Head(fetch[f].metas) \in 1..Top
    BY <2>2, SequenceTail
  <2>4. ASSUME NEW h \in 1..Top PROVE WithBlock(summary, h) \in [numTxs : Nat, start : Nat, end : Nat]
    <3>1. NumTxs[h] \in Nat
      BY ChainAssumption DEF ChainAssumption
    <3>2. h \in Nat
      BY ChainAssumption DEF ChainAssumption
    <3>3. QED
      BY <3>1, <3>2 DEF WithBlock, BlocksFetchDataOK
  <2>5. QED
    BY <1>2, <1>4, <2>3, <2>4 DEF MergeBlock, BlocksFetchDataOK
<1>5. CASE AskLimiter(f) \/ GetMetas(f) \/ LockBlocks(f) \/ UnlockBlocks(f)
  BY <1>2, <1>5 DEF AskLimiter, GetMetas, LockBlocks, UnlockBlocks, BlocksFetchDataOK
<1>6. QED
  BY <1>3, <1>4, <1>5 DEF Fetcher

(* A fetcher that moves is not done; one that reports is counted.          *)
LEMMA FetcherReports ==
    ASSUME BlocksFetchDataOK, ReportsCounted, NEW f \in DOMAIN fetch, Fetcher(f)
    PROVE  /\ ReportsCounted'
           /\ f \notin DoneFetchers /\ DoneFetchers # 1..Len(fetch)
           /\ Len(fetch') = Len(fetch) /\ UNCHANGED <<ctrlClosed, got, nerr>>
<1>1. PICK r \in FetchRecords : /\ Becomes(f, r)
                                /\ fetch[f].pc # "done"
                                /\ r.pc = "done" <=> ReportBatch(f)
  BY FetcherRecord
<1>2. /\ Len(fetch') = Len(fetch)
      /\ \A g \in 1..Len(fetch) : fetch'[g] = IF g = f THEN r ELSE fetch[g]
  BY <1>1, BecomesType
<1>3. f \in 1..Len(fetch) /\ f \notin DoneFetchers
  BY <1>1 DEF DoneFetchers, BlocksFetchDataOK
<1>4. UNCHANGED <<ctrlClosed, got, nerr>>
  BY DEF Fetcher, AskLimiter, GetMetas, LockBlocks, MergeBlock, UnlockBlocks, ReportBatch
<1>5. ASSUME ReportBatch(f) PROVE ReportsCounted'
  <2>1. DoneFetchers' = DoneFetchers \cup {f}
    BY <1>1, <1>2, <1>3, <1>5 DEF DoneFetchers
  <2>2. Cardinality(DoneFetchers') = Cardinality(DoneFetchers) + 1
    BY <1>3, <2>1, DoneFetchersFinite, FS_AddElement
  <2>3. fetch[f] \in FetchRecords
    BY DEF BlocksFetchDataOK
  <2>4. Len(ctrl') = Len(ctrl) + 1
    BY <1>5, <2>3, SequenceAppend DEF ReportBatch, BlocksFetchDataOK, FetchRecords
  <2>5. got \in Nat /\ Len(ctrl) \in Nat
    BY DEF BlocksFetchDataOK
  <2>6. QED
    BY <1>4, <2>2, <2>4, <2>5 DEF ReportsCounted
<1>6. ASSUME ~ReportBatch(f) PROVE ReportsCounted'
  <2>1. DoneFetchers' = DoneFetchers
    BY <1>1, <1>2, <1>3, <1>6 DEF DoneFetchers
  <2>2. ctrl' = ctrl
    BY <1>6 DEF Fetcher, AskLimiter, GetMetas, LockBlocks, MergeBlock, UnlockBlocks
  <2>3. QED
    BY <1>4, <2>1, <2>2 DEF ReportsCounted
<1>7. QED
  BY <1>2, <1>3, <1>4, <1>5, <1>6

(* A batch that is started joins the fetchers, and is not done.            *)
LEMMA GoFetchOK ==
    ASSUME BlocksFetchDataOK, NEW lo \in Nat, NEW h \in Nat, GoFetch(lo, h),
           UNCHANGED <<ctrl, got, nerr, blocks, summary>>
    PROVE  /\ BlocksFetchDataOK' /\ DoneFetchers' = DoneFetchers
           /\ Len(fetch') = Len(fetch) + 1
           /\ \A f \in 1..Len(fetch) : fetch'[f] = fetch[f]
           /\ fetch'[Len(fetch) + 1] =
                [pc |-> "limit", lo |-> lo, hi |-> h, metas |-> <<>>, report |-> "ok"]
<1> DEFINE new == [pc |-> "limit", lo |-> lo, hi |-> h, metas |-> <<>>, report |-> "ok"]
<1>1. fetch' = Append(fetch, new)
  BY DEF GoFetch
<1>2. new \in FetchRecords
  <2>1. <<>> \in Seq(1..Top)
    OBVIOUS
  <2>2. QED
    BY <2>1 DEF FetchRecords, FetchPC, Report
<1>3. fetch \in Seq(FetchRecords)
  BY DEF BlocksFetchDataOK
<1>4. new.pc = "limit"
  OBVIOUS
<1> HIDE DEF new
<1>5. fetch' \in Seq(FetchRecords) /\ Len(fetch') = Len(fetch) + 1
  BY <1>1, <1>2, <1>3, SequenceAppend
<1>6. /\ \A f \in 1..Len(fetch) : fetch'[f] = fetch[f]
      /\ fetch'[Len(fetch) + 1] = new
  BY <1>1, <1>2, <1>3
<1>7. BlocksFetchDataOK'
  BY <1>5 DEF BlocksFetchDataOK
<1>8. DoneFetchers' = DoneFetchers
  <2>1. 1..Len(fetch') = (1..Len(fetch)) \cup {Len(fetch) + 1}
    BY <1>3, <1>5
  <2>2. QED
    BY <1>4, <1>6, <2>1 DEF DoneFetchers
<1>9. QED
  BY <1>5, <1>6, <1>7, <1>8 DEF new

(* When the last report is read, every goroutine that was started is done. *)
LEMMA CollectOK ==
    ASSUME BlocksFetchDataOK, ReportsCounted, NEW next, CollectReport(next)
    PROVE  /\ BlocksFetchDataOK' /\ ReportsCounted' /\ DoneFetchers' = DoneFetchers
           /\ pc = "collect" /\ pc' \in {"collect", "failed", next}
           /\ got' = Len(fetch) => DoneFetchers = 1..Len(fetch) /\ ctrl' = <<>>
<1>1. pc = "collect" /\ pc' \in {"collect", "failed", next}
  BY DEF CollectReport
<1>2. UNCHANGED <<fetch, ctrlClosed, blocks, summary>>
  BY DEF CollectReport
<1>3. /\ ctrl \in Seq(Report) /\ Len(ctrl) <= CtrlCap
      /\ got \in Nat /\ nerr \in Nat /\ ctrl # <<>>
  BY DEF BlocksFetchDataOK, CollectReport
<1>4. ctrl' \in Seq(Report) /\ Len(ctrl') = Len(ctrl) - 1 /\ Len(ctrl) >= 1
  BY <1>3, SequenceTail DEF CollectReport
<1>5. Len(ctrl') <= CtrlCap
  BY <1>3, <1>4, BlocksFetchAssumption DEF BlocksFetchAssumption
<1>6. got' = got + 1 /\ nerr' \in Nat
  BY <1>3 DEF CollectReport
<1>7. BlocksFetchDataOK'
  BY <1>2, <1>3, <1>4, <1>5, <1>6 DEF BlocksFetchDataOK
<1>8. DoneFetchers' = DoneFetchers /\ got + Len(ctrl) = Cardinality(DoneFetchers)
  BY <1>2 DEF ReportsCounted, DoneFetchers
<1>9. ReportsCounted'
  BY <1>3, <1>4, <1>6, <1>8 DEF ReportsCounted
<1>10. ASSUME got' = Len(fetch) PROVE DoneFetchers = 1..Len(fetch) /\ ctrl' = <<>>
  <2>1. /\ Cardinality(DoneFetchers) \in Nat
        /\ Cardinality(DoneFetchers) <= Len(fetch)
        /\ Cardinality(DoneFetchers) = Len(fetch) => DoneFetchers = 1..Len(fetch)
    BY DoneFetchersFinite
  <2>2. Len(ctrl) \in Nat /\ Len(fetch) \in Nat
    BY DEF BlocksFetchDataOK
  <2>3. Cardinality(DoneFetchers) = Len(fetch) /\ Len(ctrl') = 0
    BY <1>3, <1>4, <1>6, <1>8, <1>10, <2>1, <2>2
  <2>4. QED
    BY <1>4, <2>1, <2>3
<1>11. QED
  BY <1>1, <1>7, <1>8, <1>9, <1>10

-----------------------------------------------------------------------------
(* The workers that fetch pages of transactions.                           *)

(* What one step of a worker leaves: its new record, which still holds a   *)
(* page of the chain if it is at one, and well-formed channels.            *)
WorkerResult(w, r) ==
    /\ r \in WorkerRecords /\ PageAtHand(r)
    /\ At(w, r)
    /\ toGet' \in Seq(PageIds) /\ Len(toGet') <= ToGetCap
    /\ txIn' \in Seq(Items) /\ Len(txIn') <= TxInCap
    /\ lost' \subseteq Jobs

LEMMA PagesAreJobs == PageIds \subseteq Jobs
BY ChainAssumption DEF ChainAssumption, PageIds, Jobs

LEMMA WorkerRecord ==
    ASSUME TxPipelineDataOK, PagesInv, NEW w \in Workers, Worker(w)
    PROVE  \E r : WorkerResult(w, r)
<1> DEFINE old == worker[w]
<1>1. old \in WorkerRecords /\ PageAtHand(old)
  BY DEF TxPipelineDataOK, PagesInv
<1>2. /\ toGet \in Seq(PageIds) /\ Len(toGet) <= ToGetCap
      /\ txIn \in Seq(Items) /\ Len(txIn) <= TxInCap
      /\ lost \subseteq Jobs
  BY DEF TxPipelineDataOK
<1>3. old.job \in Jobs /\ old.txs \in Seq(Items)
  BY <1>1 DEF WorkerRecords
<1>4. ASSUME SearchFails(w), old.pc \in {"limit", "http"}, UNCHANGED <<toGet, txIn>>
      PROVE  \E r : WorkerResult(w, r)
  <2>0. <<>> \in Seq(Items)
    OBVIOUS
  <2>1. [old EXCEPT !.pc = "emit", !.txs = <<>>] \in WorkerRecords
    BY <1>1, <2>0 DEF WorkerRecords
  <2>2. PageAtHand([old EXCEPT !.pc = "emit", !.txs = <<>>])
    BY <1>1, <1>4 DEF PageAtHand, WorkerRecords
  <2>3. QED
    BY <1>2, <1>3, <1>4, <2>1, <2>2 DEF SearchFails, WorkerResult
<1>5. CASE TakePage(w)
  <2> DEFINE r == [pc |-> "limit", job |-> Head(toGet), txs |-> <<>>]
  <2>1. /\ Head(toGet) \in PageIds /\ toGet' \in Seq(PageIds)
        /\ Len(toGet') = Len(toGet) - 1
    BY <1>2, <1>5, SequenceTail DEF TakePage
  <2>2. r \in WorkerRecords
    BY <2>1, PagesAreJobs DEF WorkerRecords
  <2>3. PageAtHand(r)
    BY <2>1 DEF PageAtHand
  <2>4. Len(toGet') <= ToGetCap
    BY <1>2, <2>1, TxPipelineAssumption DEF TxPipelineAssumption
  <2>5. QED
    BY <1>2, <1>5, <2>1, <2>2, <2>3, <2>4 DEF TakePage, WorkerResult
<1>6. CASE WorkerDone(w)
  <2>1. [old EXCEPT !.pc = "done"] \in WorkerRecords
    BY <1>1 DEF WorkerRecords
  <2>2. PageAtHand([old EXCEPT !.pc = "done"])
    BY <1>1 DEF PageAtHand, WorkerRecords
  <2>3. QED
    BY <1>2, <1>6, <2>1, <2>2 DEF WorkerDone, WorkerResult
<1>7. CASE AskSearchLimiter(w)
  <2>1. CASE SearchFails(w)
    BY <1>4, <1>7, <2>1 DEF AskSearchLimiter
  <2>2. CASE At(w, [old EXCEPT !.pc = "http"]) /\ UNCHANGED lost
    <3>1. [old EXCEPT !.pc = "http"] \in WorkerRecords
      BY <1>1 DEF WorkerRecords
    <3>2. PageAtHand([old EXCEPT !.pc = "http"])
      BY <1>1, <1>7 DEF PageAtHand, WorkerRecords, AskSearchLimiter
    <3>3. QED
      BY <1>2, <1>7, <2>2, <3>1, <3>2 DEF AskSearchLimiter, WorkerResult
  <2>3. QED
    BY <1>7, <2>1, <2>2 DEF AskSearchLimiter
<1>8. CASE Search(w)
  <2>1. CASE SearchFails(w)
    BY <1>4, <1>8, <2>1 DEF Search
  <2> DEFINE r == [old EXCEPT !.pc = "emit", !.txs = PageTxs(old.job[1], old.job[2])]
  <2>2. CASE At(w, r) /\ UNCHANGED lost
    <3>1. old.job \in PageIds
      BY <1>1, <1>8 DEF PageAtHand, Search
    <3>2. PageTxs(old.job[1], old.job[2]) \in Seq(Items)
      BY <3>1, PageTxsType
    <3>3. r \in WorkerRecords
      BY <1>1, <3>2 DEF WorkerRecords
    <3>4. PageAtHand(r)
      BY <1>1, <3>1 DEF PageAtHand, WorkerRecords
    <3>5. QED
      BY <1>2, <1>8, <2>2, <3>3, <3>4 DEF Search, WorkerResult
  <2>3. QED
    BY <1>8, <2>1, <2>2 DEF Search
<1>9. CASE PutTx(w)
  <2> DEFINE r == [old EXCEPT !.txs = Tail(old.txs)]
  <2>1. Head(old.txs) \in Items /\ Tail(old.txs) \in Seq(Items)
    BY <1>3, <1>9, SequenceTail DEF PutTx
  <2>2. r \in WorkerRecords
    BY <1>1, <2>1 DEF WorkerRecords
  <2>3. PageAtHand(r)
    BY <1>1 DEF PageAtHand, WorkerRecords
  <2>4. txIn' \in Seq(Items) /\ Len(txIn') = Len(txIn) + 1 /\ Len(txIn) < TxInCap
    BY <1>2, <1>9, <2>1, SequenceAppend DEF PutTx
  <2>5. Len(txIn') <= TxInCap
    BY <1>2, <2>4, TxPipelineAssumption DEF TxPipelineAssumption
  <2>6. QED
    BY <1>2, <1>9, <2>2, <2>3, <2>4, <2>5 DEF PutTx, WorkerResult
<1>10. CASE PageDone(w)
  <2>1. [old EXCEPT !.pc = "idle"] \in WorkerRecords
    BY <1>1 DEF WorkerRecords
  <2>2. PageAtHand([old EXCEPT !.pc = "idle"])
    BY <1>1 DEF PageAtHand, WorkerRecords
  <2>3. QED
    BY <1>2, <1>10, <2>1, <2>2 DEF PageDone, WorkerResult
<1>11. QED
  BY <1>5, <1>6, <1>7, <1>8, <1>9, <1>10 DEF Worker

LEMMA WorkerOK ==
    ASSUME TxPipelineDataOK, PagesInv, NEW w \in Workers, Worker(w)
    PROVE  TxPipelineDataOK' /\ PagesInv'
<1>1. PICK r : WorkerResult(w, r)
  BY WorkerRecord
<1>2. UNCHANGED <<todo, cur, conv, pc>>
  BY DEF Worker, taskVars
<1>3. worker' = [worker EXCEPT ![w] = r] /\ r \in WorkerRecords
  BY <1>1 DEF WorkerResult, At
<1>4. worker' \in [Workers -> WorkerRecords]
  BY <1>3 DEF TxPipelineDataOK
<1>5. \A v \in Workers : PageAtHand(worker'[v])
  BY <1>1, <1>3 DEF WorkerResult, TxPipelineDataOK, PagesInv
<1>6. TxPipelineDataOK'
  BY <1>1, <1>2, <1>4 DEF WorkerResult, TxPipelineDataOK
<1>7. PagesInv'
  BY <1>2, <1>5 DEF PagesInv, PageAtHand
<1>8. QED
  BY <1>6, <1>7

-----------------------------------------------------------------------------
(* What a step leaves alone stays well formed.                             *)

LEMMA TaskUnmoved ==
    ASSUME TaskDataOK(Items), UNCHANGED <<out, answer>>
    PROVE  TaskDataOK(Items)'
BY DEF TaskDataOK

LEMMA SendRespUnmoved ==
    ASSUME SendRespDataOK, UNCHANGED <<spc, order>>
    PROVE  SendRespDataOK'
BY DEF SendRespDataOK

LEMMA BlocksFetchUnmoved ==
    ASSUME BlocksFetchDataOK, UNCHANGED <<fetch, ctrl, got, nerr, blocks, summary>>
    PROVE  BlocksFetchDataOK'
BY DEF BlocksFetchDataOK

LEMMA TxPipelineUnmoved ==
    ASSUME TxPipelineDataOK, UNCHANGED <<todo, cur, toGet, worker, txIn, conv, lost>>
    PROVE  TxPipelineDataOK'
BY DEF TxPipelineDataOK

LEMMA PagesUnmoved ==
    ASSUME PagesInv, UNCHANGED <<cur, worker, conv>>, pc' = pc \/ pc' # "pages"
    PROVE  PagesInv'
BY DEF PagesInv, PageAtHand

LEMMA FetchersUnmoved ==
    ASSUME ReportsCounted, UNCHANGED <<fetch, ctrl, got>>
    PROVE  ReportsCounted' /\ DoneFetchers' = DoneFetchers
BY DEF ReportsCounted, DoneFetchers

(* Putting an item into out, and sending a response.                       *)
LEMMA PutOutOK ==
    ASSUME TaskDataOK(Items), OutHasRoom, NEW x \in Items,
           out' = Append(out, x), UNCHANGED answer
    PROVE  TaskDataOK(Items)'
<1>1. out' \in Seq(Items) /\ Len(out') = Len(out) + 1
  BY SequenceAppend DEF TaskDataOK
<1>2. Len(out') <= OutCap
  BY <1>1, TaskAssumption DEF TaskDataOK, TaskAssumption, OutHasRoom
<1>3. QED
  BY <1>1, <1>2 DEF TaskDataOK

LEMMA AnswerOK ==
    ASSUME TaskDataOK(Items), NEW r \in Responses(Items), Send(r), UNCHANGED out
    PROVE  TaskDataOK(Items)'
BY SendType DEF TaskDataOK

-----------------------------------------------------------------------------
(* The converter, sendResp and the handler's part of the pipeline.         *)

LEMMA ConverterOK ==
    ASSUME TaskDataOK(Items), TxPipelineDataOK, PagesInv, Converter
    PROVE  TaskDataOK(Items)' /\ TxPipelineDataOK' /\ PagesInv' /\ conv.pc # "done"
<1>1. UNCHANGED <<pc, answer, todo, cur, toGet, toGetClosed, worker, txInClosed, lost>>
  BY DEF Converter
<1>2. conv \in [pc : {"idle", "emit", "done"}, tx : Items \cup {NoItem}]
  BY DEF TxPipelineDataOK
<1>3. txIn \in Seq(Items) /\ Len(txIn) <= TxInCap
  BY DEF TxPipelineDataOK
<1>4. CASE TakeTx
  <2>1. /\ Head(txIn) \in Items /\ txIn' \in Seq(Items)
        /\ Len(txIn') = Len(txIn) - 1
    BY <1>3, <1>4, SequenceTail DEF TakeTx
  <2>2. Len(txIn') <= TxInCap
    BY <1>3, <2>1, TxPipelineAssumption DEF TxPipelineAssumption
  <2>3. conv' \in [pc : {"idle", "emit", "done"}, tx : Items \cup {NoItem}]
    BY <1>4, <2>1 DEF TakeTx
  <2>4. TxPipelineDataOK'
    BY <1>1, <2>1, <2>2, <2>3 DEF TxPipelineDataOK
  <2>5. PagesInv'
    BY <1>1, <1>4, <2>1 DEF PagesInv, PageAtHand, TakeTx
  <2>6. TaskDataOK(Items)'
    BY <1>1, <1>4, TaskUnmoved DEF TakeTx
  <2>7. QED
    BY <1>4, <2>4, <2>5, <2>6 DEF TakeTx
<1>5. CASE PutTransaction
  <2>1. conv' \in [pc : {"idle", "emit", "done"}, tx : Items \cup {NoItem}]
    BY <1>5 DEF PutTransaction
  <2>2. TxPipelineDataOK'
    BY <1>1, <1>5, <2>1 DEF TxPipelineDataOK, PutTransaction
  <2>3. PagesInv'
    BY <1>1, <1>5 DEF PagesInv, PageAtHand, PutTransaction
  <2>4. conv.tx \in Items
    BY <1>5 DEF PagesInv, PutTransaction
  <2>5. TaskDataOK(Items)'
    BY <1>1, <1>5, <2>4, PutOutOK DEF PutTransaction
  <2>6. QED
    BY <1>5, <2>2, <2>3, <2>5 DEF PutTransaction
<1>6. CASE ConverterDone
  <2>1. /\ conv' \in [pc : {"idle", "emit", "done"}, tx : Items \cup {NoItem}]
        /\ conv'.pc = "done"
    BY <1>2, <1>6 DEF ConverterDone
  <2>2. TxPipelineDataOK'
    BY <1>1, <1>6, <2>1 DEF TxPipelineDataOK, ConverterDone
  <2>3. PagesInv'
    BY <1>1, <2>1 DEF PagesInv, PageAtHand
  <2>4. TaskDataOK(Items)'
    BY <1>1, <1>6, TaskUnmoved DEF ConverterDone
  <2>5. QED
    BY <1>6, <2>2, <2>3, <2>4 DEF ConverterDone
<1>7. QED
  BY <1>4, <1>5, <1>6 DEF Converter

LEMMA SenderOK ==
    ASSUME TaskDataOK(Items), SendRespDataOK, Sender
    PROVE  TaskDataOK(Items)' /\ SendRespDataOK'
<1>1. order \in Nat /\ out \in Seq(Items) /\ Len(out) <= OutCap
  BY DEF SendRespDataOK, TaskDataOK
<1>2. CASE SendItem
  <2>1. Head(out) \in Items /\ out' \in Seq(Items) /\ Len(out') = Len(out) - 1
    BY <1>1, <1>2, SequenceTail DEF SendItem
  <2>2. Len(out') <= OutCap
    BY <1>1, <2>1, TaskAssumption DEF TaskAssumption
  <2>3. Data(Head(out), order) \in Responses(Items)
    BY <1>1, <2>1, ResponseTypes
  <2>4. answer' \in Seq(Responses(Items))
    BY <1>2, <2>3, SendType DEF TaskDataOK, SendItem
  <2>5. TaskDataOK(Items)'
    BY <2>1, <2>2, <2>4 DEF TaskDataOK
  <2>6. SendRespDataOK'
    BY <1>2 DEF SendRespDataOK, SendItem
  <2>7. QED
    BY <2>5, <2>6
<1>3. CASE SendEnd
  <2>1. EndMark(order) \in Responses(Items)
    BY <1>1 DEF EndMark, Responses
  <2>2. TaskDataOK(Items)'
    BY <1>3, <2>1, AnswerOK DEF SendEnd
  <2>3. SendRespDataOK'
    BY <1>3 DEF SendRespDataOK, SendEnd
  <2>4. QED
    BY <2>2, <2>3
<1>4. CASE OutDrained \/ SenderCancelled \/ SignalFin
  <2>1. TaskDataOK(Items)'
    BY <1>4, TaskUnmoved DEF OutDrained, SenderCancelled, SignalFin, taskVars
  <2>2. SendRespDataOK'
    BY <1>4 DEF SendRespDataOK, OutDrained, SenderCancelled, SignalFin
  <2>3. QED
    BY <2>1, <2>2
<1>5. QED
  BY <1>2, <1>3, <1>4 DEF Sender

LEMMA LaunchOK ==
    ASSUME TaskDataOK(Items), TxPipelineDataOK, NEW hs \in SUBSET (1..Top), Launch(hs)
    PROVE  /\ TaskDataOK(Items)' /\ TxPipelineDataOK' /\ PagesInv' /\ PipelineChannels'
           /\ pc = "launch" /\ pc' = "range" /\ ~toGetClosed' /\ ~txInClosed'
<1>1. TaskDataOK(Items)'
  BY TaskUnmoved DEF Launch
<1>2. todo' \subseteq 1..Top /\ cur' \in Jobs /\ lost' \subseteq Jobs
  <2>1. <<0, 0>> \in Jobs
    BY ChainAssumption DEF ChainAssumption, Jobs
  <2>2. QED
    BY <2>1 DEF TxPipelineDataOK, Launch
<1>3. /\ toGet' \in Seq(PageIds) /\ Len(toGet') <= ToGetCap
      /\ txIn' \in Seq(Items) /\ Len(txIn') <= TxInCap
  <2>1. toGet' = <<>> /\ txIn' = <<>>
    BY DEF Launch
  <2>2. ToGetCap \in Nat /\ TxInCap \in Nat
    BY TxPipelineAssumption DEF TxPipelineAssumption
  <2>3. QED
    BY <2>1, <2>2
<1> DEFINE idle == [pc |-> "idle", job |-> <<0, 0>>, txs |-> <<>>]
<1>4. idle \in WorkerRecords
  <2>1. <<0, 0>> \in Jobs /\ <<>> \in Seq(Items)
    BY ChainAssumption DEF ChainAssumption, Jobs
  <2>2. QED
    BY <2>1 DEF WorkerRecords
<1>5. PageAtHand(idle)
  BY DEF PageAtHand
<1>6. worker' = [w \in Workers |-> idle]
  BY DEF Launch
<1> HIDE DEF idle
<1>7. worker' \in [Workers -> WorkerRecords]
  BY <1>4, <1>6
<1>8. conv' \in [pc : {"idle", "emit", "done"}, tx : Items \cup {NoItem}] /\ conv'.pc = "idle"
  BY DEF Launch
<1>9. TxPipelineDataOK'
  BY <1>2, <1>3, <1>7, <1>8 DEF TxPipelineDataOK
<1>10. \A w \in Workers : PageAtHand(worker'[w])
  BY <1>5, <1>6
<1>11. pc = "launch" /\ pc' = "range" /\ ~toGetClosed' /\ ~txInClosed'
  BY DEF Launch
<1>12. PagesInv'
  BY <1>8, <1>10, <1>11 DEF PagesInv, PageAtHand
<1>13. QED
  BY <1>1, <1>9, <1>11, <1>12 DEF PipelineChannels

LEMMA FeedOK ==
    ASSUME TaskDataOK(Items), TxPipelineDataOK, PagesInv, PipelineChannels, PipelineMain
    PROVE  /\ TaskDataOK(Items)' /\ TxPipelineDataOK' /\ PagesInv' /\ PipelineChannels'
           /\ pc \in {"range", "pages", "waitHttp"}
           /\ pc' \in {"range", "pages", "waitHttp", "waitConv"}
           /\ UNCHANGED <<ctxDone, streamUp, outClosed, answer, worker, txIn, conv, lost>>
<1>1. /\ pc \in {"range", "pages", "waitHttp"}
      /\ pc' \in {"range", "pages", "waitHttp", "waitConv"}
  BY DEF PipelineMain, SendBlock, QueuePage, CloseToGet, CloseTxIn
<1>2. UNCHANGED <<ctxDone, streamUp, outClosed, answer, worker, txIn, conv, lost>>
  BY DEF PipelineMain, SendBlock, QueuePage, CloseToGet, CloseTxIn
<1>3. /\ todo \subseteq 1..Top /\ cur \in Jobs
      /\ toGet \in Seq(PageIds) /\ Len(toGet) <= ToGetCap
  BY DEF TxPipelineDataOK
<1>4. ASSUME NEW h \in todo, SendBlock(h)
      PROVE  /\ TaskDataOK(Items)'
             /\ todo' \subseteq 1..Top /\ cur' \in PageIds
             /\ UNCHANGED <<toGet, toGetClosed, txInClosed>> /\ ~toGetClosed
  <2>1. h \in 1..Top
    BY <1>3
  <2>2. NumTxs[h] \in Nat
    BY <2>1, ChainAssumption DEF ChainAssumption
  <2>3. <<h, 0>> \in Items
    BY <2>1, <2>2, ItemsOfBlock
  <2>4. TaskDataOK(Items)'
    BY <1>2, <1>4, <2>3, PutOutOK DEF SendBlock
  <2>5. todo' \subseteq 1..Top /\ cur' \in PageIds
    BY <1>3, <1>4, <2>1 DEF SendBlock, PageIds
  <2>6. QED
    BY <1>4, <2>4, <2>5 DEF SendBlock, PipelineChannels
<1>5. ASSUME QueuePage
      PROVE  /\ UNCHANGED <<out, todo, toGetClosed, txInClosed>> /\ ~toGetClosed
             /\ cur' \in PageIds /\ toGet' \in Seq(PageIds) /\ Len(toGet') <= ToGetCap
  <2>1. cur \in PageIds
    BY <1>5 DEF PagesInv, QueuePage
  <2>2. cur[1] \in 1..Top /\ cur[2] \in Nat \ {0} /\ cur' = <<cur[1], cur[2] + 1>>
    BY <1>5, <2>1 DEF PageIds, QueuePage
  <2>3. cur' \in PageIds
    BY <2>2 DEF PageIds
  <2>4. toGet' \in Seq(PageIds) /\ Len(toGet') = Len(toGet) + 1 /\ Len(toGet) < ToGetCap
    BY <1>3, <1>5, <2>1, SequenceAppend DEF QueuePage
  <2>5. Len(toGet') <= ToGetCap
    BY <1>3, <2>4, TxPipelineAssumption DEF TxPipelineAssumption
  <2>6. QED
    BY <1>5, <2>3, <2>4, <2>5 DEF QueuePage, PipelineChannels
<1>6. ASSUME CloseToGet \/ CloseTxIn
      PROVE  UNCHANGED <<out, todo, cur, toGet>> /\ pc' \in {"waitHttp", "waitConv"}
  BY <1>6 DEF CloseToGet, CloseTxIn
<1>7. TaskDataOK(Items)'
  BY <1>2, <1>4, <1>5, <1>6, TaskUnmoved DEF PipelineMain
<1>8. /\ todo' \subseteq 1..Top /\ cur' \in Jobs
      /\ toGet' \in Seq(PageIds) /\ Len(toGet') <= ToGetCap
  <2>1. CASE \E h \in todo : SendBlock(h)
    BY <1>3, <1>4, <2>1, PagesAreJobs
  <2>2. CASE QueuePage
    BY <1>3, <1>5, <2>2, PagesAreJobs
  <2>3. CASE CloseToGet \/ CloseTxIn
    BY <1>3, <1>6, <2>3
  <2>4. QED
    BY <2>1, <2>2, <2>3 DEF PipelineMain
<1>9. TxPipelineDataOK'
  BY <1>2, <1>8 DEF TxPipelineDataOK
<1>10. pc' = "pages" => cur' \in PageIds
  BY <1>4, <1>5, <1>6 DEF PipelineMain
<1>11. PagesInv'
  BY <1>2, <1>10 DEF PagesInv, PageAtHand
<1>12. toGetClosed' => pc' \notin {"range", "pages"}
  BY <1>4, <1>5, <1>6 DEF PipelineMain
<1>13. txInClosed' => \A w \in Workers : worker'[w].pc = "done"
  <2>1. CASE CloseTxIn
    BY <1>2, <2>1 DEF CloseTxIn, HttpWaitGroupZero
  <2>2. CASE UNCHANGED txInClosed
    BY <1>2, <2>2 DEF PipelineChannels
  <2>3. QED
    BY <1>4, <1>5, <2>1, <2>2 DEF PipelineMain, CloseToGet
<1>14. QED
  BY <1>1, <1>2, <1>7, <1>9, <1>11, <1>12, <1>13 DEF PipelineChannels

(* Before anything is started.                                             *)
LEMMA PartsInit ==
    ASSUME TaskInit, SendRespInit, BlocksFetchInit, TxPipelineInit
    PROVE  /\ TaskDataOK(Items) /\ SendRespDataOK /\ BlocksFetchDataOK /\ TxPipelineDataOK
           /\ PagesInv /\ ReportsCounted /\ DoneFetchers = 1..Len(fetch)
<1> USE DEF TaskInit, SendRespInit, BlocksFetchInit, TxPipelineInit
<1>1. TaskDataOK(Items)
  <2>1. Len(out) = 0
    OBVIOUS
  <2>2. QED
    BY <2>1, TaskAssumption DEF TaskDataOK, TaskAssumption
<1>2. SendRespDataOK
  BY DEF SendRespDataOK
<1>3. BlocksFetchDataOK
  <2>1. summary \in [numTxs : Nat, start : Nat, end : Nat]
    BY DEF EmptySummary
  <2>2. Len(ctrl) <= CtrlCap
    BY BlocksFetchAssumption DEF BlocksFetchAssumption
  <2>3. QED
    BY <2>1, <2>2 DEF BlocksFetchDataOK
<1>4. TxPipelineDataOK
  <2> DEFINE finished == [pc |-> "done", job |-> <<0, 0>>, txs |-> <<>>]
  <2>1. <<0, 0>> \in Jobs /\ <<>> \in Seq(Items)
    BY ChainAssumption DEF ChainAssumption, Jobs
  <2>2. finished \in WorkerRecords
    BY <2>1 DEF WorkerRecords
  <2>3. worker = [w \in Workers |-> finished]
    OBVIOUS
  <2> HIDE DEF finished
  <2>4. worker \in [Workers -> WorkerRecords]
    BY <2>2, <2>3
  <2>5. conv \in [pc : {"idle", "emit", "done"}, tx : Items \cup {NoItem}]
    OBVIOUS
  <2>6. Len(toGet) <= ToGetCap /\ Len(txIn) <= TxInCap
    BY TxPipelineAssumption DEF TxPipelineAssumption
  <2>7. todo \subseteq 1..Top /\ lost \subseteq Jobs
    OBVIOUS
  <2>8. toGet \in Seq(PageIds) /\ txIn \in Seq(Items)
    OBVIOUS
  <2>9. QED
    BY <2>1, <2>4, <2>5, <2>6, <2>7, <2>8 DEF TxPipelineDataOK
<1>5. PagesInv
  BY DEF PagesInv, PageAtHand
<1>6. ReportsCounted /\ DoneFetchers = 1..Len(fetch)
  <2>1. DoneFetchers = {} /\ 1..Len(fetch) = {}
    BY DEF DoneFetchers
  <2>2. QED
    BY <2>1, FS_EmptySet DEF ReportsCounted
<1>7. QED
  BY <1>1, <1>2, <1>3, <1>4, <1>5, <1>6

-----------------------------------------------------------------------------
(* The transactions of a set of blocks, added up: MapThenSumSet takes the  *)
(* heights in an order of its own, and the sum does not depend on it.      *)

Heights == 1..Top
Pick(s) == CHOOSE h \in s : TRUE
TxsIn(s) == Sets!MapThenSumSet(LAMBDA h : NumTxs[h], s)

(* sum is the function by which MapThenSumSet adds: it takes one height    *)
(* after the other, in an order of its own.                                *)
Adds(sum, S) ==
    sum = [s \in SUBSET S |-> IF s = {} THEN 0 ELSE NumTxs[Pick(s)] + sum[s \ {Pick(s)}]]

LEMMA SumByAdding == \A S : TxsIn(S) = (CHOOSE sum : Adds(sum, S))[S]
  BY DEF TxsIn, Sets!MapThenSumSet, Sets!MapThenFoldSet, Adds, Pick

(* Among sets of heights one is smallest.                                  *)
LEMMA SmallestSet ==
    ASSUME NEW X \in SUBSET (SUBSET Heights), X # {}
    PROVE  \E s \in X : \A t \in SUBSET s : t # s => t \notin X
<1>1. IsFiniteSet(Heights)
  BY ChainAssumption, FS_Interval DEF ChainAssumption, Heights
<1>2. FiniteSubsetsOf(Heights) = SUBSET Heights
  BY <1>1, FS_FiniteSubsetsOfFinite
<1>3. IsWellFoundedOn(StrictSubsetOrdering(Heights), SUBSET Heights)
  BY <1>2, FS_StrictSubsetOrderingWellFounded
<1>4. PICK s \in X : \A t \in X : ~ (<<t, s>> \in StrictSubsetOrdering(Heights))
  BY <1>3, WFMin
<1>5. QED
  BY <1>4 DEF StrictSubsetOrdering

(* What is picked from a set is in it.                                     *)
LEMMA PickOne == \A s : s # {} => Pick(s) \in s
  BY DEF Pick

(* All such functions agree.                                               *)
LEMMA SumsAgree ==
    ASSUME NEW S \in SUBSET Heights, NEW T \in SUBSET Heights, NEW f, NEW g,
           Adds(f, S), Adds(g, T)
    PROVE  \A s \in SUBSET (S \cap T) : f[s] = g[s]
<1> DEFINE X == {s \in SUBSET (S \cap T) : f[s] # g[s]}
<1>1. SUFFICES ASSUME X # {} PROVE FALSE
  OBVIOUS
<1>2. PICK s \in X : \A t \in SUBSET s : t # s => t \notin X
  BY <1>1, SmallestSet
<1>3. s \in SUBSET S /\ s \in SUBSET T /\ f[s] # g[s]
  OBVIOUS
<1>4. /\ f[s] = IF s = {} THEN 0 ELSE NumTxs[Pick(s)] + f[s \ {Pick(s)}]
      /\ g[s] = IF s = {} THEN 0 ELSE NumTxs[Pick(s)] + g[s \ {Pick(s)}]
  BY <1>3 DEF Adds
<1>5. s # {}
  BY <1>3, <1>4
<1>6. s \ {Pick(s)} \in SUBSET s /\ s \ {Pick(s)} # s
  BY <1>5, PickOne
<1>7. f[s \ {Pick(s)}] = g[s \ {Pick(s)}]
  BY <1>2, <1>3, <1>6
<1>8. QED
  BY <1>3, <1>4, <1>7

(* Of a set, and of a part of it, the same function adds up.               *)
LEMMA SumOfPart ==
    ASSUME NEW S, NEW sum, Adds(sum, S), NEW T \in SUBSET S
    PROVE  Adds([s \in SUBSET T |-> sum[s]], T)
<1> DEFINE part == [s \in SUBSET T |-> sum[s]]
<1>1. ASSUME NEW s \in SUBSET T
      PROVE  part[s] = IF s = {} THEN 0 ELSE NumTxs[Pick(s)] + part[s \ {Pick(s)}]
  <2>1. s \in SUBSET S /\ s \ {Pick(s)} \in SUBSET T
    OBVIOUS
  <2>2. sum[s] = IF s = {} THEN 0 ELSE NumTxs[Pick(s)] + sum[s \ {Pick(s)}]
    BY <2>1 DEF Adds
  <2>3. QED
    BY <2>1, <2>2
<1>2. part = [s \in SUBSET T |-> part[s]]
  OBVIOUS
<1> HIDE DEF part
<1>3. QED
  BY <1>1, <1>2 DEF Adds

HasSum(S) == \E sum : Adds(sum, S)

(* The sum of a set is what any such function has for it.                  *)
LEMMA SumOfSum ==
    ASSUME NEW S \in SUBSET Heights, NEW sum, Adds(sum, S)
    PROVE  TxsIn(S) = sum[S]
<1> DEFINE c == CHOOSE g : Adds(g, S)
<1>1. Adds(c, S)
  OBVIOUS
<1>2. TxsIn(S) = c[S]
  BY SumByAdding
<1> HIDE DEF c
<1>3. QED
  BY <1>1, <1>2, SumsAgree

(* There is one for every set of heights.                                  *)
LEMMA SumsExist == \A S \in SUBSET Heights : HasSum(S)
<1> DEFINE X == {S \in SUBSET Heights : ~HasSum(S)}
<1>1. SUFFICES ASSUME X # {} PROVE FALSE
  OBVIOUS
<1>2. PICK S \in X : \A t \in SUBSET S : t # S => t \notin X
  BY <1>1, SmallestSet
<1>3. S \in SUBSET Heights /\ ~HasSum(S)
  OBVIOUS
<1>4. \A T \in SUBSET S : T # S => HasSum(T)
  BY <1>2, <1>3
<1> HIDE DEF X
<1> DEFINE sum == [s \in SUBSET S |-> IF s = {} THEN 0 ELSE NumTxs[Pick(s)] + TxsIn(s \ {Pick(s)})]
<1>5. ASSUME NEW T \in SUBSET S, T # S
      PROVE  sum[T] = TxsIn(T)
  <2>1. PICK g : Adds(g, T)
    BY <1>4, <1>5 DEF HasSum
  <2>2. T \in SUBSET Heights
    BY <1>3
  <2>3. g[T] = IF T = {} THEN 0 ELSE NumTxs[Pick(T)] + g[T \ {Pick(T)}]
    BY <2>1 DEF Adds
  <2> DEFINE U == T \ {Pick(T)}
             part == [s \in SUBSET U |-> g[s]]
  <2>4. Adds(part, U)
    BY <2>1, SumOfPart
  <2>5. part[U] = g[U]
    OBVIOUS
  <2> HIDE DEF part
  <2>6. TxsIn(U) = g[U]
    BY <2>2, <2>4, <2>5, SumOfSum
  <2>7. TxsIn(T) = g[T]
    BY <2>1, <2>2, SumOfSum
  <2>8. QED
    BY <2>3, <2>6, <2>7
<1>6. ASSUME NEW s \in SUBSET S
      PROVE  sum[s] = IF s = {} THEN 0 ELSE NumTxs[Pick(s)] + sum[s \ {Pick(s)}]
  <2>1. CASE s = {}
    BY <2>1
  <2>2. CASE s # {}
    <3>1. s \ {Pick(s)} \in SUBSET S /\ s \ {Pick(s)} # S
      BY <2>2, PickOne
    <3>2. sum[s \ {Pick(s)}] = TxsIn(s \ {Pick(s)})
      BY <1>5, <3>1
    <3>3. QED
      BY <2>2, <3>2
  <2>3. QED
    BY <2>1, <2>2
<1>7. sum = [s \in SUBSET S |-> sum[s]]
  OBVIOUS
<1> HIDE DEF sum
<1>8. Adds(sum, S)
  BY <1>6, <1>7 DEF Adds
<1>9. QED
  BY <1>3, <1>8 DEF HasSum

(* The sum of nothing is 0, and one height is taken at a time.             *)
LEMMA TakeOne ==
    /\ TxsIn({}) = 0
    /\ \A s \in SUBSET Heights : s # {} => TxsIn(s) = NumTxs[Pick(s)] + TxsIn(s \ {Pick(s)})
<1>1. ASSUME NEW s \in SUBSET Heights
      PROVE  TxsIn(s) = IF s = {} THEN 0 ELSE NumTxs[Pick(s)] + TxsIn(s \ {Pick(s)})
  <2>1. PICK g : Adds(g, s)
    BY SumsExist DEF HasSum
  <2>2. g[s] = IF s = {} THEN 0 ELSE NumTxs[Pick(s)] + g[s \ {Pick(s)}]
    BY <2>1 DEF Adds
  <2> DEFINE U == s \ {Pick(s)}
             part == [t \in SUBSET U |-> g[t]]
  <2>3. Adds(part, U)
    BY <2>1, SumOfPart
  <2>4. part[U] = g[U]
    OBVIOUS
  <2> HIDE DEF part
  <2>5. TxsIn(U) = g[U]
    BY <2>3, <2>4, SumOfSum
  <2>6. TxsIn(s) = g[s]
    BY <2>1, SumOfSum
  <2>7. QED
    BY <2>2, <2>5, <2>6
<1>2. QED
  BY <1>1

(* It is a number.                                                         *)
LEMMA SumType == \A s \in SUBSET Heights : TxsIn(s) \in Nat
<1> DEFINE X == {s \in SUBSET Heights : TxsIn(s) \notin Nat}
<1>1. SUFFICES ASSUME X # {} PROVE FALSE
  OBVIOUS
<1>2. PICK s \in X : \A t \in SUBSET s : t # s => t \notin X
  BY <1>1, SmallestSet
<1>3. s \in SUBSET Heights /\ TxsIn(s) \notin Nat
  OBVIOUS
<1>4. s # {}
  BY <1>3, TakeOne
<1>5. Pick(s) \in s /\ Pick(s) \in Heights
  BY <1>3, <1>4, PickOne
<1>6. TxsIn(s \ {Pick(s)}) \in Nat
  BY <1>2, <1>3, <1>5
<1>7. NumTxs[Pick(s)] \in Nat
  BY <1>5, ChainAssumption DEF ChainAssumption, Heights
<1>8. QED
  BY <1>3, <1>4, <1>6, <1>7, TakeOne

(* A new height adds its transactions, whenever it is taken.               *)
LEMMA SumGrows ==
    \A S \in SUBSET Heights : \A h \in Heights \ S : TxsIn(S \cup {h}) = TxsIn(S) + NumTxs[h]
<1> DEFINE Grows(s) == \A h \in Heights \ s : TxsIn(s \cup {h}) = TxsIn(s) + NumTxs[h]
           X == {s \in SUBSET Heights : ~Grows(s)}
<1>1. SUFFICES ASSUME X # {} PROVE FALSE
  OBVIOUS
<1>2. PICK s \in X : \A t \in SUBSET s : t # s => t \notin X
  BY <1>1, SmallestSet
<1>3. s \in SUBSET Heights /\ ~Grows(s)
  OBVIOUS
<1>4. ASSUME NEW t \in SUBSET s, t # s, NEW y \in Heights \ t
      PROVE  TxsIn(t \cup {y}) = TxsIn(t) + NumTxs[y]
  BY <1>2, <1>3, <1>4
<1>5. PICK h \in Heights \ s : TxsIn(s \cup {h}) # TxsIn(s) + NumTxs[h]
  BY <1>3
<1> HIDE DEF X, Grows
<1> DEFINE all == s \cup {h}
           x == Pick(all)
<1>6. all \in SUBSET Heights /\ x \in all /\ x \in Heights
  BY <1>3, PickOne
<1>7. TxsIn(all) = NumTxs[x] + TxsIn(all \ {x})
  BY <1>6, TakeOne
<1>8. /\ \A t \in SUBSET Heights : TxsIn(t) \in Nat
      /\ \A y \in Heights : NumTxs[y] \in Nat
  BY SumType, ChainAssumption DEF ChainAssumption, Heights
<1>9. CASE x = h
  <2>1. all \ {x} = s
    BY <1>5, <1>9
  <2>2. TxsIn(all) = NumTxs[h] + TxsIn(s)
    BY <1>7, <1>9, <2>1
  <2>3. QED
    BY <1>3, <1>5, <1>8, <2>2
<1>10. CASE x # h
  <2> DEFINE t == s \ {x}
  <2>1. /\ x \in s /\ t \in SUBSET s /\ t # s /\ t \in SUBSET Heights
        /\ all \ {x} = t \cup {h} /\ s = t \cup {x} /\ x \notin t /\ h \notin t
    BY <1>3, <1>5, <1>6, <1>10
  <2> HIDE DEF t
  <2>2. TxsIn(t \cup {h}) = TxsIn(t) + NumTxs[h]
    BY <1>4, <2>1
  <2>3. TxsIn(s) = TxsIn(t) + NumTxs[x]
    BY <1>4, <1>6, <2>1
  <2>4. TxsIn(all) = NumTxs[x] + (TxsIn(t) + NumTxs[h])
    BY <1>7, <2>1, <2>2
  <2>5. QED
    BY <1>5, <1>6, <1>8, <2>1, <2>3, <2>4
<1>11. QED
  BY <1>9, <1>10

-----------------------------------------------------------------------------
(* The summary of the blocks in the map.                                   *)
SummaryOf(held, s) ==
    /\ s.numTxs = TxsIn(held)
    /\ held = {} => s.start = 0 /\ s.end = 0
    /\ held # {} => {s.start, s.end} \subseteq held
    /\ \A h \in held : s.start <= h /\ h <= s.end

LEMMA SummaryOfNothing == SummaryOf({}, EmptySummary)
  BY TakeOne DEF SummaryOf, EmptySummary

(* It grows with a block that is new to the map.                           *)
LEMMA SummaryGrows ==
    ASSUME NEW held \in SUBSET (1..Top), NEW s \in [numTxs : Nat, start : Nat, end : Nat],
           SummaryOf(held, s), NEW h \in (1..Top) \ held
    PROVE  SummaryOf(held \cup {h}, WithBlock(s, h))
<1>1. TxsIn(held \cup {h}) = TxsIn(held) + NumTxs[h]
  BY SumGrows DEF Heights
<1> DEFINE t == WithBlock(s, h)
<1>2. /\ t.numTxs = s.numTxs + NumTxs[h]
      /\ t.start = IF s.start = 0 \/ s.start > h THEN h ELSE s.start
      /\ t.end = IF s.end = 0 \/ s.end < h THEN h ELSE s.end
  BY DEF WithBlock
<1>3. t.numTxs = TxsIn(held \cup {h})
  BY <1>1, <1>2 DEF SummaryOf
<1> HIDE DEF t
<1>4. /\ h \in Nat /\ h >= 1 /\ \A g \in held : g \in Nat /\ g >= 1
      /\ s.start \in Nat /\ s.end \in Nat
  OBVIOUS
<1>5. CASE held = {}
  BY <1>2, <1>3, <1>4, <1>5 DEF SummaryOf, t
<1>6. CASE held # {}
  <2>1. /\ s.start \in held /\ s.end \in held /\ s.start >= 1 /\ s.end >= 1
        /\ \A g \in held : s.start <= g /\ g <= s.end
    BY <1>4, <1>6 DEF SummaryOf
  <2>2. /\ t.start = IF s.start > h THEN h ELSE s.start
        /\ t.end = IF s.end < h THEN h ELSE s.end
    BY <1>2, <1>4, <2>1
  <2>3. t.start \in held \cup {h} /\ t.end \in held \cup {h}
    BY <2>1, <2>2
  <2>4. t.start <= h /\ h <= t.end /\ t.start <= s.start /\ s.end <= t.end
    BY <1>4, <2>2
  <2>5. \A g \in held \cup {h} : t.start <= g /\ g <= t.end
    <3>1. t.start \in Nat /\ t.end \in Nat
      BY <1>4, <2>3
    <3>2. QED
      BY <1>4, <2>1, <2>4, <3>1
  <2>6. QED
    BY <1>3, <2>3, <2>5 DEF SummaryOf, t
<1>7. QED
  BY <1>5, <1>6

-----------------------------------------------------------------------------
(* What the answer rests on.                                               *)

(* The handler's positions from the start of the pipeline to its end.      *)
Feeding == {"range", "pages", "waitHttp", "waitConv"}

-----------------------------------------------------------------------------
(* The places an item may be at, nearest to the manager first.             *)

InOut == Delivered \cup Range(out)
AtConverter == IF conv.pc = "emit" THEN {conv.tx} ELSE {}
Taken == InOut \cup AtConverter
ToConvert == Taken \cup Range(txIn)
Emitting == {w \in Workers : worker[w].pc = "emit"}
AtWorkers == UNION {Range(worker[w].txs) : w \in Emitting}
Found == ToConvert \cup AtWorkers

Searching == {w \in Workers : worker[w].pc \in {"limit", "http"}}
SearchedPages == {worker[w].job : w \in Searching}
OpenPages == SearchedPages \cup Range(toGet)

(* The heights of which something was found, is waited for or is visited.  *)
Touched ==
    {x[1] : x \in Found} \cup {p[1] : p \in OpenPages}
        \cup (IF pc = "pages" THEN {cur[1]} ELSE {})

(***************************************************************************)
(* No item is in two places, and none is found again: pages that are still *)
(* searched are different pages, and hold nothing that was found; the      *)
(* pages and blocks the handler has still to visit are new.                *)
(***************************************************************************)
OnTheWayOnce ==
    /\ IsInjective(out) /\ Range(out) \cap Delivered = {}
    /\ AtConverter \cap InOut = {}
    /\ IsInjective(txIn) /\ Range(txIn) \cap Taken = {}

AtWorkersOnce ==
    /\ \A w \in Emitting :
          IsInjective(worker[w].txs) /\ Range(worker[w].txs) \cap ToConvert = {}
    /\ \A v, w \in Emitting :
          v # w => Range(worker[v].txs) \cap Range(worker[w].txs) = {}

PagesOnce ==
    /\ \A v, w \in Searching : worker[v].job = worker[w].job => v = w
    /\ IsInjective(toGet) /\ Range(toGet) \cap SearchedPages = {}
    /\ \A p \in OpenPages : TxsOf({p}) \cap Found = {}

VisitedOnce ==
    /\ pc = "pages" =>
         /\ \A p \in OpenPages : p[1] = cur[1] => p[2] < cur[2]
         /\ \A x \in Found : x[1] = cur[1] => x[2] <= (cur[2] - 1) * PerPage
    /\ Touched \cap todo = {}

OnceInv ==
    /\ Delivered \subseteq Items
    /\ OnTheWayOnce /\ AtWorkersOnce /\ PagesOnce /\ VisitedOnce

(* As long as the stream takes what is sent, a block is ahead of its       *)
(* transactions.                                                           *)
BlockFirst ==
    streamUp =>
        /\ \A i \in DOMAIN out : out[i][2] > 0 =>
              \/ <<out[i][1], 0>> \in Delivered
              \/ \E j \in DOMAIN out : j < i /\ out[j] = <<out[i][1], 0>>
        /\ \A h \in Touched : <<h, 0>> \in InOut

(* What END and the numbers rest on.                                       *)
SenderInv ==
    /\ Numbering
    /\ streamUp => order = Cardinality(OfType("data"))
    /\ spc \in {"idle", "loop", "end"} => OfType("END") = {}

(* A batch that failed and reported is known to the handler, or its report *)
(* waits in ctrl.                                                          *)
FailuresKnown ==
    (\E f \in DoneFetchers : fetch[f].report = "failed")
        <=> (nerr > 0 \/ "failed" \in Range(ctrl))

-----------------------------------------------------------------------------
(* Lemmas about sequences as queues of different items.                    *)

LEMMA QueueAppend ==
    ASSUME NEW S, NEW s \in Seq(S), NEW x \in S
    PROVE  /\ Range(Append(s, x)) = Range(s) \cup {x}
           /\ IsInjective(s) /\ x \notin Range(s) => IsInjective(Append(s, x))
<1> DEFINE t == Append(s, x)
<1>1. /\ Len(s) \in Nat /\ DOMAIN s = 1..Len(s) /\ DOMAIN t = 1..(Len(s) + 1)
      /\ t[Len(s) + 1] = x /\ \A i \in 1..Len(s) : t[i] = s[i]
  OBVIOUS
<1> HIDE DEF t
<1>2. Range(t) = Range(s) \cup {x}
  BY <1>1 DEF Range
<1>3. ASSUME IsInjective(s), x \notin Range(s) PROVE IsInjective(t)
  <2> SUFFICES ASSUME NEW i \in DOMAIN t, NEW j \in DOMAIN t, t[i] = t[j] PROVE i = j
    BY DEF IsInjective
  <2>1. \A k \in 1..Len(s) : t[k] # x
    BY <1>1, <1>3 DEF Range
  <2>2. CASE i \in 1..Len(s) /\ j \in 1..Len(s)
    BY <1>1, <1>3, <2>2 DEF IsInjective
  <2>3. CASE i = Len(s) + 1 \/ j = Len(s) + 1
    BY <1>1, <2>1, <2>3
  <2>4. QED
    BY <1>1, <2>2, <2>3
<1>4. QED
  BY <1>2, <1>3 DEF t

LEMMA QueueTail ==
    ASSUME NEW S, NEW s \in Seq(S), s # <<>>
    PROVE  /\ Head(s) \in Range(s) /\ Range(Tail(s)) \subseteq Range(s)
           /\ Range(s) = Range(Tail(s)) \cup {Head(s)}
           /\ IsInjective(s) => IsInjective(Tail(s)) /\ Head(s) \notin Range(Tail(s))
<1> DEFINE t == Tail(s)
<1>1. /\ Len(s) \in Nat /\ Len(s) >= 1 /\ DOMAIN s = 1..Len(s) /\ DOMAIN t = 1..(Len(s) - 1)
      /\ Head(s) = s[1] /\ \A i \in 1..(Len(s) - 1) : t[i] = s[i + 1]
  OBVIOUS
<1> HIDE DEF t
<1>2. Head(s) \in Range(s) /\ Range(t) \subseteq Range(s)
  BY <1>1 DEF Range
<1>3. Range(s) \subseteq Range(t) \cup {Head(s)}
  <2> SUFFICES ASSUME NEW i \in 1..Len(s), i # 1 PROVE s[i] \in Range(t)
    BY <1>1 DEF Range
  <2>1. i - 1 \in DOMAIN t /\ t[i - 1] = s[i]
    BY <1>1
  <2>2. QED
    BY <2>1 DEF Range
<1>4. ASSUME IsInjective(s) PROVE IsInjective(t) /\ Head(s) \notin Range(t)
  <2>1. \A i, j \in 1..Len(s) : s[i] = s[j] => i = j
    BY <1>1, <1>4 DEF IsInjective
  <2>2. \A i \in 1..(Len(s) - 1) : i + 1 \in 1..Len(s) /\ i + 1 # 1
    BY <1>1
  <2>3. \A i, j \in 1..(Len(s) - 1) : t[i] = t[j] => i = j
    <3> SUFFICES ASSUME NEW i \in 1..(Len(s) - 1), NEW j \in 1..(Len(s) - 1), t[i] = t[j]
                 PROVE  i = j
      OBVIOUS
    <3>1. s[i + 1] = s[j + 1]
      BY <1>1
    <3>2. i + 1 = j + 1
      BY <2>1, <2>2, <3>1
    <3>3. QED
      BY <1>1, <3>2
  <2>4. \A i \in 1..(Len(s) - 1) : t[i] # Head(s)
    BY <1>1, <2>1, <2>2
  <2>5. QED
    BY <1>1, <2>3, <2>4 DEF IsInjective, Range
<1>5. QED
  BY <1>2, <1>3, <1>4 DEF t

LEMMA QueueEmpty == Range(<<>>) = {} /\ IsInjective(<<>>)
BY DEF Range, IsInjective

-----------------------------------------------------------------------------
(* Items and the pages they are on.                                        *)

LEMMA ItemParts ==
    ASSUME NEW x \in Items
    PROVE  /\ x[1] \in 1..Top /\ x[2] \in Nat /\ x = <<x[1], x[2]>>
           /\ NumTxs[x[1]] \in Nat /\ x[2] <= NumTxs[x[1]]
<1>1. PICK h \in 1..Top : x \in {h} \X (0..NumTxs[h])
  BY DEF Items
<1>2. NumTxs[h] \in Nat
  BY ChainAssumption DEF ChainAssumption
<1>3. QED
  BY <1>1, <1>2

LEMMA PageOrder ==
    ASSUME NEW a \in Nat, NEW b \in Nat, a <= b
    PROVE  a * PerPage <= b * PerPage /\ a * PerPage \in Nat
<1>1. PerPage \in Nat
  BY TxPipelineAssumption DEF TxPipelineAssumption
<1>2. PICK d \in Nat : b = a + d
  <2>1. b - a \in Nat /\ b = a + (b - a)
    OBVIOUS
  <2>2. QED
    BY <2>1
<1>3. b * PerPage = a * PerPage + d * PerPage /\ d * PerPage \in Nat /\ a * PerPage \in Nat
  BY <1>1, <1>2
<1>4. QED
  BY <1>3

(* The n-th page of a block holds transactions after those of the pages    *)
(* before it, each once.                                                   *)
LEMMA PageContents ==
    ASSUME NEW p \in PageIds
    PROVE  /\ Range(PageTxs(p[1], p[2])) = TxsOf({p})
           /\ IsInjective(PageTxs(p[1], p[2]))
           /\ \A x \in TxsOf({p}) :
                /\ x \in Items /\ x[1] = p[1]
                /\ (p[2] - 1) * PerPage < x[2] /\ x[2] <= p[2] * PerPage
<1> DEFINE first == (p[2] - 1) * PerPage
           rest == NumTxs[p[1]] - first
           n == IF rest < PerPage THEN rest ELSE PerPage
           s == [k \in 1..n |-> <<p[1], first + k>>]
<1>1. p[1] \in 1..Top /\ p[2] \in Nat /\ p[2] >= 1
  BY DEF PageIds
<1>2. NumTxs[p[1]] \in Nat /\ PerPage \in Nat
  BY <1>1, ChainAssumption, TxPipelineAssumption DEF ChainAssumption, TxPipelineAssumption
<1>3. first \in Nat /\ p[2] * PerPage = first + PerPage
  BY <1>1, <1>2
<1> HIDE DEF first
<1>4. rest \in Int /\ n \in Int /\ n <= PerPage
  BY <1>2, <1>3
<1>5. PageTxs(p[1], p[2]) = s
  BY DEF PageTxs, first
<1>6. Range(PageTxs(p[1], p[2])) = TxsOf({p})
  BY DEF TxsOf, Range
<1>7. ASSUME NEW k \in 1..n
      PROVE  /\ s[k] = <<p[1], first + k>>
             /\ first < first + k /\ first + k <= p[2] * PerPage
  <2>1. k \in Int /\ 1 <= k /\ k <= PerPage
    BY <1>2, <1>4
  <2>2. QED
    BY <1>2, <1>3, <2>1
<1> HIDE DEF n
<1>8. DOMAIN s = 1..n
  OBVIOUS
<1>9. IsInjective(s)
  <2> SUFFICES ASSUME NEW i \in 1..n, NEW j \in 1..n, s[i] = s[j] PROVE i = j
    BY <1>8 DEF IsInjective
  <2>1. first + i = first + j
    BY <1>7
  <2>2. i \in Int /\ j \in Int
    BY <1>4
  <2>3. QED
    BY <1>3, <2>1, <2>2
<1> HIDE DEF s
<1>10. Range(s) \subseteq Items
  <2>1. s \in Seq(Items)
    BY <1>5, PageTxsType
  <2>2. QED
    BY <2>1 DEF Range
<1>11. ASSUME NEW x \in Range(s)
       PROVE  x \in Items /\ x[1] = p[1] /\ first < x[2] /\ x[2] <= p[2] * PerPage
  <2>1. PICK k \in 1..n : x = s[k]
    BY <1>8 DEF Range
  <2>2. QED
    BY <1>7, <1>10, <2>1
<1>12. QED
  BY <1>5, <1>6, <1>9, <1>11 DEF first

(* Two pages have nothing in common.                                       *)
LEMMA PagesDisjoint ==
    ASSUME NEW p \in PageIds, NEW q \in PageIds, p # q
    PROVE  TxsOf({p}) \cap TxsOf({q}) = {}
<1> SUFFICES ASSUME NEW x, x \in TxsOf({p}), x \in TxsOf({q}) PROVE FALSE
  OBVIOUS
<1>1. /\ p[2] \in Nat /\ p[2] - 1 \in Nat /\ q[2] \in Nat /\ q[2] - 1 \in Nat
      /\ p = <<p[1], p[2]>> /\ q = <<q[1], q[2]>>
  BY DEF PageIds
<1>2. /\ x \in Items /\ x[1] = p[1] /\ x[1] = q[1]
      /\ (p[2] - 1) * PerPage < x[2] /\ x[2] <= p[2] * PerPage
      /\ (q[2] - 1) * PerPage < x[2] /\ x[2] <= q[2] * PerPage
  BY PageContents
<1>3. x[2] \in Nat
  BY <1>2, ItemParts
<1>4. p[2] # q[2]
  BY <1>1, <1>2
<1>5. CASE p[2] < q[2]
  <2>1. p[2] <= q[2] - 1
    BY <1>1, <1>5
  <2>2. p[2] * PerPage <= (q[2] - 1) * PerPage /\ p[2] * PerPage \in Nat /\ (q[2] - 1) * PerPage \in Nat
    BY <1>1, <2>1, PageOrder
  <2>3. QED
    BY <1>2, <1>3, <2>2
<1>6. CASE q[2] < p[2]
  <2>1. q[2] <= p[2] - 1
    BY <1>1, <1>6
  <2>2. q[2] * PerPage <= (p[2] - 1) * PerPage /\ q[2] * PerPage \in Nat /\ (p[2] - 1) * PerPage \in Nat
    BY <1>1, <2>1, PageOrder
  <2>3. QED
    BY <1>2, <1>3, <2>2
<1>7. QED
  BY <1>1, <1>4, <1>5, <1>6

-----------------------------------------------------------------------------
(* The steps of the workers: an item goes from a page to a worker, or from *)
(* a worker into txIn.                                                     *)

(* What the workers' steps leave alone.                                    *)
LEMMA TakenUnmoved ==
    ASSUME UNCHANGED <<out, conv>>, Delivered' = Delivered
    PROVE  /\ InOut' = InOut /\ AtConverter' = AtConverter /\ Taken' = Taken
           /\ (OnTheWayOnce /\ txIn' = txIn => OnTheWayOnce' /\ ToConvert' = ToConvert)
BY DEF InOut, AtConverter, Taken, OnTheWayOnce, ToConvert

LEMMA DeliveredUnmoved ==
    ASSUME UNCHANGED answer
    PROVE  Delivered' = Delivered /\ \A t : OfType(t)' = OfType(t)
BY DEF Delivered, OfType

LEMMA OtherWorkers ==
    ASSUME TxPipelineDataOK, NEW w \in Workers, NEW r, At(w, r)
    PROVE  worker'[w] = r /\ \A v \in Workers : v # w => worker'[v] = worker[v]
BY DEF TxPipelineDataOK, At

LEMMA NotPast ==
    ASSUME VisitedOnce, UNCHANGED <<pc, cur, todo>>,
           Found' \subseteq Found, OpenPages' \subseteq OpenPages
    PROVE  VisitedOnce' /\ Touched' \subseteq Touched
<1>1. Touched' \subseteq Touched
  BY DEF Touched
<1>2. QED
  BY <1>1 DEF VisitedOnce

(* A worker that gives up, ends or goes on without moving an item.         *)
LEMMA WorkerKeeps ==
    ASSUME TxPipelineDataOK, OnceInv, NEW w \in Workers, NEW r, At(w, r),
           UNCHANGED <<pc, out, answer, conv, cur, todo, toGet, txIn>>,
           w \in Emitting => worker[w].txs = <<>>,
           r.pc = "emit" => r.txs = <<>>,
           r.pc \in {"limit", "http"} => w \in Searching /\ r.job = worker[w].job
    PROVE  OnceInv' /\ Touched' \subseteq Touched /\ Found' = Found
<1>1. worker'[w] = r /\ \A v \in Workers : v # w => worker'[v] = worker[v]
  BY OtherWorkers
<1>2. /\ InOut' = InOut /\ AtConverter' = AtConverter /\ Taken' = Taken
      /\ OnTheWayOnce' /\ ToConvert' = ToConvert /\ Delivered' = Delivered
  BY TakenUnmoved, DeliveredUnmoved DEF OnceInv
<1>3. /\ \A v \in Emitting : v # w => v \in Emitting'
      /\ \A v \in Emitting' : v # w => v \in Emitting
      /\ \A v \in Searching' : v \in Searching /\ worker'[v].job = worker[v].job
  BY <1>1 DEF Emitting, Searching
<1>4. /\ w \in Emitting => Range(worker[w].txs) = {}
      /\ w \in Emitting' => Range(worker'[w].txs) = {} /\ IsInjective(worker'[w].txs)
  BY <1>1, QueueEmpty DEF Emitting
<1>5. \A v \in Emitting' : /\ v = w \/ (v \in Emitting /\ worker'[v] = worker[v])
                           /\ v \in Workers
  BY <1>1, <1>3 DEF Emitting
<1>6. AtWorkers' = AtWorkers
  <2>1. ASSUME NEW x \in AtWorkers PROVE x \in AtWorkers'
    <3>1. PICK v \in Emitting : x \in Range(worker[v].txs)
      BY DEF AtWorkers
    <3>2. v # w /\ v \in Workers
      BY <1>4, <3>1 DEF Emitting
    <3>3. v \in Emitting' /\ worker'[v] = worker[v]
      BY <1>1, <1>3, <3>2
    <3>4. QED
      BY <3>1, <3>3 DEF AtWorkers
  <2>2. ASSUME NEW x \in AtWorkers' PROVE x \in AtWorkers
    <3>1. PICK v \in Emitting' : x \in Range(worker'[v].txs)
      BY DEF AtWorkers
    <3>2. v \in Emitting /\ worker'[v] = worker[v]
      BY <1>4, <1>5, <3>1
    <3>3. QED
      BY <3>1, <3>2 DEF AtWorkers
  <2>3. QED
    BY <2>1, <2>2
<1>7. Found' = Found
  BY <1>2, <1>6 DEF Found
<1>8. SearchedPages' \subseteq SearchedPages /\ OpenPages' \subseteq OpenPages
  BY <1>3 DEF SearchedPages, OpenPages
<1>9. AtWorkersOnce'
  <2>1. \A v \in Emitting' :
           IsInjective(worker'[v].txs) /\ Range(worker'[v].txs) \cap ToConvert' = {}
    BY <1>2, <1>4, <1>5 DEF OnceInv, AtWorkersOnce
  <2>2. \A u, v \in Emitting' :
           u # v => Range(worker'[u].txs) \cap Range(worker'[v].txs) = {}
    BY <1>4, <1>5 DEF OnceInv, AtWorkersOnce
  <2>3. QED
    BY <2>1, <2>2 DEF AtWorkersOnce
<1>10. PagesOnce'
  <2>1. \A u, v \in Searching' : worker'[u].job = worker'[v].job => u = v
    BY <1>3 DEF OnceInv, PagesOnce
  <2>2. IsInjective(toGet') /\ Range(toGet') \cap SearchedPages' = {}
    BY <1>8 DEF OnceInv, PagesOnce
  <2>3. \A p \in OpenPages' : TxsOf({p}) \cap Found' = {}
    BY <1>7, <1>8 DEF OnceInv, PagesOnce
  <2>4. QED
    BY <2>1, <2>2, <2>3 DEF PagesOnce, TxsOf, PageTxs
<1>11. VisitedOnce' /\ Touched' \subseteq Touched
  BY <1>7, <1>8, NotPast DEF OnceInv
<1>12. QED
  BY <1>2, <1>7, <1>9, <1>10, <1>11 DEF OnceInv

(* A page goes from toGet to a worker.                                     *)
LEMMA TakePageOnce ==
    ASSUME TxPipelineDataOK, OnceInv, NEW w \in Workers, TakePage(w),
           UNCHANGED <<pc, out, answer, conv, cur, todo>>
    PROVE  /\ OnceInv' /\ Touched' \subseteq Touched
           /\ Found' = Found /\ OpenPages' = OpenPages
<1> DEFINE page == Head(toGet)
           r == [pc |-> "limit", job |-> page, txs |-> <<>>]
<1>1. worker[w].pc = "idle" /\ toGet # <<>> /\ toGet' = Tail(toGet) /\ At(w, r) /\ txIn' = txIn
  BY DEF TakePage
<1>2. /\ worker'[w].pc = "limit" /\ worker'[w].job = page
      /\ \A v \in Workers : v # w => worker'[v] = worker[v]
  BY <1>1, OtherWorkers
<1>3. /\ page \in Range(toGet) /\ Range(toGet) = Range(toGet') \cup {page}
      /\ IsInjective(toGet') /\ page \notin Range(toGet')
  BY <1>1, QueueTail DEF TxPipelineDataOK, OnceInv, PagesOnce
<1> HIDE DEF page, r
<1>4. /\ InOut' = InOut /\ AtConverter' = AtConverter /\ Taken' = Taken
      /\ OnTheWayOnce' /\ ToConvert' = ToConvert /\ Delivered' = Delivered
  BY <1>1, TakenUnmoved, DeliveredUnmoved DEF OnceInv
<1>5. /\ Emitting' = Emitting /\ \A v \in Emitting : worker'[v] = worker[v]
      /\ Searching' = Searching \cup {w} /\ w \notin Searching
      /\ \A v \in Searching : worker'[v] = worker[v]
  BY <1>1, <1>2 DEF Emitting, Searching
<1>6. AtWorkers' = AtWorkers /\ Found' = Found
  BY <1>4, <1>5 DEF AtWorkers, Found
<1>7. SearchedPages' = SearchedPages \cup {page}
  BY <1>2, <1>5 DEF SearchedPages
<1>8. OpenPages' = OpenPages
  BY <1>3, <1>7 DEF OpenPages
<1>9. AtWorkersOnce'
  BY <1>4, <1>5 DEF OnceInv, AtWorkersOnce
<1>10. PagesOnce'
  <2>1. page \notin SearchedPages
    BY <1>3 DEF OnceInv, PagesOnce
  <2>2. \A u, v \in Searching' : worker'[u].job = worker'[v].job => u = v
    BY <1>2, <1>5, <2>1 DEF OnceInv, PagesOnce, SearchedPages
  <2>3. Range(toGet') \cap SearchedPages' = {}
    BY <1>3, <1>7 DEF OnceInv, PagesOnce
  <2>4. \A p \in OpenPages' : TxsOf({p}) \cap Found' = {}
    BY <1>6, <1>8 DEF OnceInv, PagesOnce
  <2>5. QED
    BY <1>3, <2>2, <2>3, <2>4 DEF PagesOnce, TxsOf, PageTxs
<1>11. VisitedOnce' /\ Touched' \subseteq Touched
  BY <1>6, <1>8, NotPast DEF OnceInv
<1>12. QED
  BY <1>4, <1>6, <1>8, <1>9, <1>10, <1>11 DEF OnceInv

(* The transactions of a page are found; the page is no longer open.       *)
LEMMA SearchOnce ==
    ASSUME TxPipelineDataOK, PagesInv, OnceInv, NEW w \in Workers, w \in Searching,
           At(w, [worker[w] EXCEPT !.pc = "emit",
                  !.txs = PageTxs(worker[w].job[1], worker[w].job[2])]),
           UNCHANGED <<pc, out, answer, conv, cur, todo, toGet, txIn>>
    PROVE  /\ OnceInv' /\ Touched' \subseteq Touched
           /\ worker[w].job \in PageIds /\ worker[w].job \in OpenPages
           /\ Found' = Found \cup TxsOf({worker[w].job})
           /\ OpenPages' = OpenPages \ {worker[w].job}
<1> DEFINE page == worker[w].job
           txs == PageTxs(page[1], page[2])
           r == [worker[w] EXCEPT !.pc = "emit", !.txs = txs]
<1>1. page \in PageIds /\ page \in SearchedPages /\ page \in OpenPages
  BY DEF PagesInv, PageAtHand, Searching, SearchedPages, OpenPages
<1>2. /\ worker'[w] = r /\ r.pc = "emit" /\ r.txs = txs
      /\ \A v \in Workers : v # w => worker'[v] = worker[v]
  <2>1. worker[w] \in WorkerRecords
    BY DEF TxPipelineDataOK
  <2>2. r.pc = "emit" /\ r.txs = txs
    BY <2>1 DEF WorkerRecords
  <2>3. QED
    BY <2>2, OtherWorkers
<1>3. /\ Range(txs) = TxsOf({page}) /\ IsInjective(txs)
      /\ \A x \in TxsOf({page}) : x[1] = page[1] /\ x \in Items /\ x[2] <= page[2] * PerPage
  BY <1>1, PageContents
<1> HIDE DEF page, txs, r
<1>4. /\ InOut' = InOut /\ AtConverter' = AtConverter /\ Taken' = Taken
      /\ OnTheWayOnce' /\ ToConvert' = ToConvert /\ Delivered' = Delivered
  BY TakenUnmoved, DeliveredUnmoved DEF OnceInv
<1>5. /\ Emitting' = Emitting \cup {w} /\ w \notin Emitting
      /\ \A v \in Emitting : worker'[v] = worker[v]
      /\ Searching' = Searching \ {w}
      /\ \A v \in Searching' : worker'[v] = worker[v]
  BY <1>2 DEF Emitting, Searching
<1>6. AtWorkers' = AtWorkers \cup TxsOf({page})
  BY <1>2, <1>3, <1>5 DEF AtWorkers
<1>7. Found' = Found \cup TxsOf({page})
  BY <1>4, <1>6 DEF Found
<1>8. /\ \A q \in SearchedPages' : q \in SearchedPages /\ q # page
      /\ \A q \in OpenPages' : q \in OpenPages /\ q # page
  <2>1. \A q \in SearchedPages' : q \in SearchedPages /\ q # page
    BY <1>5 DEF OnceInv, PagesOnce, SearchedPages, page
  <2>2. page \notin Range(toGet)
    BY <1>1 DEF OnceInv, PagesOnce
  <2>3. QED
    BY <2>1, <2>2 DEF OpenPages
<1>9. AtWorkersOnce'
  <2>1. TxsOf({page}) \cap Found = {}
    BY <1>1 DEF OnceInv, PagesOnce
  <2>2. \A v \in Emitting : worker'[v] = worker[v] /\ Range(worker[v].txs) \subseteq Found
    BY <1>5 DEF AtWorkers, Found
  <2>3. IsInjective(worker'[w].txs) /\ Range(worker'[w].txs) = TxsOf({page})
    BY <1>2, <1>3
  <2>4. \A v \in Emitting' :
           IsInjective(worker'[v].txs) /\ Range(worker'[v].txs) \cap ToConvert' = {}
    <3> SUFFICES ASSUME NEW v \in Emitting'
                 PROVE  IsInjective(worker'[v].txs) /\ Range(worker'[v].txs) \cap ToConvert' = {}
      OBVIOUS
    <3>1. CASE v = w
      BY <1>4, <2>1, <2>3, <3>1 DEF Found
    <3>2. CASE v \in Emitting
      BY <1>4, <2>2, <3>2 DEF OnceInv, AtWorkersOnce
    <3>3. QED
      BY <1>5, <3>1, <3>2
  <2>5. \A u, v \in Emitting' :
           u # v => Range(worker'[u].txs) \cap Range(worker'[v].txs) = {}
    <3> SUFFICES ASSUME NEW u \in Emitting', NEW v \in Emitting', u # v
                 PROVE  Range(worker'[u].txs) \cap Range(worker'[v].txs) = {}
      OBVIOUS
    <3>1. CASE u \in Emitting /\ v \in Emitting
      BY <2>2, <3>1 DEF OnceInv, AtWorkersOnce
    <3>2. CASE u = w /\ v \in Emitting
      BY <2>1, <2>2, <2>3, <3>2
    <3>3. CASE v = w /\ u \in Emitting
      BY <2>1, <2>2, <2>3, <3>3
    <3>4. QED
      BY <1>5, <3>1, <3>2, <3>3
  <2>6. QED
    BY <2>4, <2>5 DEF AtWorkersOnce
<1>10. PagesOnce'
  <2>1. \A u, v \in Searching' : worker'[u].job = worker'[v].job => u = v
    BY <1>5 DEF OnceInv, PagesOnce
  <2>2. IsInjective(toGet') /\ Range(toGet') \cap SearchedPages' = {}
    BY <1>8 DEF OnceInv, PagesOnce
  <2>3. \A q \in OpenPages' : TxsOf({q}) \cap Found' = {}
    <3> SUFFICES ASSUME NEW q \in OpenPages' PROVE TxsOf({q}) \cap Found' = {}
      OBVIOUS
    <3>1. q \in OpenPages /\ q # page
      BY <1>8
    <3>2. q \in PageIds
      BY <3>1 DEF OpenPages, SearchedPages, Searching, PagesInv, PageAtHand, TxPipelineDataOK, Range
    <3>3. TxsOf({q}) \cap TxsOf({page}) = {}
      BY <1>1, <3>1, <3>2, PagesDisjoint
    <3>4. TxsOf({q}) \cap Found = {}
      BY <3>1 DEF OnceInv, PagesOnce
    <3>5. QED
      BY <1>7, <3>3, <3>4
  <2>4. QED
    BY <2>1, <2>2, <2>3 DEF PagesOnce, TxsOf, PageTxs
<1>11. Touched' \subseteq Touched
  BY <1>1, <1>3, <1>7, <1>8 DEF Touched
<1>12. VisitedOnce'
  <2>1. ASSUME pc = "pages", NEW x \in TxsOf({page}), page[1] = cur[1]
        PROVE  x[2] <= (cur[2] - 1) * PerPage
    <3>1. page[2] < cur[2] /\ page[2] \in Nat /\ cur[2] \in Nat
      BY <1>1, <2>1 DEF OnceInv, VisitedOnce, PageIds, TxPipelineDataOK, Jobs
    <3>2. cur[2] - 1 \in Nat /\ page[2] <= cur[2] - 1
      BY <3>1
    <3>3. /\ page[2] * PerPage <= (cur[2] - 1) * PerPage
          /\ page[2] * PerPage \in Nat /\ (cur[2] - 1) * PerPage \in Nat
      BY <3>1, <3>2, PageOrder
    <3>4. x[2] \in Nat /\ x[2] <= page[2] * PerPage
      BY <1>3, ItemParts
    <3>5. QED
      BY <3>3, <3>4
  <2>2. Touched' \cap todo' = {}
    BY <1>11 DEF OnceInv, VisitedOnce
  <2>3. ASSUME pc' = "pages"
        PROVE  /\ \A q \in OpenPages' : q[1] = cur'[1] => q[2] < cur'[2]
               /\ \A x \in Found' : x[1] = cur'[1] => x[2] <= (cur'[2] - 1) * PerPage
    BY <1>3, <1>7, <1>8, <2>1, <2>3 DEF OnceInv, VisitedOnce
  <2>4. QED
    BY <2>2, <2>3 DEF VisitedOnce
<1>13. OpenPages' = OpenPages \ {page}
  <2>1. ASSUME NEW q \in OpenPages, q # page PROVE q \in OpenPages'
    BY <1>5, <2>1 DEF OpenPages, SearchedPages, page
  <2>2. QED
    BY <1>8, <2>1
<1>14. QED
  BY <1>1, <1>4, <1>7, <1>9, <1>10, <1>11, <1>12, <1>13 DEF OnceInv, page

(* A transaction goes from a worker into txIn.                             *)
LEMMA PutTxOnce ==
    ASSUME TxPipelineDataOK, OnceInv, NEW w \in Workers, PutTx(w),
           UNCHANGED <<pc, out, answer, conv, cur, todo>>
    PROVE  /\ OnceInv' /\ Touched' \subseteq Touched
           /\ Found' = Found /\ OpenPages' = OpenPages
<1> DEFINE x == Head(worker[w].txs)
           r == [worker[w] EXCEPT !.txs = Tail(@)]
<1>1. /\ w \in Emitting /\ worker[w].txs # <<>> /\ worker[w].txs \in Seq(Items)
      /\ txIn' = Append(txIn, x) /\ toGet' = toGet
  BY DEF PutTx, Emitting, TxPipelineDataOK, WorkerRecords
<1>2. /\ worker'[w] = r /\ r.pc = "emit" /\ r.txs = Tail(worker[w].txs)
      /\ \A v \in Workers : v # w => worker'[v] = worker[v]
  <2>1. worker[w] \in WorkerRecords /\ At(w, r) /\ worker[w].pc = "emit"
    BY DEF TxPipelineDataOK, PutTx
  <2>2. r.pc = "emit" /\ r.txs = Tail(worker[w].txs)
    BY <2>1 DEF WorkerRecords
  <2>3. QED
    BY <2>1, <2>2, OtherWorkers
<1>3. /\ x \in Range(worker[w].txs) /\ x \notin Range(worker'[w].txs)
      /\ Range(worker[w].txs) = Range(worker'[w].txs) \cup {x}
      /\ IsInjective(worker'[w].txs)
  BY <1>1, <1>2, QueueTail DEF OnceInv, AtWorkersOnce
<1>4. x \in Items /\ txIn \in Seq(Items)
  BY <1>1, SequenceTail DEF TxPipelineDataOK
<1> HIDE DEF x, r
<1>5. /\ InOut' = InOut /\ AtConverter' = AtConverter /\ Taken' = Taken
      /\ Delivered' = Delivered
  BY TakenUnmoved, DeliveredUnmoved
<1>6. x \notin ToConvert
  BY <1>1, <1>3 DEF OnceInv, AtWorkersOnce
<1>7. Range(txIn') = Range(txIn) \cup {x} /\ IsInjective(txIn')
  BY <1>1, <1>4, <1>6, QueueAppend DEF OnceInv, OnTheWayOnce, ToConvert
<1>8. OnTheWayOnce' /\ ToConvert' = ToConvert \cup {x}
  BY <1>5, <1>6, <1>7 DEF OnceInv, OnTheWayOnce, ToConvert
<1>9. /\ Emitting' = Emitting /\ \A v \in Emitting : v # w => worker'[v] = worker[v]
      /\ Searching' = Searching /\ \A v \in Searching : worker'[v] = worker[v]
  BY <1>1, <1>2 DEF Emitting, Searching
<1>10. AtWorkers = AtWorkers' \cup {x}
  BY <1>1, <1>3, <1>9 DEF AtWorkers
<1>11. Found' = Found
  BY <1>8, <1>10 DEF Found
<1>12. SearchedPages' = SearchedPages /\ OpenPages' = OpenPages
  BY <1>1, <1>9 DEF SearchedPages, OpenPages
<1>13. AtWorkersOnce'
  <2>1. \A v \in Emitting : v # w => x \notin Range(worker[v].txs)
    BY <1>1, <1>3 DEF OnceInv, AtWorkersOnce
  <2>2. \A v \in Emitting' :
           IsInjective(worker'[v].txs) /\ Range(worker'[v].txs) \cap ToConvert' = {}
    BY <1>1, <1>3, <1>8, <1>9, <2>1 DEF OnceInv, AtWorkersOnce
  <2>3. \A u, v \in Emitting' :
           u # v => Range(worker'[u].txs) \cap Range(worker'[v].txs) = {}
    BY <1>1, <1>3, <1>9 DEF OnceInv, AtWorkersOnce
  <2>4. QED
    BY <2>2, <2>3 DEF AtWorkersOnce
<1>14. PagesOnce'
  <2>1. \A u, v \in Searching' : worker'[u].job = worker'[v].job => u = v
    BY <1>9 DEF OnceInv, PagesOnce
  <2>2. QED
    BY <1>1, <1>11, <1>12, <2>1 DEF OnceInv, PagesOnce, TxsOf, PageTxs
<1>15. VisitedOnce' /\ Touched' \subseteq Touched
  BY <1>11, <1>12, NotPast DEF OnceInv
<1>16. QED
  BY <1>5, <1>8, <1>11, <1>12, <1>13, <1>14, <1>15 DEF OnceInv

LEMMA WorkerOnce ==
    ASSUME TxPipelineDataOK, PagesInv, OnceInv, NEW w \in Workers, Worker(w)
    PROVE  OnceInv' /\ Touched' \subseteq Touched /\ InOut' = InOut
<1>1. UNCHANGED <<pc, out, answer, conv, cur, todo>>
  BY DEF Worker, taskVars
<1>2. InOut' = InOut
  BY <1>1, DeliveredUnmoved DEF InOut
<1>3. worker[w] \in WorkerRecords
  BY DEF TxPipelineDataOK
<1>4. CASE TakePage(w)
  BY <1>1, <1>2, <1>4, TakePageOnce
<1>5. CASE PutTx(w)
  BY <1>1, <1>2, <1>5, PutTxOnce
<1>6. CASE WorkerDone(w) \/ PageDone(w)
  <2>1. PICK r : At(w, r) /\ r.pc \in {"idle", "done"}
    BY <1>3, <1>6 DEF WorkerDone, PageDone, WorkerRecords
  <2>2. w \in Emitting => worker[w].txs = <<>>
    BY <1>6 DEF WorkerDone, PageDone, Emitting
  <2>3. UNCHANGED <<toGet, txIn>>
    BY <1>6 DEF WorkerDone, PageDone
  <2>4. QED
    BY <1>1, <1>2, <2>1, <2>2, <2>3, WorkerKeeps
<1>7. CASE SearchFails(w) /\ w \in Searching /\ UNCHANGED <<toGet, txIn>>
  <2> DEFINE gone == [worker[w] EXCEPT !.pc = "emit", !.txs = <<>>]
  <2>1. At(w, gone) /\ gone.pc = "emit" /\ gone.txs = <<>>
    BY <1>3, <1>7 DEF SearchFails, WorkerRecords
  <2> HIDE DEF gone
  <2>2. w \notin Emitting
    BY <1>7 DEF Searching, Emitting
  <2>3. QED
    BY <1>1, <1>2, <1>7, <2>1, <2>2, WorkerKeeps
<1>8. CASE AskSearchLimiter(w) /\ ~SearchFails(w)
  <2>1. PICK r : At(w, r) /\ r.pc = "http" /\ r.job = worker[w].job
    BY <1>3, <1>8 DEF AskSearchLimiter, WorkerRecords
  <2>2. w \in Searching /\ w \notin Emitting /\ UNCHANGED <<toGet, txIn>>
    BY <1>8 DEF AskSearchLimiter, Searching, Emitting
  <2>3. QED
    BY <1>1, <1>2, <2>1, <2>2, WorkerKeeps
<1>9. CASE Search(w) /\ ~SearchFails(w)
  <2>1. w \in Searching /\ UNCHANGED <<toGet, txIn>>
    BY <1>9 DEF Search, Searching
  <2>2. At(w, [worker[w] EXCEPT !.pc = "emit",
               !.txs = PageTxs(worker[w].job[1], worker[w].job[2])])
    BY <1>9 DEF Search
  <2>3. QED
    BY <1>1, <1>2, <2>1, <2>2, SearchOnce
<1>10. ASSUME AskSearchLimiter(w) \/ Search(w)
       PROVE  w \in Searching /\ UNCHANGED <<toGet, txIn>>
  BY <1>10 DEF AskSearchLimiter, Search, Searching
<1>11. QED
  BY <1>4, <1>5, <1>6, <1>7, <1>8, <1>9, <1>10 DEF Worker

-----------------------------------------------------------------------------
(* The steps of the converter and of sendResp.                             *)

(* What a response that is sent adds to the answer.                        *)
LEMMA Sent ==
    ASSUME answer \in Seq(Responses(Items)), NEW r \in Responses(Items), answer' = Append(answer, r)
    PROVE  /\ \A t : OfType(t)' = OfType(t) \cup (IF r.type = t THEN {Len(answer) + 1} ELSE {})
           /\ Delivered' = Delivered \cup (IF r.type = "data" THEN {r.item} ELSE {})
           /\ DOMAIN answer' = DOMAIN answer \cup {Len(answer) + 1}
           /\ answer'[Len(answer) + 1] = r
           /\ \A i \in DOMAIN answer : answer'[i] = answer[i] /\ i \in 1..Len(answer)
<1> DEFINE n == Len(answer)
<1>1. /\ n \in Nat /\ DOMAIN answer = 1..n /\ DOMAIN answer' = 1..(n + 1)
      /\ answer'[n + 1] = r /\ \A i \in 1..n : answer'[i] = answer[i]
  OBVIOUS
<1> HIDE DEF n
<1>2. DOMAIN answer' = DOMAIN answer \cup {n + 1}
  BY <1>1
<1>3. \A t : OfType(t)' = OfType(t) \cup (IF r.type = t THEN {n + 1} ELSE {})
  BY <1>1, <1>2 DEF OfType
<1>4. Delivered' = Delivered \cup (IF r.type = "data" THEN {r.item} ELSE {})
  BY <1>1, <1>2 DEF Delivered, OfType
<1>5. QED
  BY <1>1, <1>2, <1>3, <1>4 DEF n

(* The same for each type of response.                                     *)
LEMMA SentTypes ==
    ASSUME answer \in Seq(Responses(Items)), NEW r \in Responses(Items), answer' = Append(answer, r)
    PROVE  /\ r.type # "data" => OfType("data")' = OfType("data") /\ Delivered' = Delivered
           /\ r.type = "data" => Delivered' = Delivered \cup {r.item}
           /\ r.type # "END" => OfType("END")' = OfType("END")
           /\ r.type = "END" => OfType("END")' # {}
           /\ r.type # "error" => OfType("error")' = OfType("error")
           /\ r.type = "error" => OfType("error")' # {}
<1>1. \A t : OfType(t)' = OfType(t) \cup (IF r.type = t THEN {Len(answer) + 1} ELSE {})
  BY Sent
<1>2. /\ OfType("data")' = OfType("data") \cup (IF r.type = "data" THEN {Len(answer) + 1} ELSE {})
      /\ OfType("END")' = OfType("END") \cup (IF r.type = "END" THEN {Len(answer) + 1} ELSE {})
      /\ OfType("error")' = OfType("error") \cup (IF r.type = "error" THEN {Len(answer) + 1} ELSE {})
  BY <1>1
<1>3. Delivered' = Delivered \cup (IF r.type = "data" THEN {r.item} ELSE {})
  BY Sent
<1>4. QED
  BY <1>2, <1>3

(* Steps that move nothing at the workers and in toGet.                    *)
LEMMA WorkersUnmoved ==
    ASSUME OnceInv, UNCHANGED <<pc, worker, toGet, cur, todo>>,
           OnTheWayOnce', ToConvert' \subseteq ToConvert, Delivered' \subseteq Items
    PROVE  /\ OnceInv' /\ Touched' \subseteq Touched /\ OpenPages' = OpenPages
           /\ ToConvert' = ToConvert => Found' = Found
<1>1. /\ Emitting' = Emitting /\ Searching' = Searching /\ AtWorkers' = AtWorkers
      /\ OpenPages' = OpenPages /\ SearchedPages' = SearchedPages
  BY DEF Emitting, Searching, AtWorkers, OpenPages, SearchedPages
<1>2. Found' \subseteq Found
  BY <1>1 DEF Found
<1>3. AtWorkersOnce'
  BY <1>1 DEF OnceInv, AtWorkersOnce
<1>4. PagesOnce'
  <2>1. \A p \in OpenPages' : TxsOf({p}) \cap Found' = {}
    BY <1>1, <1>2 DEF OnceInv, PagesOnce
  <2>2. \A v, w \in Searching' : worker'[v].job = worker'[w].job => v = w
    BY <1>1 DEF OnceInv, PagesOnce
  <2>3. QED
    BY <1>1, <2>1, <2>2 DEF OnceInv, PagesOnce, TxsOf, PageTxs
<1>5. VisitedOnce' /\ Touched' \subseteq Touched
  BY <1>1, <1>2, NotPast DEF OnceInv
<1>6. QED
  BY <1>1, <1>3, <1>4, <1>5 DEF OnceInv, Found

LEMMA OnceUnmoved ==
    ASSUME OnceInv, UNCHANGED <<out, txIn, conv, worker, toGet, cur, todo>>,
           Delivered' = Delivered, pc' = pc \/ pc' # "pages"
    PROVE  /\ OnceInv' /\ Touched' \subseteq Touched /\ InOut' = InOut
           /\ Found' = Found /\ OpenPages' = OpenPages
<1>1. /\ InOut' = InOut /\ AtConverter' = AtConverter /\ Taken' = Taken
      /\ OnTheWayOnce' /\ ToConvert' = ToConvert
  BY TakenUnmoved DEF OnceInv
<1>2. /\ Emitting' = Emitting /\ Searching' = Searching /\ AtWorkers' = AtWorkers
      /\ OpenPages' = OpenPages /\ SearchedPages' = SearchedPages
  BY DEF Emitting, Searching, AtWorkers, OpenPages, SearchedPages
<1>3. Found' = Found
  BY <1>1, <1>2 DEF Found
<1>4. AtWorkersOnce'
  BY <1>1, <1>2 DEF OnceInv, AtWorkersOnce
<1>5. PagesOnce'
  <2>1. \A v, w \in Searching' : worker'[v].job = worker'[w].job => v = w
    BY <1>2 DEF OnceInv, PagesOnce
  <2>2. QED
    BY <1>2, <1>3, <2>1 DEF OnceInv, PagesOnce, TxsOf, PageTxs
<1>6. Touched' \subseteq Touched
  BY <1>2, <1>3 DEF Touched
<1>7. VisitedOnce'
  BY <1>2, <1>3, <1>6 DEF OnceInv, VisitedOnce
<1>8. QED
  BY <1>1, <1>2, <1>3, <1>4, <1>5, <1>6, <1>7 DEF OnceInv

LEMMA ConverterOnce ==
    ASSUME TaskDataOK(Items), TxPipelineDataOK, PagesInv, OnceInv, Converter
    PROVE  /\ OnceInv' /\ Touched' \subseteq Touched /\ InOut \subseteq InOut'
           /\ Found' = Found /\ OpenPages' = OpenPages
<1>1. UNCHANGED <<pc, answer, worker, toGet, cur, todo>> /\ Delivered' = Delivered
  BY DeliveredUnmoved DEF Converter
<1>2. out \in Seq(Items) /\ txIn \in Seq(Items)
  BY DEF TaskDataOK, TxPipelineDataOK
<1>3. CASE TakeTx
  <2>1. /\ conv.pc = "idle" /\ txIn # <<>> /\ txIn' = Tail(txIn) /\ out' = out
        /\ conv'.pc = "emit" /\ conv'.tx = Head(txIn)
    BY <1>3 DEF TakeTx
  <2>2. /\ Head(txIn) \in Range(txIn) /\ Range(txIn) = Range(txIn') \cup {Head(txIn)}
        /\ IsInjective(txIn') /\ Head(txIn) \notin Range(txIn')
    BY <1>2, <2>1, QueueTail DEF OnceInv, OnTheWayOnce
  <2>3. InOut' = InOut /\ AtConverter = {} /\ AtConverter' = {Head(txIn)}
    BY <1>1, <2>1 DEF InOut, AtConverter
  <2>4. Head(txIn) \notin InOut
    BY <2>2 DEF OnceInv, OnTheWayOnce, Taken
  <2>5. OnTheWayOnce' /\ ToConvert' = ToConvert
    BY <1>1, <2>1, <2>2, <2>3, <2>4 DEF OnceInv, OnTheWayOnce, Taken, ToConvert
  <2>6. QED
    BY <1>1, <2>3, <2>5, WorkersUnmoved DEF OnceInv
<1>4. CASE PutTransaction
  <2>1. /\ conv.pc = "emit" /\ out' = Append(out, conv.tx) /\ txIn' = txIn
        /\ conv'.pc = "idle" /\ conv.tx \in Items
    BY <1>4 DEF PutTransaction, PagesInv
  <2>2. AtConverter = {conv.tx} /\ AtConverter' = {} /\ conv.tx \notin InOut
    BY <2>1 DEF AtConverter, OnceInv, OnTheWayOnce
  <2>3. Range(out') = Range(out) \cup {conv.tx} /\ IsInjective(out')
    BY <1>2, <2>1, <2>2, QueueAppend DEF OnceInv, OnTheWayOnce, InOut
  <2>4. InOut' = InOut \cup {conv.tx} /\ Taken' = Taken
    BY <1>1, <2>2, <2>3 DEF InOut, Taken
  <2>5. OnTheWayOnce' /\ ToConvert' = ToConvert
    BY <1>1, <2>1, <2>2, <2>3, <2>4 DEF OnceInv, OnTheWayOnce, ToConvert, InOut
  <2>6. QED
    BY <1>1, <2>4, <2>5, WorkersUnmoved DEF OnceInv
<1>5. CASE ConverterDone
  <2>1. /\ conv \in [pc : {"idle", "emit", "done"}, tx : Items \cup {NoItem}]
        /\ conv.pc = "idle" /\ conv'.pc = "done" /\ UNCHANGED <<out, txIn>>
    BY <1>5 DEF ConverterDone, TxPipelineDataOK
  <2>2. InOut' = InOut /\ AtConverter' = {} /\ AtConverter = {}
    BY <1>1, <2>1 DEF InOut, AtConverter
  <2>3. OnTheWayOnce' /\ ToConvert' = ToConvert
    BY <1>1, <2>1, <2>2 DEF OnceInv, OnTheWayOnce, Taken, ToConvert
  <2>4. QED
    BY <1>1, <2>2, <2>3, WorkersUnmoved DEF OnceInv
<1>6. QED
  BY <1>3, <1>4, <1>5 DEF Converter

(* What sendResp delivers was in out, and nothing is sent twice.           *)
LEMMA SenderOnce ==
    ASSUME TaskDataOK(Items), SendRespDataOK, OnceInv, streamUp \in BOOLEAN, Sender,
           UNCHANGED <<worker, toGet, cur, todo, txIn, conv>>
    PROVE  /\ OnceInv' /\ Touched' \subseteq Touched
           /\ InOut' \subseteq InOut /\ OpenPages' = OpenPages
           /\ streamUp => InOut' = InOut /\ Found' = Found
<1>1. out \in Seq(Items) /\ answer \in Seq(Responses(Items)) /\ order \in Nat
  BY DEF TaskDataOK, SendRespDataOK
<1>2. CASE SendItem
  <2> DEFINE x == Head(out)
  <2>1. /\ out # <<>> /\ out' = Tail(out) /\ pc' = pc /\ Send(Data(x, order))
    BY <1>2 DEF SendItem
  <2>2. /\ x \in Range(out) /\ Range(out) = Range(out') \cup {x}
        /\ IsInjective(out') /\ x \notin Range(out') /\ x \in Items
    BY <1>1, <2>1, QueueTail, SequenceTail DEF OnceInv, OnTheWayOnce
  <2>3. Delivered' = Delivered \/ Delivered' = Delivered \cup {x}
    <3>1. Data(x, order) \in Responses(Items) /\ Data(x, order).item = x
      BY <1>1, <2>2, ResponseTypes DEF Data
    <3>2. QED
      BY <1>1, <2>1, <3>1, Sent, DeliveredUnmoved DEF Send
  <2>4. streamUp => Delivered' = Delivered \cup {x}
    <3>1. /\ Data(x, order) \in Responses(Items) /\ Data(x, order).item = x
          /\ Data(x, order).type = "data"
      BY <1>1, <2>2, ResponseTypes DEF Data
    <3>2. QED
      BY <1>1, <2>1, <3>1, Sent DEF Send
  <2> HIDE DEF x
  <2>5. InOut' \subseteq InOut /\ (streamUp => InOut' = InOut)
    BY <2>2, <2>3, <2>4 DEF InOut
  <2>6. Range(out') \cap Delivered' = {}
    BY <2>2, <2>3 DEF OnceInv, OnTheWayOnce
  <2>7. AtConverter' = AtConverter
    BY DEF AtConverter
  <2>8. OnTheWayOnce' /\ ToConvert' \subseteq ToConvert /\ (streamUp => ToConvert' = ToConvert)
    BY <2>2, <2>5, <2>6, <2>7 DEF OnceInv, OnTheWayOnce, Taken, ToConvert
  <2>9. Delivered' \subseteq Items
    BY <2>2, <2>3 DEF OnceInv
  <2>10. QED
    BY <2>1, <2>5, <2>8, <2>9, WorkersUnmoved
<1>3. CASE SendEnd
  <2>1. EndMark(order) \in Responses(Items) /\ EndMark(order).type = "END"
    BY <1>1 DEF EndMark, Responses
  <2>2. Delivered' = Delivered
    BY <1>1, <1>3, <2>1, Sent, DeliveredUnmoved DEF SendEnd, Send
  <2>3. UNCHANGED <<out, pc>>
    BY <1>3 DEF SendEnd
  <2>4. QED
    BY <2>2, <2>3, OnceUnmoved
<1>4. CASE OutDrained \/ SenderCancelled \/ SignalFin
  <2>1. UNCHANGED <<out, pc, answer>>
    BY <1>4 DEF OutDrained, SenderCancelled, SignalFin, taskVars
  <2>2. QED
    BY <2>1, OnceUnmoved, DeliveredUnmoved
<1>5. QED
  BY <1>2, <1>3, <1>4 DEF Sender

-----------------------------------------------------------------------------
(* The steps of the handler's part of the pipeline.                        *)

LEMMA OpenPagesType ==
    ASSUME TxPipelineDataOK, PagesInv
    PROVE  OpenPages \subseteq PageIds
BY DEF OpenPages, SearchedPages, Searching, PagesInv, PageAtHand, TxPipelineDataOK, Range

LEMMA FoundType ==
    ASSUME TaskDataOK(Items), TxPipelineDataOK, PagesInv, OnceInv
    PROVE  Found \subseteq Items
<1>1. InOut \subseteq Items
  BY DEF InOut, OnceInv, TaskDataOK, Range
<1>2. AtConverter \subseteq Items
  BY DEF AtConverter, PagesInv
<1>3. Range(txIn) \subseteq Items
  BY DEF TxPipelineDataOK, Range
<1>4. AtWorkers \subseteq Items
  <2> SUFFICES ASSUME NEW w \in Emitting PROVE Range(worker[w].txs) \subseteq Items
    BY DEF AtWorkers
  <2>1. worker[w].txs \in Seq(Items)
    BY DEF Emitting, TxPipelineDataOK, WorkerRecords
  <2>2. QED
    BY <2>1 DEF Range
<1>5. QED
  BY <1>1, <1>2, <1>3, <1>4 DEF Found, ToConvert, Taken

(* A fresh pipeline for heights none of which was visited.                 *)
LEMMA LaunchOnce ==
    ASSUME OnceInv, NEW hs, Launch(hs), hs \cap Touched = {}
    PROVE  /\ OnceInv' /\ Touched' \subseteq Touched /\ InOut' = InOut
           /\ todo' = hs /\ pc' = "range"
           /\ Found' = InOut /\ OpenPages' = {}
<1>1. /\ pc' = "range" /\ todo' = hs /\ toGet' = <<>> /\ txIn' = <<>>
      /\ UNCHANGED <<out, answer>>
  BY DEF Launch
<1>2. conv'.pc = "idle" /\ \A w \in Workers : worker'[w].pc = "idle"
  BY DEF Launch
<1>3. Delivered' = Delivered /\ InOut' = InOut
  BY <1>1, DeliveredUnmoved DEF InOut
<1>4. AtConverter' = {} /\ Emitting' = {} /\ Searching' = {}
  BY <1>2 DEF AtConverter, Emitting, Searching
<1>5. /\ Range(txIn') = {} /\ IsInjective(txIn')
      /\ Range(toGet') = {} /\ IsInjective(toGet')
  BY <1>1, QueueEmpty
<1>6. OnTheWayOnce' /\ Found' = InOut
  <2>1. Taken' = InOut
    BY <1>3, <1>4 DEF Taken
  <2>2. AtWorkers' = {}
    BY <1>4 DEF AtWorkers
  <2>3. OnTheWayOnce'
    BY <1>1, <1>3, <1>4, <1>5 DEF OnceInv, OnTheWayOnce
  <2>4. QED
    BY <1>5, <2>1, <2>2, <2>3 DEF Found, ToConvert
<1>7. OpenPages' = {}
  BY <1>4, <1>5 DEF OpenPages, SearchedPages
<1>8. AtWorkersOnce' /\ PagesOnce'
  BY <1>4, <1>5, <1>7 DEF AtWorkersOnce, PagesOnce
<1>9. Touched' \subseteq Touched
  <2>1. Touched' = {x[1] : x \in InOut}
    BY <1>1, <1>6, <1>7 DEF Touched
  <2>2. QED
    BY <2>1 DEF Touched, Found, ToConvert, Taken
<1>10. VisitedOnce'
  BY <1>1, <1>9 DEF VisitedOnce
<1>11. QED
  BY <1>1, <1>3, <1>6, <1>7, <1>8, <1>9, <1>10 DEF OnceInv

(* A block that was not visited goes into out.                             *)
LEMMA SendBlockOnce ==
    ASSUME TaskDataOK(Items), TxPipelineDataOK, PagesInv, OnceInv,
           NEW h \in todo, SendBlock(h)
    PROVE  /\ OnceInv' /\ Touched' \subseteq Touched \cup {h} /\ InOut' = InOut \cup {<<h, 0>>}
           /\ Found' = Found \cup {<<h, 0>>} /\ OpenPages' = OpenPages /\ h \notin Touched
<1> DEFINE b == <<h, 0>>
<1>1. /\ pc = "range" /\ out' = Append(out, b) /\ todo' = todo \ {h} /\ cur' = <<h, 1>>
      /\ UNCHANGED <<answer, toGet, worker, txIn, conv>>
  BY DEF SendBlock
<1>2. b \in Items /\ b[1] = h /\ b[2] = 0 /\ out \in Seq(Items)
  <2>1. h \in 1..Top
    BY DEF TxPipelineDataOK
  <2>2. 0 \in 0..NumTxs[h]
    BY <2>1, ChainAssumption DEF ChainAssumption
  <2>3. QED
    BY <2>1, <2>2, ItemsOfBlock DEF TaskDataOK
<1> HIDE DEF b
<1>3. h \notin Touched
  BY DEF OnceInv, VisitedOnce
<1>4. b \notin Found
  BY <1>2, <1>3 DEF Touched
<1>5. /\ Delivered' = Delivered /\ AtConverter' = AtConverter
      /\ Range(out') = Range(out) \cup {b} /\ IsInjective(out')
  <2>1. b \notin Range(out)
    BY <1>4 DEF Found, ToConvert, Taken, InOut
  <2>2. QED
    BY <1>1, <1>2, <2>1, QueueAppend, DeliveredUnmoved DEF OnceInv, OnTheWayOnce, AtConverter
<1>6. /\ InOut' = InOut \cup {b} /\ Taken' = Taken \cup {b}
      /\ ToConvert' = ToConvert \cup {b}
  BY <1>1, <1>5 DEF InOut, Taken, ToConvert
<1>7. OnTheWayOnce'
  <2>1. b \notin Delivered /\ b \notin AtConverter /\ b \notin Range(txIn)
    BY <1>4 DEF Found, ToConvert, Taken, InOut
  <2>2. QED
    BY <1>1, <1>5, <1>6, <2>1 DEF OnceInv, OnTheWayOnce
<1>8. /\ Emitting' = Emitting /\ Searching' = Searching /\ AtWorkers' = AtWorkers
      /\ OpenPages' = OpenPages /\ SearchedPages' = SearchedPages
  BY <1>1 DEF Emitting, Searching, AtWorkers, OpenPages, SearchedPages
<1>9. Found' = Found \cup {b}
  BY <1>6, <1>8 DEF Found
<1>10. AtWorkersOnce'
  <2>1. \A w \in Emitting : b \notin Range(worker[w].txs)
    BY <1>4 DEF Found, AtWorkers
  <2>2. QED
    BY <1>1, <1>6, <1>8, <2>1 DEF OnceInv, AtWorkersOnce
<1>11. \A p \in OpenPages : p \in PageIds /\ p[1] # h
  BY <1>3, OpenPagesType DEF Touched
<1>12. PagesOnce'
  <2>1. \A p \in OpenPages : b \notin TxsOf({p})
    BY <1>2, <1>11, PageContents
  <2>2. \A p \in OpenPages' : TxsOf({p}) \cap Found' = {}
    BY <1>8, <1>9, <2>1 DEF OnceInv, PagesOnce
  <2>3. \A v, w \in Searching' : worker'[v].job = worker'[w].job => v = w
    BY <1>1, <1>8 DEF OnceInv, PagesOnce
  <2>4. QED
    BY <1>1, <1>8, <2>2, <2>3 DEF OnceInv, PagesOnce, TxsOf, PageTxs
<1>13. Touched' \subseteq Touched \cup {h}
  BY <1>1, <1>2, <1>8, <1>9 DEF Touched
<1>14. VisitedOnce'
  <2>1. cur'[1] = h /\ cur'[2] = 1
    BY <1>1
  <2>2. \A p \in OpenPages' : p[1] # cur'[1]
    BY <1>8, <1>11, <2>1
  <2>3. ASSUME NEW x \in Found', x[1] = h PROVE x[2] <= (1 - 1) * PerPage
    <3>1. x = b
      BY <1>3, <1>9, <2>3 DEF Touched
    <3>2. (1 - 1) * PerPage = 0
      BY TxPipelineAssumption DEF TxPipelineAssumption
    <3>3. QED
      BY <1>2, <3>1, <3>2
  <2>4. Touched' \cap todo' = {}
    BY <1>1, <1>13 DEF OnceInv, VisitedOnce
  <2>5. QED
    BY <2>1, <2>2, <2>3, <2>4 DEF VisitedOnce
<1>15. QED
  BY <1>3, <1>5, <1>6, <1>7, <1>8, <1>9, <1>10, <1>12, <1>13, <1>14 DEF OnceInv, b

(* The next page of the block at hand goes into toGet.                     *)
LEMMA QueuePageOnce ==
    ASSUME TaskDataOK(Items), TxPipelineDataOK, PagesInv, OnceInv, QueuePage
    PROVE  /\ OnceInv' /\ Touched' \subseteq Touched /\ InOut' = InOut
           /\ Found' = Found /\ OpenPages' = OpenPages \cup {cur} /\ TxsOf({cur}) \cap Found = {}
<1>1. /\ pc = "pages" /\ toGet' = Append(toGet, cur) /\ cur' = <<cur[1], cur[2] + 1>>
      /\ UNCHANGED <<out, answer, todo, worker, txIn, conv>>
  BY DEF QueuePage
<1>2. /\ cur \in PageIds /\ toGet \in Seq(PageIds)
      /\ cur[2] \in Nat /\ cur[2] - 1 \in Nat /\ cur[2] - 1 <= cur[2]
  BY <1>1 DEF PagesInv, PageIds, TxPipelineDataOK
<1>3. /\ InOut' = InOut /\ AtConverter' = AtConverter /\ Taken' = Taken
      /\ OnTheWayOnce' /\ ToConvert' = ToConvert /\ Delivered' = Delivered
  BY <1>1, TakenUnmoved, DeliveredUnmoved DEF OnceInv
<1>4. /\ Emitting' = Emitting /\ Searching' = Searching /\ AtWorkers' = AtWorkers
      /\ SearchedPages' = SearchedPages
  BY <1>1 DEF Emitting, Searching, AtWorkers, SearchedPages
<1>5. Found' = Found
  BY <1>3, <1>4 DEF Found
<1>6. cur \notin OpenPages
  BY <1>1, <1>2 DEF OnceInv, VisitedOnce
<1>7. /\ Range(toGet') = Range(toGet) \cup {cur} /\ IsInjective(toGet')
      /\ OpenPages' = OpenPages \cup {cur}
  BY <1>1, <1>2, <1>4, <1>6, QueueAppend DEF OnceInv, PagesOnce, OpenPages
<1>8. /\ (cur[2] - 1) * PerPage \in Nat /\ cur[2] * PerPage \in Nat
      /\ (cur[2] - 1) * PerPage <= cur[2] * PerPage
  BY <1>2, PageOrder
<1>9. \A x \in Found : x[1] = cur[1] => x[2] \in Nat /\ x[2] <= (cur[2] - 1) * PerPage
  BY <1>1, FoundType, ItemParts DEF OnceInv, VisitedOnce
<1>10. TxsOf({cur}) \cap Found = {}
  <2> SUFFICES ASSUME NEW x \in TxsOf({cur}), x \in Found PROVE FALSE
    OBVIOUS
  <2>1. x[1] = cur[1] /\ (cur[2] - 1) * PerPage < x[2]
    BY <1>2, PageContents
  <2>2. QED
    BY <1>8, <1>9, <2>1
<1>11. AtWorkersOnce'
  BY <1>1, <1>3, <1>4 DEF OnceInv, AtWorkersOnce
<1>12. PagesOnce'
  <2>1. \A v, w \in Searching' : worker'[v].job = worker'[w].job => v = w
    BY <1>1, <1>4 DEF OnceInv, PagesOnce
  <2>2. Range(toGet') \cap SearchedPages' = {}
    BY <1>4, <1>6, <1>7 DEF OnceInv, PagesOnce, OpenPages
  <2>3. \A p \in OpenPages' : TxsOf({p}) \cap Found' = {}
    BY <1>5, <1>7, <1>10 DEF OnceInv, PagesOnce
  <2>4. QED
    BY <1>7, <2>1, <2>2, <2>3 DEF PagesOnce, TxsOf, PageTxs
<1>13. Touched' \subseteq Touched
  <2>1. cur'[1] = cur[1] /\ cur[1] \in Touched
    BY <1>1 DEF Touched
  <2>2. QED
    BY <1>1, <1>5, <1>7, <2>1 DEF Touched
<1>14. VisitedOnce'
  <2>1. cur'[1] = cur[1] /\ cur'[2] = cur[2] + 1 /\ cur'[2] - 1 = cur[2]
    BY <1>1, <1>2
  <2>2. ASSUME NEW p \in OpenPages', p[1] = cur[1] PROVE p[2] < cur[2] + 1
    <3>1. CASE p = cur
      BY <1>2, <3>1
    <3>2. CASE p \in OpenPages
      <4>1. p[2] \in Nat /\ p[2] < cur[2]
        BY <1>1, <2>2, <3>2, OpenPagesType DEF OnceInv, VisitedOnce, PageIds
      <4>2. QED
        BY <1>2, <4>1
    <3>3. QED
      BY <1>7, <3>1, <3>2
  <2>3. ASSUME NEW x \in Found', x[1] = cur[1] PROVE x[2] <= cur[2] * PerPage
    BY <1>5, <1>8, <1>9, <2>3
  <2>4. Touched' \cap todo' = {}
    BY <1>1, <1>13 DEF OnceInv, VisitedOnce
  <2>5. QED
    BY <2>1, <2>2, <2>3, <2>4 DEF VisitedOnce
<1>15. QED
  BY <1>3, <1>5, <1>7, <1>10, <1>11, <1>12, <1>13, <1>14 DEF OnceInv

(* What the handler's part of the pipeline adds is a block it had still to *)
(* visit.                                                                  *)
LEMMA FeedOnce ==
    ASSUME TaskDataOK(Items), TxPipelineDataOK, PagesInv, OnceInv, PipelineMain
    PROVE  /\ OnceInv' /\ InOut \subseteq InOut' /\ todo' \subseteq todo
           /\ Touched' \subseteq Touched \cup todo
<1>1. CASE \E h \in todo : SendBlock(h)
  <2>1. PICK h \in todo : SendBlock(h)
    BY <1>1
  <2>2. todo' \subseteq todo
    BY <2>1 DEF SendBlock
  <2>3. QED
    BY <2>1, <2>2, SendBlockOnce
<1>2. CASE QueuePage
  BY <1>2, QueuePageOnce DEF QueuePage
<1>3. CASE CloseToGet \/ CloseTxIn
  <2>1. UNCHANGED <<out, answer, txIn, conv, worker, toGet, cur, todo>> /\ pc' # "pages"
    BY <1>3 DEF CloseToGet, CloseTxIn
  <2>2. QED
    BY <2>1, OnceUnmoved, DeliveredUnmoved
<1>4. QED
  BY <1>1, <1>2, <1>3 DEF PipelineMain

LEMMA OnceInit ==
    ASSUME TaskInit, TxPipelineInit
    PROVE  /\ OnceInv /\ Touched = {} /\ InOut = {}
           /\ \A t : OfType(t) = {}
<1>1. /\ pc = "start" /\ out = <<>> /\ answer = <<>> /\ todo = {} /\ toGet = <<>> /\ txIn = <<>>
      /\ conv.pc = "done" /\ \A w \in Workers : worker[w].pc = "done"
  BY DEF TaskInit, TxPipelineInit
<1>2. \A t : OfType(t) = {}
  BY <1>1 DEF OfType
<1>3. Delivered = {} /\ InOut = {}
  BY <1>1, <1>2, QueueEmpty DEF Delivered, InOut
<1>4. AtConverter = {} /\ Emitting = {} /\ Searching = {}
  BY <1>1 DEF AtConverter, Emitting, Searching
<1>5. Found = {} /\ OpenPages = {}
  BY <1>1, <1>3, <1>4, QueueEmpty
  DEF Found, ToConvert, Taken, AtWorkers, OpenPages, SearchedPages
<1>6. Touched = {}
  BY <1>1, <1>5 DEF Touched
<1>7. OnTheWayOnce
  BY <1>1, <1>3, <1>4, QueueEmpty DEF OnTheWayOnce
<1>8. AtWorkersOnce /\ PagesOnce
  BY <1>1, <1>4, <1>5, QueueEmpty DEF AtWorkersOnce, PagesOnce
<1>9. VisitedOnce
  BY <1>1, <1>6 DEF VisitedOnce
<1>10. QED
  BY <1>2, <1>3, <1>6, <1>7, <1>8, <1>9 DEF OnceInv

-----------------------------------------------------------------------------
(* A block is ahead of its transactions.                                   *)

LEMMA BlockFirstUnmoved ==
    ASSUME BlockFirst, streamUp' => streamUp, out' = out,
           InOut \subseteq InOut', Delivered \subseteq Delivered', Touched' \subseteq Touched
    PROVE  BlockFirst'
BY DEF BlockFirst

(* An item goes into out: a block, or a transaction whose block was        *)
(* visited.                                                                *)
LEMMA BlockFirstQueue ==
    ASSUME BlockFirst, streamUp' => streamUp, out \in Seq(Items), NEW x \in Items,
           out' = Append(out, x), Delivered' = Delivered,
           x[2] > 0 => x[1] \in Touched,
           \A h \in Touched' : h \in Touched \/ <<h, 0>> = x
    PROVE  BlockFirst'
<1> DEFINE n == Len(out)
<1>1. /\ n \in Nat /\ DOMAIN out = 1..n /\ DOMAIN out' = 1..(n + 1)
      /\ out'[n + 1] = x /\ \A i \in 1..n : out'[i] = out[i]
  OBVIOUS
<1> HIDE DEF n
<1>2. InOut' = InOut \cup {x}
  BY QueueAppend DEF InOut
<1> SUFFICES ASSUME streamUp'
             PROVE  /\ \A i \in DOMAIN out' : out'[i][2] > 0 =>
                          \/ <<out'[i][1], 0>> \in Delivered'
                          \/ \E j \in DOMAIN out' : j < i /\ out'[j] = <<out'[i][1], 0>>
                    /\ \A h \in Touched' : <<h, 0>> \in InOut'
  BY DEF BlockFirst
<1>3. \A h \in Touched : <<h, 0>> \in InOut
  BY DEF BlockFirst
<1>4. ASSUME NEW i \in 1..n, out[i][2] > 0
      PROVE  \/ <<out[i][1], 0>> \in Delivered
             \/ \E j \in 1..n : j < i /\ out[j] = <<out[i][1], 0>>
  BY <1>1, <1>4 DEF BlockFirst
<1>5. ASSUME x[2] > 0
      PROVE  <<x[1], 0>> \in Delivered \/ \E j \in 1..n : out[j] = <<x[1], 0>>
  BY <1>1, <1>3, <1>5 DEF InOut, Range
<1>6. \A j \in 1..n : j < n + 1 /\ j \in 1..(n + 1)
  BY <1>1
<1>7. ASSUME NEW i \in DOMAIN out', out'[i][2] > 0
      PROVE  \/ <<out'[i][1], 0>> \in Delivered'
             \/ \E j \in DOMAIN out' : j < i /\ out'[j] = <<out'[i][1], 0>>
  <2>1. CASE i \in 1..n
    BY <1>1, <1>4, <1>6, <1>7, <2>1
  <2>2. CASE i = n + 1
    BY <1>1, <1>5, <1>6, <1>7, <2>2
  <2>3. i \in 1..n \/ i = n + 1
    BY <1>1
  <2>4. QED
    BY <2>1, <2>2, <2>3
<1>8. \A h \in Touched' : <<h, 0>> \in InOut'
  BY <1>2, <1>3
<1>9. QED
  BY <1>7, <1>8

LEMMA BlockFirstConverter ==
    ASSUME TaskDataOK(Items), TxPipelineDataOK, PagesInv, OnceInv, BlockFirst, Converter
    PROVE  BlockFirst'
<1>1. /\ UNCHANGED <<streamUp, answer>> /\ Delivered' = Delivered
      /\ Touched' \subseteq Touched /\ InOut \subseteq InOut'
  BY ConverterOnce, DeliveredUnmoved DEF Converter
<1>2. CASE out' = out
  BY <1>1, <1>2, BlockFirstUnmoved
<1>3. CASE PutTransaction
  <2>1. out' = Append(out, conv.tx) /\ conv.pc = "emit" /\ conv.tx \in Items
    BY <1>3 DEF PutTransaction, PagesInv
  <2>2. conv.tx[1] \in Touched
    BY <2>1 DEF Touched, Found, ToConvert, Taken, AtConverter
  <2>3. out \in Seq(Items)
    BY DEF TaskDataOK
  <2>4. QED
    BY <1>1, <2>1, <2>2, <2>3, BlockFirstQueue
<1>4. QED
  BY <1>2, <1>3 DEF Converter, TakeTx, ConverterDone

LEMMA BlockFirstFeed ==
    ASSUME TaskDataOK(Items), TxPipelineDataOK, PagesInv, OnceInv, BlockFirst, PipelineMain
    PROVE  BlockFirst'
<1>1. /\ UNCHANGED <<streamUp, answer>> /\ Delivered' = Delivered /\ InOut \subseteq InOut'
  BY FeedOnce, DeliveredUnmoved
  DEF PipelineMain, SendBlock, QueuePage, CloseToGet, CloseTxIn
<1>2. CASE \E h \in todo : SendBlock(h)
  <2>1. PICK h \in todo : SendBlock(h)
    BY <1>2
  <2>2. Touched' \subseteq Touched \cup {h} /\ out' = Append(out, <<h, 0>>)
    BY <2>1, SendBlockOnce DEF SendBlock
  <2>3. h \in 1..Top /\ <<h, 0>> \in Items /\ out \in Seq(Items)
    <3>1. h \in 1..Top
      BY DEF TxPipelineDataOK
    <3>2. 0 \in 0..NumTxs[h]
      BY <3>1, ChainAssumption DEF ChainAssumption
    <3>3. QED
      BY <3>1, <3>2, ItemsOfBlock DEF TaskDataOK
  <2>4. ~(<<h, 0>>[2] > 0)
    OBVIOUS
  <2>5. \A g \in Touched' : g \in Touched \/ <<g, 0>> = <<h, 0>>
    BY <2>2
  <2> DEFINE b == <<h, 0>>
  <2>6. /\ b \in Items /\ out' = Append(out, b) /\ ~(b[2] > 0)
        /\ \A g \in Touched' : g \in Touched \/ <<g, 0>> = b
    BY <2>2, <2>3, <2>4, <2>5
  <2> HIDE DEF b
  <2>7. QED
    BY <1>1, <2>3, <2>6, BlockFirstQueue
<1>3. CASE QueuePage
  <2>1. Touched' \subseteq Touched /\ out' = out
    BY <1>3, QueuePageOnce DEF QueuePage
  <2>2. QED
    BY <1>1, <2>1, BlockFirstUnmoved
<1>4. CASE CloseToGet \/ CloseTxIn
  <2>1. UNCHANGED <<out, answer, txIn, conv, worker, toGet, cur, todo>> /\ pc' # "pages"
    BY <1>4 DEF CloseToGet, CloseTxIn
  <2>2. Touched' \subseteq Touched
    BY <1>1, <2>1, OnceUnmoved
  <2>3. QED
    BY <1>1, <2>1, <2>2, BlockFirstUnmoved
<1>5. QED
  BY <1>2, <1>3, <1>4 DEF PipelineMain

(* The item sendResp takes is new to the manager, and its block is not.    *)
LEMMA HeadIsNext ==
    ASSUME TaskDataOK(Items), OnceInv, BlockFirst, streamUp, out # <<>>
    PROVE  /\ Head(out) \in Items /\ Head(out)[1] \in Touched
           /\ Head(out) \notin Delivered
           /\ Head(out)[2] > 0 => <<Head(out)[1], 0>> \in Delivered
<1>1. out \in Seq(Items)
  BY DEF TaskDataOK
<1>2. /\ Len(out) \in Nat /\ DOMAIN out = 1..Len(out) /\ 1 \in DOMAIN out /\ Head(out) = out[1]
      /\ ~\E j \in DOMAIN out : j < 1
  BY <1>1
<1>3. Head(out) \in Items /\ Head(out) \in Range(out)
  BY <1>1, QueueTail, SequenceTail
<1>4. Head(out) \notin Delivered
  BY <1>3 DEF OnceInv, OnTheWayOnce
<1>5. Head(out)[1] \in Touched
  BY <1>3 DEF Touched, Found, ToConvert, Taken, InOut
<1>6. Head(out)[2] > 0 => <<Head(out)[1], 0>> \in Delivered
  BY <1>2 DEF BlockFirst
<1>7. QED
  BY <1>3, <1>4, <1>5, <1>6

LEMMA BlockFirstSender ==
    ASSUME TaskDataOK(Items), SendRespDataOK, OnceInv, BlockFirst, streamUp \in BOOLEAN, Sender,
           UNCHANGED <<worker, toGet, cur, todo, txIn, conv>>
    PROVE  BlockFirst'
<1>1. /\ Touched' \subseteq Touched /\ (streamUp => InOut' = InOut) /\ streamUp' = streamUp
  BY SenderOnce DEF Sender, SendItem, OutDrained, SenderCancelled, SendEnd, SignalFin, taskVars
<1> SUFFICES ASSUME streamUp PROVE BlockFirst'
  BY <1>1 DEF BlockFirst
<1>2. out \in Seq(Items) /\ answer \in Seq(Responses(Items)) /\ order \in Nat
  BY DEF TaskDataOK, SendRespDataOK
<1>3. CASE SendItem
  <2>1. out # <<>> /\ out' = Tail(out) /\ answer' = Append(answer, Data(Head(out), order))
    BY <1>3 DEF SendItem, Send
  <2>2. /\ Len(out) \in Nat /\ Len(out) >= 1 /\ DOMAIN out = 1..Len(out)
        /\ DOMAIN out' = 1..(Len(out) - 1) /\ Head(out) = out[1] /\ Head(out) \in Items
        /\ \A i \in DOMAIN out' : out'[i] = out[i + 1] /\ i + 1 \in DOMAIN out
    BY <1>2, <2>1
  <2>3. Delivered' = Delivered \cup {Head(out)}
    <3>1. /\ Data(Head(out), order) \in Responses(Items)
          /\ Data(Head(out), order).item = Head(out) /\ Data(Head(out), order).type = "data"
      BY <1>2, <2>2, ResponseTypes DEF Data
    <3>2. QED
      BY <1>2, <2>1, <3>1, Sent
  <2>4. ASSUME NEW i \in DOMAIN out', out'[i][2] > 0
        PROVE  \/ <<out'[i][1], 0>> \in Delivered'
               \/ \E j \in DOMAIN out' : j < i /\ out'[j] = <<out'[i][1], 0>>
    <3>1. CASE <<out[i + 1][1], 0>> \in Delivered
      BY <2>2, <2>3, <3>1
    <3>2. CASE \E j \in DOMAIN out : j < i + 1 /\ out[j] = <<out[i + 1][1], 0>>
      <4>1. PICK j \in DOMAIN out : j < i + 1 /\ out[j] = <<out[i + 1][1], 0>>
        BY <3>2
      <4>2. CASE j = 1
        BY <2>2, <2>3, <4>1, <4>2
      <4>3. CASE j # 1
        <5>1. j - 1 \in DOMAIN out' /\ j - 1 < i /\ out'[j - 1] = out[j]
          BY <2>2, <4>1, <4>3
        <5>2. QED
          BY <2>2, <4>1, <5>1
      <4>4. QED
        BY <4>2, <4>3
    <3>3. QED
      BY <2>2, <2>4, <3>1, <3>2 DEF BlockFirst
  <2>5. \A h \in Touched' : <<h, 0>> \in InOut'
    BY <1>1 DEF BlockFirst
  <2>6. QED
    BY <2>4, <2>5 DEF BlockFirst
<1>4. CASE SendEnd
  <2>1. EndMark(order) \in Responses(Items) /\ EndMark(order).type = "END"
    BY <1>2 DEF EndMark, Responses
  <2>2. Delivered' = Delivered /\ out' = out
    BY <1>2, <1>4, <2>1, Sent, DeliveredUnmoved DEF SendEnd, Send
  <2>3. QED
    BY <1>1, <2>2, BlockFirstUnmoved
<1>5. CASE OutDrained \/ SenderCancelled \/ SignalFin
  <2>1. UNCHANGED <<out, answer>>
    BY <1>5 DEF OutDrained, SenderCancelled, SignalFin, taskVars
  <2>2. QED
    BY <1>1, <2>1, BlockFirstUnmoved, DeliveredUnmoved
<1>6. QED
  BY <1>3, <1>4, <1>5 DEF Sender

-----------------------------------------------------------------------------
(* Numbers and END.                                                        *)

LEMMA SenderInvUnmoved ==
    ASSUME SenderInv, UNCHANGED <<answer, order>>, streamUp' => streamUp,
           spc' = spc \/ (spc = "idle" /\ spc' = "loop")
    PROVE  SenderInv'
<1>1. \A t : OfType(t)' = OfType(t)
  BY DeliveredUnmoved
<1>2. Numbering'
  BY <1>1 DEF SenderInv, Numbering, OfType
<1>3. QED
  BY <1>1, <1>2 DEF SenderInv

(* The responses received so far are finitely many.                        *)
LEMMA AnswerFinite ==
    ASSUME answer \in Seq(Responses(Items))
    PROVE  /\ \A t : OfType(t) \subseteq 1..Len(answer)
           /\ IsFiniteSet(OfType("data")) /\ Cardinality(OfType("data")) \in Nat
<1>1. Len(answer) \in Nat /\ \A t : OfType(t) \subseteq 1..Len(answer)
  BY DEF OfType
<1>2. IsFiniteSet(1..Len(answer))
  BY <1>1, IntervalSize
<1>3. IsFiniteSet(OfType("data"))
  BY <1>1, <1>2, FS_Subset
<1>4. QED
  BY <1>1, <1>3, FS_CardinalityType

(* A response that carries the number of items sent so far.                *)
LEMMA NumberedSent ==
    ASSUME answer \in Seq(Responses(Items)), Numbering, NEW r \in Responses(Items),
           answer' = Append(answer, r),
           r.type # "error" => r.order = Cardinality(OfType("data"))
    PROVE  /\ Numbering'
           /\ r.type # "data" => Cardinality(OfType("data"))' = Cardinality(OfType("data"))
           /\ r.type = "data" => Cardinality(OfType("data"))' = Cardinality(OfType("data")) + 1
<1> DEFINE n == Len(answer)
           D == OfType("data")
<1>1. /\ OfType("data")' = D \cup (IF r.type = "data" THEN {n + 1} ELSE {})
      /\ DOMAIN answer' = DOMAIN answer \cup {n + 1}
      /\ answer'[n + 1] = r
      /\ \A i \in DOMAIN answer : answer'[i] = answer[i] /\ i \in 1..n
  BY Sent
<1>2. n \in Nat /\ D \subseteq 1..n /\ IsFiniteSet(D) /\ Cardinality(D) \in Nat
  BY AnswerFinite
<1> DEFINE Before(E, i) == {m \in E : m < i}
<1>3. \A i \in DOMAIN answer : answer[i].type # "error" => answer[i].order = Cardinality(Before(D, i))
  BY DEF Numbering
<1>4. r.type # "error" => r.order = Cardinality(D)
  OBVIOUS
<1> HIDE DEF n, D
<1>5. Before(OfType("data")', n + 1) = D
  <2>1. \A m \in OfType("data")' : m < n + 1 => m \in D
    BY <1>1, <1>2
  <2>2. \A m \in D : m \in OfType("data")' /\ m < n + 1
    BY <1>1, <1>2
  <2>3. QED
    BY <2>1, <2>2
<1>6. \A i \in DOMAIN answer : Before(OfType("data")', i) = Before(D, i)
  BY <1>1, <1>2
<1>7. ASSUME NEW i \in DOMAIN answer', answer'[i].type # "error"
      PROVE  answer'[i].order = Cardinality(Before(OfType("data")', i))
  <2>1. CASE i \in DOMAIN answer
    BY <1>1, <1>3, <1>6, <1>7, <2>1
  <2>2. CASE i = n + 1
    BY <1>1, <1>4, <1>5, <1>7, <2>2
  <2>3. QED
    BY <1>1, <2>1, <2>2
<1>8. Numbering'
  BY <1>7 DEF Numbering
<1>9. r.type = "data" => Cardinality(OfType("data")') = Cardinality(D) + 1
  <2>1. n + 1 \notin D
    BY <1>2
  <2>2. QED
    BY <1>1, <1>2, <2>1, FS_AddElement
<1>10. r.type # "data" => Cardinality(OfType("data")') = Cardinality(D)
  BY <1>1
<1>11. QED
  BY <1>8, <1>9, <1>10 DEF D

LEMMA SenderInvSender ==
    ASSUME TaskDataOK(Items), SendRespDataOK, SenderInv, streamUp \in BOOLEAN, Sender
    PROVE  SenderInv'
<1>1. out \in Seq(Items) /\ answer \in Seq(Responses(Items)) /\ order \in Nat
  BY DEF TaskDataOK, SendRespDataOK
<1>2. streamUp' = streamUp
  BY DEF Sender, SendItem, OutDrained, SenderCancelled, SendEnd, SignalFin, taskVars
<1>3. CASE SendItem
  <2> DEFINE r == Data(Head(out), order)
  <2>1. /\ r \in Responses(Items) /\ r.type = "data" /\ r.order = order
        /\ order' = order + 1 /\ spc' = spc /\ spc = "loop"
        /\ answer' = IF streamUp THEN Append(answer, r) ELSE answer
    <3>1. Head(out) \in Items
      BY <1>1, <1>3, SequenceTail DEF SendItem
    <3>2. QED
      BY <1>1, <1>3, <3>1, ResponseTypes DEF SendItem, Send, Data
  <2> HIDE DEF r
  <2>2. CASE streamUp
    <3>1. Numbering' /\ Cardinality(OfType("data"))' = order'
      BY <1>1, <2>1, <2>2, NumberedSent DEF SenderInv
    <3>2. OfType("END")' = OfType("END")
      BY <1>1, <2>1, <2>2, SentTypes
    <3>3. QED
      BY <2>1, <3>1, <3>2 DEF SenderInv
  <2>3. CASE ~streamUp
    <3>1. \A t : OfType(t)' = OfType(t)
      BY <2>1, <2>3, DeliveredUnmoved
    <3>2. Numbering'
      BY <2>1, <2>3, <3>1 DEF SenderInv, Numbering
    <3>3. QED
      BY <1>2, <2>1, <2>3, <3>1, <3>2 DEF SenderInv
  <2>4. QED
    BY <2>2, <2>3
<1>4. CASE SendEnd
  <2> DEFINE r == EndMark(order)
  <2>1. /\ r \in Responses(Items) /\ r.type = "END" /\ r.order = order
        /\ order' = order /\ spc' = "fin"
        /\ answer' = IF streamUp THEN Append(answer, r) ELSE answer
    BY <1>1, <1>4 DEF SendEnd, Send, EndMark, Responses
  <2> HIDE DEF r
  <2>2. CASE streamUp
    <3>1. Numbering' /\ Cardinality(OfType("data"))' = order'
      BY <1>1, <2>1, <2>2, NumberedSent DEF SenderInv
    <3>2. QED
      BY <2>1, <3>1 DEF SenderInv
  <2>3. CASE ~streamUp
    <3>1. \A t : OfType(t)' = OfType(t)
      BY <2>1, <2>3, DeliveredUnmoved
    <3>2. Numbering'
      BY <2>1, <2>3, <3>1 DEF SenderInv, Numbering
    <3>3. QED
      BY <1>2, <2>1, <2>3, <3>2 DEF SenderInv
  <2>4. QED
    BY <2>2, <2>3
<1>5. CASE OutDrained \/ SenderCancelled \/ SignalFin
  <2>1. UNCHANGED <<answer, order>>
    BY <1>5 DEF OutDrained, SenderCancelled, SignalFin, taskVars
  <2>2. /\ Numbering' /\ \A t : OfType(t)' = OfType(t)
    BY <2>1, DeliveredUnmoved DEF SenderInv, Numbering
  <2>3. spc' \in {"idle", "loop", "end"} => spc \in {"idle", "loop", "end"}
    BY <1>5 DEF OutDrained, SenderCancelled, SignalFin
  <2>4. QED
    BY <1>2, <2>1, <2>2, <2>3 DEF SenderInv
<1>6. QED
  BY <1>3, <1>4, <1>5 DEF Sender

(* The handler tells of a failure: the items and END are as before.        *)
LEMMA ErrorTold ==
    ASSUME TaskDataOK(Items), SenderInv, streamUp \in BOOLEAN, Send(ErrorMark),
           UNCHANGED <<streamUp, order, spc>>
    PROVE  /\ SenderInv' /\ Delivered' = Delivered
           /\ OfType("END")' = OfType("END")
           /\ streamUp => OfType("error")' # {}
           /\ ~streamUp => OfType("error")' = OfType("error")
<1>1. ErrorMark \in Responses(Items) /\ ErrorMark.type = "error"
  BY DEF ErrorMark, Responses
<1>2. answer \in Seq(Responses(Items))
  BY DEF TaskDataOK
<1>3. CASE streamUp
  <2>1. answer' = Append(answer, ErrorMark)
    BY <1>3 DEF Send
  <2>2. /\ OfType("END")' = OfType("END") /\ Delivered' = Delivered
        /\ OfType("error")' # {}
    BY <1>1, <1>2, <2>1, SentTypes
  <2>3. Numbering' /\ Cardinality(OfType("data"))' = Cardinality(OfType("data"))
    BY <1>1, <1>2, <2>1, NumberedSent DEF SenderInv
  <2>4. QED
    BY <1>3, <2>2, <2>3 DEF SenderInv
<1>4. CASE ~streamUp
  <2>1. answer' = answer
    BY <1>4 DEF Send
  <2>2. QED
    BY <1>4, <2>1, SenderInvUnmoved, DeliveredUnmoved
<1>5. QED
  BY <1>3, <1>4

(* What sendResp adds to the answer: the head of out, or END once, with the*)
(* number of the items before it.                                          *)
LEMMA SenderAnswers ==
    ASSUME TaskDataOK(Items), SendRespDataOK, SenderInv, streamUp \in BOOLEAN, Sender
    PROVE  /\ OfType("error")' = OfType("error")
           /\ \/ UNCHANGED answer
              \/ /\ spc = "loop" /\ streamUp /\ out # <<>> /\ OfType("END") = {}
                 /\ answer' = Append(answer, Data(Head(out), Cardinality(OfType("data"))))
              \/ /\ spc = "end" /\ streamUp /\ OfType("END") = {}
                 /\ answer' = Append(answer, EndMark(Cardinality(OfType("data"))))
<1>1. /\ out \in Seq(Items) /\ answer \in Seq(Responses(Items)) /\ order \in Nat
      /\ streamUp => order = Cardinality(OfType("data"))
      /\ spc \in {"loop", "end"} => OfType("END") = {}
  BY DEF TaskDataOK, SendRespDataOK, SenderInv
<1>2. CASE UNCHANGED answer
  BY <1>2, DeliveredUnmoved
<1>3. CASE SendItem /\ streamUp
  <2>1. /\ Data(Head(out), order) \in Responses(Items)
        /\ Data(Head(out), order).type = "data"
    <3>1. Head(out) \in Items
      BY <1>1, <1>3, SequenceTail DEF SendItem
    <3>2. QED
      BY <1>1, <3>1, ResponseTypes DEF Data
  <2>2. out # <<>> /\ answer' = Append(answer, Data(Head(out), order)) /\ spc = "loop"
    BY <1>3 DEF SendItem, Send
  <2>3. OfType("error")' = OfType("error")
    BY <1>1, <2>1, <2>2, SentTypes
  <2>4. QED
    BY <1>1, <1>3, <2>2, <2>3
<1>4. CASE SendEnd /\ streamUp
  <2>1. EndMark(order) \in Responses(Items) /\ EndMark(order).type = "END"
    BY <1>1 DEF EndMark, Responses
  <2>2. answer' = Append(answer, EndMark(order)) /\ spc = "end"
    BY <1>4 DEF SendEnd, Send
  <2>3. OfType("error")' = OfType("error")
    BY <1>1, <2>1, <2>2, SentTypes
  <2>4. QED
    BY <1>1, <1>4, <2>2, <2>3
<1>5. QED
  BY <1>2, <1>3, <1>4
  DEF Sender, SendItem, OutDrained, SenderCancelled, SendEnd, SignalFin, taskVars, Send

-----------------------------------------------------------------------------
(* Failed batches.                                                         *)

LEMMA FailuresUnmoved ==
    ASSUME FailuresKnown, UNCHANGED <<fetch, ctrl, nerr>>
    PROVE  FailuresKnown'
BY DEF FailuresKnown, DoneFetchers

LEMMA FailuresFetcher ==
    ASSUME BlocksFetchDataOK, FailuresKnown, NEW f \in DOMAIN fetch, Fetcher(f)
    PROVE  FailuresKnown'
<1>1. PICK r \in FetchRecords : /\ Becomes(f, r)
                                /\ fetch[f].pc # "done"
                                /\ r.pc = "done" <=> ReportBatch(f)
  BY FetcherRecord
<1>2. /\ Len(fetch') = Len(fetch)
      /\ \A g \in 1..Len(fetch) : fetch'[g] = IF g = f THEN r ELSE fetch[g]
  BY <1>1, BecomesType
<1>3. /\ f \in 1..Len(fetch) /\ f \notin DoneFetchers /\ fetch[f] \in FetchRecords
      /\ \A g \in DoneFetchers : g \in 1..Len(fetch)
      /\ nerr' = nerr
  BY <1>1 DEF DoneFetchers, BlocksFetchDataOK, Fetcher, AskLimiter, GetMetas, LockBlocks,
              MergeBlock, UnlockBlocks, ReportBatch
<1>4. \A g \in DoneFetchers : fetch'[g] = fetch[g]
  BY <1>2, <1>3
<1>5. CASE ReportBatch(f)
  <2>1. DoneFetchers' = DoneFetchers \cup {f}
    BY <1>1, <1>2, <1>3, <1>5 DEF DoneFetchers
  <2>2. fetch'[f].report = fetch[f].report
    <3>1. fetch' = [fetch EXCEPT ![f] = [fetch[f] EXCEPT !.pc = "done"]]
      BY <1>5 DEF ReportBatch, Becomes
    <3>2. fetch'[f] = [fetch[f] EXCEPT !.pc = "done"]
      BY <1>3, <3>1 DEF BlocksFetchDataOK
    <3>3. QED
      BY <1>3, <3>2 DEF FetchRecords
  <2>3. Range(ctrl') = Range(ctrl) \cup {fetch[f].report}
    <3>1. ctrl' = Append(ctrl, fetch[f].report) /\ fetch[f].report \in Report /\ ctrl \in Seq(Report)
      BY <1>3, <1>5 DEF ReportBatch, FetchRecords, BlocksFetchDataOK
    <3>2. QED
      BY <3>1, QueueAppend
  <2>4. QED
    BY <1>3, <1>4, <2>1, <2>2, <2>3 DEF FailuresKnown
<1>6. CASE ~ReportBatch(f)
  <2>1. DoneFetchers' = DoneFetchers
    BY <1>1, <1>2, <1>3, <1>6 DEF DoneFetchers
  <2>2. ctrl' = ctrl
    BY <1>6 DEF Fetcher, AskLimiter, GetMetas, LockBlocks, MergeBlock, UnlockBlocks
  <2>3. QED
    BY <1>3, <1>4, <2>1, <2>2 DEF FailuresKnown
<1>7. QED
  BY <1>5, <1>6

(* A new batch has not reported.                                           *)
LEMMA FailuresGoFetch ==
    ASSUME BlocksFetchDataOK, FailuresKnown, NEW lo \in Nat, NEW h \in Nat, GoFetch(lo, h),
           UNCHANGED <<ctrl, got, nerr, blocks, summary>>
    PROVE  FailuresKnown'
<1>1. DoneFetchers' = DoneFetchers /\ \A f \in 1..Len(fetch) : fetch'[f] = fetch[f]
  BY GoFetchOK
<1>2. \A f \in DoneFetchers : fetch'[f] = fetch[f]
  BY <1>1 DEF DoneFetchers
<1>3. QED
  BY <1>1, <1>2 DEF FailuresKnown

(* When the last report is read, the handler knows whether a batch failed. *)
LEMMA FailuresCollect ==
    ASSUME BlocksFetchDataOK, ReportsCounted, FailuresKnown, NEW next, CollectReport(next),
           next \notin {"collect", "failed"}
    PROVE  /\ FailuresKnown'
           /\ pc' = "failed" => \E f \in DOMAIN fetch' : fetch'[f].report = "failed"
           /\ pc' = next => \A f \in DOMAIN fetch' : fetch'[f].report # "failed"
<1>1. /\ ctrl \in Seq(Report) /\ ctrl # <<>> /\ nerr \in Nat /\ ctrl' = Tail(ctrl)
      /\ nerr' = nerr + (IF Head(ctrl) = "failed" THEN 1 ELSE 0) /\ fetch' = fetch
  BY DEF CollectReport, BlocksFetchDataOK
<1>2. Range(ctrl) = Range(ctrl') \cup {Head(ctrl)}
  BY <1>1, QueueTail
<1>3. nerr' > 0 <=> nerr > 0 \/ Head(ctrl) = "failed"
  BY <1>1
<1>4. DoneFetchers' = DoneFetchers
  BY <1>1 DEF DoneFetchers
<1>5. FailuresKnown'
  BY <1>1, <1>2, <1>3, <1>4 DEF FailuresKnown
<1>6. ASSUME pc' # "collect"
      PROVE  /\ pc' = "failed" <=> nerr' > 0
             /\ DoneFetchers = 1..Len(fetch) /\ ctrl' = <<>>
  <2>1. got' = Len(fetch) /\ (pc' = "failed" <=> nerr' > 0)
    BY <1>6 DEF CollectReport, AllReported, AnyFailed
  <2>2. QED
    BY <2>1, CollectOK
<1>7. pc' # "collect" =>
        (nerr' > 0 <=> \E f \in DOMAIN fetch' : fetch'[f].report = "failed")
  <2> SUFFICES ASSUME pc' # "collect"
               PROVE  nerr' > 0 <=> \E f \in DOMAIN fetch' : fetch'[f].report = "failed"
    OBVIOUS
  <2>1. DOMAIN fetch' = DoneFetchers'
    BY <1>1, <1>4, <1>6 DEF BlocksFetchDataOK
  <2>2. "failed" \notin Range(ctrl')
    BY <1>6, QueueEmpty
  <2>3. QED
    BY <1>5, <2>1, <2>2 DEF FailuresKnown
<1>8. QED
  BY <1>5, <1>6, <1>7

-----------------------------------------------------------------------------
(* The heights of a batch.                                                 *)

(* A bound that is sent is kept by the node's answer.                      *)
LEMMA NodeMetasBounds ==
    ASSUME NEW lo \in Nat, NEW hi \in Nat, hi >= 1
    PROVE  Range(NodeMetas(lo, hi)) \subseteq lo..hi
<1> DEFINE a == FirstAnswered(lo, hi)
           b == LastAsked(hi)
<1>1. Top \in Nat /\ Top >= 1 /\ BatchLimit \in Nat
  BY ChainAssumption, BlocksFetchAssumption DEF ChainAssumption, BlocksFetchAssumption
<1>2. b \in Nat /\ b <= hi
  BY <1>1 DEF LastAsked
<1>3. a \in Int /\ a >= lo
  BY <1>1, <1>2 DEF FirstAnswered
<1>4. NodeMetas(lo, hi) = [k \in 1..(b - a + 1) |-> b - k + 1]
  BY DEF NodeMetas
<1> HIDE DEF a, b
<1>5. \A k \in 1..(b - a + 1) : b - k + 1 \in lo..hi
  BY <1>2, <1>3
<1>6. QED
  BY <1>4, <1>5 DEF Range

(* A fetcher keeps its bounds, holds heights within them only, and adds no *)
(* others to the map.                                                      *)
LEMMA FetcherHeights ==
    ASSUME BlocksFetchDataOK, NEW f \in DOMAIN fetch, Fetcher(f), fetch[f].hi >= 1,
           Range(fetch[f].metas) \subseteq fetch[f].lo .. fetch[f].hi
    PROVE  /\ DOMAIN fetch' = DOMAIN fetch
           /\ \A g \in DOMAIN fetch : g # f => fetch'[g] = fetch[g]
           /\ fetch'[f].lo = fetch[f].lo /\ fetch'[f].hi = fetch[f].hi
           /\ Range(fetch'[f].metas) \subseteq fetch[f].lo .. fetch[f].hi
           /\ blocks' \subseteq blocks \cup (fetch[f].lo .. fetch[f].hi)
<1> DEFINE old == fetch[f]
           Answered == /\ GetMetas(f) /\ ~NodeRefuses(old.lo, old.hi)
                       /\ Becomes(f, [old EXCEPT !.pc = "lock", !.metas = NodeMetas(old.lo, old.hi)])
<1>1. old \in FetchRecords /\ DOMAIN fetch = 1..Len(fetch)
  BY DEF BlocksFetchDataOK
<1>2. ASSUME NEW r \in FetchRecords, Becomes(f, r)
      PROVE  /\ DOMAIN fetch' = DOMAIN fetch
             /\ \A g \in DOMAIN fetch : fetch'[g] = IF g = f THEN r ELSE fetch[g]
  <2>1. /\ fetch' \in Seq(FetchRecords) /\ Len(fetch') = Len(fetch)
        /\ \A g \in 1..Len(fetch) : fetch'[g] = IF g = f THEN r ELSE fetch[g]
    BY <1>2, BecomesType
  <2>2. QED
    BY <1>1, <2>1
<1>3. CASE MergeBlock(f)
  <2> DEFINE r == [old EXCEPT !.metas = Tail(@)]
  <2>1. old.metas \in Seq(1..Top) /\ old.metas # <<>> /\ Becomes(f, r)
        /\ blocks' = blocks \cup {Head(old.metas)}
    BY <1>1, <1>3 DEF MergeBlock, FetchRecords
  <2>2. Head(old.metas) \in Range(old.metas) /\ Range(Tail(old.metas)) \subseteq Range(old.metas)
    BY <2>1, QueueTail
  <2>3. /\ r \in FetchRecords /\ r.metas = Tail(old.metas) /\ r.lo = old.lo /\ r.hi = old.hi
    BY <1>1, <2>1, SequenceTail DEF FetchRecords
  <2> HIDE DEF r
  <2>4. QED
    BY <1>2, <2>1, <2>2, <2>3
<1>4. CASE Answered
  <2> DEFINE r == [old EXCEPT !.pc = "lock", !.metas = NodeMetas(old.lo, old.hi)]
  <2>1. old.lo \in Nat /\ old.hi \in Nat
    BY <1>1 DEF FetchRecords
  <2>2. /\ r \in FetchRecords /\ r.metas = NodeMetas(old.lo, old.hi)
        /\ r.lo = old.lo /\ r.hi = old.hi
    BY <1>1, <1>4, <2>1, NodeMetasType DEF FetchRecords, FetchPC
  <2>3. blocks' = blocks /\ Becomes(f, r)
    BY <1>4 DEF GetMetas
  <2> HIDE DEF r
  <2>4. QED
    BY <1>2, <2>1, <2>2, <2>3, NodeMetasBounds
<1>5. CASE /\ blocks' = blocks
           /\ \E r \in FetchRecords : /\ Becomes(f, r)
                                      /\ r.lo = old.lo /\ r.hi = old.hi /\ r.metas = old.metas
  BY <1>2, <1>5
<1>6. CASE AskLimiter(f) \/ LockBlocks(f) \/ UnlockBlocks(f) \/ ReportBatch(f) \/ GetMetas(f)
  <2>1. blocks' = blocks
    BY <1>6 DEF AskLimiter, LockBlocks, UnlockBlocks, ReportBatch, GetMetas
  <2>2. ASSUME NEW p \in FetchPC, NEW q \in Report
        PROVE  LET r == [old EXCEPT !.pc = p, !.report = q]
               IN  /\ r \in FetchRecords
                   /\ r.lo = old.lo /\ r.hi = old.hi /\ r.metas = old.metas
    BY <1>1, <2>2 DEF FetchRecords
  <2>3. ASSUME NEW p \in FetchPC, Becomes(f, [old EXCEPT !.pc = p])
        PROVE  \E r \in FetchRecords : /\ Becomes(f, r)
                                       /\ r.lo = old.lo /\ r.hi = old.hi /\ r.metas = old.metas
    <3>1. [old EXCEPT !.pc = p] = [old EXCEPT !.pc = p, !.report = old.report]
          /\ old.report \in Report
      BY <1>1 DEF FetchRecords
    <3>2. QED
      BY <2>2, <2>3, <3>1
  <2>4. {"http", "merge", "end", "done"} \subseteq FetchPC /\ "failed" \in Report
    BY DEF FetchPC, Report
  <2>5. \/ \E p \in {"http", "merge", "end", "done"} : Becomes(f, [old EXCEPT !.pc = p])
        \/ Becomes(f, [old EXCEPT !.pc = "end", !.report = "failed"])
        \/ Answered
    BY <1>6 DEF AskLimiter, LockBlocks, UnlockBlocks, ReportBatch, GetMetas
  <2>6. QED
    BY <1>4, <1>5, <2>1, <2>2, <2>3, <2>4, <2>5
<1>7. QED
  BY <1>3, <1>6 DEF Fetcher

-----------------------------------------------------------------------------
(* Nothing is left behind.                                                 *)

(* The transactions on the pages the handler has still to put into toGet.  *)
ToQueue == {x \in Items : pc = "pages" /\ cur[1] = x[1] /\ x[2] > (cur[2] - 1) * PerPage}

(***************************************************************************)
(* As long as the stream takes what is sent, each transaction of a block   *)
(* that was sent was found, or is on a page that is still to queue, waited *)
(* for or lost; and nothing of a lost page was found.                      *)
(***************************************************************************)
TxsAccounted ==
    \A x \in Items : x[2] > 0 /\ <<x[1], 0>> \in InOut =>
        x \in Found \cup ToQueue \/ \E p \in OpenPages \cup lost : x \in TxsOf({p})

LostOnce ==
    \A p \in lost :
        /\ p \in PageIds \ OpenPages /\ TxsOf({p}) \cap Found = {}
        /\ <<p[1], 0>> \in InOut
        /\ pc = "pages" /\ p[1] = cur[1] => p[2] < cur[2]

LeftInv == streamUp => TxsAccounted /\ LostOnce

(***************************************************************************)
(* A goroutine of the pipeline is done only when its channel is closed and *)
(* empty, and the handler goes on only when the goroutines are done.       *)
(***************************************************************************)
DrainInv ==
    /\ (\E w \in Workers : worker[w].pc = "done") =>
          toGet = <<>> /\ (pc \in Feeding => toGetClosed)
    /\ conv.pc = "done" => txIn = <<>> /\ (pc \in Feeding => txInClosed)
    /\ pc \notin Feeding => HttpWaitGroupZero /\ ConvertWaitGroupZero
    /\ pc \notin {"range", "pages"} => todo = {}
    /\ pc = "waitConv" => HttpWaitGroupZero

(* What END tells, and when it is sent for another reason than the context.*)
EndInv ==
    /\ IsFiniteSet(Delivered) /\ Cardinality(Delivered) = Cardinality(OfType("data"))
    /\ spc \in {"fin", "done"} /\ streamUp =>
          \E n \in OfType("END") : answer[n].order = Cardinality(OfType("data"))
    /\ spc \in {"end", "fin", "done"} /\ ~contextDone => outClosed /\ out = <<>>

(* Its pages hold all transactions of a block, and a block without pages   *)
(* has none.                                                               *)
LEMMA EnoughPages ==
    ASSUME NEW h \in 1..Top
    PROVE  PagesOf(h) \in Nat /\ NumTxs[h] <= PagesOf(h) * PerPage
<1> DEFINE N == NumTxs[h]
           P == PerPage
<1>1. N \in Nat /\ P \in Nat /\ P >= 1
  BY ChainAssumption, TxPipelineAssumption DEF ChainAssumption, TxPipelineAssumption
<1>2. \A a \in Nat : \A b \in Nat \ {0} : a \div b \in Nat /\ a < b * (a \div b) + b
  BY SMT
<1>3. N + P - 1 \in Nat /\ PagesOf(h) = (N + P - 1) \div P
  BY <1>1 DEF PagesOf
<1> HIDE DEF N, P
<1> DEFINE q == (N + P - 1) \div P
<1>4. q \in Nat /\ N + P - 1 < P * q + P
  BY <1>1, <1>2, <1>3
<1> HIDE DEF q
<1>5. P * q \in Nat /\ q * P = P * q
  BY <1>1, <1>4
<1>6. N <= q * P
  BY <1>1, <1>4, <1>5
<1>7. QED
  BY <1>3, <1>4, <1>6 DEF N, P, q

(* A transaction between the bounds of a page is on it.                    *)
LEMMA OnPage ==
    ASSUME NEW p \in PageIds, NEW x \in Items, x[1] = p[1],
           (p[2] - 1) * PerPage < x[2], x[2] <= p[2] * PerPage
    PROVE  x \in TxsOf({p})
<1> DEFINE first == (p[2] - 1) * PerPage
           rest == NumTxs[p[1]] - first
           n == IF rest < PerPage THEN rest ELSE PerPage
           s == [k \in 1..n |-> <<p[1], first + k>>]
           k == x[2] - first
<1>1. p[1] \in 1..Top /\ p[2] \in Nat /\ p[2] >= 1 /\ PerPage \in Nat
  BY TxPipelineAssumption DEF PageIds, TxPipelineAssumption
<1>2. first \in Nat /\ p[2] * PerPage = first + PerPage
  BY <1>1
<1>3. /\ x = <<p[1], x[2]>> /\ x[2] \in Nat
      /\ NumTxs[p[1]] \in Nat /\ x[2] <= NumTxs[p[1]]
  BY ItemParts
<1>4. first < x[2] /\ x[2] <= first + PerPage
  BY <1>2
<1> HIDE DEF first
<1>5. k \in 1..n /\ first + k = x[2]
  BY <1>1, <1>2, <1>3, <1>4
<1>6. PageTxs(p[1], p[2]) = s
  BY DEF PageTxs, first
<1> HIDE DEF n, k
<1>7. k \in DOMAIN s /\ s[k] = x
  BY <1>3, <1>5
<1> HIDE DEF s
<1>8. x \in Range(PageTxs(p[1], p[2]))
  BY <1>6, <1>7 DEF Range
<1>9. QED
  BY <1>8, PageContents

-----------------------------------------------------------------------------
(* The steps keep account of the transactions.                             *)

LEMMA LeftUnmoved ==
    ASSUME LeftInv, streamUp' => streamUp, UNCHANGED lost,
           (pc # "pages" /\ pc' # "pages") \/ UNCHANGED <<pc, cur>>,
           streamUp' => /\ Found' = Found /\ OpenPages' = OpenPages
                        /\ \A h : <<h, 0>> \in InOut' <=> <<h, 0>> \in InOut
    PROVE  LeftInv'
<1> SUFFICES ASSUME streamUp' PROVE TxsAccounted' /\ LostOnce'
  BY DEF LeftInv
<1>1. ToQueue' = ToQueue
  BY DEF ToQueue
<1>2. TxsAccounted' /\ LostOnce'
  BY <1>1 DEF LeftInv, TxsAccounted, LostOnce, TxsOf, PageTxs
<1>3. QED
  BY <1>2

(* A worker that goes on with its page, or without one, leaves the pages   *)
(* that are waited for.                                                    *)
LEMMA SearchesKept ==
    ASSUME TxPipelineDataOK, NEW w \in Workers, NEW r, At(w, r), UNCHANGED toGet,
           r.pc \in {"limit", "http"} <=> w \in Searching,
           w \in Searching => r.job = worker[w].job
    PROVE  OpenPages' = OpenPages
<1>1. worker'[w] = r /\ \A v \in Workers : v # w => worker'[v] = worker[v]
  BY OtherWorkers
<1>2. Searching' = Searching
  BY <1>1 DEF Searching
<1>3. \A v \in Searching : worker'[v].job = worker[v].job
  BY <1>1 DEF Searching
<1>4. SearchedPages' = SearchedPages
  BY <1>2, <1>3 DEF SearchedPages
<1>5. QED
  BY <1>4 DEF OpenPages

(* A page whose search failed is lost, and no longer waited for.           *)
LEMMA LeftLost ==
    ASSUME TxPipelineDataOK, PagesInv, OnceInv, BlockFirst, LeftInv,
           NEW w \in Workers, w \in Searching, SearchFails(w),
           UNCHANGED <<pc, streamUp, out, answer, conv, cur, todo, toGet, txIn>>
    PROVE  LeftInv'
<1> DEFINE page == worker[w].job
           gone == [worker[w] EXCEPT !.pc = "emit", !.txs = <<>>]
<1> SUFFICES ASSUME streamUp PROVE TxsAccounted' /\ LostOnce'
  BY DEF LeftInv
<1>1. /\ At(w, gone) /\ gone.pc = "emit" /\ gone.txs = <<>> /\ lost' = lost \cup {page}
  <2>1. worker[w] \in WorkerRecords
    BY DEF TxPipelineDataOK
  <2>2. QED
    BY <2>1 DEF SearchFails, WorkerRecords
<1> HIDE DEF gone
<1>2. Found' = Found /\ InOut' = InOut
  <2>1. w \notin Emitting
    BY DEF Searching, Emitting
  <2>2. Found' = Found
    BY <1>1, <2>1, WorkerKeeps
  <2>3. QED
    BY <2>2, DeliveredUnmoved DEF InOut
<1>3. page \in PageIds /\ page \in SearchedPages /\ page \in OpenPages /\ page \notin Range(toGet)
  BY DEF PagesInv, PageAtHand, Searching, SearchedPages, OpenPages, OnceInv, PagesOnce
<1>4. OpenPages' = OpenPages \ {page}
  <2>1. worker'[w] = gone /\ \A v \in Workers : v # w => worker'[v] = worker[v]
    BY <1>1, OtherWorkers
  <2>2. /\ Searching' = Searching \ {w}
        /\ \A v \in Searching : v # w => worker'[v].job = worker[v].job /\ worker[v].job # page
    BY <1>1, <2>1 DEF Searching, OnceInv, PagesOnce
  <2>3. SearchedPages' = SearchedPages \ {page}
    BY <2>2 DEF SearchedPages
  <2>4. QED
    BY <1>3, <2>3 DEF OpenPages
<1>5. page[1] \in Touched
  BY <1>3 DEF Touched
<1>6. /\ <<page[1], 0>> \in InOut /\ TxsOf({page}) \cap Found = {}
      /\ pc = "pages" /\ page[1] = cur[1] => page[2] < cur[2]
  BY <1>3, <1>5 DEF BlockFirst, OnceInv, PagesOnce, VisitedOnce
<1>7. TxsAccounted /\ LostOnce /\ ToQueue' = ToQueue
  BY DEF LeftInv, ToQueue
<1> HIDE DEF page
<1>8. OpenPages \cup lost = OpenPages' \cup lost'
  BY <1>1, <1>3, <1>4
<1>9. TxsAccounted'
  BY <1>2, <1>7, <1>8 DEF TxsAccounted, TxsOf, PageTxs
<1>10. ASSUME NEW p \in lost'
       PROVE  /\ p \in PageIds \ OpenPages' /\ TxsOf({p}) \cap Found' = {}
              /\ <<p[1], 0>> \in InOut'
              /\ pc' = "pages" /\ p[1] = cur'[1] => p[2] < cur'[2]
  <2>1. CASE p = page
    BY <1>2, <1>3, <1>4, <1>6, <2>1
  <2>2. CASE p \in lost
    BY <1>2, <1>4, <1>7, <2>2 DEF LostOnce
  <2>3. QED
    BY <1>1, <1>10, <2>1, <2>2
<1>11. LostOnce'
  BY <1>10 DEF LostOnce, TxsOf, PageTxs
<1>12. QED
  BY <1>9, <1>11

(* The transactions of a page that is answered are found.                  *)
LEMMA LeftFound ==
    ASSUME TxPipelineDataOK, PagesInv, OnceInv, LeftInv, NEW w \in Workers, w \in Searching,
           At(w, [worker[w] EXCEPT !.pc = "emit",
                  !.txs = PageTxs(worker[w].job[1], worker[w].job[2])]),
           UNCHANGED <<pc, streamUp, out, answer, conv, cur, todo, toGet, txIn, lost>>
    PROVE  LeftInv'
<1> DEFINE page == worker[w].job
<1> SUFFICES ASSUME streamUp PROVE TxsAccounted' /\ LostOnce'
  BY DEF LeftInv
<1>1. /\ page \in PageIds /\ page \in OpenPages
      /\ Found' = Found \cup TxsOf({page}) /\ OpenPages' = OpenPages \ {page}
  BY SearchOnce
<1>2. InOut' = InOut /\ ToQueue' = ToQueue
  BY DeliveredUnmoved DEF InOut, ToQueue
<1>3. TxsAccounted /\ LostOnce /\ lost' = lost
  BY DEF LeftInv
<1> HIDE DEF page
<1>4. ASSUME NEW x \in Items, x[2] > 0, <<x[1], 0>> \in InOut
      PROVE  x \in Found' \cup ToQueue \/ \E p \in OpenPages' \cup lost : x \in TxsOf({p})
  BY <1>1, <1>3, <1>4 DEF TxsAccounted
<1>5. TxsAccounted'
  BY <1>2, <1>3, <1>4 DEF TxsAccounted, TxsOf, PageTxs
<1>6. ASSUME NEW p \in lost
      PROVE  p \in PageIds \ OpenPages' /\ TxsOf({p}) \cap Found' = {}
  <2>1. p \in PageIds \ OpenPages /\ TxsOf({p}) \cap Found = {}
    BY <1>3 DEF LostOnce
  <2>2. TxsOf({p}) \cap TxsOf({page}) = {}
    BY <1>1, <2>1, PagesDisjoint
  <2>3. QED
    BY <1>1, <2>1, <2>2
<1>7. LostOnce'
  BY <1>2, <1>3, <1>6 DEF LostOnce, TxsOf, PageTxs
<1>8. QED
  BY <1>5, <1>7

LEMMA LeftWorker ==
    ASSUME TxPipelineDataOK, PagesInv, OnceInv, BlockFirst, LeftInv, NEW w \in Workers, Worker(w)
    PROVE  LeftInv'
<1>1. UNCHANGED <<pc, streamUp, out, answer, conv, cur, todo>> /\ InOut' = InOut
  BY DeliveredUnmoved DEF Worker, taskVars, InOut
<1>2. worker[w] \in WorkerRecords
  BY DEF TxPipelineDataOK
<1>3. ASSUME UNCHANGED lost, Found' = Found, OpenPages' = OpenPages
      PROVE  LeftInv'
  BY <1>1, <1>3, LeftUnmoved
<1>4. CASE TakePage(w)
  BY <1>1, <1>3, <1>4, TakePageOnce DEF TakePage
<1>5. CASE PutTx(w)
  BY <1>1, <1>3, <1>5, PutTxOnce DEF PutTx
<1>6. ASSUME NEW r, At(w, r), UNCHANGED <<toGet, txIn, lost>>, r.pc # "emit",
             w \in Emitting => worker[w].txs = <<>>,
             r.pc \in {"limit", "http"} <=> w \in Searching,
             w \in Searching => r.job = worker[w].job
      PROVE  LeftInv'
  <2>1. Found' = Found
    BY <1>1, <1>6, WorkerKeeps
  <2>2. OpenPages' = OpenPages
    BY <1>6, SearchesKept
  <2>3. QED
    BY <1>3, <1>6, <2>1, <2>2
<1>7. CASE WorkerDone(w) \/ PageDone(w)
  <2>1. PICK r : At(w, r) /\ r.pc \in {"idle", "done"}
    BY <1>2, <1>7 DEF WorkerDone, PageDone, WorkerRecords
  <2>2. /\ w \in Emitting => worker[w].txs = <<>>
        /\ w \notin Searching /\ UNCHANGED <<toGet, txIn, lost>>
    BY <1>7 DEF WorkerDone, PageDone, Emitting, Searching
  <2>3. QED
    BY <1>6, <2>1, <2>2
<1>8. ASSUME AskSearchLimiter(w) \/ Search(w)
      PROVE  w \in Searching /\ w \notin Emitting /\ UNCHANGED <<toGet, txIn>>
  BY <1>8 DEF AskSearchLimiter, Search, Searching, Emitting
<1>9. CASE SearchFails(w) /\ w \in Searching /\ UNCHANGED <<toGet, txIn>>
  BY <1>1, <1>9, LeftLost
<1>10. CASE AskSearchLimiter(w) /\ ~SearchFails(w)
  <2>1. PICK r : At(w, r) /\ r.pc = "http" /\ r.job = worker[w].job
    BY <1>2, <1>10 DEF AskSearchLimiter, WorkerRecords
  <2>2. UNCHANGED lost
    BY <1>10 DEF AskSearchLimiter
  <2>3. QED
    BY <1>6, <1>8, <1>10, <2>1, <2>2
<1>11. CASE Search(w) /\ ~SearchFails(w)
  <2>1. /\ UNCHANGED lost
        /\ At(w, [worker[w] EXCEPT !.pc = "emit",
                  !.txs = PageTxs(worker[w].job[1], worker[w].job[2])])
    BY <1>11 DEF Search
  <2>2. QED
    BY <1>1, <1>8, <1>11, <2>1, LeftFound
<1>12. QED
  BY <1>4, <1>5, <1>7, <1>8, <1>9, <1>10, <1>11 DEF Worker

(* The converter puts no block into out that is not there.                 *)
LEMMA LeftConverter ==
    ASSUME TaskDataOK(Items), TxPipelineDataOK, PagesInv, OnceInv, BlockFirst, LeftInv, Converter
    PROVE  LeftInv'
<1>1. UNCHANGED <<pc, streamUp, cur, lost, answer>> /\ Delivered' = Delivered
  BY DeliveredUnmoved DEF Converter
<1>2. InOut \subseteq InOut' /\ Found' = Found /\ OpenPages' = OpenPages
  BY ConverterOnce
<1>3. InOut' \subseteq InOut \cup AtConverter
  <2>1. CASE PutTransaction
    <3>1. /\ out' = Append(out, conv.tx) /\ conv.tx \in Items /\ out \in Seq(Items)
          /\ AtConverter = {conv.tx}
      BY <2>1 DEF PutTransaction, PagesInv, TaskDataOK, AtConverter
    <3>2. Range(out') = Range(out) \cup {conv.tx}
      BY <3>1, QueueAppend
    <3>3. QED
      BY <1>1, <3>1, <3>2 DEF InOut
  <2>2. CASE TakeTx \/ ConverterDone
    BY <1>1, <2>2 DEF TakeTx, ConverterDone, InOut
  <2>3. QED
    BY <2>1, <2>2 DEF Converter
<1>4. ASSUME streamUp, NEW h, <<h, 0>> \in AtConverter
      PROVE  <<h, 0>> \in InOut
  <2>1. <<h, 0>>[1] \in Touched
    BY <1>4 DEF Touched, Found, ToConvert, Taken
  <2>2. QED
    BY <1>4, <2>1 DEF BlockFirst
<1>5. QED
  BY <1>1, <1>2, <1>3, <1>4, LeftUnmoved

LEMMA LeftSender ==
    ASSUME TaskDataOK(Items), SendRespDataOK, OnceInv, LeftInv, streamUp \in BOOLEAN, Sender,
           UNCHANGED pipeVars
    PROVE  LeftInv'
<1>1. UNCHANGED <<pc, streamUp, cur, lost, worker, toGet, todo, txIn, conv>>
  BY DEF Sender, SendItem, OutDrained, SenderCancelled, SendEnd, SignalFin, taskVars, pipeVars
<1>2. OpenPages' = OpenPages /\ (streamUp => InOut' = InOut /\ Found' = Found)
  BY <1>1, SenderOnce
<1>3. QED
  BY <1>1, <1>2, LeftUnmoved

(* A pipeline is started anew when nothing is left of the one before.      *)
LEMMA LeftLaunch ==
    ASSUME OnceInv, LeftInv, NEW hs, Launch(hs), hs \cap Touched = {},
           OpenPages = {}, Found = InOut
    PROVE  LeftInv'
<1>1. InOut' = InOut /\ Found' = InOut /\ OpenPages' = {}
  BY LaunchOnce
<1>2. pc # "pages" /\ pc' # "pages" /\ UNCHANGED <<streamUp, lost>>
  BY DEF Launch
<1>3. QED
  BY <1>1, <1>2, LeftUnmoved

(* All transactions of a block that is sent are still to queue.            *)
LEMMA LeftSendBlock ==
    ASSUME TaskDataOK(Items), TxPipelineDataOK, PagesInv, OnceInv, BlockFirst, LeftInv,
           NEW h \in todo, SendBlock(h)
    PROVE  LeftInv'
<1>1. /\ InOut' = InOut \cup {<<h, 0>>} /\ Found' = Found \cup {<<h, 0>>}
      /\ OpenPages' = OpenPages /\ h \notin Touched
  BY SendBlockOnce
<1>2. /\ pc = "range" /\ UNCHANGED <<streamUp, lost>> /\ cur' = <<h, 1>>
      /\ pc' = IF PagesOf(h) > 0 THEN "pages" ELSE "range"
  BY DEF SendBlock
<1> SUFFICES ASSUME streamUp PROVE TxsAccounted' /\ LostOnce'
  BY <1>2 DEF LeftInv
<1>3. TxsAccounted /\ LostOnce /\ ToQueue = {}
  BY <1>2 DEF LeftInv, ToQueue
<1>4. h \in 1..Top /\ PerPage \in Nat
  BY TxPipelineAssumption DEF TxPipelineDataOK, TxPipelineAssumption
<1>5. ASSUME NEW x \in Items, x[2] > 0, x[1] = h
      PROVE  x \in ToQueue'
  <2>1. x[2] \in Nat /\ x[2] <= NumTxs[h] /\ NumTxs[h] \in Nat
    BY <1>5, ItemParts
  <2>2. PagesOf(h) \in Nat /\ NumTxs[h] <= PagesOf(h) * PerPage
    BY <1>4, EnoughPages
  <2>3. PagesOf(h) = 0 => PagesOf(h) * PerPage = 0
    BY <1>4
  <2>4. PagesOf(h) > 0
    BY <1>5, <2>1, <2>2, <2>3
  <2>5. pc' = "pages" /\ cur'[1] = h /\ (cur'[2] - 1) * PerPage = 0
    BY <1>2, <1>4, <2>4
  <2>6. QED
    BY <1>5, <2>5 DEF ToQueue
<1>6. ASSUME NEW x \in Items, x[2] > 0, <<x[1], 0>> \in InOut', x[1] # h
      PROVE  x \in Found' \/ \E p \in OpenPages' \cup lost' : x \in TxsOf({p})
  <2>1. <<x[1], 0>> \in InOut
    BY <1>1, <1>6
  <2>2. QED
    BY <1>1, <1>2, <1>3, <1>6, <2>1 DEF TxsAccounted
<1>7. TxsAccounted'
  BY <1>5, <1>6 DEF TxsAccounted, TxsOf, PageTxs
<1>8. ASSUME NEW p \in lost
      PROVE  /\ p \in PageIds \ OpenPages' /\ TxsOf({p}) \cap Found' = {}
             /\ <<p[1], 0>> \in InOut' /\ p[1] # h
  <2>1. /\ p \in PageIds \ OpenPages /\ TxsOf({p}) \cap Found = {}
        /\ <<p[1], 0>> \in InOut
    BY <1>3 DEF LostOnce
  <2>2. <<p[1], 0>>[1] \in Touched
    BY <2>1 DEF Touched, Found, ToConvert, Taken
  <2>3. p[1] # h
    BY <1>1, <2>2
  <2>4. \A x \in TxsOf({p}) : x[1] = p[1]
    BY <2>1, PageContents
  <2>5. <<h, 0>> \notin TxsOf({p})
    BY <2>3, <2>4
  <2>6. QED
    BY <1>1, <2>1, <2>3, <2>5
<1>9. LostOnce'
  BY <1>2, <1>8 DEF LostOnce, TxsOf, PageTxs
<1>10. QED
  BY <1>7, <1>9

(* A page goes from those to queue to those waited for.                    *)
LEMMA LeftQueuePage ==
    ASSUME TaskDataOK(Items), TxPipelineDataOK, PagesInv, OnceInv, LeftInv, QueuePage
    PROVE  LeftInv'
<1>1. /\ InOut' = InOut /\ Found' = Found /\ OpenPages' = OpenPages \cup {cur}
  BY QueuePageOnce
<1>2. /\ pc = "pages" /\ UNCHANGED <<streamUp, lost>> /\ cur' = <<cur[1], cur[2] + 1>>
      /\ pc' = IF cur[2] < PagesOf(cur[1]) THEN "pages" ELSE "range"
  BY DEF QueuePage
<1> SUFFICES ASSUME streamUp PROVE TxsAccounted' /\ LostOnce'
  BY <1>2 DEF LeftInv
<1>3. TxsAccounted /\ LostOnce
  BY DEF LeftInv
<1>4. /\ cur \in PageIds /\ cur[1] \in 1..Top /\ cur[2] \in Nat /\ cur[2] >= 1
      /\ cur'[1] = cur[1] /\ cur'[2] = cur[2] + 1 /\ cur'[2] - 1 = cur[2]
  BY <1>2 DEF PagesInv, PageIds
<1>5. ASSUME NEW x \in ToQueue
      PROVE  x \in TxsOf({cur}) \cup ToQueue'
  <2>1. x \in Items /\ x[1] = cur[1] /\ x[2] > (cur[2] - 1) * PerPage
    BY <1>5 DEF ToQueue
  <2>2. x[2] \in Nat /\ NumTxs[cur[1]] \in Nat /\ x[2] <= NumTxs[cur[1]]
    BY <2>1, ItemParts
  <2>3. cur[2] * PerPage \in Nat
    BY <1>4, PageOrder
  <2>4. CASE x[2] <= cur[2] * PerPage
    BY <1>4, <2>1, <2>4, OnPage
  <2>5. CASE x[2] > cur[2] * PerPage
    <3>1. PagesOf(cur[1]) \in Nat /\ NumTxs[cur[1]] <= PagesOf(cur[1]) * PerPage
      BY <1>4, EnoughPages
    <3>2. PagesOf(cur[1]) <= cur[2] =>
            PagesOf(cur[1]) * PerPage <= cur[2] * PerPage /\ PagesOf(cur[1]) * PerPage \in Nat
      BY <1>4, <3>1, PageOrder
    <3>3. cur[2] < PagesOf(cur[1])
      BY <1>4, <2>2, <2>3, <2>5, <3>1, <3>2
    <3>4. pc' = "pages"
      BY <1>2, <3>3
    <3>5. QED
      BY <1>4, <2>1, <2>5, <3>4 DEF ToQueue
  <2>6. QED
    BY <2>2, <2>3, <2>4, <2>5
<1>6. ASSUME NEW x \in Items, x[2] > 0, <<x[1], 0>> \in InOut
      PROVE  x \in Found' \cup ToQueue' \/ \E p \in OpenPages' \cup lost' : x \in TxsOf({p})
  BY <1>1, <1>2, <1>3, <1>5, <1>6 DEF TxsAccounted
<1>7. TxsAccounted'
  BY <1>1, <1>6 DEF TxsAccounted, TxsOf, PageTxs
<1>8. ASSUME NEW p \in lost
      PROVE  p \in PageIds \ OpenPages' /\ (p[1] = cur[1] => p[2] < cur'[2])
  <2>1. p \in PageIds \ OpenPages /\ (p[1] = cur[1] => p[2] < cur[2])
    BY <1>2, <1>3 DEF LostOnce
  <2>2. p[2] \in Nat
    BY <2>1 DEF PageIds
  <2>3. QED
    BY <1>1, <1>4, <2>1, <2>2
<1>9. LostOnce'
  BY <1>1, <1>2, <1>3, <1>4, <1>8 DEF LostOnce, TxsOf, PageTxs
<1>10. QED
  BY <1>7, <1>9

LEMMA LeftFeed ==
    ASSUME TaskDataOK(Items), TxPipelineDataOK, PagesInv, OnceInv, BlockFirst, LeftInv,
           PipelineMain
    PROVE  LeftInv'
<1>1. CASE \E h \in todo : SendBlock(h)
  BY <1>1, LeftSendBlock
<1>2. CASE QueuePage
  BY <1>2, LeftQueuePage
<1>3. CASE CloseToGet \/ CloseTxIn
  <2>1. /\ UNCHANGED <<streamUp, out, answer, txIn, conv, worker, toGet, cur, todo, lost>>
        /\ pc # "pages" /\ pc' # "pages"
    BY <1>3 DEF CloseToGet, CloseTxIn
  <2>2. InOut' = InOut /\ Found' = Found /\ OpenPages' = OpenPages
    BY <2>1, OnceUnmoved, DeliveredUnmoved
  <2>3. QED
    BY <2>1, <2>2, LeftUnmoved
<1>4. QED
  BY <1>1, <1>2, <1>3 DEF PipelineMain

-----------------------------------------------------------------------------
(* The steps keep what a finished goroutine tells.                         *)

LEMMA DrainUnmoved ==
    ASSUME DrainInv, UNCHANGED <<worker, conv, toGet, txIn, todo, toGetClosed, txInClosed>>,
           \/ pc' = pc
           \/ /\ pc' \notin Feeding
              /\ pc \in Feeding => todo = {} /\ HttpWaitGroupZero /\ ConvertWaitGroupZero
    PROVE  DrainInv'
<1>1. /\ HttpWaitGroupZero' <=> HttpWaitGroupZero
      /\ ConvertWaitGroupZero' <=> ConvertWaitGroupZero
  BY DEF HttpWaitGroupZero, ConvertWaitGroupZero
<1>2. CASE pc' = pc
  BY <1>1, <1>2 DEF DrainInv
<1>3. CASE pc' # pc
  BY <1>1, <1>3 DEF DrainInv, Feeding
<1>4. QED
  BY <1>2, <1>3

LEMMA DrainWorker ==
    ASSUME TxPipelineDataOK, PipelineChannels, DrainInv, NEW w \in Workers, Worker(w)
    PROVE  DrainInv'
<1>1. UNCHANGED <<pc, conv, todo, toGetClosed, txInClosed>>
  BY DEF Worker, taskVars
<1>2. worker[w].pc # "done"
  BY DEF Worker, TakePage, WorkerDone, AskSearchLimiter, Search, PutTx, PageDone
<1>3. /\ pc \in Feeding /\ pc # "waitConv" /\ conv.pc # "done"
      /\ \A v \in Workers : v # w => worker'[v] = worker[v]
  <2>1. pc \in Feeding /\ pc # "waitConv"
    BY <1>2 DEF DrainInv, HttpWaitGroupZero
  <2>2. conv.pc # "done"
    BY <1>2, <2>1 DEF DrainInv, PipelineChannels
  <2>3. \E r : At(w, r)
    BY DEF Worker, TakePage, WorkerDone, AskSearchLimiter, Search, SearchFails, PutTx, PageDone
  <2>4. QED
    BY <2>1, <2>2, <2>3, OtherWorkers
<1>4. worker[w] \in WorkerRecords
  BY DEF TxPipelineDataOK
<1>5. worker'[w].pc = "done" => toGet = <<>> /\ toGetClosed /\ toGet' = toGet
  <2>1. CASE WorkerDone(w)
    BY <2>1 DEF WorkerDone
  <2>2. CASE TakePage(w)
    BY <2>2, OtherWorkers DEF TakePage
  <2>3. CASE AskSearchLimiter(w) \/ Search(w) \/ PutTx(w) \/ PageDone(w)
    <3>1. ASSUME NEW r, At(w, r), r.pc # "done" PROVE worker'[w].pc # "done"
      BY <3>1, OtherWorkers
    <3>2. SearchFails(w) => \E r : At(w, r) /\ r.pc = "emit"
      <4> DEFINE gone == [worker[w] EXCEPT !.pc = "emit", !.txs = <<>>]
      <4>1. gone.pc = "emit" /\ (SearchFails(w) => At(w, gone))
        BY <1>4 DEF SearchFails, WorkerRecords
      <4> HIDE DEF gone
      <4>2. QED
        BY <4>1
    <3>3. PutTx(w) => \E r : At(w, r) /\ r.pc = "emit"
      BY <1>4 DEF PutTx, WorkerRecords
    <3>4. PageDone(w) => \E r : At(w, r) /\ r.pc = "idle"
      BY <1>4 DEF PageDone, WorkerRecords
    <3>5. AskSearchLimiter(w) /\ ~SearchFails(w) => \E r : At(w, r) /\ r.pc = "http"
      BY <1>4 DEF AskSearchLimiter, WorkerRecords
    <3>6. Search(w) /\ ~SearchFails(w) => \E r : At(w, r) /\ r.pc = "emit"
      <4> DEFINE r == [worker[w] EXCEPT !.pc = "emit",
                       !.txs = PageTxs(worker[w].job[1], worker[w].job[2])]
      <4>1. r.pc = "emit" /\ (Search(w) /\ ~SearchFails(w) => At(w, r))
        BY <1>4 DEF Search, WorkerRecords
      <4> HIDE DEF r
      <4>2. QED
        BY <4>1
    <3>7. QED
      BY <2>3, <3>1, <3>2, <3>3, <3>4, <3>5, <3>6
  <2>4. QED
    BY <2>1, <2>2, <2>3 DEF Worker
<1>6. toGet' = toGet \/ toGet # <<>>
  BY DEF Worker, TakePage, WorkerDone, AskSearchLimiter, Search, PutTx, PageDone
<1>7. ASSUME NEW v \in Workers, worker'[v].pc = "done"
      PROVE  toGet' = <<>> /\ toGetClosed
  <2>1. CASE v = w
    BY <1>5, <1>7, <2>1
  <2>2. CASE v # w
    BY <1>3, <1>6, <1>7, <2>2 DEF DrainInv
  <2>3. QED
    BY <2>1, <2>2
<1>8. QED
  BY <1>1, <1>3, <1>7 DEF DrainInv

LEMMA DrainConverter ==
    ASSUME DrainInv, Converter
    PROVE  DrainInv'
<1>1. UNCHANGED <<pc, todo, toGet, toGetClosed, worker, txInClosed>>
  BY DEF Converter
<1>2. conv.pc # "done"
  BY DEF Converter, TakeTx, PutTransaction, ConverterDone
<1>3. pc \in Feeding /\ (HttpWaitGroupZero' <=> HttpWaitGroupZero)
  BY <1>1, <1>2 DEF DrainInv, HttpWaitGroupZero, ConvertWaitGroupZero
<1>4. conv'.pc = "done" => txIn' = <<>> /\ txInClosed'
  BY DEF Converter, TakeTx, PutTransaction, ConverterDone
<1>5. QED
  BY <1>1, <1>3, <1>4 DEF DrainInv

LEMMA DrainLaunch ==
    ASSUME NEW hs, Launch(hs)
    PROVE  DrainInv'
<1>1. /\ pc' = "range" /\ conv'.pc = "idle"
      /\ \A w \in Workers : worker'[w].pc = "idle"
  BY DEF Launch
<1>2. QED
  BY <1>1 DEF DrainInv, Feeding

LEMMA DrainFeed ==
    ASSUME PipelineChannels, DrainInv, PipelineMain
    PROVE  DrainInv'
<1>1. UNCHANGED <<worker, conv, txIn>>
  BY DEF PipelineMain, SendBlock, QueuePage, CloseToGet, CloseTxIn
<1>2. HttpWaitGroupZero' <=> HttpWaitGroupZero
  BY <1>1 DEF HttpWaitGroupZero
<1>3. CASE (\E h \in todo : SendBlock(h)) \/ QueuePage
  <2>1. /\ pc \in {"range", "pages"} /\ pc' \in {"range", "pages"}
        /\ UNCHANGED <<toGetClosed, txInClosed>>
    BY <1>3 DEF SendBlock, QueuePage
  <2>2. \A w \in Workers : worker[w].pc # "done"
    BY <2>1 DEF DrainInv, PipelineChannels, Feeding
  <2>3. QED
    BY <1>1, <2>1, <2>2 DEF DrainInv, Feeding
<1>4. CASE CloseToGet
  <2>1. /\ pc = "range" /\ pc' = "waitHttp" /\ todo = {} /\ toGetClosed'
        /\ UNCHANGED <<todo, toGet, txInClosed>>
    BY <1>4 DEF CloseToGet
  <2>2. QED
    BY <1>1, <2>1 DEF DrainInv, Feeding
<1>5. CASE CloseTxIn
  <2>1. /\ pc = "waitHttp" /\ pc' = "waitConv" /\ HttpWaitGroupZero /\ txInClosed'
        /\ UNCHANGED <<todo, toGet, toGetClosed>>
    BY <1>5 DEF CloseTxIn
  <2>2. QED
    BY <1>1, <1>2, <2>1 DEF DrainInv, Feeding
<1>6. QED
  BY <1>3, <1>4, <1>5 DEF PipelineMain

LEMMA DrainInit ==
    ASSUME TaskInit, TxPipelineInit
    PROVE  DrainInv /\ LeftInv
<1>1. /\ pc = "start" /\ todo = {} /\ toGet = <<>> /\ txIn = <<>> /\ lost = {}
      /\ conv.pc = "done" /\ \A w \in Workers : worker[w].pc = "done"
  BY DEF TaskInit, TxPipelineInit
<1>2. DrainInv
  BY <1>1 DEF DrainInv, Feeding, HttpWaitGroupZero, ConvertWaitGroupZero
<1>3. InOut = {}
  BY OnceInit
<1>4. QED
  BY <1>1, <1>2, <1>3 DEF LeftInv, TxsAccounted, LostOnce

(* When the handler does not feed the pipeline nothing is in it.           *)
LEMMA Drained ==
    ASSUME DrainInv, pc \notin Feeding
    PROVE  OpenPages = {} /\ Found = InOut /\ todo = {} /\ ToQueue = {}
<1>1. /\ conv.pc = "done" /\ \A w \in Workers : worker[w].pc = "done"
      /\ todo = {} /\ pc # "pages"
  BY DEF DrainInv, HttpWaitGroupZero, ConvertWaitGroupZero, Feeding
<1>2. \E w \in Workers : worker[w].pc = "done"
  BY <1>1, TxPipelineAssumption DEF TxPipelineAssumption
<1>3. toGet = <<>> /\ txIn = <<>>
  BY <1>1, <1>2 DEF DrainInv
<1>4. AtConverter = {} /\ Emitting = {} /\ Searching = {}
  BY <1>1 DEF AtConverter, Emitting, Searching
<1>5. AtWorkers = {} /\ SearchedPages = {}
  BY <1>4 DEF AtWorkers, SearchedPages
<1>6. QED
  BY <1>1, <1>3, <1>4, <1>5, QueueEmpty DEF OpenPages, Found, ToConvert, Taken, ToQueue

(* An answer that left nothing behind has the blocks the handler was to    *)
(* send, and all their transactions but those of lost pages.               *)
LEMMA NothingLeft ==
    ASSUME OnceInv, LeftInv, DrainInv, pc \notin Feeding, streamUp, out = <<>>,
           NEW H, Touched \subseteq H, \A h \in H : <<h, 0>> \in InOut
    PROVE  Delivered = {x \in Items : /\ x[1] \in H
                                      /\ x[2] > 0 => \A p \in lost : x \notin TxsOf({p})}
<1>1. Delivered = InOut /\ Found = InOut /\ OpenPages = {} /\ ToQueue = {}
  BY Drained, QueueEmpty DEF InOut
<1>2. ASSUME NEW x \in Delivered
      PROVE  x \in Items /\ x[1] \in H /\ \A p \in lost : x \notin TxsOf({p})
  <2>1. x \in Found /\ x \in Items
    BY <1>1 DEF OnceInv
  <2>2. x[1] \in H
    BY <2>1 DEF Touched
  <2>3. \A p \in lost : x \notin TxsOf({p})
    BY <2>1 DEF LeftInv, LostOnce
  <2>4. QED
    BY <2>1, <2>2, <2>3
<1>3. ASSUME NEW x \in Items, x[1] \in H, x[2] > 0 => \A p \in lost : x \notin TxsOf({p})
      PROVE  x \in Delivered
  <2>1. <<x[1], 0>> \in InOut /\ x = <<x[1], x[2]>> /\ x[2] \in Nat
    BY <1>3, ItemParts
  <2>2. CASE x[2] = 0
    BY <1>1, <2>1, <2>2
  <2>3. CASE x[2] > 0
    BY <1>1, <1>3, <2>1, <2>3 DEF LeftInv, TxsAccounted
  <2>4. QED
    BY <2>1, <2>2, <2>3
<1>4. QED
  BY <1>2, <1>3

-----------------------------------------------------------------------------
(* The steps keep what END tells.                                          *)

LEMMA EndInit ==
    ASSUME TaskInit, TxPipelineInit, spc = "idle"
    PROVE  EndInv
<1>1. Delivered = {} /\ OfType("data") = {}
  BY OnceInit DEF InOut
<1>2. QED
  BY <1>1, FS_EmptySet DEF EndInv

LEMMA EndKept ==
    ASSUME answer \in Seq(Responses(Items)), EndInv, UNCHANGED contextDone,
           streamUp' => streamUp, outClosed => outClosed', out' = out \/ ~outClosed,
           spc' = spc \/ spc' \notin {"end", "fin", "done"},
           UNCHANGED answer \/ Send(ErrorMark)
    PROVE  EndInv'
<1>1. /\ Delivered' = Delivered /\ OfType("data")' = OfType("data")
      /\ \A n \in OfType("END") : n \in OfType("END")' /\ answer'[n] = answer[n]
  <2>1. CASE UNCHANGED answer
    BY <2>1, DeliveredUnmoved
  <2>2. CASE answer' = Append(answer, ErrorMark)
    <3>1. ErrorMark \in Responses(Items) /\ ErrorMark.type = "error"
      BY DEF ErrorMark, Responses
    <3>2. /\ Delivered' = Delivered /\ OfType("data")' = OfType("data")
          /\ OfType("END")' = OfType("END")
      BY <2>2, <3>1, SentTypes
    <3>3. \A n \in DOMAIN answer : answer'[n] = answer[n]
      BY <2>2, <3>1, Sent
    <3>4. QED
      BY <3>2, <3>3 DEF OfType
  <2>3. QED
    BY <2>1, <2>2 DEF Send
<1>2. QED
  BY <1>1 DEF EndInv

LEMMA EndSender ==
    ASSUME TaskDataOK(Items), SendRespDataOK, OnceInv, SenderInv, EndInv,
           streamUp \in BOOLEAN, Sender
    PROVE  EndInv'
<1>1. out \in Seq(Items) /\ answer \in Seq(Responses(Items)) /\ order \in Nat
  BY DEF TaskDataOK, SendRespDataOK
<1>2. CASE SendItem /\ streamUp
  <2> DEFINE x == Head(out)
             r == Data(x, order)
  <2>1. /\ out # <<>> /\ spc = "loop" /\ spc' = spc /\ answer' = Append(answer, r)
    BY <1>2 DEF SendItem, Send
  <2>2. x \in Items /\ x \notin Delivered
    <3>1. x \in Items /\ x \in Range(out)
      BY <1>1, <2>1, SequenceTail, QueueTail
    <3>2. QED
      BY <3>1 DEF OnceInv, OnTheWayOnce
  <2> HIDE DEF x
  <2>3. r \in Responses(Items) /\ r.type = "data" /\ r.item = x /\ r.order = order
    BY <1>1, <2>2, ResponseTypes DEF Data
  <2> HIDE DEF r
  <2>4. Delivered' = Delivered \cup {x}
    BY <1>1, <2>1, <2>3, SentTypes
  <2>5. Cardinality(OfType("data"))' = Cardinality(OfType("data")) + 1
    BY <1>1, <1>2, <2>1, <2>3, NumberedSent DEF SenderInv
  <2>6. IsFiniteSet(Delivered') /\ Cardinality(Delivered') = Cardinality(Delivered) + 1
    BY <2>2, <2>4, FS_AddElement DEF EndInv
  <2>7. QED
    BY <2>1, <2>5, <2>6 DEF EndInv
<1>3. CASE SendItem /\ ~streamUp
  <2>1. answer' = answer /\ spc = "loop" /\ spc' = spc
    BY <1>3 DEF SendItem, Send
  <2>2. Delivered' = Delivered /\ OfType("data")' = OfType("data")
    BY <2>1, DeliveredUnmoved
  <2>3. QED
    BY <2>1, <2>2 DEF EndInv
<1>4. CASE OutDrained \/ SenderCancelled \/ SignalFin
  <2>1. UNCHANGED <<streamUp, out, outClosed, answer>>
    BY <1>4 DEF OutDrained, SenderCancelled, SignalFin, taskVars
  <2>2. Delivered' = Delivered /\ \A t : OfType(t)' = OfType(t)
    BY <2>1, DeliveredUnmoved
  <2>3. QED
    BY <1>4, <2>1, <2>2 DEF OutDrained, SenderCancelled, SignalFin, EndInv
<1>5. CASE SendEnd
  <2> DEFINE r == EndMark(order)
  <2>1. /\ spc = "end" /\ spc' = "fin" /\ UNCHANGED <<streamUp, out, outClosed, contextDone>>
        /\ answer' = IF streamUp THEN Append(answer, r) ELSE answer
    BY <1>5 DEF SendEnd, Send
  <2>2. r \in Responses(Items) /\ r.type = "END" /\ r.order = order
    BY <1>1 DEF EndMark, Responses
  <2> HIDE DEF r
  <2>3. CASE ~streamUp
    <3>1. Delivered' = Delivered /\ OfType("data")' = OfType("data")
      BY <2>1, <2>3, DeliveredUnmoved
    <3>2. QED
      BY <2>1, <2>3, <3>1 DEF EndInv
  <2>4. CASE streamUp
    <3>1. OfType("data")' = OfType("data") /\ Delivered' = Delivered
      BY <1>1, <2>1, <2>2, <2>4, SentTypes
    <3>2. /\ Len(answer) + 1 \in OfType("END")'
          /\ answer'[Len(answer) + 1].order = order
      BY <1>1, <2>1, <2>2, <2>4, Sent
    <3>3. order = Cardinality(OfType("data"))
      BY <2>4 DEF SenderInv
    <3>4. QED
      BY <2>1, <3>1, <3>2, <3>3 DEF EndInv
  <2>5. QED
    BY <2>3, <2>4
<1>6. QED
  BY <1>2, <1>3, <1>4, <1>5 DEF Sender

-----------------------------------------------------------------------------
(* The heights of a batch, seen from the batch: none is missed.            *)

(* A fetcher that was answered has put the heights it asked for into the   *)
(* map, or still holds them.                                               *)
FetchedBy(r, held) ==
    /\ \/ r.pc \in {"limit", "http"} \/ r.report = "failed"
       \/ \A h \in 1..Top : r.lo <= h /\ h <= r.hi => h \in held \cup Range(r.metas)
    /\ r.pc \in {"end", "done"} /\ r.report # "failed" => r.metas = <<>>

(* A batch no longer than the node's limit is answered whole.              *)
LEMMA NodeMetasWhole ==
    ASSUME NEW lo \in Nat, NEW hi \in Nat, 1 <= hi, hi <= lo + BatchLimit - 1,
           NEW h \in 1..Top, lo <= h, h <= hi
    PROVE  h \in Range(NodeMetas(lo, hi))
<1> DEFINE a == FirstAnswered(lo, hi)
           b == LastAsked(hi)
           metas == NodeMetas(lo, hi)
           k == b - h + 1
<1>1. Top \in Nat /\ Top >= 1 /\ BatchLimit \in Nat
  BY ChainAssumption, BlocksFetchAssumption DEF ChainAssumption, BlocksFetchAssumption
<1>2. b \in Nat /\ b <= hi /\ h <= b
  BY <1>1 DEF LastAsked
<1>3. a \in Int /\ a <= h
  BY <1>1, <1>2 DEF FirstAnswered
<1>4. metas = [j \in 1..(b - a + 1) |-> b - j + 1]
  BY DEF NodeMetas
<1> HIDE DEF a, b, metas
<1>5. k \in 1..(b - a + 1) /\ b - k + 1 = h
  BY <1>2, <1>3
<1> HIDE DEF k
<1>6. k \in DOMAIN metas /\ metas[k] = h
  BY <1>4, <1>5
<1>7. QED
  BY <1>6 DEF Range, metas

LEMMA FetcherCovers ==
    ASSUME BlocksFetchDataOK, NEW f \in DOMAIN fetch, Fetcher(f), 1 <= fetch[f].hi,
           fetch[f].hi <= fetch[f].lo + BatchLimit - 1, FetchedBy(fetch[f], blocks)
    PROVE  FetchedBy(fetch'[f], blocks') /\ blocks \subseteq blocks'
<1> DEFINE old == fetch[f]
           Kept == FetchedBy(fetch'[f], blocks') /\ blocks \subseteq blocks'
<1>1. old \in FetchRecords /\ DOMAIN fetch = 1..Len(fetch)
  BY DEF BlocksFetchDataOK
<1>2. ASSUME NEW r, Becomes(f, r) PROVE fetch'[f] = r
  BY <1>1, <1>2 DEF Becomes
<1>3. CASE AskLimiter(f)
  <2> DEFINE r1 == [old EXCEPT !.pc = "http"]
             r2 == [old EXCEPT !.pc = "end", !.report = "failed"]
  <2>1. r1.pc = "http" /\ r2.report = "failed"
    BY <1>1 DEF FetchRecords
  <2>2. Becomes(f, r1) \/ Becomes(f, r2)
    BY <1>3 DEF AskLimiter
  <2>3. blocks' = blocks
    BY <1>3 DEF AskLimiter
  <2> HIDE DEF r1, r2
  <2>4. fetch'[f] \in {r1, r2}
    BY <1>2, <2>2
  <2>5. QED
    BY <2>1, <2>3, <2>4 DEF FetchedBy
<1>4. CASE GetMetas(f)
  <2> DEFINE r1 == [old EXCEPT !.pc = "lock", !.metas = NodeMetas(old.lo, old.hi)]
             r2 == [old EXCEPT !.pc = "end", !.report = "failed"]
  <2>1. /\ r1.pc = "lock" /\ r1.metas = NodeMetas(old.lo, old.hi)
        /\ r1.lo = old.lo /\ r1.hi = old.hi /\ r2.report = "failed"
    BY <1>1 DEF FetchRecords
  <2>2. Becomes(f, r1) \/ Becomes(f, r2)
    BY <1>4 DEF GetMetas
  <2>3. blocks' = blocks
    BY <1>4 DEF GetMetas
  <2> HIDE DEF r1, r2
  <2>4. fetch'[f] \in {r1, r2}
    BY <1>2, <2>2
  <2>5. old.lo \in Nat /\ old.hi \in Nat
    BY <1>1 DEF FetchRecords
  <2>6. \A h \in 1..Top : old.lo <= h /\ h <= old.hi => h \in Range(NodeMetas(old.lo, old.hi))
    BY <2>5, NodeMetasWhole
  <2>7. QED
    BY <2>1, <2>3, <2>4, <2>6 DEF FetchedBy
<1>5. CASE MergeBlock(f)
  <2> DEFINE r == [old EXCEPT !.metas = Tail(@)]
  <2>1. old.metas \in Seq(1..Top) /\ old.metas # <<>> /\ old.pc = "merge" /\ Becomes(f, r)
        /\ blocks' = blocks \cup {Head(old.metas)}
    BY <1>1, <1>5 DEF MergeBlock, FetchRecords
  <2>2. Range(old.metas) = {Head(old.metas)} \cup Range(Tail(old.metas))
    BY <2>1, QueueTail
  <2>3. /\ r.metas = Tail(old.metas) /\ r.lo = old.lo /\ r.hi = old.hi
        /\ r.pc = "merge" /\ r.report = old.report
    BY <1>1, <2>1 DEF FetchRecords
  <2> HIDE DEF r
  <2>4. fetch'[f] = r
    BY <1>2, <2>1
  <2>5. QED
    BY <2>1, <2>2, <2>3, <2>4 DEF FetchedBy
<1>6. CASE LockBlocks(f) \/ UnlockBlocks(f) \/ ReportBatch(f)
  <2>1. blocks' = blocks
    BY <1>6 DEF LockBlocks, UnlockBlocks, ReportBatch
  <2>2. PICK p \in {"merge", "end", "done"} :
          /\ Becomes(f, [old EXCEPT !.pc = p])
          /\ p = "end" => old.metas = <<>>
          /\ p = "done" => old.pc = "end"
          /\ old.pc \notin {"limit", "http"}
    BY <1>6 DEF LockBlocks, UnlockBlocks, ReportBatch
  <2> DEFINE r == [old EXCEPT !.pc = p]
  <2>3. /\ r.metas = old.metas /\ r.lo = old.lo /\ r.hi = old.hi
        /\ r.pc = p /\ r.report = old.report
    BY <1>1 DEF FetchRecords
  <2> HIDE DEF r
  <2>4. fetch'[f] = r
    BY <1>2, <2>2 DEF r
  <2>5. QED
    BY <2>1, <2>2, <2>3, <2>4 DEF FetchedBy
<1>7. QED
  BY <1>3, <1>4, <1>5, <1>6 DEF Fetcher

-----------------------------------------------------------------------------
(* The heights of a batch, seen from the map: none is merged twice.        *)

(* What a fetcher holds is new to the map, and so is all it may get.       *)
NewTo(held, r) ==
    /\ IsInjective(r.metas) /\ Range(r.metas) \cap held = {}
    /\ r.pc \in {"limit", "http"} => (r.lo .. r.hi) \cap held = {}

LEMMA NodeMetasDiffer ==
    ASSUME NEW lo \in Nat, NEW hi \in Nat
    PROVE  IsInjective(NodeMetas(lo, hi))
<1>1. Top \in Nat
  BY ChainAssumption DEF ChainAssumption
<1> DEFINE a == FirstAnswered(lo, hi)
           b == LastAsked(hi)
<1>2. b \in Nat
  BY <1>1 DEF LastAsked
<1>3. NodeMetas(lo, hi) = [k \in 1..(b - a + 1) |-> b - k + 1]
  BY DEF NodeMetas
<1> HIDE DEF a, b
<1>4. QED
  BY <1>2, <1>3 DEF IsInjective

(* A fetcher merges only what is new, and what it still holds stays new.   *)
LEMMA FetcherMerges ==
    ASSUME BlocksFetchDataOK, NEW f \in DOMAIN fetch, Fetcher(f), 1 <= fetch[f].hi,
           Range(fetch[f].metas) \subseteq fetch[f].lo .. fetch[f].hi, NewTo(blocks, fetch[f])
    PROVE  /\ NewTo(blocks', fetch'[f])
           /\ \/ UNCHANGED <<blocks, summary>>
              \/ \E h \in Range(fetch[f].metas) :
                    /\ h \in (1..Top) \ blocks
                    /\ blocks' = blocks \cup {h} /\ summary' = WithBlock(summary, h)
<1> DEFINE old == fetch[f]
<1>1. old \in FetchRecords /\ DOMAIN fetch = 1..Len(fetch)
  BY DEF BlocksFetchDataOK
<1>2. ASSUME NEW r, Becomes(f, r) PROVE fetch'[f] = r
  BY <1>1, <1>2 DEF Becomes
<1>3. CASE AskLimiter(f) \/ LockBlocks(f) \/ UnlockBlocks(f) \/ ReportBatch(f)
  <2>1. UNCHANGED <<blocks, summary>>
    BY <1>3 DEF AskLimiter, LockBlocks, UnlockBlocks, ReportBatch
  <2>2. ASSUME NEW p, NEW q, p = "http" => old.pc = "limit",
               p \in {"http", "merge", "end", "done"},
               fetch'[f] = [old EXCEPT !.pc = p, !.report = q]
        PROVE  NewTo(blocks', fetch'[f])
    <3>1. /\ fetch'[f].metas = old.metas /\ fetch'[f].lo = old.lo /\ fetch'[f].hi = old.hi
          /\ fetch'[f].pc = p
      BY <1>1, <2>2 DEF FetchRecords
    <3>2. QED
      BY <2>1, <2>2, <3>1 DEF NewTo
  <2>3. \A p : [old EXCEPT !.pc = p] = [old EXCEPT !.pc = p, !.report = old.report]
    BY <1>1 DEF FetchRecords
  <2>4. \/ old.pc = "limit" /\ Becomes(f, [old EXCEPT !.pc = "http"])
        \/ Becomes(f, [old EXCEPT !.pc = "end", !.report = "failed"])
        \/ \E p \in {"merge", "end", "done"} : Becomes(f, [old EXCEPT !.pc = p])
    BY <1>3 DEF AskLimiter, LockBlocks, UnlockBlocks, ReportBatch
  <2>5. QED
    BY <1>2, <2>1, <2>2, <2>3, <2>4
<1>4. CASE GetMetas(f)
  <2> DEFINE r1 == [old EXCEPT !.pc = "lock", !.metas = NodeMetas(old.lo, old.hi)]
             r2 == [old EXCEPT !.pc = "end", !.report = "failed"]
  <2>1. /\ r1.pc = "lock" /\ r1.metas = NodeMetas(old.lo, old.hi)
        /\ r2.pc = "end" /\ r2.metas = old.metas
    BY <1>1 DEF FetchRecords
  <2>2. /\ Becomes(f, r1) \/ Becomes(f, r2)
        /\ old.pc = "http" /\ UNCHANGED <<blocks, summary>>
    BY <1>4 DEF GetMetas
  <2> HIDE DEF r1, r2
  <2>3. fetch'[f] \in {r1, r2}
    BY <1>2, <2>2
  <2>4. old.lo \in Nat /\ old.hi \in Nat
    BY <1>1 DEF FetchRecords
  <2>5. /\ IsInjective(NodeMetas(old.lo, old.hi))
        /\ Range(NodeMetas(old.lo, old.hi)) \subseteq old.lo .. old.hi
    BY <2>4, NodeMetasDiffer, NodeMetasBounds
  <2>6. (old.lo .. old.hi) \cap blocks = {}
    BY <2>2 DEF NewTo
  <2>7. NewTo(blocks, r1) /\ NewTo(blocks, r2)
    BY <2>1, <2>5, <2>6 DEF NewTo
  <2>8. QED
    BY <2>2, <2>3, <2>7
<1>5. CASE MergeBlock(f)
  <2>3. Range(old.metas) \subseteq 1..Top
    <3>1. ASSUME NEW S, NEW s \in Seq(S) PROVE Range(s) \subseteq S
      BY DEF Range
    <3>2. old.metas \in Seq(1..Top)
      BY <1>1 DEF FetchRecords
    <3>3. QED
      BY <3>1, <3>2
  <2> DEFINE r == [old EXCEPT !.metas = Tail(@)]
             h == Head(old.metas)
  <2>1. /\ old.metas \in Seq(1..Top) /\ old.metas # <<>> /\ old.pc = "merge" /\ Becomes(f, r)
        /\ blocks' = blocks \cup {h} /\ summary' = WithBlock(summary, h)
    BY <1>1, <1>5 DEF MergeBlock, FetchRecords
  <2>2. /\ Range(old.metas) = {h} \cup Range(Tail(old.metas))
        /\ IsInjective(Tail(old.metas)) /\ h \notin Range(Tail(old.metas))
    BY <2>1, QueueTail DEF NewTo
  <2>4. r.metas = Tail(old.metas) /\ r.pc = "merge"
    BY <1>1, <2>1 DEF FetchRecords
  <2> HIDE DEF r
  <2>5. h \in Range(old.metas) /\ h \in (1..Top) \ blocks
    BY <2>1, <2>2, <2>3 DEF NewTo
  <2> HIDE DEF h
  <2>6. NewTo(blocks', r)
    BY <2>1, <2>2, <2>4 DEF NewTo
  <2>7. fetch'[f] = r
    BY <1>2, <2>1
  <2>8. QED
    BY <2>1, <2>5, <2>6, <2>7
<1>6. QED
  BY <1>3, <1>4, <1>5 DEF Fetcher
=============================================================================
