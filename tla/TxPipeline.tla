----------------------------- MODULE TxPipeline -----------------------------
(***************************************************************************)
(* The second half of getRangeSingular and of GetLatest (client/client.go):*)
(* the handler puts each block into out and the pages of its transactions  *)
(* into toGet; five SingularHeightWorkers fetch the pages and put the raw  *)
(* transactions into txIn; RawToTransactionCh converts them and puts them  *)
(* into out.  The wait groups tell the handler when to close what.         *)
(***************************************************************************)
EXTENDS Task, NodeBlocks

CONSTANTS Workers,    \* the SingularHeightWorker goroutines, 5
          PerPage,    \* page, 100
          ToGetCap,   \* capacity of toGet, 10
          TxInCap     \* capacity of txIn, 20

ASSUME TxPipelineAssumption ==
    /\ Workers # {}
    /\ PerPage \in Nat \ {0}
    /\ ToGetCap \in Nat \ {0}
    /\ TxInCap \in Nat \ {0}

VARIABLES todo,         \* heights the loop over the blocks has still to visit
          cur,          \* <<height, next page>> the loop stands at
          toGet,        \* <<height, page>> waiting for a worker
          toGetClosed,
          worker,       \* the workers: position, page at hand, its transactions
          txIn,         \* transactions waiting for conversion
          txInClosed,
          conv,         \* RawToTransactionCh: position, transaction at hand
          lost          \* history: pages whose search failed

pipeVars == <<todo, cur, toGet, toGetClosed, worker, txIn, txInClosed, conv, lost>>

(* Before they are started the goroutines count as finished: the wait      *)
(* groups stand at zero.                                                   *)
TxPipelineInit ==
    /\ todo = {}
    /\ cur = <<0, 0>>
    /\ toGet = <<>>
    /\ toGetClosed = FALSE
    /\ worker = [w \in Workers |-> [pc |-> "done", job |-> <<0, 0>>, txs |-> <<>>]]
    /\ txIn = <<>>
    /\ txInClosed = FALSE
    /\ conv = [pc |-> "done", tx |-> NoItem]
    /\ lost = {}

HttpWaitGroupZero == \A w \in Workers : worker[w].pc = "done"
ConvertWaitGroupZero == conv.pc = "done"

\* Seeded fault: the quotient is rounded down.
WholePagesOf(h) == NumTxs[h] \div PerPage

(* int(math.Ceil(float64(NumberOfTransactions) / float64(page)))           *)
PagesOf(h) == (NumTxs[h] + PerPage - 1) \div PerPage

(* The node's /tx_search answer to tx.height=h, page p.                    *)
PageTxs(h, p) ==
    LET first == (p - 1) * PerPage
        rest  == NumTxs[h] - first
    IN  [k \in 1..(IF rest < PerPage THEN rest ELSE PerPage) |-> <<h, first + k>>]

-----------------------------------------------------------------------------
(* The handler's goroutine.                                                *)

Launch(hs) ==
    /\ pc = "launch"
    /\ pc' = "range"
    /\ todo' = hs
    /\ cur' = <<0, 0>>
    /\ toGet' = <<>> /\ toGetClosed' = FALSE
    /\ txIn' = <<>> /\ txInClosed' = FALSE
    /\ worker' = [w \in Workers |-> [pc |-> "idle", job |-> <<0, 0>>, txs |-> <<>>]]
    /\ conv' = [pc |-> "idle", tx |-> NoItem]
    /\ UNCHANGED <<ctxDone, streamUp, out, outClosed, answer, lost>>

(* for h, block := range blocksAll.Blocks: Go visits a map in any order.   *)
SendBlock(h) ==
    /\ pc = "range" /\ h \in todo
    /\ OutHasRoom
    /\ out' = Append(out, <<h, 0>>)
    /\ todo' = todo \ {h}
    /\ cur' = <<h, 1>>
    /\ pc' = IF PagesOf(h) > 0 THEN "pages" ELSE "range"
    /\ UNCHANGED <<ctxDone, streamUp, outClosed, answer>>
    /\ UNCHANGED <<toGet, toGetClosed, worker, txIn, txInClosed, conv, lost>>

\* Seeded fault: one page more than the buffer holds.
QueuePageOverfull ==
    /\ pc = "pages" /\ Len(toGet) <= ToGetCap
    /\ toGet' = Append(toGet, cur)
    /\ cur' = <<cur[1], cur[2] + 1>>
    /\ pc' = IF cur[2] < PagesOf(cur[1]) THEN "pages" ELSE "range"
    /\ UNCHANGED <<ctxDone, streamUp, out, outClosed, answer>>
    /\ UNCHANGED <<todo, toGetClosed, worker, txIn, txInClosed, conv, lost>>

QueuePage ==
    /\ pc = "pages" /\ Len(toGet) < ToGetCap
    /\ toGet' = Append(toGet, cur)
    /\ cur' = <<cur[1], cur[2] + 1>>
    /\ pc' = IF cur[2] < PagesOf(cur[1]) THEN "pages" ELSE "range"
    /\ UNCHANGED <<ctxDone, streamUp, out, outClosed, answer>>
    /\ UNCHANGED <<todo, toGetClosed, worker, txIn, txInClosed, conv, lost>>

\* Seeded fault: close(toGet) is forgotten.
LeaveToGetOpen ==
    /\ pc = "range" /\ todo = {}
    /\ pc' = "waitHttp"
    /\ UNCHANGED <<ctxDone, streamUp, out, outClosed, answer, pipeVars>>

CloseToGet ==
    /\ pc = "range" /\ todo = {}
    /\ toGetClosed' = TRUE
    /\ pc' = "waitHttp"
    /\ UNCHANGED <<ctxDone, streamUp, out, outClosed, answer>>
    /\ UNCHANGED <<todo, cur, toGet, worker, txIn, txInClosed, conv, lost>>

CloseTxIn ==
    /\ pc = "waitHttp" /\ HttpWaitGroupZero
    /\ txInClosed' = TRUE
    /\ pc' = "waitConv"
    /\ UNCHANGED <<ctxDone, streamUp, out, outClosed, answer>>
    /\ UNCHANGED <<todo, cur, toGet, toGetClosed, worker, txIn, conv, lost>>

Converted == pc = "waitConv" /\ ConvertWaitGroupZero

PipelineMain ==
    \/ \E h \in todo : SendBlock(h)
    \/ QueuePage \/ CloseToGet \/ CloseTxIn

-----------------------------------------------------------------------------
(* SingularHeightWorker and SearchTxSingularHeight.                        *)

At(w, r) == worker' = [worker EXCEPT ![w] = r]

TakePage(w) ==
    /\ worker[w].pc = "idle" /\ toGet # <<>>
    /\ toGet' = Tail(toGet)
    /\ At(w, [pc |-> "limit", job |-> Head(toGet), txs |-> <<>>])
    /\ UNCHANGED <<txIn, lost>>

WorkerDone(w) ==
    /\ worker[w].pc = "idle" /\ toGet = <<>> /\ toGetClosed
    /\ At(w, [worker[w] EXCEPT !.pc = "done"])
    /\ UNCHANGED <<toGet, txIn, lost>>

(* A search that fails is logged; the worker goes on with no transactions. *)
SearchFails(w) ==
    /\ At(w, [worker[w] EXCEPT !.pc = "emit", !.txs = <<>>])
    /\ lost' = lost \cup {worker[w].job}

AskSearchLimiter(w) ==
    /\ worker[w].pc = "limit"
    /\ \/ ~ctxDone /\ At(w, [worker[w] EXCEPT !.pc = "http"]) /\ UNCHANGED lost
       \/ (ctxDone \/ "expire" \in Faults) /\ SearchFails(w)
    /\ UNCHANGED <<toGet, txIn>>

Search(w) ==
    /\ worker[w].pc = "http"
    /\ \/ /\ At(w, [worker[w] EXCEPT !.pc = "emit",
                    !.txs = PageTxs(worker[w].job[1], worker[w].job[2])])
          /\ UNCHANGED lost
       \/ "search" \in Faults /\ SearchFails(w)
    /\ UNCHANGED <<toGet, txIn>>

PutTx(w) ==
    /\ worker[w].pc = "emit" /\ worker[w].txs # <<>>
    /\ Len(txIn) < TxInCap
    /\ txIn' = Append(txIn, Head(worker[w].txs))
    /\ At(w, [worker[w] EXCEPT !.txs = Tail(@)])
    /\ UNCHANGED <<toGet, lost>>

PageDone(w) ==
    /\ worker[w].pc = "emit" /\ worker[w].txs = <<>>
    /\ At(w, [worker[w] EXCEPT !.pc = "idle"])
    /\ UNCHANGED <<toGet, txIn, lost>>

Worker(w) ==
    /\ \/ TakePage(w) \/ WorkerDone(w) \/ AskSearchLimiter(w) \/ Search(w)
       \/ PutTx(w) \/ PageDone(w)
    /\ UNCHANGED <<taskVars, todo, cur, toGetClosed, txInClosed, conv>>

-----------------------------------------------------------------------------
(* RawToTransactionCh.                                                     *)

TakeTx ==
    /\ conv.pc = "idle" /\ txIn # <<>>
    /\ txIn' = Tail(txIn)
    /\ conv' = [pc |-> "emit", tx |-> Head(txIn)]
    /\ UNCHANGED out

PutTransaction ==
    /\ conv.pc = "emit" /\ OutHasRoom
    /\ out' = Append(out, conv.tx)
    /\ conv' = [pc |-> "idle", tx |-> NoItem]
    /\ UNCHANGED txIn

ConverterDone ==
    /\ conv.pc = "idle" /\ txIn = <<>> /\ txInClosed
    /\ conv' = [conv EXCEPT !.pc = "done"]
    /\ UNCHANGED <<out, txIn>>

Converter ==
    /\ TakeTx \/ PutTransaction \/ ConverterDone
    /\ UNCHANGED <<pc, ctxDone, streamUp, outClosed, answer>>
    /\ UNCHANGED <<todo, cur, toGet, toGetClosed, worker, txInClosed, lost>>

-----------------------------------------------------------------------------

(* The items the pages in set P stand for.                                 *)
TxsOf(P) == UNION {{PageTxs(p[1], p[2])[k] : k \in DOMAIN PageTxs(p[1], p[2])} : p \in P}

PageIds == (1..Top) \X (Nat \ {0})
Jobs == (0..Top) \X Nat
WorkerRecords == [pc : {"idle", "limit", "http", "emit", "done"}, job : Jobs, txs : Seq(Items)]

TxPipelineDataOK ==
    /\ todo \subseteq 1..Top
    /\ cur \in Jobs
    /\ toGet \in Seq(PageIds) /\ Len(toGet) <= ToGetCap
    /\ worker \in [Workers -> WorkerRecords]
    /\ txIn \in Seq(Items) /\ Len(txIn) <= TxInCap
    /\ conv \in [pc : {"idle", "emit", "done"}, tx : Items \cup {NoItem}]
    /\ lost \subseteq Jobs

TxPipelineTypeOK == {toGetClosed, txInClosed} \subseteq BOOLEAN /\ TxPipelineDataOK
=============================================================================
