# A verification of terra-worker

terra-worker connects indexer managers with Terra nodes.  A manager opens a
stream to the worker and sends it tasks: blocks and transactions of a range of
heights, the latest ones, or the rewards, balance or delegations of an account.
The worker asks the node over HTTP, converts what it gets and answers on the
same stream with numbered responses, the last of which is final.

This directory holds TLA+ models of three things: how a task is worked on (the
goroutines it starts, the channels between them, the requests that fail, the
context that ends, the stream that goes away), what a raw transaction is turned
into, and the process around both (streams, listeners, servers, signals).  TLC
checks them on small instances; TLAPS proves for every instance all the
invariants the passing runs check, and that the two block tasks and the process
implement their abstract specifications.

## The system

| part | state | operations | in the code |
|---|---|---|---|
| streams and listeners | registry of streams under a mutex; 20 listeners per stream | `RegisterStream`, `CloseStream`, `Run` | `client/client.go:79-143` |
| GetTransactions task | page counter, `out`, `fin`, cancelable context | `GetTransactions`, `getRangeSingular` | `client/client.go:145-217, 538-623` |
| GetLatest task | starting height, batch bounds, `out` | `GetLatest`, `getStartingHeight` | `client/client.go:281-413, 625-643` |
| `sendResp` | order number, "context was done" | loop, END, `fin` | `client/client.go:219-279` |
| block metadata | `BlocksMap` (map and summary) under a mutex, `batchesCtrl` | `GetBlocksMeta` and two decoders | `api/block.go` |
| transaction pages | `toGet`, `txIn`, two wait groups | `SingularHeightWorker`, `SearchTxSingularHeight`, `RawToTransactionCh` | `api/transaction.go:166-189, 479-572` |
| account tasks | none of their own | three handlers and LCD calls with retries | `client/client.go:415-536`, `api/reward.go`, `api/account_balance.go`, `api/delegations.go` |
| transaction conversion | one JSON decoder per converter | `RawToTransactionCh`, `rawToTransaction`, `appendEvents`, `findLog`, `getSubEvent`, mappers | `api/transaction.go`, `api/mapper/` |
| converter plugin | none | `DecodeEvents`, `DecodeFee` | `cmd/converter-plugin/main.go`, `api/transaction.go` |
| process | context, two servers, signals | `main` | `cmd/terra-worker/main.go` |

How they interact.  `Run` calls one handler at a time under a context of five
minutes.  A block handler starts `sendResp`, then one `GetBlocksMeta` per batch
of 20 heights; these fill a shared map and report on `batchesCtrl`.  When all
have reported, the handler walks over the map: it puts each block into `out` and
the pages of its transactions into `toGet`; five workers turn pages into raw
transactions on `txIn`; one converter turns those into transactions on `out`;
`sendResp` takes everything from `out` and sends it.  The handler closes
`toGet`, waits for the workers, closes `txIn`, waits for the converter, and
closes `out`.  An account handler makes one call to the LCD node, with up to
three requests, and runs `sendResp` itself.  The gRPC server registers each
manager's stream with the client, which starts twenty listeners for it; main
waits for a signal or for the end of either server and stops the rest.

What is hard.  Several goroutines fill one map and one channel; channels are
closed while others may send; one of several requests fails; the context ends
at any step and the goroutines notice it in different places or not at all; the
stream fails; unsigned heights wrap around.  A handler that hangs keeps its
listener, and a panic in any goroutine ends all streams.  A transaction's events
come from two loops, over its messages and over its log, which may disagree, be
cut or not decode.  PROJECT.json lists each such hazard
at its line.

## The modules

    NodeBlocks      the node's chain: heights, transactions, the items of an answer
    Task            what handlers share: position, context, stream, out, answer
    SendResp        sendResp                       EXTENDS Task
    BlocksFetch     GetBlocksMeta, batchesCtrl     EXTENDS Task, NodeBlocks
    TxPipeline      workers, converter, channels   EXTENDS Task, NodeBlocks
    GetTransactions the range task                 EXTENDS the three above
    GetLatest       the latest task                EXTENDS the three above
    RangeAnswer     what an answer promises (abstract)
    AccountTask     the three account tasks        EXTENDS SendResp, Conversions
    Conversions     numbers read from text
    TxLog           logs, entries, attributes as they are decoded
    Mappers         getSubEvent and the mappers    EXTENDS Conversions, TxLog
    TxEvents        RawToTransactionCh, appendEvents   EXTENDS Mappers
    TaskService     what a worker promises its managers (abstract)
    StreamRun       streams, listeners, dispatch   INSTANCE TaskService
    Worker          main, its servers, signals     EXTENDS StreamRun
    BlockTaskProofs                    lemmas both block tasks share
    InductionRules, ConversionProofs   lemmas on loops, powers and numbers
    GetTransactionsProofs, GetLatestProofs, AccountTaskProofs, TxEventsProofs,
    WorkerProofs                                                 the theorems
    MCGetTransactions, MCGetLatest, MCAccountTask, MCTxEvents, MCWorker
                    instances for TLC

**Task.**  `pc` is the position of the handler's goroutine, `ctxDone` its
context (the handler's own `cancel` sets it too), `streamUp` whether the
manager's stream still takes responses, `out` and `outClosed` the channel,
`answer` what the manager received, in order.  Every other goroutine has a
position variable of its own.  A Go channel is a sequence with a capacity and a
closed flag; a send waits for room, a receive for an item or the close.
`Expire` and `Disconnect` are the surroundings; the constant `Faults` says which
faults may happen in an instance: `expire`, `disconnect`, `fetch` (a block
request fails), `search` (a page request fails).

**SendResp.**  One action for each branch of the `select`, then END, then `fin`.
A done context and a waiting item may both be ready: the choice is free.

**BlocksFetch.**  `fetch` is the sequence of goroutines started for the current
page, each a record of its position, bounds, blocks still to merge and outcome.
Merging is one action per block, between taking and leaving the mutex, because
`GetLatest` reads `StartHeight` without it.  `NodeMetas` is the `/blockchain`
answer: at most 20 heights, the highest ones, none below 1 or past the tip; a
zero bound is not sent; an empty interval is refused with an error.

**TxPipeline.**  The handler's loop (`SendBlock`, `QueuePage`, `CloseToGet`,
`CloseTxIn`), the workers and the converter.  `todo` is a set because Go visits a
map in any order.  `lost` is a history variable: pages whose search failed.

**GetTransactions.**  The page loop around the two; `Requests` are the payloads.
`ZeroEndHeight` is the panic of line 164.  `BeginPage` gives each page a fresh map
and control channel, as `getRangeSingular` does.

**GetLatest.**  `AskNewest` runs `GetBlocksMeta` in the handler; it is entry 1 of
`fetch`.  `Clamp`, `Cut` and `MoreBatches` are the three unlocked reads of
`StartHeight` per turn, each an action of its own, so that merges fall between
them.  `StartingHeight` is computed modulo `Word`, as uint64 is.  A payload that does
not unmarshal is told with a final error and the handler goes on with an empty request, so
that END or a second error follows; `OneFinal` says that nothing else comes besides the one
final response.

**AccountTask.**  The three LCD calls have the same loop; `Outcomes` are the ways a
request ends.  The 20-second context only reaches the limiter.  `Converts` and
`Converted` are how each call reads the numbers of a body: as SDK integers, as SDK
decimals, or with `gettIntAndExp`.  `Copied` is what `GetReward` copies of a body: nothing
when the node lists nothing under total (`hasTotal`).

**Conversions.**  A number's text is its integer, its fraction and how many digits
that has (or "several points", or no number): what `gettIntAndExp` and `getCoin`
distinguish.  `Denotes` says that a numeric and an exponent stand for the text.
`TenTo` is `Exp` of ten, as a recursive function, so that the proofs can reach it.

**TxLog.**  `Attributes` is the loop of `TxEventsAttributes.UnmarshalJSON`, as a fold of
`AddAttribute`; `held` is the one `kvHolder`, which keeps the value before.  `Decode` is the JSON decoder: it stops in
the entry that fails and keeps what it has; a syntax error stays with it.

**Mappers.**  A record for each route and type: the event's type and module, the kind
of transfers, the recipient that is skipped.  The fields a mapper copies are left
out.  `ProduceTransfers` is the loop over the events of an entry, `AddTransfers` the one
over the recipients of an event, `AddTransfer` its pass, with the length test of the
code and the index that is one past it (`panic`).  `AmountTexts` gives an amount's
numbers, split at the commas.  `MapperPanics` is the nil amount of a payment to the
community pool, and a proposal, evidence or authorization whose value is missing
(`CallsUnset`).  Messages nest once, where `getSubEvent` recurses (`transaction.go:421`):
deeper ones are converted in the same way, with the same log entry.

**TxEvents.**  One action per pass of the two loops of `appendEvents`; `present` is
`presentIndexes`.  `TakeRaw` decodes a transaction and its log with the decoder that
is left from the ones before; `caller` tells the worker's goroutine from the plugin.
`outs` is the transaction just given.  A panic is a state of its own: nothing
recovers.

**StreamRun.**  `streams` is the registry, `queue` the `RequestListener` of each stream,
`at` and `task` a listener's place and request.  A handler is reduced to what the task
modules show of it: a GetLatest may tell of its payload and go on (`TellPayload`), it
refuses (`Refuse`), starts `sendResp` (`StartSending`), returns
(`Succeed`), never returns (`Hang`, what `range_stuck` finds) or panics (`Panic`, what
`range_zero_end` and `events_pool` find).  For the block tasks `sendResp` is a goroutine that may outlive
its handler (`End`), for account tasks a call.  `CloseStream` is the server's call,
`SeeContext` the listener's; `SeeFinish` removes nothing, as in the code.

**TaskService.**  A request gets at most one END and one error, on the stream it came by; a
GetLatest request may get the error of its payload before, once.
`StreamRun!AnswersToSender` is the refinement; both share `asked` and `answers`.

**Worker.**  `main` is where main stands, `exit` the buffered channel.  Every stream
step may happen at any of its places, but a stream is registered only while the gRPC
server serves.  A signal before `signal.Notify` ends the process at once.

**RangeAnswer.**  Both block tasks implement it.  Its state is the answer itself, the
sequence of responses, so that a second END, an item sent twice or an item after END is a
step it does not have: data are wanted items, each once, a transaction after its block,
numbered; one END; one error, before or after END, as a range that fails gives both.
`goesOn` is that of a GetLatest with a bad payload, whose first response is an error more.
It never promises that END follows all items, because after an expiry it does not.
`CompleteAnswer` states what is promised when nothing of the kind happened.

## The runs

| run | asks | instance |
|---|---|---|
| `range_safety` | is an answer that ends normally complete, numbered and free of strangers; is a failure told; are channels closed in order; does it implement `RangeAnswer` | 7 payloads, chain of 4, pages of 3, batches of 2, failing requests |
| `range_expiry` | the same with a context that ends anywhere; does every goroutine end and a final response come | 4 payloads, chain of 3, pages of 2; `out` has room for all items |
| `latest_all` | GetLatest under races, expiry and disconnection: is there one final response; does everything end, or is left before a full `out` | chain of 5, newest batch 4..5, up to two batches to add; `out` of 2 |
| `account` | one final response, data only from the last request, retries bounded, the numbers the node wrote | three requests, all outcomes, bodies of up to two numbers of eight forms, expiry, disconnection |
| `events` | which events a transaction gets, with which transfers and errors, whatever its log; when the conversion panics | three raw transactions in any order, out of some three hundred |
| `worker` | who handles and answers a request, with which final responses; what a handler that hangs or panics costs; is every request answered; what is left of a stream that is over; do the servers end together | streams of two and one listeners, a GetTransactions and a GetLatest, every fault |
| `range_lost` | is nothing lost without an error (no) | one range, failing searches |
| `range_zero_end` | is EndHeight 0 answered (no: the process ends) | one payload |
| `range_stuck` | does the handler return once its context is done (no) | `out` of 2 |
| `latest_filter` | are only blocks before the range skipped (no) | two batches |
| `latest_gap` | are all batches started (no) | two batches |
| `events_pool` | do transactions of the listed types convert (no: the process ends) | as `events` |

The first six pass.  The other six each check one statement of a comment or
message of the code, and TLC shows a behaviour of the code that breaks it:

- `NothingLost`: a failed `/tx_search` is logged and the answer ends as if complete.
- `ZeroEndAnswered`: `err.Error()` on a nil `err`; the panic is not recovered.
- `HandlerReturns`: `sendResp` has left, `out` is full, the handler blocks for good
  and the listener with it.
- `OnlyEarlierSkipped`: the comparison at line 384 skips all blocks but the lowest.
- `NoGap`: a batch lowers `StartHeight` under the loop, which takes its own last batch
  for the last one.
- `ListedTypesSupported`: `fundCommunityPool`'s mapper calls `Set` on a nil `*big.Int`.

**Bounds.**  The chain has blocks with no, one and several transactions, and a
block of a full and a short page (`PerPage` 2 for 100).  `BatchLimit` 2 stands for
20, `BigPage` 2 or 3 for 1000: a page has one or two batches, a request one or two
pages, with a cut at each end.  Two workers for five and channels of capacity 1
let every send block.  `out` has room for 2 in `latest_all` and `range_stuck`, less than an
answer has, so that its senders can be left behind: the code's room is 201 for a range
and 100 for `GetLatest` (`client/client.go:173, 364`), which an answer may exceed too.  `GetLatest`
hangs as a range does, on a block with more transactions than that: `EndsWithFinal` names that
place (`LeftBeforeFullOut`) and lets no goroutine be left in another.  `Word` is 256 for 2^64; heights are below it.  `OutCap` and
`MaxRetries` of the account tasks are the code's 1 and 3; `Precision` is 3 for the SDK's 18
digits, so that a text may have more digits than it.  `MaxRaws` 3 lets a
transaction meet the decoder of an undecodable one, and the next one too; the raw
transactions vary an ordinary one in its messages (known, unknown, nested,
undecodable, paying the pool, lacking a value) and its log (absent, text, not a list, entries missing,
swapped, failed or with text, events with several, no, zero or too few amounts).
Two listeners of one stream stand for twenty: either can take a request while the
other hangs.  The stream without requests shows that they are kept apart.  An account
request does nothing that a GetTransactions does not.
Model-value symmetry is not used: liveness is checked.

**Fairness.**  Weak fairness of each goroutine: the Go scheduler runs one that can
run, a ready channel operation eventually happens, an HTTP request ends by the
client's timeout of 40 seconds.  The fetchers, and the workers, are taken
together: each of their steps brings the group nearer to its end, so that fairness of the
group suffices.  No fairness is assumed of expiry, disconnection or failures.  In StreamRun and Worker
each listener is fair (`Run`), `sendResp` ends (`End`: its context lives five minutes; `GetsFinal`
of the task modules), the server calls `CloseStream` when a stream is over, and main runs; hanging,
panicking, signals and the end of a server are free to happen or not.

**Deadlock.**  It is checked in the passing run without expiry; `Terminated` is the
stuttering step of a finished task.  In runs with expiry it is off: a handler whose context is gone may
really be blocked on `out` (that is `range_stuck`), and `NoGoroutineLeft`, `GetsFinal`
and `EndsWithFinal` say more than its absence.  It is off in `events` and `worker`, where the last
transaction is converted, or the process is over, and nothing is left to do.

## What is proved

Every theorem is for all values of the constants, under the named assumptions of
the modules; three have a hypothesis besides, named below.  A proof module states
an inductive invariant, has one lemma per group of actions that each part of it is
kept, and draws the theorems from it.  PROJECT.json lists the theorems with the
properties they state.

### The block tasks

Both handlers run the same three parts, so most of the argument is made once.
**BlockTaskProofs** says what a step of `sendResp`, of a fetcher and of the pipeline does
to types, channels and the count of reports, and what it does to the answer.
**GetTransactionsProofs** and **GetLatestProofs** add what each handler does between them.

*Types and channels* (`TypeCorrect`, `ChannelsAreSafe`, for both).  Neither is inductive
by itself.  `IInv` adds

- `PagesInv`: the page at a worker's hand is a page of a block of the chain, which is
  why what it puts into `txIn` are items; the transaction at the converter's hand is an item;
- `FetchersInv`: reports read plus reports waiting equal the number of finished
  `GetBlocksMeta` goroutines.  When the handler has read as many reports as it
  started goroutines, all of them are finished, so closing `batchesCtrl` is safe.
  In `GetLatest` the newest batch is entry 1, whose report is read alone.

*Numbers* (`ResponsesAreNumbered`).  `SenderInv`: as long as the stream takes what is
sent, the next number is that of the data sent; no END before `fin`.

*Errors* (`FailuresAreTold`).  `FailuresKnown`: a batch that failed and reported is counted
by the handler or its report waits in `ctrl`.  `FailureInv` follows the handler from there: past the
collecting loop none failed, at "failed" one did.  In `GetLatest` a bad payload is told
first, and the handler goes on.

*The refinement of `RangeAnswer`* (`TaskImplementsRangeAnswer`).  `OnceInv`: an item is in one
place on its way (`toGet`, a worker, `txIn`, the converter, `out`, the answer), and what
the handler has still to visit is new to all of them.  `BlockFirst`: whatever has a
transaction on its way has its block nearer to the manager.  For ranges, `PageInv` and
`RangeOnceInv`: the batches of a page ask for heights of that page only, and nothing of a
later page is on its way.  For the finals, END is sent by `sendResp` before `fin` only, and the
handler's error at "failed" only, which it leaves; in `GetLatest` `sendResp` has not
started then, and what is told before is the payload's error.  Every step then appends a wanted item that was not sent, a first END or an
error that is allowed, or leaves the answer as it is.

*One final response* (`FinalIsLast`, for `GetLatest`).  Before `sendResp` starts the answer
holds at most the payload's error; the node's error ends the task without a
`sendResp`; so END and that error exclude each other.

*Completeness* (`AnswersAreComplete`).  `LeftInv`: a transaction of a block that was sent was
found, or is on a page still to queue, waited for, or lost.  `DrainInv`: a goroutine of the
pipeline is done only when its channel is closed and empty.  `EndInv`: what END carries.  For
ranges `CoverInv` says that the batches started cover the page up to the next one and that
each height of a batch is merged, held, still to ask for, or its batch failed, and
`WantedInv` that each height of the range is still to come, to visit, or on its way.  For `GetLatest`
`HeightsInv` says that from the start of the pipeline on the chosen heights no longer change.

*The summary* (`SummariesCount`).  `MergeInv`: the batches of a page do not overlap, so
each block merged under the mutex is new to the map.  The number of transactions is a sum over a
set that the community modules take in an order of their own; that it grows by a new
block's transactions needs that the order does not matter, which follows from a
smallest set for which it would (strict subset is well-founded on finite sets).
In `GetLatest` batches may overlap, and the sum is not stated.

The theorems about the range's answer and summary, but for numbers and errors, suppose
`EndsAreSent`: a range that starts at 0 is not cut into batches or pages of a
single height.  Else a batch ends at height 0, which `block.go` does not send, and the node
answers with the newest blocks.  The code's 20 and 1000 satisfy it; the environment may set `BIG_PAGE` to 1.

### AccountTaskProofs

For any number of retries, any bodies and any faults: `ExactlyOneFinal`
(`OneFinal`), `OnlyTransientRepeated` (`RetriesOnlyTransient`), `AnswersTellLastTry`
(`AnswerMatchesLastTry`), `TypeCorrect` and `AmountsAreExact` (`AmountsExact`).

`IInv` adds where each outcome of the last request leads (`CallInv`: `pc = "decode"`
only after a request, `pc = "send"` only after a good one) and what the answer holds by the places of
the handler and of `sendResp` (`AnswerInv`: no response before `refuse` or `send`; data still
missing in `send` is in `out`, or the context was seen done).  `NumbersInv` adds that data
is delivered only with all numbers of the body converted, or none without a total; `ConversionIsExact` that each
conversion denotes what it reads.  That the SDK decimals do, which are padded with
zeros to their precision, needs that powers of ten multiply by adding exponents:
**ConversionProofs** shows it of `TenTo` by induction.

### InductionRules

The models write the code's loops as folds of the community modules, and `TenTo` as a
recursive function.  The library's induction theorems take an operator as a parameter,
which no installed prover can instantiate; here the operators are constants of a
module, `Pass` (a pass of the loop) and `Inv` (what holds after i passes), and a proof makes an
instance of it for each loop.  Everything rests on `LeastOfNats`, a set of numbers has a least
one, from the library's fact that `<` is well-founded: hence `Induction` and `RecursionExists`
(a function defined by recursion exists), and `LoopRule`: what holds before the first pass and is kept by
each holds at the end.  `Loop` is the fold's own definition, so that one lemma per loop
(`AttributesByLoop`, `RecipientsByLoop`, ...) connects the two.

### TxEventsProofs

For any raw transactions, in any number and order: `EventsAreOnePerIndex`
(`OneEventPerIndex`), `ErrorsAreOwn` (`ErrorEventIffUndecodable`), `NestedArePrefix`
(`NestedPrefix`), `FailuresAreToldOn` (`FailureTold`), `TransfersAreOfOwnEntry`
(`TransfersOfOwnEntry`) and `OrdinaryDoesNotPanic` (`OrdinaryNeverPanics`).

- `LogInv`: between transactions the decoder is new, so `lf` is what this
  transaction's log decodes to, up to the entry that fails;
- `MadeInv`: `present` is the set of messages with an event, and an event of a message is
  that message's, with nested events of a prefix of its messages;
- `ToldInv`: the entries passed whose index is not present have their event, and no
  event from the log is of another entry;
- `ErrorInv`, `DistinctInv`: the error event comes last and only of a failure; indexes are
  distinct as long as the log's are;
- `SubInv`: an event from the log is what `EventFromLogs` and `WithError` make of its entry;
  that no sub event carries an error before `WithError` is kept by the loop over the
  entry's events (`Silent`);
- `KnownInv`, `SentInv`: `AmountTexts` has the amounts of the log at hand, and the event of
  a message has the transfers of its entry.

*Transfers.*  What a transfer is of is stated over the attributes as the node wrote them:
`Places` are the recipients that are not skipped, by their event and attribute; the n-th
transfer is the n-th place's, with the first amount after it.  The code pairs two lists
by index instead.  The argument goes by counting:

- `Count(T, n)`: how many places of T are up to n.  It grows by one at each place of T
  and takes each value from 1 to the size of T there (`CountNext`, `CountHits`).
- `AttributesAreRead`: the k-th value of a list is that of the attribute at which the count of
  its key is k, for all lists, whatever lies between (a loop over the attributes).
- `AmountOfRecipient`: in a well-formed event the amount with the number of a
  recipient is the first amount after it.
- `OneRecipient`, `OneEvent`: `SoFar`, the transfers up to a place are those of the places
  before it, in order, or there was an error; kept by a pass of each loop.
- `ProducedAsWritten`: hence `produceTransfers` does not panic on a well-formed entry and,
  without an error, gives its transfers.
- `FoundEntry`: `findLog` gives an entry that was read and has the message's index, or none;
  and one if there is such an entry and more were read than the message's place.

`NestedArePrefix` rests on the same: a nested message of a known type fails only when
`produceTransfers` does, in the entry found.  `OrdinaryDoesNotPanic` follows: a panic of the conversion
comes from `produceTransfers` or from a mapper (`MapperPanics`), also of a nested message
(`MessagePanics`).

### WorkerProofs

For any streams, listeners, requests, hanging and panicking handlers:

- `RequestsHeldOnce` (`HeldOnce`): a request is in one place;
- `WorkerImplementsTaskService` (`AnswersToSender`): every step of the process is a
  step of `TaskService` or changes nothing that `TaskService` sees.

That a request is answered at most once with each kind rests on more than
`HeldOnce`: of what waits in a queue nothing is told (`QueuesInv`), nor of the request of a
listener at "work"; one at "told" has told of its payload only and has no `sendResp`,
one at "sending" has sent no error that ends the task (`ListenersInv`), and a request in `sending` has no END yet (`SaidInv`).

### Only model-checked

Liveness under fairness (`NoGoroutineLeft`, `GetsFinal`, `EndsWithFinal`,
`EveryTaskAnswered`, `CleanedUp`, `ServersEndTogether`), which is out of the prover's reach.
The six statements that do not hold are TLC's, too.

## Observations without a run

What the source does and no document of the repository contradicts, or what a model
shows in passing:

- `client/client.go:411`: `GetLatest` returns, and cancels, before `sendResp` has drained `out`:
  END may follow a cut answer.  `client/client.go:629`: on a chain shorter than the
  heights to get, the difference wraps around and only the newest batch is fetched.
- `client/client.go:230`: with items in `out` and the context done, END may follow a cut answer
  of either task, and looks like that of a whole one.
- `client/client.go:289`: `GetLatest` goes on from a payload that does not unmarshal; the manager
  gets a final error, then END or another final error.
- `api/reward.go:84`: an answer with nothing under total gives no rewards, those of the single
  validators included, and no error.
- `client/client.go:123`: a panic in a handler or converter ends all streams of the worker.
- `cmd/terra-worker/main.go:137`: `osSig` has no buffer, so a signal that comes while main is not
  yet at its select is lost.
- `api/transaction.go:617`: in a log with fewer entries than the message's place the message gets no
  transfers, although its entry may be there.
- `api/mapper/gov.go:106`, `evidence.go:25`, `msgauth.go:47`: a proposal, evidence or
  authorization whose value is missing is a panic; no chain takes such a message.
- `api/transaction.go:423`: a nested message that fails makes `exec_delegated` keep the nested events
  before it and report success.
- `api/transaction.go:291`: the failure a log entry tells of is not shown when its message was converted.
- An empty log is an error for the plugin and none for the worker.
- `api/mapper/bank.go:104`: more recipients than amounts, or a transfer event without
  attributes, is a panic.  `api/types/types.go:204`: an attribute without a value reads as the value before it.
- `api/mapper/oracle.go:49`: a decimal exchange rate is given to an integer's `SetString`.
- `api/block.go:122`: a height fetched by two batches of `GetLatest` is counted twice in
  `NumTxs`, which nothing reads.
- Types: an aggregate exchange rate vote is reported as `aggregateexchangerateprevote`;
  `create_validator` and `edit_validator` as of module `distribution`.

## Not modelled

- `SearchTx` and `RawToTransaction`: no code of the repository calls them.
- The fields mappers, blocks and transactions copy (hash, memo, gas, fees, addresses,
  raw bytes), and `DecodeFee`: no state and no order.  Encoding an address and marshalling bytes
  already in memory, whose errors cannot happen here.
- Connections to managers and the gRPC transport, which are code of
  `indexer-manager`; a stream registered twice, which its server never does.
- Configuration, logger, metrics, profiling, log level; tests and mocks.
