------------------------------ MODULE TxEvents ------------------------------
(***************************************************************************)
(* The conversion of raw transactions (api/transaction.go):                *)
(* RawToTransactionCh takes them one by one with one JSON decoder for all  *)
(* their logs, rawToTransaction and appendEvents make the events of each.  *)
(* The converter plugin calls appendEvents through GetEventsFromRaw, with  *)
(* a decoder of its own.  An unrecovered panic ends the process.           *)
(***************************************************************************)
EXTENDS Mappers, FiniteSets

CONSTANTS
    Raws,       \* the raw transactions
    MaxRaws     \* how many of them one call gets

RawTxs == [msgs : Seq(Messages), decodes : BOOLEAN, log : NodeLogs]

(* AmountTexts is given for the amounts in the logs.                       *)
AmountsKnown(ev) ==
    \A i \in DOMAIN ev.attributes :
        ev.attributes[i].key = "amount" /\ Has(ev.attributes[i], "value") =>
            ev.attributes[i].value \in DOMAIN AmountTexts

ASSUME TxEventsAssumption ==
    /\ Raws \subseteq RawTxs /\ MaxRaws \in Nat
    /\ \A raw \in Raws : raw.log.form = "list" =>
          \A i \in DOMAIN raw.log.entries : \A n \in DOMAIN raw.log.entries[i].events :
             Has(raw.log.entries[i].events[n], "attributes") =>
                AmountsKnown(raw.log.entries[i].events[n])

VARIABLES
    caller,     \* "worker": RawToTransactionCh; "plugin": GetEventsFromRaw
    left,       \* how many raw transactions are still to come
    decoder,    \* the JSON decoder: "fresh", or "broken" by a syntax error
    tx,         \* the one being converted
    lf,         \* its log as far as it decoded
    failed,     \* its log did not decode
    pc,         \* take, messages, entries, emit, done, error, panic
    next,       \* the message or log entry to look at
    present,    \* presentIndexes
    events,     \* the events so far
    outs        \* what is given until the next one is taken: [tx, lf, events]

vars == <<caller, left, decoder, tx, lf, failed, pc, next, present, events, outs>>

NoTx == [msgs |-> <<>>, decodes |-> TRUE, log |-> [form |-> "none"]]

Init ==
    /\ caller \in {"worker", "plugin"}
    /\ left = IF caller = "plugin" THEN 1 ELSE MaxRaws
    /\ decoder = "fresh" /\ tx = NoTx /\ lf = <<>> /\ failed = FALSE
    /\ pc = "take" /\ next = 1 /\ present = {} /\ events = <<>> /\ outs = <<>>

\* Seeded fault: the decoder that failed is kept.
DecodedLogKept(raw) ==
    IF raw.log.form = "none" /\ caller = "worker"
    THEN [lf |-> <<>>, failed |-> FALSE, decoder |-> decoder]
    ELSE IF raw.log.form = "none"
    THEN [lf |-> <<>>, failed |-> TRUE, decoder |-> decoder]
    ELSE Decode(decoder, raw.log)

(* The worker does not decode an empty log; for the plugin it is an error. *)
(* After a failure there is a new decoder, and the next Reset drops what   *)
(* the old one left unread.                                                *)
DecodedLog(raw) ==
    LET d == IF raw.log.form # "none" THEN Decode(decoder, raw.log)
             ELSE [lf |-> <<>>, failed |-> caller = "plugin", decoder |-> decoder]
    IN  [d EXCEPT !.decoder = IF d.failed THEN "fresh" ELSE @]

(* A transaction that does not decode has no messages for the worker and   *)
(* is an error for the plugin.                                             *)
TakeRaw(raw) ==
    /\ pc = "take" /\ left > 0
    /\ LET d == DecodedLog(raw)
       IN  /\ tx' = IF raw.decodes THEN raw ELSE [raw EXCEPT !.msgs = <<>>]
           /\ lf' = d.lf
           /\ failed' = d.failed
           /\ decoder' = d.decoder
           /\ pc' = IF caller = "plugin" /\ (~raw.decodes \/ d.failed)
                    THEN "error" ELSE "messages"
    /\ left' = left - 1
    /\ next' = 1 /\ present' = {} /\ events' = <<>> /\ outs' = <<>>
    /\ UNCHANGED caller

\* Seeded fault: the entry in the message's place is taken unchecked.
FindLogUnchecked(index) == IF Len(lf) <= index THEN NoLogFormat ELSE lf[index + 1]

(* findLog: the entry in the message's place, or the first entry with its  *)
(* index.  The length is looked at first.                                  *)
FindLog(index) ==
    LET has(l) == l.msgIndex = index
    IN  IF Len(lf) <= index \/ ~\E i \in DOMAIN lf : has(lf[i]) THEN NoLogFormat
        ELSE IF has(lf[index + 1]) THEN lf[index + 1]
        ELSE lf[Seqs!SelectInSeq(lf, has)]

Event(id, kind, sub) == [id |-> id, kind |-> kind, sub |-> sub]

\* Seeded fault: the index is noted before the conversion is known to work.
AppendMessageEarly ==
    /\ pc = "messages" /\ next <= Len(tx.msgs)
    /\ LET r == GetSubEvent(tx.msgs[next], FindLog(next - 1))
       IN  /\ pc' = IF r.is = "panic" THEN "panic" ELSE pc
           /\ events' = IF r.is # "ok" THEN events
                        ELSE Append(events, Event(next - 1, tx.msgs[next].type, <<r.se>>))
    /\ present' = present \union {next - 1}
    /\ next' = next + 1
    /\ UNCHANGED <<caller, left, decoder, tx, lf, failed, outs>>

(* One pass of the loop over the messages.  The sub event of a conversion  *)
(* that fails is dropped.                                                  *)
AppendMessage ==
    /\ pc = "messages" /\ next <= Len(tx.msgs)
    /\ LET r == GetSubEvent(tx.msgs[next], FindLog(next - 1))
       IN  /\ pc' = IF r.is = "panic" THEN "panic" ELSE pc
           /\ IF r.is = "ok"
              THEN /\ events' = Append(events, Event(next - 1, tx.msgs[next].type, <<r.se>>))
                   /\ present' = present \union {next - 1}
              ELSE UNCHANGED <<events, present>>
    /\ next' = next + 1
    /\ UNCHANGED <<caller, left, decoder, tx, lf, failed, outs>>

MessagesOver ==
    /\ pc = "messages" /\ next > Len(tx.msgs)
    /\ pc' = "entries" /\ next' = 1
    /\ UNCHANGED <<caller, left, decoder, tx, lf, failed, present, events, outs>>

(* eventFromLogs: a sub event for each event that has attributes.          *)
AddSubEvent(subs, ev) ==
    IF Has(ev, "attributes")
    THEN Append(subs, Sub(ev.attributes.action, ev.attributes.module, <<>>, <<>>))
    ELSE subs

EventFromLogs(l) == Event(l.msgIndex, "", Seqs!FoldLeft(AddSubEvent, <<>>, l.events))

\* Seeded fault: the error goes to the first sub event, if there is one.
WithErrorIfSub(ev, l) ==
    IF l.success \/ ev.sub = <<>> THEN ev ELSE [ev EXCEPT !.sub[1].error = l.message]

WithError(ev, l) ==
    IF l.success THEN ev
    ELSE IF ev.sub = <<>> THEN [ev EXCEPT !.sub = << [NoSub EXCEPT !.error = l.message] >>]
    ELSE [ev EXCEPT !.sub[1].error = l.message]

(* One pass of the loop over the log: entries whose message has its event  *)
(* are skipped, whatever they tell.                                        *)
AppendLog ==
    /\ pc = "entries" /\ next <= Len(lf)
    /\ events' = IF lf[next].msgIndex \in present THEN events
                 ELSE Append(events, WithError(EventFromLogs(lf[next]), lf[next]))
    /\ next' = next + 1
    /\ UNCHANGED <<caller, left, decoder, tx, lf, failed, pc, present, outs>>

(* The whole log as an error, if it did not decode.                        *)
EntriesOver ==
    /\ pc = "entries" /\ next > Len(lf)
    /\ events' = IF failed
                 THEN Append(events, Event(-1, "error", << [NoSub EXCEPT !.error = "log"] >>))
                 ELSE events
    /\ pc' = "emit"
    /\ UNCHANGED <<caller, left, decoder, tx, lf, failed, next, present, outs>>

(* The transaction goes out, or is returned to the plugin.                 *)
Emit ==
    /\ pc = "emit"
    /\ outs' = << [tx |-> tx, lf |-> lf, events |-> events] >>
    /\ pc' = IF left = 0 THEN "done" ELSE "take"
    /\ UNCHANGED <<caller, left, decoder, tx, lf, failed, next, present, events>>

Next ==
    \/ \E raw \in Raws : TakeRaw(raw)
    \/ AppendMessage
    \/ MessagesOver
    \/ AppendLog
    \/ EntriesOver
    \/ Emit

Spec == Init /\ [][Next]_vars

-----------------------------------------------------------------------------
(* What the log of a transaction tells, read without the code's helpers.   *)

Entries(raw) == IF raw.log.form = "list" THEN raw.log.entries ELSE <<>>
LogDecodes(raw) ==
    \/ raw.log.form = "none"
    \/ raw.log.form = "list" /\ \A i \in DOMAIN Entries(raw) : Entries(raw)[i].log # "text"

(* The entries that are read, up to the first that does not decode, and    *)
(* those of them with an index.                                            *)
Read(raw) == {i \in DOMAIN Entries(raw) :
                 \A j \in DOMAIN Entries(raw) : j < i => Entries(raw)[j].log # "text"}
WithIndex(raw, n) == {i \in Read(raw) : Entries(raw)[i].index = n}
OwnEntries(raw, n) == {Entries(raw)[i] : i \in WithIndex(raw, n)}
IndexesDistinct(raw) == \A i, j \in DOMAIN Entries(raw) :
                            Entries(raw)[i].index = Entries(raw)[j].index => i = j

Values(ev, key) == {i \in DOMAIN ev.attributes : ev.attributes[i].key = key}

(* Every recipient has its amount before the next recipient, and nothing   *)
(* is without its value.                                                   *)
WellFormed(ev) ==
    /\ Has(ev, "attributes")
    /\ \A i \in DOMAIN ev.attributes : Has(ev.attributes[i], "value")
    /\ Cardinality(Values(ev, "amount")) = Cardinality(Values(ev, "recipient"))
    /\ \A i \in Values(ev, "recipient") :
          Cardinality({j \in Values(ev, "amount") : j < i})
            = Cardinality({j \in Values(ev, "recipient") : j < i})

Transfers(e) == {n \in DOMAIN e.events : e.events[n].type = "transfer"}
WellFormedEntry(e) == \A n \in Transfers(e) : WellFormed(e.events[n])

(* The recipients an entry tells of but for "skip", each by its event and  *)
(* its attribute, and the first amount after it.                           *)
Recipients(ev, skip) == {i \in Values(ev, "recipient") : ev.attributes[i].value # skip}
Places(e, skip) == UNION {{n} \X Recipients(e.events[n], skip) : n \in Transfers(e)}
Before(p, q) == p[1] < q[1] \/ (p[1] = q[1] /\ p[2] < q[2])
IsAmountAfter(ev, i, j) ==
    /\ j \in Values(ev, "amount") /\ j > i
    /\ \A k \in Values(ev, "amount") : k > i => j <= k

(* The transfer t is that of the recipient at i: its amounts are the       *)
(* numbers in the next amount, where there are numbers.                    *)
GivesOne(t, ev, i) ==
    /\ t.to = ev.attributes[i].value
    /\ \A j \in DOMAIN ev.attributes : IsAmountAfter(ev, i, j) =>
          LET texts == AmountTexts[ev.attributes[j].value]
          IN  /\ DOMAIN t.amounts = DOMAIN texts
              /\ \A k \in DOMAIN texts :
                    texts[k].form \in {"plain", "point"} => Denotes(t.amounts[k], texts[k])

Gives(transfers, e, skip) ==
    /\ Len(transfers) = Cardinality(Places(e, skip))
    /\ \A p \in Places(e, skip) :
          GivesOne(transfers[Cardinality({q \in Places(e, skip) : Before(q, p)}) + 1],
                   e.events[p[1]], p[2])

Given == Seqs!ToSet(outs)
Converted(out) == {i \in DOMAIN out.events : out.events[i].kind \notin {"", "error"}}
FromLog(out) == {i \in DOMAIN out.events : out.events[i].kind = ""}
Ids(out, is) == {out.events[i].id : i \in is}

-----------------------------------------------------------------------------
(* The two loops of appendEvents meet in presentIndexes: no message or log *)
(* entry that was read is left without an event because the other loop was *)
(* thought to have made it, and none has two, unless the log numbers two   *)
(* entries alike.                                                          *)
OneEventPerIndex ==
    \A out \in Given :
        /\ \A l \in Seqs!ToSet(out.lf) : l.msgIndex \in Ids(out, Converted(out) \union FromLog(out))
        /\ Ids(out, Converted(out)) \intersect Ids(out, FromLog(out)) = {}
        /\ IndexesDistinct(out.tx) =>
              \A i, j \in DOMAIN out.events : out.events[i].id = out.events[j].id => i = j

(* findLog and produceTransfers: the transfers of a message are those of a *)
(* log entry with its index, each recipient with the amount the node wrote *)
(* after it, whatever order the entries come in and wherever the log is    *)
(* cut; never those of another message's entry.  There are none without    *)
(* such an entry, and none either when fewer entries were read than the    *)
(* message's place asks for: findLog drops the entry then.                 *)
TransfersOfOwnEntry ==
    \A out \in Given : \A c \in Converted(out) :
        LET ev  == out.events[c]
            k   == MapperOf(out.tx.msgs[ev.id + 1])
            own == OwnEntries(out.tx, ev.id)
            got == ev.sub[1].transfers
        IN  IF k.transfers = "none" \/ own = {} \/ Cardinality(Read(out.tx)) <= ev.id
            THEN got = <<>>
            ELSE (\A e \in own : WellFormedEntry(e)) => \E e \in own : Gives(got, e, k.skip)

(* One decoder reads the logs of all transactions of a call: a transaction *)
(* has the log as its error event when its own log does not decode, and    *)
(* never because of another's.                                             *)
ErrorEventIffUndecodable ==
    \A out \in Given :
        (\E i \in DOMAIN out.events : out.events[i].kind = "error") <=> ~LogDecodes(out.tx)

(* A log entry that tells of a failure is told on, unless its message was  *)
(* converted: the first sub event of its event carries the error, also     *)
(* when the entry has no events.  No other sub event carries one.          *)
FailureTold ==
    \A out \in Given :
        /\ \A l \in Seqs!ToSet(out.lf) :
              ~l.success /\ l.msgIndex \notin Ids(out, Converted(out)) =>
                \E i \in FromLog(out) :
                    /\ out.events[i].id = l.msgIndex
                    /\ out.events[i].sub # <<>> /\ out.events[i].sub[1].error = l.message
        /\ \A i \in FromLog(out) : \A k \in DOMAIN out.events[i].sub :
              out.events[i].sub[k].error # "none" =>
                k = 1 /\ \E l \in Seqs!ToSet(out.lf) : ~l.success /\ l.msgIndex = out.events[i].id

(* A message that cannot be converted: no mapper, or its transfers are to  *)
(* be read from an entry that is not well-formed or has an amount, other   *)
(* than that of "skip", with several points.                               *)
HasPoints(e, skip) ==
    \E p \in Places(e, skip) : \E j \in DOMAIN e.events[p[1]].attributes :
        /\ IsAmountAfter(e.events[p[1]], p[2], j)
        /\ \E t \in Seqs!ToSet(AmountTexts[e.events[p[1]].attributes[j].value]) :
              t.form = "points"

Inconvertible(msg, own) ==
    \/ ~KnownType(msg)
    \/ /\ MapperOf(msg).transfers # "none"
       /\ \E e \in own : ~WellFormedEntry(e) \/ HasPoints(e, MapperOf(msg).skip)

(* exec_delegated: the nested events are those of the first nested         *)
(* messages, in order and without a gap, so that the n-th event is the     *)
(* n-th message's; where they are fewer than the messages, the next one is *)
(* one that cannot be converted, by its type or by the log entry of the    *)
(* exec_delegated.  That something failed is not told.                     *)
NestedPrefix ==
    \A out \in Given : \A c \in Converted(out) :
        LET ev  == out.events[c]
            msg == out.tx.msgs[ev.id + 1]
            own == OwnEntries(out.tx, ev.id)
            sub == ev.sub[1].sub
        IN  IF msg.type # "exec_delegated" THEN sub = <<>>
            ELSE /\ Len(sub) <= Len(msg.msgs)
                 /\ \A n \in DOMAIN sub :
                       /\ KnownType(msg.msgs[n])
                       /\ sub[n].type = MapperOf(msg.msgs[n]).type
                 /\ Len(sub) < Len(msg.msgs) => Inconvertible(msg.msgs[Len(sub) + 1], own)

(* What ends the process: coins for the community pool, and a proposal, an *)
(* evidence or an authorization that is not there, which no chain takes.   *)
PaysPool(msg) == msg.type = "fund_community_pool" /\ msg.coins
LacksValue(msg) ==
    msg.type \in {"submit_proposal", "submit_evidence", "grant_authorization"} /\ msg.unset
WithNested(msgs) == Seqs!ToSet(msgs) \union UNION {Seqs!ToSet(m.msgs) : m \in Seqs!ToSet(msgs)}

(* The conversion is not guarded by a recover.  A transaction whose        *)
(* transfer events are well-formed, which pays nothing to the community    *)
(* pool and lacks no value never ends the process, whatever else fails.    *)
OrdinaryNeverPanics ==
    pc = "panic" =>
        \/ \E i \in DOMAIN Entries(tx) : ~WellFormedEntry(Entries(tx)[i])
        \/ \E m \in WithNested(tx.msgs) : PaysPool(m) \/ LacksValue(m)

(* README.md lists fund_community_pool among the supported transaction     *)
(* types: a transaction of listed types with well-formed transfer events   *)
(* and all its values should not end the process.                          *)
ListedTypesSupported ==
    pc = "panic" =>
        \/ \E i \in DOMAIN Entries(tx) : ~WellFormedEntry(Entries(tx)[i])
        \/ \E m \in WithNested(tx.msgs) : LacksValue(m)
=============================================================================
