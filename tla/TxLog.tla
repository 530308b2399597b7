------------------------------- MODULE TxLog -------------------------------
(***************************************************************************)
(* How a transaction's log is read (api/types/types.go, and the JSON       *)
(* decoder api/transaction.go keeps): the entries the node wrote become    *)
(* LogFormat records, their attribute lists become TxEventsAttributes.     *)
(***************************************************************************)
EXTENDS Integers, Sequences

Seqs == INSTANCE SequencesExt

(* As the node writes it: an attribute whose value is empty has its key    *)
(* alone, an event may have no attributes, the log text of an entry is     *)
(* empty, JSON or other text.  The log itself may be missing, not JSON,    *)
(* JSON but not a list, or the list it should be.                          *)
NodeAttributes == [key : STRING, value : STRING] \union [key : STRING]
NodeEvents == [type : STRING, attributes : Seq(NodeAttributes)] \union [type : STRING]
NodeEntries ==
    [index : Nat, success : BOOLEAN, log : {"empty", "json", "text"}, events : Seq(NodeEvents)]
NodeLogs ==
    [form : {"none", "text", "object"}] \union [form : {"list"}, entries : Seq(NodeEntries)]

Has(r, field) == field \in DOMAIN r

(* TxEventsAttributes.UnmarshalJSON; of its fields, those something reads. *)
(* "held" is the one kvHolder that is decoded into again and again: an     *)
(* attribute without a value keeps the value of the one before.            *)
NoAttributes ==
    [held |-> "", module |-> "", action |-> "",
     sender |-> <<>>, recipient |-> <<>>, amount |-> <<>>]

AddAttribute(lea, a) ==
    LET value == IF Has(a, "value") THEN a.value ELSE lea.held
    IN  [held      |-> value,
         module    |-> IF a.key = "module" THEN value ELSE lea.module,
         action    |-> IF a.key = "action" THEN value ELSE lea.action,
         sender    |-> IF a.key = "sender" THEN Append(lea.sender, value) ELSE lea.sender,
         recipient |-> IF a.key = "recipient" THEN Append(lea.recipient, value)
                       ELSE lea.recipient,
         amount    |-> IF a.key = "amount" THEN Append(lea.amount, value) ELSE lea.amount]

Attributes(as) == Seqs!FoldLeft(AddAttribute, NoAttributes, as)

TxEvent(ev) ==
    IF Has(ev, "attributes") THEN [ev EXCEPT !.attributes = Attributes(@)] ELSE ev

(* LogFormat.UnmarshalJSON.  A log text that is not JSON is an error, but  *)
(* the other fields are set by then.                                       *)
LogFormat(e) ==
    [msgIndex |-> e.index, success |-> e.success,
     message  |-> IF e.log = "json" THEN "told" ELSE "",
     events   |-> [i \in DOMAIN e.events |-> TxEvent(e.events[i])]]

NoLogFormat == [msgIndex |-> 0, success |-> FALSE, message |-> "", events |-> <<>>]

BadEntries(raw) == {i \in DOMAIN raw.entries : raw.entries[i].log = "text"}

(* Decoding an array stops in the element that fails; the elements before  *)
(* it, and that one, are in the slice.                                     *)
DecodedEntries(raw) ==
    LET upTo == IF BadEntries(raw) = {} THEN Len(raw.entries) ELSE Seqs!Min(BadEntries(raw))
    IN  [i \in 1..upTo |-> LogFormat(raw.entries[i])]

(* json.Decoder.Decode: a syntax error stays with the decoder and fails    *)
(* every later call.                                                       *)
Decode(decoder, raw) ==
    IF decoder = "broken" \/ raw.form = "text"
    THEN [lf |-> <<>>, failed |-> TRUE, decoder |-> "broken"]
    ELSE IF raw.form = "object"
    THEN [lf |-> <<>>, failed |-> TRUE, decoder |-> decoder]
    ELSE [lf |-> DecodedEntries(raw), failed |-> BadEntries(raw) # {}, decoder |-> decoder]
=============================================================================
