--------------------------- MODULE TxEventsProofs ---------------------------
(***************************************************************************)
(* Theorems about TxEvents, for any raw transactions, in any number and    *)
(* order, whatever their logs and messages.                                *)
(***************************************************************************)
EXTENDS TxEvents, ConversionProofs, FiniteSetTheorems

-----------------------------------------------------------------------------
(* Sequences of values of any kind, and the first of several places.       *)

IsSequence(s) == s \in Seq({s[i] : i \in DOMAIN s})

LEMMA SequenceOfSome ==
    ASSUME NEW S, NEW s \in Seq(S)
    PROVE  IsSequence(s)
  BY DEF IsSequence

LEMMA FunctionIsSequence ==
    ASSUME NEW n \in Nat, NEW F, DOMAIN F = 1..n, F = [i \in 1..n |-> F[i]]
    PROVE  IsSequence(F) /\ Len(F) = n
<1> DEFINE S == {F[i] : i \in 1..n}
<1>1. F \in [1..n -> S]
  OBVIOUS
<1>2. F \in Seq(S) /\ Len(F) = n
  BY <1>1
<1>3. QED
  BY <1>2 DEF IsSequence

LEMMA LengthOfSequence ==
    ASSUME NEW s, IsSequence(s)
    PROVE  Len(s) \in Nat /\ DOMAIN s = 1..Len(s)
  BY DEF IsSequence

LEMMA Appended ==
    ASSUME NEW s, NEW e, IsSequence(s)
    PROVE  /\ IsSequence(Append(s, e)) /\ Len(Append(s, e)) = Len(s) + 1
           /\ DOMAIN Append(s, e) = 1..(Len(s) + 1)
           /\ \A i \in 1..Len(s) : Append(s, e)[i] = s[i]
           /\ Append(s, e)[Len(s) + 1] = e
<1> DEFINE S == {s[i] : i \in DOMAIN s} \union {e}
<1>1. s \in Seq({s[i] : i \in DOMAIN s})
  BY DEF IsSequence
<1>2. s \in Seq(S) /\ e \in S
  BY <1>1
<1> HIDE DEF S
<1>3. Append(s, e) \in Seq(S) /\ Len(Append(s, e)) = Len(s) + 1
  BY <1>2
<1>4. /\ \A i \in 1..Len(s) : Append(s, e)[i] = s[i]
      /\ Append(s, e)[Len(s) + 1] = e
  BY <1>2
<1>5. IsSequence(Append(s, e))
  BY <1>3, SequenceOfSome
<1>6. QED
  BY <1>3, <1>4, <1>5, LengthOfSequence

(* The sub events of a log entry tell of no error when they are read.      *)
Silent(subs) == IsSequence(subs) /\ \A k \in DOMAIN subs : \E a, m : subs[k] = Sub(a, m, <<>>, <<>>)

ReadEvent(c, subs, ev) == AddSubEvent(subs, ev)
SilentSoFar(c, i, subs) == Silent(subs)

SubEvents == INSTANCE InductionRules WITH Pass <- ReadEvent, Inv <- SilentSoFar

LEMMA FirstPlaces ==
    ASSUME NEW n \in Nat
    PROVE  Cardinality(1..n) = n
  BY FS_Interval

LEMMA FirstPlace ==
    ASSUME NEW T, T \subseteq Nat, T # {}
    PROVE  Seqs!Min(T) \in T /\ \A n \in T : Seqs!Min(T) <= n
  BY SubEvents!LeastOfNats DEF Seqs!Min

-----------------------------------------------------------------------------
(* The log.                                                                *)

Kinds == {"none", "text", "object", "list"}

LEMMA RawFields ==
    ASSUME NEW raw \in RawTxs
    PROVE  /\ raw.msgs \in Seq(Messages)
           /\ raw.decodes \in BOOLEAN
           /\ raw.log \in NodeLogs
           /\ raw.log.form \in Kinds
           /\ raw.log.form = "list" => raw.log.entries \in Seq(NodeEntries)
           /\ Entries(raw) \in Seq(NodeEntries)
<1>1. raw.msgs \in Seq(Messages) /\ raw.decodes \in BOOLEAN /\ raw.log \in NodeLogs
  BY DEF RawTxs
<1>2. raw.log.form \in Kinds
  BY <1>1 DEF NodeLogs, Kinds
<1>3. raw.log.form = "list" => raw.log.entries \in Seq(NodeEntries)
  BY <1>1 DEF NodeLogs
<1>4. QED
  BY <1>1, <1>2, <1>3 DEF Entries

(* The entries that were read are the first of the log, each with the      *)
(* index the node gave it, up to one that does not decode.                 *)
LogFormats == {LogFormat(e) : e \in NodeEntries}

LogRead(raw, entries) ==
    /\ IsSequence(entries)
    /\ \A k \in DOMAIN entries :
          /\ entries[k] \in LogFormats
          /\ k \in DOMAIN Entries(raw)
          /\ entries[k] = LogFormat(Entries(raw)[k])
          /\ entries[k].msgIndex = Entries(raw)[k].index
          /\ entries[k].msgIndex \in Nat
    /\ DOMAIN entries = Read(raw)

LEMMA EntriesAreRead ==
    ASSUME NEW raw \in RawTxs, raw.log.form = "list"
    PROVE  /\ LogRead(raw, DecodedEntries(raw.log))
           /\ BadEntries(raw.log) # {} <=> ~LogDecodes(raw)
<1> DEFINE es == raw.log.entries
           bad == BadEntries(raw.log)
<1>1. es \in Seq(NodeEntries) /\ Entries(raw) = es
  BY RawFields DEF Entries
<1>2. bad = {i \in DOMAIN es : es[i].log = "text"}
  BY DEF BadEntries
<1>3. DOMAIN es = 1..Len(es) /\ Len(es) \in Nat
  BY <1>1
<1>4. PICK n \in Nat : /\ n <= Len(es) /\ 1..n = Read(raw)
                       /\ DecodedEntries(raw.log) = [i \in 1..n |-> LogFormat(es[i])]
  <2>0. Read(raw) = {i \in 1..Len(es) : \A j \in 1..Len(es) : j < i => j \notin bad}
    BY <1>1, <1>2, <1>3 DEF Read
  <2>1. CASE bad = {}
    <3>1. Read(raw) = 1..Len(es)
      BY <2>0, <2>1
    <3>2. QED
      BY <1>3, <2>1, <3>1 DEF DecodedEntries
  <2>2. CASE bad # {}
    <3>1. bad \subseteq Nat
      BY <1>2, <1>3
    <3> HIDE DEF bad
    <3>2. Seqs!Min(bad) \in bad
      BY <2>2, <3>1, FirstPlace
    <3>3. Seqs!Min(bad) \in Nat /\ Seqs!Min(bad) <= Len(es)
      BY <1>2, <1>3, <3>2
    <3>4. DecodedEntries(raw.log) = [i \in 1..Seqs!Min(bad) |-> LogFormat(es[i])]
      BY <2>2 DEF DecodedEntries, bad
    <3>5. \A j \in bad : Seqs!Min(bad) <= j
      BY <2>2, <3>1, FirstPlace
    <3>6. ASSUME NEW i \in 1..Len(es)
          PROVE  (\A j \in 1..Len(es) : j < i => j \notin bad) <=> i <= Seqs!Min(bad)
      <4>1. Seqs!Min(bad) \in 1..Len(es)
        BY <1>2, <1>3, <3>2 DEF bad
      <4>2. QED
        BY <3>1, <3>2, <3>3, <3>5, <4>1
    <3>7. Read(raw) = {i \in 1..Len(es) : i <= Seqs!Min(bad)}
      BY <2>0, <3>6
    <3>8. Read(raw) = 1..Seqs!Min(bad)
      BY <1>3, <3>3, <3>7
    <3>9. QED
      BY <3>3, <3>4, <3>8 DEF bad
  <2>3. QED
    BY <2>1, <2>2
<1> DEFINE F == DecodedEntries(raw.log)
<1>5. DOMAIN F = 1..n /\ \A k \in 1..n : F[k] = LogFormat(es[k])
  BY <1>4
<1>6. IsSequence(F)
  <2>1. F = [i \in 1..n |-> F[i]]
    BY <1>4
  <2> HIDE DEF F
  <2>2. QED
    BY <1>5, <2>1, FunctionIsSequence
<1>7. \A k \in 1..n : /\ k \in DOMAIN es /\ F[k].msgIndex = es[k].index
                       /\ es[k].index \in Nat /\ F[k] \in LogFormats
                       /\ F[k] = LogFormat(es[k])
  <2>1. SUFFICES ASSUME NEW k \in 1..n
                 PROVE  /\ k \in DOMAIN es /\ F[k].msgIndex = es[k].index
                        /\ es[k].index \in Nat /\ F[k] \in LogFormats
                        /\ F[k] = LogFormat(es[k])
    OBVIOUS
  <2>2. k \in 1..Len(es)
    BY <1>3, <1>4
  <2>3. es[k] \in NodeEntries
    BY <1>1, <2>2
  <2>4. es[k].index \in Nat
    BY <2>3 DEF NodeEntries
  <2>5. F[k] = LogFormat(es[k])
    BY <1>5
  <2>6. LogFormat(es[k]).msgIndex = es[k].index
    BY DEF LogFormat
  <2> HIDE DEF F, es
  <2>7. LogFormat(es[k]) \in LogFormats
    BY <2>3 DEF LogFormats
  <2>8. QED
    BY <1>3, <2>2, <2>4, <2>5, <2>6, <2>7
<1>8. bad # {} <=> ~LogDecodes(raw)
  BY <1>1, <1>2 DEF LogDecodes
<1>9. DOMAIN F = Read(raw)
  BY <1>4
<1> HIDE DEF F, es, bad
<1>10. LogRead(raw, F)
  BY <1>1, <1>5, <1>6, <1>7, <1>9 DEF LogRead
<1>11. QED
  BY <1>8, <1>10 DEF F, bad

(* A new decoder reads a log as LogDecodes says, and is new again for the  *)
(* next one; where the worker goes on without a log, it has none.          *)
LEMMA DecodedLogIsOwn ==
    ASSUME decoder = "fresh", NEW raw \in RawTxs
    PROVE  /\ DecodedLog(raw).decoder = "fresh"
           /\ LogRead(raw, DecodedLog(raw).lf)
           /\ DecodedLog(raw).failed \in BOOLEAN
           /\ caller = "plugin" /\ raw.log.form = "none" => DecodedLog(raw).failed
           /\ ~(caller = "plugin" /\ raw.log.form = "none") =>
                 (DecodedLog(raw).failed <=> ~LogDecodes(raw))
<1>1. raw.log.form # "list" => LogRead(raw, <<>>)
  <2>1. <<>> \in Seq({}) /\ DOMAIN <<>> = {}
    OBVIOUS
  <2>2. raw.log.form # "list" => Entries(raw) = <<>> /\ Read(raw) = {}
    BY <2>1 DEF Entries, Read
  <2>3. QED
    BY <2>1, <2>2, SequenceOfSome DEF LogRead
<1>2. CASE raw.log.form = "none"
  <2>1. DecodedLog(raw) = [lf |-> <<>>, failed |-> caller = "plugin", decoder |-> "fresh"]
    BY <1>2 DEF DecodedLog
  <2>2. LogDecodes(raw)
    BY <1>2 DEF LogDecodes
  <2>3. CASE caller = "plugin"
    <3>1. DecodedLog(raw) = [lf |-> <<>>, failed |-> TRUE, decoder |-> "fresh"]
      BY <2>1, <2>3
    <3>2. QED
      BY <1>1, <1>2, <2>3, <3>1
  <2>4. CASE caller # "plugin"
    <3>1. DecodedLog(raw) = [lf |-> <<>>, failed |-> FALSE, decoder |-> "fresh"]
      BY <2>1, <2>4
    <3>2. QED
      BY <1>1, <1>2, <2>2, <2>4, <3>1
  <2>5. QED
    BY <2>3, <2>4
<1>3. CASE raw.log.form \in {"text", "object"}
  <2>1. /\ DecodedLog(raw).failed = TRUE /\ DecodedLog(raw).lf = <<>>
        /\ DecodedLog(raw).decoder = "fresh"
    BY <1>3 DEF DecodedLog, Decode
  <2>2. ~LogDecodes(raw)
    BY <1>3 DEF LogDecodes
  <2>3. QED
    BY <1>1, <1>3, <2>1, <2>2
<1>4. CASE raw.log.form = "list"
  <2>1. /\ DecodedLog(raw).failed = (BadEntries(raw.log) # {})
        /\ DecodedLog(raw).lf = DecodedEntries(raw.log)
        /\ DecodedLog(raw).decoder = "fresh"
    BY <1>4 DEF DecodedLog, Decode
  <2>2. QED
    BY <1>4, <2>1, EntriesAreRead
<1>5. QED
  BY <1>2, <1>3, <1>4, RawFields DEF Kinds

-----------------------------------------------------------------------------
(* The mappers.                                                            *)

(* The types of each route: no mapper is for one of the two kinds of event *)
(* that are not made from a message, and one route has exec_delegated.     *)
LEMMA TypesOfRoutes ==
    \A r \in DOMAIN Mappers :
        /\ DOMAIN Mappers[r] \intersect {"", "error"} = {}
        /\ "exec_delegated" \in DOMAIN Mappers[r] => r = "msgauth"
<1>0. DOMAIN Mappers = {"bank", "crisis", "distribution", "evidence", "gov", "market", "msgauth",
                       "oracle", "slashing", "staking", "wasm"}
  BY DEF Mappers
<1>1. DOMAIN Mappers["bank"] = {"send", "multisend"}
  BY DEF Mappers, BankMappers
<1>2. DOMAIN Mappers["crisis"] = {"verify_invariant"}
  BY DEF Mappers, CrisisMappers
<1>3. DOMAIN Mappers["distribution"] =
        {"withdraw_validator_commission", "set_withdraw_address", "withdraw_delegator_reward",
         "fund_community_pool"}
  BY DEF Mappers, DistributionMappers
<1>4. DOMAIN Mappers["evidence"] = {"submit_evidence"}
  BY DEF Mappers, EvidenceMappers
<1>5. DOMAIN Mappers["gov"] = {"deposit", "vote", "submit_proposal"}
  BY DEF Mappers, GovMappers
<1>6. DOMAIN Mappers["market"] = {"swap", "swapsend"}
  BY DEF Mappers, MarketMappers
<1>7. DOMAIN Mappers["msgauth"] =
        {"grant_authorization", "revoke_authorization", "exec_delegated"}
  BY DEF Mappers, MsgauthMappers
<1>8. DOMAIN Mappers["oracle"] =
        {"exchangeratevote", "exchangerateprevote", "delegatefeeder",
         "aggregateexchangerateprevote", "aggregateexchangeratevote"}
  BY DEF Mappers, OracleMappers
<1>9. DOMAIN Mappers["slashing"] = {"unjail"}
  BY DEF Mappers, SlashingMappers
<1>10. DOMAIN Mappers["staking"] =
        {"begin_unbonding", "edit_validator", "create_validator", "delegate",
         "begin_redelegate"}
  BY DEF Mappers, StakingMappers
<1>11. DOMAIN Mappers["wasm"] =
        {"execute_contract", "store_code", "update_contract_owner", "instantiate_contract",
         "migrate_contract"}
  BY DEF Mappers, WasmMappers
<1>12. \A r \in DOMAIN Mappers : DOMAIN Mappers[r] \intersect {"", "error"} = {}
  BY <1>0, <1>1, <1>2, <1>3, <1>4, <1>5, <1>6, <1>7, <1>8, <1>9, <1>10, <1>11
<1>13. \A r \in DOMAIN Mappers : "exec_delegated" \in DOMAIN Mappers[r] => r = "msgauth"
  BY <1>0, <1>1, <1>2, <1>3, <1>4, <1>5, <1>6, <1>7, <1>8, <1>9, <1>10, <1>11
<1>14. QED
  BY <1>12, <1>13

LEMMA KnownTypeIsNamed ==
    ASSUME NEW msg, KnownType(msg)
    PROVE  msg.type \notin {"", "error"}
<1>1. msg.route \in DOMAIN Mappers /\ msg.type \in DOMAIN Mappers[msg.route]
  BY DEF KnownType, Has
<1>2. QED
  BY <1>1, TypesOfRoutes

(* The mapper of an exec_delegated adds no transfers of its own.           *)
LEMMA ExecHasNoTransfers ==
    ASSUME NEW msg, KnownType(msg), msg.type = "exec_delegated"
    PROVE  MapperOf(msg).transfers = "none"
<1>1. msg.route \in DOMAIN Mappers /\ msg.type \in DOMAIN Mappers[msg.route]
  BY DEF KnownType, Has
<1>2. msg.route = "msgauth"
  BY <1>1, TypesOfRoutes
<1>3. MapperOf(msg) = MsgauthMappers["exec_delegated"]
  BY <1>2 DEF MapperOf, Mappers
<1>4. MsgauthMappers["exec_delegated"] = Maps("exec_delegated", "msgAuth", "none")
  BY DEF MsgauthMappers
<1>5. \A t, m, k : Maps(t, m, k).transfers = k
  BY DEF Maps
<1>6. QED
  BY <1>3, <1>4, <1>5

LEMMA PlainSubEventOK ==
    ASSUME NEW msg, NEW l, PlainSubEvent(msg, l).is = "ok"
    PROVE  /\ KnownType(msg)
           /\ PlainSubEvent(msg, l).se.type = MapperOf(msg).type
           /\ PlainSubEvent(msg, l).se.sub = <<>>
<1>1. KnownType(msg)
  BY DEF PlainSubEvent
<1>2. ~MapperPanics(msg)
  BY <1>1 DEF PlainSubEvent
<1> DEFINE m == MapperOf(msg)
           p == IF m.transfers = "none" THEN [is |-> "ok", transfers |-> <<>>]
                ELSE ProduceTransfers(l, m.skip)
<1>3. PlainSubEvent(msg, l) = [is |-> p.is, se |-> Sub(m.type, m.module, p.transfers, <<>>)]
  BY <1>1, <1>2 DEF PlainSubEvent
<1> HIDE DEF m, p
<1>4. QED
  BY <1>1, <1>3 DEF Sub, m

(* The nested events are those of the messages before the first that       *)
(* fails.                                                                  *)
Nested(msg, nested) ==
    IF msg.type # "exec_delegated" THEN nested = <<>>
    ELSE /\ Len(nested) <= Len(msg.msgs)
         /\ \A n \in DOMAIN nested :
               /\ KnownType(msg.msgs[n])
               /\ nested[n].type = MapperOf(msg.msgs[n]).type

LEMMA ExecIsPrefix ==
    ASSUME NEW msg, NEW l, msg.msgs \in Seq(MessagesWith({<<>>}))
    PROVE  /\ Len(ExecSubEvent(msg, l).se.sub) <= Len(msg.msgs)
           /\ \A n \in DOMAIN ExecSubEvent(msg, l).se.sub :
                 /\ KnownType(msg.msgs[n])
                 /\ ExecSubEvent(msg, l).se.sub[n].type = MapperOf(msg.msgs[n]).type
           /\ /\ ExecSubEvent(msg, l).is = "ok"
              /\ Len(ExecSubEvent(msg, l).se.sub) < Len(msg.msgs)
              => PlainSubEvent(msg.msgs[Len(ExecSubEvent(msg, l).se.sub) + 1], l).is
                    \notin {"ok", "panic"}
<1> DEFINE all  == [i \in DOMAIN msg.msgs |-> PlainSubEvent(msg.msgs[i], l)]
           bad  == {i \in 1..Len(all) : all[i].is # "ok"}
           stop == IF bad # {} THEN Seqs!Min(bad) ELSE 0
           kept == IF stop = 0 THEN Len(all) ELSE stop - 1
<1>1. DOMAIN msg.msgs = 1..Len(msg.msgs) /\ Len(msg.msgs) \in Nat
  OBVIOUS
<1>2. DOMAIN all = 1..Len(msg.msgs) /\ Len(all) = Len(msg.msgs)
  BY <1>1
<1>3. ExecSubEvent(msg, l).se =
        Sub(MapperOf(msg).type, MapperOf(msg).module, <<>>, [i \in 1..kept |-> all[i].se])
  BY DEF ExecSubEvent, Seqs!SelectInSeq
<1>4. ExecSubEvent(msg, l).se.sub = [i \in 1..kept |-> all[i].se]
  <2> HIDE DEF kept, all
  <2>1. QED
    BY <1>3 DEF Sub
<1>5. \A i \in 1..Len(msg.msgs) : all[i] = PlainSubEvent(msg.msgs[i], l)
  BY <1>1
<1> HIDE DEF all
<1>0. ExecSubEvent(msg, l).is = IF stop # 0 /\ all[stop].is = "panic" THEN "panic" ELSE "ok"
  BY DEF ExecSubEvent, Seqs!SelectInSeq, all
<1>6. /\ kept \in Nat /\ kept <= Len(msg.msgs) /\ \A i \in 1..kept : all[i].is = "ok"
      /\ kept < Len(msg.msgs) => /\ kept + 1 \in 1..Len(msg.msgs) /\ kept + 1 = stop
                                 /\ all[stop].is # "ok"
  <2>1. CASE bad = {}
    BY <1>1, <1>2, <2>1
  <2>2. CASE bad # {}
    <3>1. bad \subseteq Nat /\ \A i \in bad : i > 0 /\ i <= Len(msg.msgs)
      BY <1>1, <1>2
    <3>2. Seqs!Min(bad) \in bad /\ \A i \in bad : Seqs!Min(bad) <= i
      BY <2>2, <3>1, FirstPlace
    <3>3. \A i \in 1..Len(all) : i \notin bad => all[i].is = "ok"
      OBVIOUS
    <3> HIDE DEF bad
    <3>4. Seqs!Min(bad) \in Nat /\ Seqs!Min(bad) > 0 /\ Seqs!Min(bad) <= Len(msg.msgs)
      BY <3>1, <3>2
    <3>5. stop = Seqs!Min(bad)
      BY <2>2
    <3>6. kept = Seqs!Min(bad) - 1
      BY <3>4, <3>5
    <3>7. all[Seqs!Min(bad)].is # "ok"
      BY <3>2 DEF bad
    <3> HIDE DEF kept, stop
    <3>8. QED
      BY <1>1, <1>2, <3>2, <3>3, <3>4, <3>5, <3>6, <3>7
  <2>3. QED
    BY <2>1, <2>2
<1> HIDE DEF kept, stop
<1>7. ASSUME NEW n \in 1..kept
      PROVE  /\ KnownType(msg.msgs[n])
             /\ all[n].se.type = MapperOf(msg.msgs[n]).type
  <2>1. all[n].is = "ok" /\ all[n] = PlainSubEvent(msg.msgs[n], l)
    BY <1>1, <1>5, <1>6
  <2>2. QED
    BY <2>1, PlainSubEventOK
<1>8. Len([i \in 1..kept |-> all[i].se]) = kept /\ DOMAIN [i \in 1..kept |-> all[i].se] = 1..kept
  BY <1>6
<1>9. ASSUME ExecSubEvent(msg, l).is = "ok", kept < Len(msg.msgs)
      PROVE  PlainSubEvent(msg.msgs[kept + 1], l).is \notin {"ok", "panic"}
  <2>1. stop \in 1..Len(msg.msgs) /\ stop = kept + 1 /\ all[stop].is # "ok"
    BY <1>6, <1>9
  <2>2. all[stop].is # "panic"
    BY <1>0, <1>1, <1>9, <2>1
  <2>3. QED
    BY <1>5, <2>1, <2>2
<1>10. QED
  BY <1>4, <1>6, <1>7, <1>8, <1>9

LEMMA SubEventOK ==
    ASSUME NEW msg \in Messages, NEW l, GetSubEvent(msg, l).is = "ok"
    PROVE  /\ KnownType(msg)
           /\ Nested(msg, GetSubEvent(msg, l).se.sub)
<1>1. CASE KnownType(msg) /\ msg.type = "exec_delegated"
  <2>1. msg.msgs \in Seq(MessagesWith({<<>>}))
    BY DEF Messages, MessagesWith
  <2>2. GetSubEvent(msg, l) = ExecSubEvent(msg, l)
    BY <1>1 DEF GetSubEvent
  <2>3. QED
    BY <1>1, <2>1, <2>2, ExecIsPrefix DEF Nested
<1>2. CASE ~(KnownType(msg) /\ msg.type = "exec_delegated")
  <2>1. GetSubEvent(msg, l) = PlainSubEvent(msg, l)
    BY <1>2 DEF GetSubEvent
  <2>2. QED
    BY <1>2, <2>1, PlainSubEventOK DEF Nested
<1>3. QED
  BY <1>1, <1>2

-----------------------------------------------------------------------------
(* How many of some places are up to n.                                    *)

Count(T, n) == Cardinality({j \in T : j <= n})

LEMMA PlacesAre ==
    ASSUME NEW m \in Nat, NEW T \in SUBSET (1..m)
    PROVE  \A j \in T : j \in 1..m /\ j \in Nat \ {0} /\ j - 1 \in Nat /\ j <= m
<1>1. \A j \in T : j \in 1..m
  OBVIOUS
<1>2. \A j \in 1..m : j \in Nat \ {0} /\ j - 1 \in Nat /\ j <= m
  OBVIOUS
<1>3. QED
  BY <1>1, <1>2

LEMMA FiniteOf ==
    ASSUME NEW m \in Nat, NEW T \in SUBSET (1..m)
    PROVE  IsFiniteSet(T) /\ Cardinality(T) \in Nat
<1>1. IsFiniteSet(1..m)
  BY FS_Interval
<1>2. IsFiniteSet(T)
  BY <1>1, FS_Subset
<1>3. QED
  BY <1>2, FS_CardinalityType

LEMMA CountType ==
    ASSUME NEW m \in Nat, NEW T \in SUBSET (1..m), NEW n \in Nat
    PROVE  Count(T, n) \in Nat
<1>1. {j \in T : j <= n} \in SUBSET (1..m)
  OBVIOUS
<1>2. QED
  BY <1>1, FiniteOf DEF Count

LEMMA CountNone ==
    ASSUME NEW m \in Nat, NEW T \in SUBSET (1..m)
    PROVE  Count(T, 0) = 0
<1>1. {j \in T : j <= 0} = {}
  <2>1. \A j \in T : ~(j <= 0)
    BY PlacesAre
  <2>2. QED
    BY <2>1
<1>2. QED
  BY <1>1, FS_EmptySet DEF Count

LEMMA CountAll ==
    ASSUME NEW m \in Nat, NEW T \in SUBSET (1..m)
    PROVE  Count(T, m) = Cardinality(T)
<1>1. {j \in T : j <= m} = T
  BY PlacesAre
<1>2. QED
  BY <1>1 DEF Count

LEMMA CountBefore ==
    ASSUME NEW m \in Nat, NEW T \in SUBSET (1..m), NEW i \in 1..m
    PROVE  Cardinality({j \in T : j < i}) = Count(T, i - 1)
<1>1. {j \in T : j < i} = {j \in T : j <= i - 1}
  <2>1. \A j \in T : j < i <=> j <= i - 1
    BY PlacesAre
  <2>2. QED
    BY <2>1
<1>2. QED
  BY <1>1 DEF Count

LEMMA CountNext ==
    ASSUME NEW m \in Nat, NEW T \in SUBSET (1..m), NEW n \in Nat \ {0}
    PROVE  Count(T, n) = IF n \in T THEN Count(T, n - 1) + 1 ELSE Count(T, n - 1)
<1> DEFINE S == {j \in T : j <= n - 1}
<1>1. IsFiniteSet(S) /\ n \notin S
  <2>1. S \in SUBSET (1..m)
    OBVIOUS
  <2>2. IsFiniteSet(S)
    BY <2>1, FiniteOf
  <2>3. ~(n <= n - 1)
    OBVIOUS
  <2>4. QED
    BY <2>2, <2>3
<1>2. {j \in T : j <= n} = IF n \in T THEN S \union {n} ELSE S
  <2>1. \A j \in T : j <= n <=> (j <= n - 1 \/ j = n)
    BY PlacesAre
  <2>2. QED
    BY <2>1
<1>3. Count(T, n - 1) = Cardinality(S)
  BY DEF Count
<1> HIDE DEF S
<1>4. Cardinality(S \union {n}) = Cardinality(S) + 1
  BY <1>1, FS_AddElement
<1>5. QED
  BY <1>2, <1>3, <1>4 DEF Count

LEMMA CountGrows ==
    ASSUME NEW m \in Nat, NEW T \in SUBSET (1..m), NEW a \in Nat, NEW b \in Nat, a <= b
    PROVE  Count(T, a) <= Count(T, b)
<1> DEFINE A == {j \in T : j <= a}
           B == {j \in T : j <= b}
<1>1. B \in SUBSET (1..m)
  OBVIOUS
<1>2. A \in SUBSET B
  <2>1. \A j \in T : j <= a => j <= b
    BY PlacesAre
  <2>2. QED
    BY <2>1
<1>3. Count(T, a) = Cardinality(A) /\ Count(T, b) = Cardinality(B)
  BY DEF Count
<1> HIDE DEF A, B
<1>4. IsFiniteSet(B)
  BY <1>1, FiniteOf
<1>5. QED
  BY <1>2, <1>3, <1>4, FS_Subset

(* A place counts for itself: no later one has its number.                 *)
LEMMA CountOf ==
    ASSUME NEW m \in Nat, NEW T \in SUBSET (1..m), NEW b \in T
    PROVE  /\ Count(T, b) = Count(T, b - 1) + 1
           /\ Count(T, b) \in 1..Cardinality(T)
           /\ \A a \in Nat : a < b => Count(T, a) < Count(T, b)
<1>1. b \in Nat \ {0} /\ b - 1 \in Nat /\ b <= m
  BY PlacesAre
<1>2. Count(T, b) = Count(T, b - 1) + 1
  BY <1>1, CountNext
<1>3. Count(T, b - 1) \in Nat /\ Count(T, b) \in Nat /\ Count(T, m) \in Nat
  BY <1>1, CountType
<1>4. Count(T, b) <= Count(T, m) /\ Count(T, m) = Cardinality(T)
  BY <1>1, CountGrows, CountAll
<1>5. ASSUME NEW a \in Nat, a < b
      PROVE  Count(T, a) < Count(T, b)
  <2>1. a <= b - 1
    BY <1>1, <1>5
  <2>2. Count(T, a) <= Count(T, b - 1) /\ Count(T, a) \in Nat
    BY <1>1, <2>1, CountGrows, CountType
  <2>3. QED
    BY <1>2, <1>3, <2>2
<1>6. QED
  BY <1>2, <1>3, <1>4, <1>5

(* Each number is that of a place.                                         *)
LEMMA CountHits ==
    ASSUME NEW m \in Nat, NEW T \in SUBSET (1..m), NEW k \in 1..Cardinality(T)
    PROVE  \E j \in T : Count(T, j) = k
<1> DEFINE S == {n \in Nat : k <= Count(T, n)}
<1>1. m \in S
  BY CountAll, FiniteOf
<1>2. PICK j \in S : \A n \in S : j <= n
  <2>1. S \subseteq Nat /\ S # {}
    BY <1>1
  <2> HIDE DEF S
  <2>2. QED
    BY <2>1, SubEvents!LeastOfNats
<1>3. j \in Nat /\ k <= Count(T, j)
  OBVIOUS
<1>4. j # 0
  BY <1>3, CountNone
<1>5. j - 1 \in Nat /\ ~(j <= j - 1)
  BY <1>3, <1>4
<1>6. ~(k <= Count(T, j - 1))
  BY <1>2, <1>5
<1>7. Count(T, j) = IF j \in T THEN Count(T, j - 1) + 1 ELSE Count(T, j - 1)
  BY <1>3, <1>4, CountNext
<1>8. Count(T, j - 1) \in Nat
  BY <1>5, CountType
<1>9. j \in T /\ Count(T, j) = k
  BY <1>3, <1>6, <1>7, <1>8
<1>10. QED
  BY <1>9

-----------------------------------------------------------------------------
(* The lists that are read of the attributes of an event.                  *)

Keyed(as, key) == {j \in DOMAIN as : as[j].key = key}

(* The list s has the values of the attributes up to n with this key.      *)
Lists(as, key, n, s) ==
    /\ IsSequence(s)
    /\ Len(s) = Count(Keyed(as, key), n)
    /\ \A j \in Keyed(as, key) : j <= n => s[Count(Keyed(as, key), j)] = as[j].value

ReadAttribute(as, lea, a) == AddAttribute(lea, a)
ListsSoFar(as, n, lea) ==
    Lists(as, "recipient", n, lea.recipient) /\ Lists(as, "amount", n, lea.amount)

Attribute == INSTANCE InductionRules WITH Pass <- ReadAttribute, Inv <- ListsSoFar

LEMMA AttributesByLoop == \A as : Attributes(as) = Attribute!Loop(as, NoAttributes, as)
  BY DEF Attributes, Attribute!Loop, Attribute!Reads, Attribute!Highest, ReadAttribute,
         Seqs!FoldLeft, Seqs!MapThenFoldSet, Seqs!Max

LEMMA EmptySequence == IsSequence(<<>>) /\ Len(<<>>) = 0
<1>1. <<>> \in Seq({}) /\ Len(<<>>) = 0
  OBVIOUS
<1>2. QED
  BY <1>1, SequenceOfSome

LEMMA NothingListed ==
    ASSUME NEW m \in Nat, NEW as, DOMAIN as = 1..m, NEW key
    PROVE  Lists(as, key, 0, <<>>)
<1>1. Keyed(as, key) \in SUBSET (1..m)
  BY DEF Keyed
<1>2. \A j \in Keyed(as, key) : ~(j <= 0)
  <2>1. \A j \in Keyed(as, key) : j \in Nat \ {0}
    BY <1>1, PlacesAre
  <2>2. \A j \in Nat \ {0} : ~(j <= 0)
    OBVIOUS
  <2>3. QED
    BY <2>1, <2>2
<1>3. Count(Keyed(as, key), 0) = 0
  BY <1>1, CountNone
<1>4. QED
  BY <1>2, <1>3, EmptySequence DEF Lists

LEMMA OneMoreListed ==
    ASSUME NEW m \in Nat, NEW as, DOMAIN as = 1..m, NEW key, NEW i \in 1..m,
           NEW s, Lists(as, key, i - 1, s)
    PROVE  Lists(as, key, i, IF as[i].key = key THEN Append(s, as[i].value) ELSE s)
<1> DEFINE T == Keyed(as, key)
           v == as[i].value
<1>1. T \in SUBSET (1..m) /\ (i \in T <=> as[i].key = key)
  BY DEF Keyed
<1> HIDE DEF T
<1>2. i \in Nat \ {0} /\ i - 1 \in Nat
  OBVIOUS
<1>3. Count(T, i) = IF i \in T THEN Count(T, i - 1) + 1 ELSE Count(T, i - 1)
  BY <1>1, <1>2, CountNext
<1>4. /\ IsSequence(s) /\ Len(s) = Count(T, i - 1)
      /\ \A j \in T : j <= i - 1 => s[Count(T, j)] = as[j].value
  BY DEF Lists, T
<1>5. \A j \in T : j <= i <=> (j <= i - 1 \/ j = i)
  BY <1>1, <1>2, PlacesAre
<1>6. CASE i \notin T
  <2>1. \A j \in T : j <= i => j <= i - 1
    BY <1>5, <1>6
  <2>2. Lists(as, key, i, s)
    BY <1>3, <1>4, <1>6, <2>1 DEF Lists, T
  <2>3. QED
    BY <1>1, <1>6, <2>2
<1>7. CASE i \in T
  <2> DEFINE t == Append(s, v)
  <2>1. /\ IsSequence(t) /\ Len(t) = Len(s) + 1
        /\ \A k \in 1..Len(s) : t[k] = s[k]
        /\ t[Len(s) + 1] = v
    BY <1>4, Appended
  <2>2. Len(s) \in Nat
    BY <1>4, LengthOfSequence
  <2> HIDE DEF t
  <2>3. Len(t) = Count(T, i)
    <3>1. Count(T, i) = Count(T, i - 1) + 1
      BY <1>3, <1>7
    <3>2. QED
      BY <1>4, <2>1, <3>1
  <2>4. ASSUME NEW j \in T, j <= i
        PROVE  t[Count(T, j)] = as[j].value
    <3>1. CASE j = i
      <4>1. Count(T, j) = Len(s) + 1
        BY <1>3, <1>4, <1>7, <3>1
      <4>2. QED
        BY <2>1, <3>1, <4>1 DEF v
    <3>2. CASE j <= i - 1
      <4>1. j \in Nat /\ Count(T, j) \in 1..Cardinality(T)
        BY <1>1, CountOf, PlacesAre
      <4>2. Count(T, j) <= Count(T, i - 1)
        BY <1>1, <1>2, <3>2, <4>1, CountGrows
      <4>3. Count(T, j) \in 1..Len(s)
        BY <1>4, <2>2, <4>1, <4>2
      <4>4. QED
        BY <1>4, <2>1, <3>2, <4>3
    <3>3. QED
      BY <1>5, <2>4, <3>1, <3>2
  <2>5. Lists(as, key, i, t)
    BY <2>1, <2>3, <2>4 DEF Lists, T
  <2>6. QED
    BY <1>1, <1>7, <2>5 DEF t
<1>8. QED
  BY <1>6, <1>7

(* Where every attribute has its value, the lists have the values that     *)
(* were written, each in its place.                                        *)
LEMMA AttributesAreRead ==
    ASSUME NEW m \in Nat, NEW as, DOMAIN as = 1..m, \A i \in 1..m : Has(as[i], "value")
    PROVE  ListsSoFar(as, m, Attributes(as))
<1>1. ListsSoFar(as, 0, NoAttributes)
  BY NothingListed DEF ListsSoFar, NoAttributes
<1>2. ASSUME NEW i \in 1..m, NEW lea, ListsSoFar(as, i - 1, lea)
      PROVE  ListsSoFar(as, i, AddAttribute(lea, as[i]))
  <2> DEFINE more == AddAttribute(lea, as[i])
  <2>1. /\ more.recipient = IF as[i].key = "recipient" THEN Append(lea.recipient, as[i].value)
                            ELSE lea.recipient
        /\ more.amount = IF as[i].key = "amount" THEN Append(lea.amount, as[i].value)
                         ELSE lea.amount
    BY DEF AddAttribute
  <2> HIDE DEF more
  <2>2. Lists(as, "recipient", i, more.recipient) /\ Lists(as, "amount", i, more.amount)
    BY <1>2, <2>1, OneMoreListed DEF ListsSoFar
  <2>3. QED
    BY <2>2 DEF ListsSoFar, more
<1>3. ListsSoFar(as, m, Attribute!Loop(as, NoAttributes, as))
  BY <1>1, <1>2, Attribute!LoopRule DEF ReadAttribute
<1>4. QED
  BY <1>3, AttributesByLoop

-----------------------------------------------------------------------------
(* The transfers of a log entry.                                           *)

EntryKnown(e) == \A n \in DOMAIN e.events : Has(e.events[n], "attributes") => AmountsKnown(e.events[n])

(* The places up to the k-th recipient of the n-th event.                  *)
UpTo(e, skip, n, k) ==
    {p \in Places(e, skip) :
        \/ p[1] < n
        \/ p[1] = n /\ Count(Values(e.events[n], "recipient"), p[2]) <= k}

(* The transfers are those of the places in D.                             *)
Got(e, D, transfers) ==
    /\ IsSequence(transfers) /\ IsFiniteSet(D)
    /\ Len(transfers) = Cardinality(D)
    /\ \A p \in D : GivesOne(transfers[Cardinality({q \in D : Before(q, p)}) + 1],
                             e.events[p[1]], p[2])

(* So far the loops got them, or failed with an error, at an amount that   *)
(* has several points.                                                     *)
SoFar(e, skip, D, done) ==
    /\ done = [is |-> done.is, transfers |-> done.transfers]
    /\ done.is \in {"ok", "error"}
    /\ done.is = "ok" => Got(e, D, done.transfers)
    /\ done.is = "error" => HasPoints(e, skip)

(* The place p comes after those in D.                                     *)
Follows(p, D) ==
    /\ p \notin D
    /\ \A q \in D : Before(q, p) /\ ~Before(p, q)
    /\ \A q \in D \union {p} : ~Before(q, q)

LEMMA GotOneMore ==
    ASSUME NEW e, NEW D, NEW ts, Got(e, D, ts), NEW p, Follows(p, D), NEW t, GivesOne(t, e.events[p[1]], p[2])
    PROVE  Got(e, D \union {p}, Append(ts, t))
<1> DEFINE more == Append(ts, t)
           Rank(q) == Cardinality({r \in D : Before(r, q)}) + 1
           RankOf(q) == Cardinality({r \in D \union {p} : Before(r, q)}) + 1
<1>1. /\ IsSequence(ts) /\ IsFiniteSet(D) /\ Len(ts) = Cardinality(D) /\ Cardinality(D) \in Nat
      /\ \A q \in D : GivesOne(ts[Rank(q)], e.events[q[1]], q[2])
  BY FS_CardinalityType DEF Got
<1>2. /\ IsSequence(more) /\ Len(more) = Len(ts) + 1
      /\ \A i \in 1..Len(ts) : more[i] = ts[i]
      /\ more[Len(ts) + 1] = t
  BY <1>1, Appended
<1> HIDE DEF more
<1>3. IsFiniteSet(D \union {p}) /\ Cardinality(D \union {p}) = Cardinality(D) + 1
  BY <1>1, FS_AddElement DEF Follows
<1>4. RankOf(p) = Cardinality(D) + 1
  <2>1. {r \in D \union {p} : Before(r, p)} = D
    BY DEF Follows
  <2>2. QED
    BY <2>1
<1>5. ASSUME NEW q \in D
      PROVE  RankOf(q) = Rank(q) /\ Rank(q) \in 1..Len(ts)
  <2> DEFINE S == {r \in D : Before(r, q)}
  <2>1. {r \in D \union {p} : Before(r, q)} = S
    BY DEF Follows
  <2>2. S \in SUBSET D /\ S # D
    BY DEF Follows
  <2> HIDE DEF S
  <2>3. IsFiniteSet(S) /\ Cardinality(S) <= Cardinality(D) /\ Cardinality(S) # Cardinality(D)
    BY <1>1, <2>2, FS_Subset
  <2>4. Cardinality(S) \in Nat
    BY <2>3, FS_CardinalityType
  <2>5. Cardinality(S) + 1 \in 1..Len(ts)
    BY <1>1, <2>3, <2>4
  <2>6. QED
    BY <2>1, <2>5 DEF S
<1> HIDE DEF Rank
<1>6. ASSUME NEW q \in D \union {p}
      PROVE  GivesOne(more[RankOf(q)], e.events[q[1]], q[2])
  <2>1. CASE q = p
    <3>1. more[RankOf(q)] = t
      BY <1>1, <1>2, <1>4, <2>1
    <3>2. QED
      BY <2>1, <3>1
  <2>2. CASE q \in D
    <3>1. more[RankOf(q)] = ts[Rank(q)]
      BY <1>2, <1>5, <2>2
    <3>2. QED
      BY <1>1, <2>2, <3>1
  <2>3. QED
    BY <2>1, <2>2
<1>7. Got(e, D \union {p}, more)
  BY <1>1, <1>2, <1>3, <1>6 DEF Got
<1>8. QED
  BY <1>7 DEF more

LEMMA EntryFields ==
    ASSUME NEW e \in NodeEntries
    PROVE  /\ e.events \in Seq(NodeEvents) /\ DOMAIN e.events = 1..Len(e.events)
           /\ Len(e.events) \in Nat
           /\ Transfers(e) \in SUBSET (1..Len(e.events))
<1>1. e.events \in Seq(NodeEvents)
  BY DEF NodeEntries
<1>2. QED
  BY <1>1 DEF Transfers

LEMMA EventFields ==
    ASSUME NEW ev \in NodeEvents, Has(ev, "attributes")
    PROVE  /\ ev.attributes \in Seq(NodeAttributes)
           /\ DOMAIN ev.attributes = 1..Len(ev.attributes) /\ Len(ev.attributes) \in Nat
           /\ \A key : Values(ev, key) \in SUBSET (1..Len(ev.attributes))
           /\ \A key : Values(ev, key) = Keyed(ev.attributes, key)
<1>1. ev.attributes \in Seq(NodeAttributes)
  <2>1. ev \in [type : STRING, attributes : Seq(NodeAttributes)] \/ ev \in [type : STRING]
    BY DEF NodeEvents
  <2>2. ev \notin [type : STRING]
    BY DEF Has
  <2>3. QED
    BY <2>1, <2>2
<1>2. DOMAIN ev.attributes = 1..Len(ev.attributes) /\ Len(ev.attributes) \in Nat
  BY <1>1
<1>3. \A key : Values(ev, key) \in SUBSET (1..Len(ev.attributes))
  <2>1. TAKE key
  <2>2. Values(ev, key) \in SUBSET (DOMAIN ev.attributes)
    BY DEF Values
  <2>3. QED
    BY <1>2, <2>2
<1>4. \A key : Values(ev, key) = Keyed(ev.attributes, key)
  BY DEF Values, Keyed
<1>5. QED
  BY <1>1, <1>2, <1>3, <1>4

LEMMA InPlaces ==
    ASSUME NEW e, NEW skip
    PROVE  /\ \A p \in Places(e, skip) :
                 /\ p = <<p[1], p[2]>>
                 /\ p[1] \in Transfers(e) /\ p[2] \in Recipients(e.events[p[1]], skip)
           /\ \A n \in Transfers(e) : \A i \in Recipients(e.events[n], skip) :
                 <<n, i>> \in Places(e, skip)
<1>1. ASSUME NEW p \in Places(e, skip)
      PROVE  /\ p = <<p[1], p[2]>>
             /\ p[1] \in Transfers(e) /\ p[2] \in Recipients(e.events[p[1]], skip)
  <2>1. PICK n \in Transfers(e) : p \in {n} \X Recipients(e.events[n], skip)
    BY DEF Places
  <2>2. QED
    BY <2>1
<1>2. ASSUME NEW n \in Transfers(e), NEW i \in Recipients(e.events[n], skip)
      PROVE  <<n, i>> \in Places(e, skip)
  <2>1. <<n, i>> \in {n} \X Recipients(e.events[n], skip)
    OBVIOUS
  <2>2. QED
    BY <2>1 DEF Places
<1>3. QED
  BY <1>1, <1>2

LEMMA PlaceNumbers ==
    ASSUME NEW e \in NodeEntries, WellFormedEntry(e), NEW skip, NEW p \in Places(e, skip)
    PROVE  /\ p[1] \in 1..Len(e.events) /\ p[1] \in Nat
           /\ p[2] \in Values(e.events[p[1]], "recipient") /\ p[2] \in Nat \ {0}
           /\ p = <<p[1], p[2]>>
           /\ Count(Values(e.events[p[1]], "recipient"), p[2]) \in Nat \ {0}
<1> DEFINE ev == e.events[p[1]]
<1>1. p = <<p[1], p[2]>> /\ p[1] \in Transfers(e) /\ p[2] \in Recipients(ev, skip)
  BY InPlaces
<1>2. p[1] \in 1..Len(e.events) /\ ev \in NodeEvents /\ p[1] \in Nat
  BY <1>1, EntryFields
<1>3. Has(ev, "attributes")
  BY <1>1 DEF WellFormedEntry, WellFormed
<1>4. p[2] \in Values(ev, "recipient")
  BY <1>1 DEF Recipients
<1> DEFINE T == Values(ev, "recipient")
           m == Len(ev.attributes)
<1>5. T \in SUBSET (1..m) /\ m \in Nat
  BY <1>2, <1>3, EventFields
<1> HIDE DEF T, m
<1>6. p[2] \in T
  BY <1>4 DEF T
<1>7. Count(T, p[2]) \in 1..Cardinality(T)
  BY <1>5, <1>6, CountOf
<1>8. p[2] \in Nat \ {0}
  <2>1. p[2] \in 1..m
    BY <1>5, <1>6
  <2>2. QED
    BY <1>5, <2>1
<1>9. Cardinality(T) \in Nat
  BY <1>5, FiniteOf
<1>10. Count(T, p[2]) \in Nat \ {0}
  BY <1>7, <1>9
<1>11. QED
  BY <1>1, <1>2, <1>4, <1>8, <1>10 DEF T

LEMMA OrderOfPlaces ==
    ASSUME NEW e \in NodeEntries, WellFormedEntry(e), NEW skip
    PROVE  /\ \A p \in Places(e, skip) : ~Before(p, p)
           /\ \A p, q \in Places(e, skip) : Before(p, q) => ~Before(q, p)
  BY PlaceNumbers DEF Before

LEMMA CoinDenotes ==
    ASSUME NEW t, IsText(t), t.form \in {"plain", "point"}
    PROVE  Denotes(Coin(t), t)
<1>1. CASE t.form = "plain"
  <2>1. Coin(t) = Number(t.int, 0)
    BY <1>1 DEF Coin
  <2>2. QED
    BY <1>1, <2>1, PlainDenotes
<1>2. CASE t.form = "point"
  <2>1. Coin(t) = Number(Digits(t), t.places)
    BY <1>2 DEF Coin
  <2>2. QED
    BY <2>1, DigitsDenote
<1>3. QED
  BY <1>1, <1>2

(* Where the event is well-formed, the amount after a recipient has its    *)
(* number in its own list.                                                 *)
LEMMA AmountOfRecipient ==
    ASSUME NEW ev \in NodeEvents, WellFormed(ev),
           NEW i \in Values(ev, "recipient"), NEW j, IsAmountAfter(ev, i, j)
    PROVE  Count(Values(ev, "amount"), j) = Count(Values(ev, "recipient"), i)
<1> DEFINE m == Len(ev.attributes)
           R == Values(ev, "recipient")
           T == Values(ev, "amount")
<1>1. m \in Nat /\ R \in SUBSET (1..m) /\ T \in SUBSET (1..m)
  BY EventFields DEF WellFormed
<1>2. i \notin T
  BY DEF Values
<1>3. Cardinality({a \in T : a < i}) = Cardinality({r \in R : r < i})
  BY DEF WellFormed
<1>4. j \in T /\ j > i /\ \A a \in T : a > i => j <= a
  BY DEF IsAmountAfter
<1> HIDE DEF m, R, T
<1>5. i \in R
  BY DEF R
<1>6. i \in 1..m /\ i \in Nat \ {0} /\ i - 1 \in Nat /\ j \in 1..m /\ j \in Nat \ {0} /\ j - 1 \in Nat
  BY <1>1, <1>4, <1>5, PlacesAre
<1>7. Count(T, i - 1) = Count(R, i - 1)
  BY <1>1, <1>3, <1>6, CountBefore
<1>8. Count(T, j - 1) = Count(T, i - 1)
  <2>1. ASSUME NEW a \in T
        PROVE  a <= j - 1 <=> a <= i - 1
    <3>1. a \in Nat /\ a # i /\ (a > i => j <= a)
      BY <1>1, <1>2, <1>4, PlacesAre
    <3>2. QED
      BY <1>4, <1>6, <3>1
  <2>2. {a \in T : a <= j - 1} = {a \in T : a <= i - 1}
    BY <2>1
  <2>3. QED
    BY <2>2 DEF Count
<1>9. Count(T, j) = Count(T, j - 1) + 1 /\ Count(R, i) = Count(R, i - 1) + 1
  BY <1>1, <1>4, <1>5, CountOf
<1>10. QED
  BY <1>7, <1>8, <1>9 DEF R, T

(* The lists of a well-formed event.                                       *)
LEMMA ListsOfEvent ==
    ASSUME NEW ev \in NodeEvents, WellFormed(ev)
    PROVE  LET attr == Attributes(ev.attributes)
               R    == Values(ev, "recipient")
               T    == Values(ev, "amount")
           IN  /\ IsSequence(attr.recipient)
               /\ Len(attr.recipient) = Cardinality(R) /\ Len(attr.amount) = Cardinality(R)
               /\ Cardinality(R) \in Nat
               /\ \A j \in R : attr.recipient[Count(R, j)] = ev.attributes[j].value
               /\ \A j \in T : attr.amount[Count(T, j)] = ev.attributes[j].value
<1> DEFINE as == ev.attributes
           m == Len(as)
           attr == Attributes(as)
           R == Values(ev, "recipient")
           T == Values(ev, "amount")
<1>1. /\ m \in Nat /\ DOMAIN as = 1..m /\ R \in SUBSET (1..m) /\ T \in SUBSET (1..m)
      /\ R = Keyed(as, "recipient") /\ T = Keyed(as, "amount")
  BY EventFields DEF WellFormed
<1>2. \A i \in 1..m : Has(as[i], "value")
  BY <1>1 DEF WellFormed
<1>3. Cardinality(T) = Cardinality(R)
  BY DEF WellFormed
<1> HIDE DEF as, m, attr, R, T
<1>4. ListsSoFar(as, m, attr)
  BY <1>1, <1>2, AttributesAreRead DEF attr
<1>5. Count(R, m) = Cardinality(R) /\ Count(T, m) = Cardinality(T) /\ Cardinality(R) \in Nat
  BY <1>1, CountAll, FiniteOf
<1>6. \A j \in R \union T : j <= m
  BY <1>1, PlacesAre
<1>7. /\ IsSequence(attr.recipient) /\ Len(attr.recipient) = Count(R, m)
      /\ \A j \in R : j <= m => attr.recipient[Count(R, j)] = as[j].value
      /\ Len(attr.amount) = Count(T, m)
      /\ \A j \in T : j <= m => attr.amount[Count(T, j)] = as[j].value
  BY <1>1, <1>4 DEF ListsSoFar, Lists
<1>8. QED
  BY <1>3, <1>5, <1>6, <1>7 DEF as, attr, R, T

(* A recipient has an amount after it, which is the text that is read.     *)
LEMMA AmountIsRead ==
    ASSUME NEW ev \in NodeEvents, WellFormed(ev), NEW i \in Values(ev, "recipient"), NEW texts,
           texts = AmountTexts[Attributes(ev.attributes).amount[Count(Values(ev, "recipient"), i)]]
    PROVE  \E j \in DOMAIN ev.attributes :
              IsAmountAfter(ev, i, j) /\ AmountTexts[ev.attributes[j].value] = texts
<1> DEFINE m == Len(ev.attributes)
           R == Values(ev, "recipient")
           T == Values(ev, "amount")
           after == {a \in T : a > i}
<1>1. m \in Nat /\ R \in SUBSET (1..m) /\ T \in SUBSET (1..m) /\ DOMAIN ev.attributes = 1..m
  BY EventFields DEF WellFormed
<1>2. i \notin T /\ i \in R
  BY DEF Values
<1>3. /\ Cardinality({a \in T : a < i}) = Cardinality({r \in R : r < i})
      /\ Cardinality(T) = Cardinality(R)
  BY DEF WellFormed
<1> HIDE DEF m, R, T
<1>4. i \in 1..m /\ i \in Nat \ {0} /\ i - 1 \in Nat
  BY <1>1, <1>2, PlacesAre
<1>5. after # {}
  <2>1. SUFFICES ASSUME after = {} PROVE FALSE
    OBVIOUS
  <2>2. \A a \in T : a < i
    <3>1. TAKE a \in T
    <3>2. a \in Nat /\ a # i /\ ~(a > i)
      BY <1>1, <1>2, <2>1, PlacesAre
    <3>3. QED
      BY <1>4, <3>2
  <2>3. {a \in T : a < i} = T
    BY <2>2
  <2>4. {r \in R : r < i} \in SUBSET R /\ {r \in R : r < i} # R
    BY <1>2, <1>4
  <2>5. IsFiniteSet(R)
    BY <1>1, FiniteOf
  <2>6. Cardinality({r \in R : r < i}) # Cardinality(R)
    BY <2>4, <2>5, FS_Subset
  <2>7. QED
    BY <1>3, <2>3, <2>6
<1>6. after \subseteq Nat
  BY <1>1, PlacesAre
<1>7. PICK j \in after : \A a \in after : j <= a
  <2> HIDE DEF after
  <2>1. QED
    BY <1>5, <1>6, SubEvents!LeastOfNats
<1>8. IsAmountAfter(ev, i, j) /\ j \in T
  BY <1>7 DEF IsAmountAfter, T
<1>9. Count(T, j) = Count(R, i)
  BY <1>8, AmountOfRecipient DEF R, T
<1>10. Attributes(ev.attributes).amount[Count(T, j)] = ev.attributes[j].value
  BY <1>8, ListsOfEvent DEF T
<1>11. j \in DOMAIN ev.attributes
  BY <1>1, <1>8
<1>12. QED
  BY <1>8, <1>9, <1>10, <1>11 DEF R

LEMMA OneGiven ==
    ASSUME NEW ev \in NodeEvents, WellFormed(ev), AmountsKnown(ev),
           NEW i \in Values(ev, "recipient"), NEW texts,
           texts = AmountTexts[Attributes(ev.attributes).amount[Count(Values(ev, "recipient"), i)]]
    PROVE  GivesOne([to |-> ev.attributes[i].value, amounts |-> [k \in DOMAIN texts |-> Coin(texts[k])]],
                    ev, i)
<1> DEFINE t == [to |-> ev.attributes[i].value, amounts |-> [k \in DOMAIN texts |-> Coin(texts[k])]]
<1>1. t.to = ev.attributes[i].value /\ t.amounts = [k \in DOMAIN texts |-> Coin(texts[k])]
  OBVIOUS
<1> HIDE DEF t
<1>2. ASSUME NEW j \in DOMAIN ev.attributes, IsAmountAfter(ev, i, j)
      PROVE  /\ AmountTexts[ev.attributes[j].value] = texts
             /\ \A k \in DOMAIN texts : IsText(texts[k])
  <2>1. Count(Values(ev, "amount"), j) = Count(Values(ev, "recipient"), i)
    BY <1>2, AmountOfRecipient
  <2>2. j \in Values(ev, "amount")
    BY <1>2 DEF IsAmountAfter
  <2>3. Attributes(ev.attributes).amount[Count(Values(ev, "amount"), j)] = ev.attributes[j].value
    BY <2>2, ListsOfEvent
  <2>4. texts = AmountTexts[ev.attributes[j].value]
    BY <2>1, <2>3
  <2>5. ev.attributes[j].key = "amount" /\ Has(ev.attributes[j], "value")
    BY <2>2 DEF Values, WellFormed
  <2>6. ev.attributes[j].value \in DOMAIN AmountTexts
    BY <2>5 DEF AmountsKnown
  <2>7. QED
    BY <2>4, <2>6, MappersAssumption
<1>3. ASSUME NEW k \in DOMAIN texts, IsText(texts[k]), texts[k].form \in {"plain", "point"}
      PROVE  Denotes(t.amounts[k], texts[k])
  BY <1>1, <1>3, CoinDenotes
<1>4. DOMAIN t.amounts = DOMAIN texts
  BY <1>1
<1>5. GivesOne(t, ev, i)
  BY <1>1, <1>2, <1>3, <1>4 DEF GivesOne
<1>6. QED
  BY <1>5 DEF t

(* The next recipient: its place p is the next after those in D, unless it *)
(* is passed over.                                                         *)
NextIs(p, value, skip, D, upTo) ==
    /\ value = skip => upTo = D
    /\ value # skip => upTo = D \union {p} /\ Follows(p, D)

LEMMA NextPlace ==
    ASSUME NEW e \in NodeEntries, WellFormedEntry(e), NEW skip, NEW n \in Transfers(e),
           NEW j \in Values(e.events[n], "recipient"), NEW k \in Nat,
           k = Count(Values(e.events[n], "recipient"), j),
           NEW p, p = <<n, j>>, NEW D, D = UpTo(e, skip, n, k - 1)
    PROVE  NextIs(p, e.events[n].attributes[j].value, skip, D, UpTo(e, skip, n, k))
<1> DEFINE ev == e.events[n]
           R == Values(ev, "recipient")
           m == Len(ev.attributes)
           P == Places(e, skip)
<1>1. n \in Nat /\ ev \in NodeEvents /\ Has(ev, "attributes")
  BY EntryFields DEF WellFormedEntry, WellFormed
<1>2. m \in Nat /\ R \in SUBSET (1..m)
  BY <1>1, EventFields
<1>3. \A q \in P : /\ q[1] \in Nat /\ q[2] \in Nat \ {0} /\ q = <<q[1], q[2]>>
                   /\ q[1] = n => q[2] \in R
  BY PlaceNumbers
<1>4. \A q \in P : ~Before(q, q)
  BY OrderOfPlaces
<1>5. ev.attributes[j].value # skip <=> p \in P
  <2>1. ev.attributes[j].value # skip <=> j \in Recipients(ev, skip)
    BY DEF Recipients
  <2>2. p \in P <=> j \in Recipients(ev, skip)
    BY InPlaces
  <2>3. QED
    BY <2>1, <2>2
<1>6. /\ UpTo(e, skip, n, k) = {q \in P : q[1] < n \/ (q[1] = n /\ Count(R, q[2]) <= k)}
      /\ D = {q \in P : q[1] < n \/ (q[1] = n /\ Count(R, q[2]) <= k - 1)}
  BY DEF UpTo
<1> HIDE DEF ev, R, m, P
<1>7. j \in R /\ k = Count(R, j)
  BY DEF R, ev
<1>8. j \in Nat \ {0} /\ k \in Nat
  <2>1. j \in Nat \ {0}
    BY <1>2, <1>7, PlacesAre
  <2>2. QED
    BY <1>2, <1>7, <2>1, CountType
<1>9. ASSUME NEW i \in R
      PROVE  /\ i \in Nat \ {0} /\ Count(R, i) \in Nat
             /\ i < j <=> Count(R, i) < k
             /\ i = j <=> Count(R, i) = k
  <2>1. i \in Nat \ {0} /\ Count(R, i) \in Nat
    <3>1. i \in Nat \ {0}
      BY <1>2, PlacesAre
    <3>2. QED
      BY <1>2, <3>1, CountType
  <2>2. i < j => Count(R, i) < k
    BY <1>2, <1>7, <2>1, CountOf
  <2>3. j < i => k < Count(R, i)
    BY <1>2, <1>7, <1>8, CountOf
  <2>4. QED
    BY <1>7, <1>8, <2>1, <2>2, <2>3
<1>10. ASSUME NEW q \in P
       PROVE  /\ q[1] = n => (Count(R, q[2]) <= k <=> (Count(R, q[2]) <= k - 1 \/ q = p))
              /\ q[1] = n => (Count(R, q[2]) <= k - 1 <=> q[2] < j)
  <2>1. SUFFICES ASSUME q[1] = n
                 PROVE  /\ Count(R, q[2]) <= k <=> (Count(R, q[2]) <= k - 1 \/ q = p)
                        /\ Count(R, q[2]) <= k - 1 <=> q[2] < j
    OBVIOUS
  <2>2. q[2] \in R /\ q = <<n, q[2]>>
    BY <1>3, <2>1
  <2>3. q = p <=> q[2] = j
    BY <2>2
  <2>4. /\ Count(R, q[2]) \in Nat /\ (q[2] < j <=> Count(R, q[2]) < k)
        /\ q[2] = j <=> Count(R, q[2]) = k
    BY <1>9, <2>2
  <2>5. QED
    BY <1>8, <2>3, <2>4
<1>11. p[1] = n /\ p[2] = j
  OBVIOUS
<1>12. CASE ev.attributes[j].value = skip
  <2>1. p \notin P
    BY <1>5, <1>12
  <2>2. UpTo(e, skip, n, k) = D
    BY <1>6, <1>10, <2>1
  <2>3. QED
    BY <1>12, <2>2 DEF ev, NextIs
<1>13. CASE ev.attributes[j].value # skip
  <2>1. p \in P
    BY <1>5, <1>13
  <2>2. UpTo(e, skip, n, k) = D \union {p}
    <3>1. Count(R, p[2]) <= k
      BY <1>7, <1>8, <1>11
    <3>2. QED
      BY <1>6, <1>10, <1>11, <2>1, <3>1
  <2>3. \A q \in D : q \in P /\ (q[1] < n \/ (q[1] = n /\ q[2] < j))
    BY <1>6, <1>10
  <2>4. p \notin D
    BY <1>8, <1>11, <1>1, <2>3
  <2>5. \A q \in D : Before(q, p) /\ ~Before(p, q)
    <3>1. TAKE q \in D
    <3>2. q[1] \in Nat /\ q[2] \in Nat
      BY <1>3, <2>3
    <3>3. QED
      BY <1>1, <1>8, <1>11, <2>3, <3>2 DEF Before
  <2>6. \A q \in D \union {p} : ~Before(q, q)
    BY <1>4, <2>1, <2>3
  <2>7. QED
    BY <1>13, <2>2, <2>4, <2>5, <2>6 DEF ev, Follows, NextIs
<1>14. QED
  BY <1>12, <1>13 DEF ev

LEMMA OneRecipient ==
    ASSUME NEW e \in NodeEntries, WellFormedEntry(e), EntryKnown(e), NEW skip,
           NEW n \in Transfers(e), NEW attr, attr = Attributes(e.events[n].attributes),
           NEW k \in 1..Len(attr.recipient),
           NEW done, SoFar(e, skip, UpTo(e, skip, n, k - 1), done)
    PROVE  SoFar(e, skip, UpTo(e, skip, n, k), AddTransfer(attr, skip, done, k))
<1> DEFINE ev == e.events[n]
           R == Values(ev, "recipient")
           D == UpTo(e, skip, n, k - 1)
           texts == AmountTexts[attr.amount[k]]
<1>1. ev \in NodeEvents /\ WellFormed(ev) /\ AmountsKnown(ev)
  <2>1. ev \in NodeEvents /\ n \in DOMAIN e.events
    BY EntryFields
  <2>2. WellFormed(ev)
    BY DEF WellFormedEntry
  <2>3. AmountsKnown(ev)
    BY <2>1, <2>2 DEF WellFormed, EntryKnown
  <2>4. QED
    BY <2>1, <2>2, <2>3
<1>2. /\ Len(attr.recipient) = Cardinality(R) /\ Len(attr.amount) = Cardinality(R)
      /\ Cardinality(R) \in Nat
      /\ \A j \in R : attr.recipient[Count(R, j)] = ev.attributes[j].value
  BY <1>1, ListsOfEvent
<1>3. PICK j \in R : Count(R, j) = k
  <2>1. Len(ev.attributes) \in Nat /\ R \in SUBSET (1..Len(ev.attributes))
    BY <1>1, EventFields DEF WellFormed
  <2>2. k \in 1..Cardinality(R)
    BY <1>2
  <2> HIDE DEF R
  <2>3. QED
    BY <2>1, <2>2, CountHits
<1>4. attr.recipient[k] = ev.attributes[j].value
  BY <1>2, <1>3
<1>5. ~(Len(attr.amount) < k - 1) /\ ~(Len(attr.amount) < k)
  BY <1>2
<1>6. /\ done = [is |-> done.is, transfers |-> done.transfers]
      /\ done.is \in {"ok", "error"}
      /\ done.is = "ok" => Got(e, D, done.transfers)
      /\ done.is = "error" => HasPoints(e, skip)
  BY DEF SoFar
<1> HIDE DEF D
<1> DEFINE p == <<n, j>>
<1>7. /\ attr.recipient[k] = skip => UpTo(e, skip, n, k) = D
      /\ attr.recipient[k] # skip =>
            UpTo(e, skip, n, k) = D \union {p} /\ Follows(p, D)
  <2>1. D = UpTo(e, skip, n, k - 1)
    BY DEF D
  <2>2. p = <<n, j>>
    OBVIOUS
  <2>3. /\ k = Count(Values(e.events[n], "recipient"), j) /\ k \in Nat
        /\ j \in Values(e.events[n], "recipient")
    BY <1>3
  <2> HIDE DEF p, ev
  <2>4. WellFormedEntry(e) /\ e \in NodeEntries /\ n \in Transfers(e)
    OBVIOUS
  <2>5. NextIs(p, e.events[n].attributes[j].value, skip, D, UpTo(e, skip, n, k))
    BY <2>1, <2>2, <2>3, <2>4, NextPlace
  <2>6. QED
    BY <1>4, <2>5 DEF ev, NextIs
<1>8. CASE done.is # "ok"
  <2>1. AddTransfer(attr, skip, done, k) = done
    BY <1>8 DEF AddTransfer
  <2>2. QED
    BY <1>6, <1>8, <2>1 DEF SoFar
<1>9. CASE done.is = "ok" /\ attr.recipient[k] = skip
  <2>1. AddTransfer(attr, skip, done, k) = done
    BY <1>9 DEF AddTransfer
  <2>2. UpTo(e, skip, n, k) = D
    BY <1>7, <1>9
  <2>3. QED
    BY <2>1, <2>2 DEF D
<1>10. CASE done.is = "ok" /\ attr.recipient[k] # skip /\ \E i \in DOMAIN texts : ~GetsCoin(texts[i])
  <2>1. AddTransfer(attr, skip, done, k) = [done EXCEPT !.is = "error"]
    BY <1>5, <1>10 DEF AddTransfer
  <2>2. [done EXCEPT !.is = "error"] = [is |-> "error", transfers |-> done.transfers]
    BY <1>6
  <2>3. p \in Places(e, skip) /\ p[1] = n /\ p[2] = j
    BY <1>7, <1>10 DEF UpTo
  <2>4. PICK a \in DOMAIN ev.attributes :
           IsAmountAfter(ev, j, a) /\ AmountTexts[ev.attributes[a].value] = texts
    BY <1>1, <1>3, AmountIsRead
  <2>5. \E t \in Seqs!ToSet(texts) : t.form = "points"
    BY <1>10 DEF GetsCoin, Seqs!ToSet
  <2> HIDE DEF p, texts
  <2>6. HasPoints(e, skip)
    BY <2>3, <2>4, <2>5 DEF HasPoints
  <2>7. QED
    BY <2>1, <2>2, <2>6 DEF SoFar
<1>11. CASE done.is = "ok" /\ attr.recipient[k] # skip /\ ~\E i \in DOMAIN texts : ~GetsCoin(texts[i])
  <2> DEFINE t == [to |-> ev.attributes[j].value, amounts |-> [i \in DOMAIN texts |-> Coin(texts[i])]]
             ts == done.transfers
  <2>1. AddTransfer(attr, skip, done, k) = [done EXCEPT !.transfers = Append(@, t)]
    BY <1>4, <1>5, <1>11 DEF AddTransfer
  <2>2. [done EXCEPT !.transfers = Append(@, t)] = [is |-> "ok", transfers |-> Append(ts, t)]
    <3> DEFINE more == Append(ts, t)
    <3>1. [done EXCEPT !.transfers = Append(@, t)] = [done EXCEPT !.transfers = more]
      OBVIOUS
    <3>2. done = [is |-> "ok", transfers |-> ts]
      BY <1>6, <1>11
    <3> HIDE DEF more, ts
    <3>3. [done EXCEPT !.transfers = more] = [is |-> "ok", transfers |-> more]
      BY <3>2
    <3>4. QED
      BY <3>1, <3>3 DEF more
  <2>3. GivesOne(t, ev, j)
    BY <1>1, <1>3, OneGiven
  <2>4. UpTo(e, skip, n, k) = D \union {p} /\ Follows(p, D)
    BY <1>7, <1>11
  <2>5. p[1] = n /\ p[2] = j
    OBVIOUS
  <2> HIDE DEF t, texts, p
  <2>6. Got(e, D \union {p}, Append(ts, t))
    BY <1>6, <1>11, <2>3, <2>4, <2>5, GotOneMore
  <2>7. QED
    BY <2>1, <2>2, <2>4, <2>6 DEF SoFar
<1>12. QED
  BY <1>8, <1>9, <1>10, <1>11

-----------------------------------------------------------------------------
(* The two loops of produceTransfers.                                      *)

(* c: the event as it was read, its entry, its place there, the recipient  *)
(* to skip.                                                                *)
TakeRecipient(c, done, k) == AddTransfer(c.ev.attributes, c.skip, done, k)
RecipientsSoFar(c, k, done) == SoFar(c.e, c.skip, UpTo(c.e, c.skip, c.n, k), done)

Recipient == INSTANCE InductionRules WITH Pass <- TakeRecipient, Inv <- RecipientsSoFar

LEMMA RecipientsByLoop ==
    \A c, done :
        done.is = "ok" /\ c.ev.type = "transfer" /\ Has(c.ev, "attributes") =>
            AddTransfers(c.skip, done, c.ev) =
                Recipient!Loop(c, done, [i \in DOMAIN c.ev.attributes.recipient |-> i])
  BY DEF AddTransfers, Recipient!Loop, Recipient!Reads, Recipient!Highest, TakeRecipient,
         Seqs!FoldLeftDomain, Seqs!FoldLeft, Seqs!MapThenFoldSet, Seqs!Max

TakeEvent(c, done, ev) == AddTransfers(c.skip, done, ev)
EventsSoFar(c, n, done) == SoFar(c.e, c.skip, UpTo(c.e, c.skip, n + 1, 0), done)

Entry == INSTANCE InductionRules WITH Pass <- TakeEvent, Inv <- EventsSoFar

NoTransfers == [is |-> "ok", transfers |-> <<>>]

LEMMA EventsByLoop ==
    \A c, l : ProduceTransfers(l, c.skip) = Entry!Loop(c, NoTransfers, l.events)
  BY DEF ProduceTransfers, NoTransfers, Entry!Loop, Entry!Reads, Entry!Highest, TakeEvent,
         Seqs!FoldLeft, Seqs!MapThenFoldSet, Seqs!Max

(* Between the events: the last recipient of one, the first of the next.   *)
LEMMA LastOfEvent ==
    ASSUME NEW e \in NodeEntries, WellFormedEntry(e), NEW skip, NEW n \in Nat,
           NEW k, n \in Transfers(e) => k = Cardinality(Values(e.events[n], "recipient"))
    PROVE  UpTo(e, skip, n + 1, 0) = UpTo(e, skip, n, k)
<1> DEFINE P == Places(e, skip)
           R == Values(e.events[n], "recipient")
<1>1. \A p \in P : /\ p[1] \in Nat /\ p[1] \in Transfers(e)
                   /\ Count(Values(e.events[p[1]], "recipient"), p[2]) \in Nat \ {0}
  BY PlaceNumbers, InPlaces
<1>2. ASSUME NEW p \in P, p[1] = n
      PROVE  Count(R, p[2]) <= k
  <2>1. n \in Transfers(e) /\ k = Cardinality(R)
    BY <1>1, <1>2
  <2>2. e.events[n] \in NodeEvents /\ Has(e.events[n], "attributes")
    BY <2>1, EntryFields DEF WellFormedEntry, WellFormed
  <2>3. Len(e.events[n].attributes) \in Nat /\ R \in SUBSET (1..Len(e.events[n].attributes))
    BY <2>2, EventFields
  <2>4. p[2] \in R
    BY <1>2, PlaceNumbers
  <2> HIDE DEF R
  <2>5. Count(R, p[2]) \in 1..Cardinality(R) /\ Cardinality(R) \in Nat
    BY <2>3, <2>4, CountOf, FiniteOf
  <2>6. QED
    BY <2>1, <2>5
<1>3. ASSUME NEW p \in P
      PROVE  (p[1] < n + 1 \/ (p[1] = n + 1 /\ Count(Values(e.events[n + 1], "recipient"), p[2]) <= 0))
               <=> (p[1] < n \/ (p[1] = n /\ Count(R, p[2]) <= k))
  <2>1. p[1] \in Nat
    BY <1>1
  <2>2. p[1] = n + 1 => ~(Count(Values(e.events[n + 1], "recipient"), p[2]) <= 0)
    BY <1>1
  <2>3. p[1] = n => Count(R, p[2]) <= k
    BY <1>2
  <2>4. p[1] < n + 1 <=> (p[1] < n \/ p[1] = n)
    BY <2>1
  <2>5. QED
    BY <2>2, <2>3, <2>4
<1>4. QED
  BY <1>3 DEF UpTo

LEMMA OneEvent ==
    ASSUME NEW e \in NodeEntries, WellFormedEntry(e), EntryKnown(e), NEW skip,
           NEW n \in 1..Len(e.events), NEW done, SoFar(e, skip, UpTo(e, skip, n, 0), done)
    PROVE  SoFar(e, skip, UpTo(e, skip, n + 1, 0), AddTransfers(skip, done, TxEvent(e.events[n])))
<1> DEFINE ev == e.events[n]
           read == TxEvent(ev)
<1>1. ev \in NodeEvents /\ n \in DOMAIN e.events /\ n \in Nat
  BY EntryFields
<1>2. /\ done = [is |-> done.is, transfers |-> done.transfers]
      /\ done.is \in {"ok", "error"}
  BY DEF SoFar
<1>3. CASE done.is # "ok"
  <2>1. AddTransfers(skip, done, read) = done
    BY <1>3 DEF AddTransfers
  <2>2. QED
    BY <1>2, <1>3, <2>1 DEF SoFar
<1>4. CASE n \notin Transfers(e)
  <2>1. ev.type # "transfer"
    BY <1>1, <1>4 DEF Transfers
  <2>2. read.type = ev.type
    BY <1>1 DEF TxEvent, NodeEvents
  <2>3. AddTransfers(skip, done, read) = done
    BY <2>1, <2>2 DEF AddTransfers
  <2>4. UpTo(e, skip, n + 1, 0) = UpTo(e, skip, n, 0)
    BY <1>1, <1>4, LastOfEvent
  <2>5. QED
    BY <2>3, <2>4
<1>5. CASE done.is = "ok" /\ n \in Transfers(e)
  <2> DEFINE attr == Attributes(ev.attributes)
             s == [i \in DOMAIN attr.recipient |-> i]
             c == [ev |-> read, skip |-> skip, e |-> e, n |-> n]
             N == Cardinality(Values(ev, "recipient"))
  <2>1. WellFormed(ev) /\ Has(ev, "attributes") /\ ev.type = "transfer"
    BY <1>5 DEF WellFormedEntry, WellFormed, Transfers
  <2>2. read = [ev EXCEPT !.attributes = attr]
    BY <2>1 DEF TxEvent
  <2>3. read.type = "transfer" /\ Has(read, "attributes") /\ read.attributes = attr
    BY <1>1, <2>1, <2>2 DEF NodeEvents, Has
  <2>4. IsSequence(attr.recipient) /\ Len(attr.recipient) = N /\ N \in Nat
    BY <1>1, <2>1, ListsOfEvent
  <2> HIDE DEF read, N
  <2>5. DOMAIN attr.recipient = 1..N
    BY <2>4, LengthOfSequence
  <2>6. c.ev = read /\ c.skip = skip /\ c.e = e /\ c.n = n
    OBVIOUS
  <2>7. AddTransfers(skip, done, read) = Recipient!Loop(c, done, s)
    BY <1>5, <2>3, <2>6, RecipientsByLoop
  <2>8. DOMAIN s = 1..N /\ \A i \in 1..N : s[i] = i
    BY <2>5
  <2>9. ASSUME NEW k \in 1..N, NEW d, SoFar(e, skip, UpTo(e, skip, n, k - 1), d)
        PROVE  SoFar(e, skip, UpTo(e, skip, n, k), AddTransfer(attr, skip, d, k))
    <3>1. k \in 1..Len(attr.recipient)
      BY <2>4
    <3>2. attr = Attributes(e.events[n].attributes)
      OBVIOUS
    <3> HIDE DEF attr
    <3>3. QED
      BY <1>5, <2>9, <3>1, <3>2, OneRecipient
  <2> HIDE DEF c, s, attr
  <2>10. ASSUME NEW k \in 1..N, NEW d, RecipientsSoFar(c, k - 1, d)
         PROVE  RecipientsSoFar(c, k, TakeRecipient(c, d, s[k]))
    BY <2>3, <2>6, <2>8, <2>9, <2>10 DEF RecipientsSoFar, TakeRecipient
  <2>11. RecipientsSoFar(c, 0, done)
    BY <2>6 DEF RecipientsSoFar
  <2>12. RecipientsSoFar(c, N, Recipient!Loop(c, done, s))
    BY <2>4, <2>8, <2>10, <2>11, Recipient!LoopRule
  <2>13. UpTo(e, skip, n + 1, 0) = UpTo(e, skip, n, N)
    BY <1>1, LastOfEvent DEF N
  <2>14. QED
    BY <2>6, <2>7, <2>12, <2>13 DEF RecipientsSoFar, read
<1>6. QED
  BY <1>2, <1>3, <1>4, <1>5

(* What is produced of a well-formed entry: its transfers, or an error.    *)
LEMMA ProducedAsWritten ==
    ASSUME NEW e \in NodeEntries, WellFormedEntry(e), EntryKnown(e), NEW skip
    PROVE  /\ ProduceTransfers(LogFormat(e), skip).is # "panic"
           /\ ProduceTransfers(LogFormat(e), skip).is = "ok" =>
                 /\ Gives(ProduceTransfers(LogFormat(e), skip).transfers, e, skip)
                 /\ IsSequence(ProduceTransfers(LogFormat(e), skip).transfers)
           /\ ProduceTransfers(LogFormat(e), skip).is # "ok" => HasPoints(e, skip)
<1> DEFINE c == [e |-> e, skip |-> skip]
           evs == LogFormat(e).events
           N == Len(e.events)
           P == Places(e, skip)
           produced == Entry!Loop(c, NoTransfers, evs)
<1>1. N \in Nat /\ DOMAIN e.events = 1..N
  BY EntryFields
<1>2. DOMAIN evs = 1..N /\ \A n \in 1..N : evs[n] = TxEvent(e.events[n])
  BY <1>1 DEF LogFormat
<1>3. c.e = e /\ c.skip = skip
  OBVIOUS
<1>4. ProduceTransfers(LogFormat(e), skip) = produced
  BY <1>3, EventsByLoop
<1>5. \A p \in P : p[1] \in 1..N /\ Count(Values(e.events[p[1]], "recipient"), p[2]) \in Nat \ {0}
  BY PlaceNumbers
<1> HIDE DEF c, evs, N, P, produced
<1>6. UpTo(e, skip, 0 + 1, 0) = {}
  <2>1. ASSUME NEW p \in P
        PROVE  ~(p[1] < 1 \/ (p[1] = 1 /\ Count(Values(e.events[1], "recipient"), p[2]) <= 0))
    <3>1. p[1] \in 1..N
      BY <1>5
    <3>2. p[1] = 1 => ~(Count(Values(e.events[1], "recipient"), p[2]) <= 0)
      BY <1>5
    <3>3. QED
      BY <1>1, <3>1, <3>2
  <2>2. 0 + 1 = 1
    OBVIOUS
  <2>3. QED
    BY <2>1, <2>2 DEF UpTo, P
<1>7. UpTo(e, skip, N + 1, 0) = P
  <2>1. \A p \in P : p[1] < N + 1
    BY <1>1, <1>5
  <2>2. QED
    BY <2>1 DEF UpTo, P
<1>8. EventsSoFar(c, 0, NoTransfers)
  <2>1. Got(e, {}, <<>>)
    BY EmptySequence, FS_EmptySet DEF Got
  <2>2. QED
    BY <1>3, <1>6, <2>1 DEF EventsSoFar, SoFar, NoTransfers
<1>9. ASSUME NEW n \in 1..N, NEW done, EventsSoFar(c, n - 1, done)
      PROVE  EventsSoFar(c, n, TakeEvent(c, done, evs[n]))
  <2>1. (n - 1) + 1 = n
    OBVIOUS
  <2>2. SoFar(e, skip, UpTo(e, skip, n, 0), done)
    BY <1>3, <1>9, <2>1 DEF EventsSoFar
  <2>3. SoFar(e, skip, UpTo(e, skip, n + 1, 0), AddTransfers(skip, done, TxEvent(e.events[n])))
    BY <2>2, OneEvent DEF N
  <2>4. QED
    BY <1>2, <1>3, <2>3 DEF EventsSoFar, TakeEvent
<1>10. EventsSoFar(c, N, produced)
  BY <1>1, <1>2, <1>8, <1>9, Entry!LoopRule DEF produced
<1>11. SoFar(e, skip, P, produced)
  BY <1>3, <1>7, <1>10 DEF EventsSoFar
<1>12. /\ produced.is # "panic"
       /\ produced.is = "ok" => Gives(produced.transfers, e, skip) /\ IsSequence(produced.transfers)
       /\ produced.is # "ok" => HasPoints(e, skip)
  BY <1>11 DEF SoFar, Got, Gives, P
<1>13. QED
  BY <1>4, <1>12

-----------------------------------------------------------------------------
(* The transfers of a message, and the entry findLog finds for it.         *)

LEMMA TransfersOfMessage ==
    ASSUME NEW msg, NEW e \in NodeEntries, WellFormedEntry(e), EntryKnown(e),
           GetSubEvent(msg, LogFormat(e)).is = "ok", MapperOf(msg).transfers # "none"
    PROVE  /\ Gives(GetSubEvent(msg, LogFormat(e)).se.transfers, e, MapperOf(msg).skip)
           /\ IsSequence(GetSubEvent(msg, LogFormat(e)).se.transfers)
<1> DEFINE l == LogFormat(e)
           m == MapperOf(msg)
           p == ProduceTransfers(l, m.skip)
<1>1. GetSubEvent(msg, l) = PlainSubEvent(msg, l)
  BY ExecHasNoTransfers DEF GetSubEvent
<1>2. PlainSubEvent(msg, l).is = "ok"
  BY <1>1
<1>3. KnownType(msg) /\ ~MapperPanics(msg)
  BY <1>2 DEF PlainSubEvent
<1>4. PlainSubEvent(msg, l) = [is |-> p.is, se |-> Sub(m.type, m.module, p.transfers, <<>>)]
  BY <1>3 DEF PlainSubEvent
<1>5. p.is = "ok" => Gives(p.transfers, e, m.skip) /\ IsSequence(p.transfers)
  BY ProducedAsWritten
<1> HIDE DEF l, m, p
<1>6. p.is = "ok" /\ PlainSubEvent(msg, l).se.transfers = p.transfers
  BY <1>2, <1>4 DEF Sub
<1>7. QED
  BY <1>1, <1>5, <1>6 DEF l, m

LEMMA NoTransfersOfMessage ==
    ASSUME NEW msg, NEW l, GetSubEvent(msg, l).is = "ok", MapperOf(msg).transfers = "none"
    PROVE  GetSubEvent(msg, l).se.transfers = <<>>
<1> DEFINE m == MapperOf(msg)
<1>1. CASE KnownType(msg) /\ msg.type = "exec_delegated"
  <2>1. PICK nested : ExecSubEvent(msg, l).se = Sub(m.type, m.module, <<>>, nested)
    BY DEF ExecSubEvent
  <2>2. GetSubEvent(msg, l) = ExecSubEvent(msg, l)
    BY <1>1 DEF GetSubEvent
  <2> HIDE DEF m
  <2>3. QED
    BY <2>1, <2>2 DEF Sub
<1>2. CASE ~(KnownType(msg) /\ msg.type = "exec_delegated")
  <2>1. GetSubEvent(msg, l) = PlainSubEvent(msg, l)
    BY <1>2 DEF GetSubEvent
  <2>2. KnownType(msg) /\ ~MapperPanics(msg)
    BY <2>1 DEF PlainSubEvent
  <2>3. PlainSubEvent(msg, l).se = Sub(m.type, m.module, <<>>, <<>>)
    BY <2>2 DEF PlainSubEvent
  <2> HIDE DEF m
  <2>4. QED
    BY <2>1, <2>3 DEF Sub
<1>3. QED
  BY <1>1, <1>2

(* A message that is not converted, with a well-formed entry or another.   *)
LEMMA PlainErrs ==
    ASSUME NEW msg, NEW e \in NodeEntries, EntryKnown(e),
           PlainSubEvent(msg, LogFormat(e)).is \notin {"ok", "panic"}
    PROVE  \/ ~KnownType(msg)
           \/ /\ MapperOf(msg).transfers # "none"
              /\ ~WellFormedEntry(e) \/ HasPoints(e, MapperOf(msg).skip)
<1> DEFINE l == LogFormat(e)
           m == MapperOf(msg)
           p == IF m.transfers = "none" THEN [is |-> "ok", transfers |-> <<>>]
                ELSE ProduceTransfers(l, m.skip)
<1>1. SUFFICES ASSUME KnownType(msg)
               PROVE  m.transfers # "none" /\ (~WellFormedEntry(e) \/ HasPoints(e, m.skip))
  OBVIOUS
<1>2. ~MapperPanics(msg)
  BY <1>1 DEF PlainSubEvent
<1>3. PlainSubEvent(msg, l) = [is |-> p.is, se |-> Sub(m.type, m.module, p.transfers, <<>>)]
  BY <1>1, <1>2 DEF PlainSubEvent
<1>4. WellFormedEntry(e) /\ ProduceTransfers(l, m.skip).is # "ok" => HasPoints(e, m.skip)
  BY ProducedAsWritten
<1>5. p.is # "ok"
  <2> HIDE DEF p, m
  <2>1. QED
    BY <1>3
<1> HIDE DEF m, l
<1>6. QED
  BY <1>4, <1>5

(* Only a message that pays the community pool or lacks its value ends the *)
(* process, where the entry is well-formed.                                *)
OddMessage(msg) == PaysPool(msg) \/ LacksValue(msg)

LEMMA PlainPanics ==
    ASSUME NEW msg, NEW e \in NodeEntries, WellFormedEntry(e), EntryKnown(e),
           PlainSubEvent(msg, LogFormat(e)).is = "panic"
    PROVE  OddMessage(msg)
<1> DEFINE l == LogFormat(e)
           m == MapperOf(msg)
           p == IF m.transfers = "none" THEN [is |-> "ok", transfers |-> <<>>]
                ELSE ProduceTransfers(l, m.skip)
<1>1. p.is # "panic"
  BY ProducedAsWritten
<1>2. KnownType(msg)
  BY DEF PlainSubEvent
<1>3. ~MapperPanics(msg) =>
         PlainSubEvent(msg, l) = [is |-> p.is, se |-> Sub(m.type, m.module, p.transfers, <<>>)]
  BY <1>2 DEF PlainSubEvent
<1> HIDE DEF m, p
<1>4. MapperPanics(msg)
  BY <1>1, <1>3
<1>5. QED
  BY <1>4 DEF MapperPanics, CallsUnset, OddMessage, PaysPool, LacksValue

LEMMA MessagePanics ==
    ASSUME NEW msg \in Messages, NEW e \in NodeEntries, WellFormedEntry(e), EntryKnown(e),
           GetSubEvent(msg, LogFormat(e)).is = "panic"
    PROVE  OddMessage(msg) \/ \E n \in Seqs!ToSet(msg.msgs) : OddMessage(n)
<1> DEFINE l == LogFormat(e)
<1>1. CASE KnownType(msg) /\ msg.type = "exec_delegated"
  <2> DEFINE all  == [i \in DOMAIN msg.msgs |-> PlainSubEvent(msg.msgs[i], l)]
             bad  == {i \in 1..Len(all) : all[i].is # "ok"}
             stop == IF bad # {} THEN Seqs!Min(bad) ELSE 0
  <2>1. msg.msgs \in Seq(MessagesWith({<<>>}))
    BY DEF Messages, MessagesWith
  <2>2. DOMAIN msg.msgs = 1..Len(msg.msgs) /\ Len(msg.msgs) \in Nat
    BY <2>1
  <2>3. Len(all) = Len(msg.msgs) /\ \A i \in 1..Len(msg.msgs) : all[i] = PlainSubEvent(msg.msgs[i], l)
    BY <2>2
  <2>4. ExecSubEvent(msg, l).is = IF stop # 0 /\ all[stop].is = "panic" THEN "panic" ELSE "ok"
    BY DEF ExecSubEvent, Seqs!SelectInSeq
  <2>5. stop # 0 /\ all[stop].is = "panic"
    <3>1. ExecSubEvent(msg, l).is = "panic"
      BY <1>1 DEF GetSubEvent
    <3> HIDE DEF stop, all
    <3>2. QED
      BY <2>4, <3>1
  <2> HIDE DEF all
  <2>6. bad \subseteq 1..Len(msg.msgs) /\ bad # {}
    BY <2>3, <2>5
  <2> HIDE DEF bad
  <2>7. stop \in bad
    <3>1. bad \subseteq Nat
      BY <2>2, <2>6
    <3>2. QED
      BY <2>6, <3>1, FirstPlace
  <2> HIDE DEF stop
  <2>8. PlainSubEvent(msg.msgs[stop], l).is = "panic" /\ stop \in DOMAIN msg.msgs
    BY <2>2, <2>3, <2>5, <2>6, <2>7
  <2>9. OddMessage(msg.msgs[stop])
    BY <2>8, PlainPanics
  <2>10. msg.msgs[stop] \in Seqs!ToSet(msg.msgs)
    BY <2>8 DEF Seqs!ToSet
  <2>11. QED
    BY <2>9, <2>10
<1>2. CASE ~(KnownType(msg) /\ msg.type = "exec_delegated")
  BY <1>2, PlainPanics DEF GetSubEvent
<1>3. QED
  BY <1>1, <1>2

(* NoLogFormat, as an entry that tells of nothing.                         *)
NothingTold == [index |-> 0, success |-> FALSE, log |-> "empty", events |-> <<>>]

LEMMA EmptyIsNone ==
    ASSUME NEW s, IsSequence(s), Len(s) = 0
    PROVE  s = <<>>
  BY DEF IsSequence

LEMMA NothingIsTold ==
    /\ NothingTold \in NodeEntries
    /\ LogFormat(NothingTold) = NoLogFormat
    /\ WellFormedEntry(NothingTold) /\ EntryKnown(NothingTold)
    /\ \A skip : Places(NothingTold, skip) = {}
<1>1. NothingTold.events = <<>> /\ DOMAIN NothingTold.events = {}
  BY DEF NothingTold
<1>2. NothingTold \in NodeEntries
  BY DEF NothingTold, NodeEntries
<1>3. LogFormat(NothingTold) = NoLogFormat
  <2> DEFINE F == [i \in DOMAIN NothingTold.events |-> TxEvent(NothingTold.events[i])]
  <2>1. DOMAIN F = 1..0 /\ F = [i \in 1..0 |-> F[i]]
    BY <1>1
  <2>2. LogFormat(NothingTold) = [msgIndex |-> 0, success |-> FALSE, message |-> "", events |-> F]
    BY DEF LogFormat, NothingTold
  <2> HIDE DEF F
  <2>3. F = <<>>
    BY <2>1, FunctionIsSequence, EmptyIsNone
  <2>4. [msgIndex |-> 0, success |-> FALSE, message |-> "", events |-> F] = NoLogFormat
    BY <2>3, Zenon DEF NoLogFormat
  <2>5. QED
    BY <2>2, <2>4, Zenon
<1>4. WellFormedEntry(NothingTold) /\ EntryKnown(NothingTold)
  BY <1>1 DEF WellFormedEntry, EntryKnown, Transfers
<1>5. \A skip : Places(NothingTold, skip) = {}
  BY <1>1 DEF Places, Transfers
<1>6. QED
  BY <1>2, <1>3, <1>4, <1>5

(* findLog finds an entry with the index among those that were read, if    *)
(* there is one and they are more than the index.                          *)
LEMMA FoundEntry ==
    ASSUME tx \in RawTxs, LogRead(tx, lf), NEW index \in Nat
    PROVE  \/ /\ FindLog(index) = LogFormat(NothingTold)
              /\ Cardinality(Read(tx)) <= index \/ OwnEntries(tx, index) = {}
           \/ /\ Cardinality(Read(tx)) > index
              /\ \E e \in OwnEntries(tx, index) : FindLog(index) = LogFormat(e)
<1>1. /\ DOMAIN lf = 1..Len(lf) /\ Len(lf) \in Nat
      /\ Entries(tx) \in Seq(NodeEntries)
  BY LengthOfSequence, RawFields DEF LogRead
<1>2. /\ \A k \in DOMAIN lf : /\ lf[k] = LogFormat(Entries(tx)[k])
                              /\ lf[k].msgIndex = Entries(tx)[k].index
      /\ DOMAIN lf = Read(tx)
  BY DEF LogRead
<1>0. Cardinality(Read(tx)) = Len(lf)
  <2>1. Read(tx) = 1..Len(lf)
    BY <1>1, <1>2
  <2>2. Cardinality(1..Len(lf)) = Len(lf)
    BY <1>1, FirstPlaces
  <2>3. QED
    BY <2>1, <2>2
<1> DEFINE here == {i \in 1..Len(lf) : lf[i].msgIndex = index}
<1>3. CASE Len(lf) <= index \/ ~\E i \in DOMAIN lf : lf[i].msgIndex = index
  <2>1. FindLog(index) = NoLogFormat
    BY <1>3 DEF FindLog
  <2>2. (\E i \in DOMAIN lf : lf[i].msgIndex = index) <=> OwnEntries(tx, index) # {}
    BY <1>2 DEF OwnEntries, WithIndex
  <2>3. QED
    BY <1>0, <1>3, <2>1, <2>2, NothingIsTold
<1>4. CASE Len(lf) > index /\ \E i \in DOMAIN lf : lf[i].msgIndex = index
  <2>1. index + 1 \in DOMAIN lf
    BY <1>1, <1>4
  <2>2. PICK k \in DOMAIN lf : FindLog(index) = lf[k] /\ lf[k].msgIndex = index
    <3>1. CASE lf[index + 1].msgIndex = index
      <4>1. FindLog(index) = lf[index + 1]
        BY <1>1, <1>4, <3>1 DEF FindLog
      <4>2. QED
        BY <2>1, <3>1, <4>1
    <3>2. CASE lf[index + 1].msgIndex # index
      <4>1. here # {}
        BY <1>1, <1>4
      <4>2. FindLog(index) = lf[Seqs!Min(here)]
        BY <1>1, <1>4, <3>2, <4>1 DEF FindLog, Seqs!SelectInSeq
      <4>3. here \subseteq Nat /\ \A i \in here : i \in DOMAIN lf /\ lf[i].msgIndex = index
        BY <1>1
      <4> HIDE DEF here
      <4>4. Seqs!Min(here) \in here
        BY <4>1, <4>3, FirstPlace
      <4>5. QED
        BY <4>2, <4>3, <4>4
    <3>3. QED
      BY <3>1, <3>2
  <2>3. Entries(tx)[k] \in OwnEntries(tx, index)
    BY <1>2, <2>2 DEF OwnEntries, WithIndex
  <2>4. QED
    BY <1>0, <1>2, <1>4, <2>2, <2>3
<1>5. QED
  BY <1>1, <1>3, <1>4

-----------------------------------------------------------------------------
(* The inductive invariant, about the transaction that is being converted. *)

Working == pc \in {"messages", "entries", "emit"}

Made(i) == events[i].kind \notin {"", "error"}

(* The decoder is new, and has read this transaction's log only.           *)
LogInv ==
    /\ decoder = "fresh"
    /\ tx \in RawTxs
    /\ LogRead(tx, lf)
    /\ Working => (failed <=> ~LogDecodes(tx))

PlacesInv ==
    /\ next \in Nat \ {0}
    /\ pc = "emit" => next > Len(lf)
    /\ IsSequence(events)

(* presentIndexes are the messages with an event, and each event of a      *)
(* message is that message's.                                              *)
MadeInv == Working =>
    /\ \A i \in DOMAIN events : Made(i) =>
          /\ events[i].id \in present
          /\ events[i].id + 1 \in DOMAIN tx.msgs
          /\ Nested(tx.msgs[events[i].id + 1], events[i].sub[1].sub)
    /\ \A n \in present : \E i \in DOMAIN events : Made(i) /\ events[i].id = n
    /\ present \subseteq Nat
    /\ pc = "messages" => \A i \in DOMAIN events : Made(i) /\ events[i].id < next - 1

(* The entries looked at so far have their events, those of indexes that   *)
(* are not present an event of their own.                                  *)
ToldInv == pc \in {"entries", "emit"} =>
    /\ \A i \in DOMAIN events : events[i].kind = "" =>
          \E k \in DOMAIN lf : /\ k < next /\ events[i].id = lf[k].msgIndex
                               /\ lf[k].msgIndex \notin present
    /\ \A k \in DOMAIN lf : k < next /\ lf[k].msgIndex \notin present =>
          \E i \in DOMAIN events : events[i].kind = "" /\ events[i].id = lf[k].msgIndex

ErrorInv == Working =>
    /\ \A i \in DOMAIN events : events[i].kind = "error" => pc = "emit" /\ events[i].id = -1
    /\ pc = "emit" => (failed <=> \E i \in DOMAIN events : events[i].kind = "error")

Injective == \A i, j \in DOMAIN events : events[i].id = events[j].id => i = j
DistinctInv == Working /\ (pc = "messages" \/ IndexesDistinct(tx)) => Injective

IInv == LogInv /\ PlacesInv /\ MadeInv /\ ToldInv /\ ErrorInv /\ DistinctInv

LEMMA InitIInv ==
    ASSUME Init
    PROVE  IInv
<1>1. pc = "take" /\ decoder = "fresh" /\ tx = NoTx /\ lf = <<>> /\ next = 1 /\ events = <<>>
  BY DEF Init
<1>2. NoTx \in RawTxs
  BY DEF NoTx, RawTxs, NodeLogs
<1>3. <<>> \in Seq({}) /\ DOMAIN <<>> = {}
  OBVIOUS
<1>4. IsSequence(<<>>)
  BY <1>3, SequenceOfSome
<1>5. LogInv
  <2>1. Entries(NoTx) = <<>> /\ Read(NoTx) = {}
    BY <1>3 DEF Entries, NoTx, Read
  <2>2. LogRead(NoTx, <<>>)
    BY <1>3, <1>4, <2>1 DEF LogRead
  <2>3. QED
    BY <1>1, <1>2, <2>2 DEF LogInv, Working
<1>6. PlacesInv
  BY <1>1, <1>4 DEF PlacesInv
<1>7. MadeInv /\ ToldInv /\ ErrorInv /\ DistinctInv
  BY <1>1 DEF MadeInv, ToldInv, ErrorInv, DistinctInv, Working
<1>8. QED
  BY <1>5, <1>6, <1>7 DEF IInv

(* The next transaction: whatever was read before, its log is its own.     *)
LEMMA TakeKeeps ==
    ASSUME IInv, NEW raw \in Raws, TakeRaw(raw)
    PROVE  IInv'
<1>1. /\ decoder = "fresh" /\ raw \in RawTxs
      /\ caller' = caller
  BY TxEventsAssumption DEF IInv, LogInv, TakeRaw
<1> DEFINE d == DecodedLog(raw)
<1>2. /\ tx' = IF raw.decodes THEN raw ELSE [raw EXCEPT !.msgs = <<>>]
      /\ lf' = d.lf /\ failed' = d.failed /\ decoder' = d.decoder
      /\ pc' = IF caller = "plugin" /\ (~raw.decodes \/ d.failed) THEN "error" ELSE "messages"
      /\ next' = 1 /\ present' = {} /\ events' = <<>>
  BY DEF TakeRaw
<1> HIDE DEF d
<1>3. /\ d.decoder = "fresh" /\ LogRead(raw, d.lf)
      /\ caller = "plugin" /\ raw.log.form = "none" => d.failed
      /\ ~(caller = "plugin" /\ raw.log.form = "none") => (d.failed <=> ~LogDecodes(raw))
  BY <1>1, DecodedLogIsOwn DEF d
<1>4. tx' \in RawTxs /\ tx'.log = raw.log
  <2> DEFINE bare == [raw EXCEPT !.msgs = <<>>]
  <2>1. <<>> \in Seq(Messages)
    OBVIOUS
  <2>2. bare \in RawTxs /\ bare.log = raw.log
    BY <1>1, <2>1 DEF RawTxs
  <2> HIDE DEF bare
  <2>3. QED
    BY <1>1, <1>2, <2>2 DEF bare
<1>5. Entries(tx') = Entries(raw) /\ (LogDecodes(tx') <=> LogDecodes(raw))
  BY <1>4 DEF Entries, LogDecodes
<1>6. LogRead(tx', lf')
  BY <1>2, <1>3, <1>5 DEF LogRead, Read
<1>7. Working' => (failed' <=> ~LogDecodes(tx'))
  <2>1. SUFFICES ASSUME Working' PROVE failed' <=> ~LogDecodes(tx')
    OBVIOUS
  <2>2. ~(caller = "plugin" /\ d.failed)
    BY <1>2, <2>1 DEF Working
  <2>3. ~(caller = "plugin" /\ raw.log.form = "none")
    BY <1>3, <2>2
  <2>4. QED
    BY <1>2, <1>3, <1>5, <2>3
<1>8. LogInv'
  BY <1>2, <1>3, <1>4, <1>6, <1>7 DEF LogInv
<1>9. <<>> \in Seq({}) /\ DOMAIN <<>> = {}
  OBVIOUS
<1>10. PlacesInv'
  <2>1. IsSequence(<<>>)
    BY <1>9, SequenceOfSome
  <2>2. QED
    BY <1>2, <2>1 DEF PlacesInv
<1>11. MadeInv' /\ ToldInv' /\ ErrorInv' /\ DistinctInv'
  BY <1>2, <1>9 DEF MadeInv, ToldInv, ErrorInv, DistinctInv, Working, Injective
<1>12. QED
  BY <1>8, <1>10, <1>11 DEF IInv

LEMMA MessageKeeps ==
    ASSUME IInv, AppendMessage
    PROVE  IInv'
<1> DEFINE r == GetSubEvent(tx.msgs[next], FindLog(next - 1))
           e == Event(next - 1, tx.msgs[next].type, <<r.se>>)
<1>1. /\ pc = "messages" /\ next <= Len(tx.msgs) /\ next' = next + 1
      /\ pc' = IF r.is = "panic" THEN "panic" ELSE pc
      /\ UNCHANGED <<tx, lf, decoder, failed>>
  BY DEF AppendMessage
<1>2. /\ tx \in RawTxs /\ next \in Nat \ {0} /\ IsSequence(events) /\ Working
      /\ LogInv /\ MadeInv /\ ErrorInv /\ DistinctInv
  BY <1>1 DEF IInv, LogInv, PlacesInv, Working
<1>3. tx.msgs \in Seq(Messages)
  BY <1>2, RawFields
<1>4. next \in DOMAIN tx.msgs /\ tx.msgs[next] \in Messages
  BY <1>1, <1>2, <1>3
<1>5. LogInv'
  BY <1>1, <1>2 DEF LogInv, Working
<1>6. ToldInv' /\ pc' # "emit" /\ pc' # "entries"
  BY <1>1 DEF ToldInv
<1>7. CASE r.is # "ok"
  <2>1. UNCHANGED <<events, present>>
    BY <1>7 DEF AppendMessage
  <2>2. PlacesInv'
    BY <1>2, <1>1, <1>6, <2>1 DEF PlacesInv
  <2>3. MadeInv'
    <3>1. /\ present \subseteq Nat
          /\ \A i \in DOMAIN events : /\ Made(i) /\ events[i].id < next - 1
                                      /\ events[i].id \in present
      BY <1>1, <1>2 DEF MadeInv
    <3>2. \A i \in DOMAIN events : events[i].id < next' - 1
      <4>1. TAKE i \in DOMAIN events
      <4>2. events[i].id \in Nat /\ events[i].id < next - 1
        BY <3>1
      <4>3. QED
        BY <1>1, <1>2, <4>2
    <3>3. \A i \in DOMAIN events : Made(i)' = Made(i)
      BY <2>1 DEF Made
    <3>4. QED
      BY <1>1, <1>2, <2>1, <3>1, <3>2, <3>3 DEF MadeInv
  <2>4. ErrorInv' /\ DistinctInv'
    BY <1>1, <1>2, <1>6, <2>1 DEF ErrorInv, DistinctInv, Injective, Working
  <2>5. QED
    BY <1>5, <1>6, <2>2, <2>3, <2>4 DEF IInv
<1>8. CASE r.is = "ok"
  <2>1. events' = Append(events, e) /\ present' = present \union {next - 1}
    BY <1>8 DEF AppendMessage
  <2>2. /\ tx.msgs[next].type \notin {"", "error"}
        /\ Nested(tx.msgs[next], r.se.sub)
    BY <1>4, <1>8, SubEventOK, KnownTypeIsNamed
  <2>3. e.id = next - 1 /\ e.kind = tx.msgs[next].type /\ e.sub[1].sub = r.se.sub
    BY DEF Event
  <2> DEFINE n == Len(events)
  <2>4. /\ IsSequence(events') /\ DOMAIN events' = 1..(n + 1) /\ n \in Nat
        /\ DOMAIN events = 1..n
        /\ \A i \in 1..n : events'[i] = events[i]
        /\ events'[n + 1] = e
    BY <1>2, <2>1, Appended, LengthOfSequence
  <2> HIDE DEF r, e, n
  <2>5. PlacesInv'
    BY <1>1, <1>2, <1>6, <2>4 DEF PlacesInv
  <2>6. \A i \in 1..n : /\ Made(i) /\ events[i].id < next - 1 /\ events[i].id \in present
                        /\ events[i].id + 1 \in DOMAIN tx.msgs
                        /\ Nested(tx.msgs[events[i].id + 1], events[i].sub[1].sub)
    BY <1>1, <1>2, <2>4 DEF MadeInv
  <2>7. present \subseteq Nat /\ next - 1 \in Nat /\ (next - 1) + 1 = next
    BY <1>2 DEF MadeInv
  <2>8. \A i \in 1..(n + 1) : i \in 1..n \/ i = n + 1
    BY <2>4
  <2>9. ASSUME NEW i \in 1..(n + 1)
        PROVE  /\ Made(i)' /\ events'[i].id \in present' /\ events'[i].id < next' - 1
               /\ events'[i].id + 1 \in DOMAIN tx.msgs
               /\ Nested(tx.msgs[events'[i].id + 1], events'[i].sub[1].sub)
    <3>1. CASE i \in 1..n
      <4>1. events'[i] = events[i]
        BY <2>4, <3>1
      <4>2. events[i].id \in Nat
        BY <2>6, <2>7, <3>1
      <4>3. Made(i)' = Made(i)
        BY <4>1 DEF Made
      <4>4. QED
        BY <1>1, <1>2, <2>1, <2>6, <3>1, <4>1, <4>2, <4>3
    <3>2. CASE i = n + 1
      <4>1. events'[i] = e
        BY <2>4, <3>2
      <4>2. Made(i)'
        BY <2>2, <2>3, <4>1 DEF Made
      <4>3. events'[i].id = next - 1 /\ events'[i].id \in present'
        BY <2>1, <2>3, <4>1
      <4>4. events'[i].id < next' - 1
        BY <1>1, <1>2, <4>3
      <4>5. events'[i].id + 1 = next
        BY <2>7, <4>3
      <4>6. events'[i].sub[1].sub = r.se.sub
        BY <2>3, <4>1
      <4>7. QED
        BY <1>4, <2>2, <4>2, <4>3, <4>4, <4>5, <4>6
    <3>3. QED
      BY <2>8, <3>1, <3>2
  <2>10. \A m \in present' : \E i \in DOMAIN events' : Made(i)' /\ events'[i].id = m
    <3>1. TAKE m \in present'
    <3>2. CASE m = next - 1
      BY <2>3, <2>4, <2>9, <3>2
    <3>3. CASE m \in present
      <4>1. PICK i \in 1..n : events[i].id = m
        BY <1>2, <2>4, <3>3 DEF MadeInv
      <4>2. i \in 1..(n + 1) /\ events'[i].id = m
        BY <2>4, <4>1
      <4>3. QED
        BY <2>4, <2>9, <4>2
    <3>4. QED
      BY <2>1, <3>2, <3>3
  <2>11. MadeInv'
    BY <1>1, <2>1, <2>4, <2>7, <2>9, <2>10 DEF MadeInv
  <2>12. ErrorInv'
    BY <1>6, <2>4, <2>9 DEF ErrorInv, Made
  <2>13. Injective'
    <3>1. Injective
      BY <1>1, <1>2 DEF DistinctInv
    <3>2. \A i \in 1..n : events'[i].id # events'[n + 1].id
      BY <2>3, <2>4, <2>6, <2>7
    <3>3. QED
      BY <2>4, <2>8, <3>1, <3>2 DEF Injective
  <2>14. DistinctInv'
    BY <2>13 DEF DistinctInv
  <2>15. QED
    BY <1>5, <1>6, <2>5, <2>11, <2>12, <2>14 DEF IInv
<1>9. QED
  BY <1>7, <1>8

(* Between the loops: each message's event is there, no entry was looked   *)
(* at yet.                                                                 *)
LEMMA MessagesOverKeeps ==
    ASSUME IInv, MessagesOver
    PROVE  IInv'
<1>1. /\ pc = "messages" /\ pc' = "entries" /\ next' = 1
      /\ UNCHANGED <<tx, lf, decoder, failed, present, events>>
  BY DEF MessagesOver
<1>2. LogInv /\ PlacesInv /\ MadeInv /\ ErrorInv /\ DistinctInv
  BY DEF IInv
<1>3. LogInv'
  BY <1>1, <1>2 DEF LogInv, Working
<1>4. PlacesInv'
  BY <1>1, <1>2 DEF PlacesInv
<1>5. MadeInv'
  BY <1>1, <1>2 DEF MadeInv, Made, Working
<1>6. ToldInv'
  <2>1. \A i \in DOMAIN events : Made(i)
    BY <1>1, <1>2 DEF MadeInv, Working
  <2>2. \A k \in DOMAIN lf : ~(k < 1)
    BY <1>2, LengthOfSequence DEF LogInv, LogRead
  <2>3. QED
    BY <1>1, <2>1, <2>2 DEF ToldInv, Made
<1>7. ErrorInv'
  BY <1>1, <1>2 DEF ErrorInv, Working
<1>8. DistinctInv'
  BY <1>1, <1>2 DEF DistinctInv, Working, Injective
<1>9. QED
  BY <1>3, <1>4, <1>5, <1>6, <1>7, <1>8 DEF IInv

LEMMA EventOfEntry ==
    ASSUME NEW l
    PROVE  /\ WithError(EventFromLogs(l), l).id = l.msgIndex
           /\ WithError(EventFromLogs(l), l).kind = ""
<1> DEFINE ev == EventFromLogs(l)
<1>1. PICK x : ev = [id |-> l.msgIndex, kind |-> "", sub |-> x]
  BY DEF EventFromLogs, Event
<1> HIDE DEF ev
<1>2. \A y : [ev EXCEPT !.sub = y].id = l.msgIndex /\ [ev EXCEPT !.sub = y].kind = ""
  BY <1>1
<1>3. ev.id = l.msgIndex /\ ev.kind = ""
  BY <1>1
<1>4. CASE l.success
  BY <1>3, <1>4 DEF WithError, ev
<1>5. CASE ~l.success /\ ev.sub = <<>>
  BY <1>2, <1>5 DEF WithError, ev
<1>6. CASE ~l.success /\ ev.sub # <<>>
  BY <1>2, <1>6 DEF WithError, ev
<1>7. QED
  BY <1>4, <1>5, <1>6

(* One entry: it is passed over if its message has its event, and has an   *)
(* event of its own otherwise; no other entry looked at has that index,    *)
(* when the log does not number two alike.                                 *)
LEMMA EntryKeeps ==
    ASSUME IInv, AppendLog
    PROVE  IInv'
<1> DEFINE l == lf[next]
           e == WithError(EventFromLogs(l), l)
<1>1. /\ pc = "entries" /\ pc' = "entries" /\ next <= Len(lf) /\ next' = next + 1
      /\ UNCHANGED <<tx, lf, decoder, failed, present>>
  BY DEF AppendLog
<1>2. /\ LogInv /\ PlacesInv /\ MadeInv /\ ToldInv /\ ErrorInv /\ DistinctInv
      /\ next \in Nat \ {0} /\ IsSequence(events) /\ LogRead(tx, lf) /\ Working
  BY <1>1 DEF IInv, LogInv, PlacesInv, Working
<1>3. /\ next \in DOMAIN lf /\ DOMAIN lf = 1..Len(lf) /\ Len(lf) \in Nat
      /\ l.msgIndex = Entries(tx)[next].index /\ l.msgIndex \in Nat
      /\ \A k \in DOMAIN lf : k \in DOMAIN Entries(tx) /\ lf[k].msgIndex = Entries(tx)[k].index
  BY <1>1, <1>2, LengthOfSequence DEF LogRead
<1>4. LogInv'
  BY <1>1, <1>2 DEF LogInv, Working
<1>5. \A k \in DOMAIN lf : k < next' <=> (k < next \/ k = next)
  BY <1>1, <1>2, <1>3
<1>6. CASE l.msgIndex \in present
  <2>1. events' = events
    BY <1>6 DEF AppendLog
  <2>2. PlacesInv'
    BY <1>1, <1>2, <2>1 DEF PlacesInv
  <2>3. MadeInv'
    BY <1>1, <1>2, <2>1 DEF MadeInv, Made, Working
  <2>4. ToldInv'
    BY <1>1, <1>2, <1>5, <1>6, <2>1 DEF ToldInv
  <2>5. ErrorInv'
    BY <1>1, <1>2, <2>1 DEF ErrorInv, Working
  <2>6. DistinctInv'
    BY <1>1, <1>2, <2>1 DEF DistinctInv, Injective, Working
  <2>7. QED
    BY <1>4, <2>2, <2>3, <2>4, <2>5, <2>6 DEF IInv
<1>7. CASE l.msgIndex \notin present
  <2> DEFINE n == Len(events)
  <2>1. events' = Append(events, e)
    BY <1>7 DEF AppendLog
  <2>2. e.id = l.msgIndex /\ e.kind = ""
    BY EventOfEntry
  <2>3. /\ IsSequence(events') /\ DOMAIN events' = 1..(n + 1) /\ n \in Nat
        /\ DOMAIN events = 1..n
        /\ \A i \in 1..n : events'[i] = events[i]
        /\ events'[n + 1] = e
    BY <1>2, <2>1, Appended, LengthOfSequence
  <2>4. PlacesInv'
    BY <1>1, <1>2, <2>3 DEF PlacesInv
  <2> HIDE DEF e, n, l
  <2>5. /\ \A i \in 1..(n + 1) : i \in 1..n \/ i = n + 1
        /\ \A i \in 1..n : i \in 1..(n + 1)
        /\ n + 1 \in 1..(n + 1)
    BY <2>3
  <2>6. \A i \in 1..n : Made(i)' = Made(i)
    BY <2>3 DEF Made
  <2>7. events'[n + 1].kind = ""
    BY <2>2, <2>3
  <2>8. MadeInv'
    <3>1. ASSUME NEW i \in DOMAIN events', Made(i)'
          PROVE  /\ events'[i].id \in present'
                 /\ events'[i].id + 1 \in DOMAIN tx'.msgs
                 /\ Nested(tx'.msgs[events'[i].id + 1], events'[i].sub[1].sub)
      <4>1. i \in 1..n /\ Made(i) /\ events'[i] = events[i]
        BY <2>3, <2>5, <2>6, <2>7, <3>1 DEF Made
      <4>2. QED
        BY <1>1, <1>2, <2>3, <4>1 DEF MadeInv
    <3>2. ASSUME NEW m \in present'
          PROVE  \E i \in DOMAIN events' : Made(i)' /\ events'[i].id = m
      <4>1. PICK i \in 1..n : Made(i) /\ events[i].id = m
        BY <1>1, <1>2, <2>3, <3>2 DEF MadeInv
      <4>2. QED
        BY <2>3, <2>5, <2>6, <4>1
    <3>3. present' \subseteq Nat
      BY <1>1, <1>2 DEF MadeInv
    <3>4. QED
      BY <1>1, <3>1, <3>2, <3>3 DEF MadeInv
  <2>9. ToldInv'
    <3>1. ASSUME NEW i \in DOMAIN events', events'[i].kind = ""
          PROVE  \E k \in DOMAIN lf' : /\ k < next' /\ events'[i].id = lf'[k].msgIndex
                                       /\ lf'[k].msgIndex \notin present'
      <4>1. CASE i \in 1..n
        <5>1. PICK k \in DOMAIN lf : /\ k < next /\ events[i].id = lf[k].msgIndex
                                     /\ lf[k].msgIndex \notin present
          BY <1>1, <1>2, <2>3, <3>1, <4>1 DEF ToldInv
        <5>2. QED
          BY <1>1, <1>5, <2>3, <4>1, <5>1
      <4>2. CASE i = n + 1
        <5>1. events'[i].id = lf[next].msgIndex
          BY <2>2, <2>3, <4>2 DEF l
        <5>2. QED
          BY <1>1, <1>3, <1>5, <1>7, <5>1 DEF l
      <4>3. QED
        BY <2>3, <2>5, <4>1, <4>2
    <3>2. ASSUME NEW k \in DOMAIN lf', k < next', lf'[k].msgIndex \notin present'
          PROVE  \E i \in DOMAIN events' : /\ events'[i].kind = ""
                                           /\ events'[i].id = lf'[k].msgIndex
      <4>1. CASE k < next
        <5>1. PICK i \in 1..n : events[i].kind = "" /\ events[i].id = lf[k].msgIndex
          BY <1>1, <1>2, <2>3, <3>2, <4>1 DEF ToldInv
        <5>2. QED
          BY <1>1, <2>3, <2>5, <5>1
      <4>2. CASE k = next
        BY <1>1, <2>2, <2>3, <2>5, <4>2 DEF l
      <4>3. QED
        BY <1>1, <1>5, <3>2, <4>1, <4>2
    <3>3. QED
      BY <3>1, <3>2 DEF ToldInv
  <2>10. ErrorInv'
    <3>1. \A i \in DOMAIN events' : events'[i].kind # "error"
      <4>1. \A i \in 1..n : events[i].kind # "error"
        BY <1>1, <1>2, <2>3 DEF ErrorInv
      <4>2. QED
        BY <2>2, <2>3, <2>5, <4>1
    <3>2. QED
      BY <1>1, <3>1 DEF ErrorInv
  <2>11. DistinctInv'
    <3>1. SUFFICES ASSUME IndexesDistinct(tx) PROVE Injective'
      BY <1>1 DEF DistinctInv, IndexesDistinct, Entries
    <3>2. Injective
      BY <1>2, <3>1 DEF DistinctInv
    <3>3. ASSUME NEW i \in 1..n PROVE events[i].id # l.msgIndex
      <4>1. CASE Made(i)
        BY <1>2, <1>7, <2>3, <3>3, <4>1 DEF MadeInv
      <4>2. CASE events[i].kind = ""
        <5>1. PICK k \in DOMAIN lf : k < next /\ events[i].id = lf[k].msgIndex
          BY <1>1, <1>2, <2>3, <3>3, <4>2 DEF ToldInv
        <5>2. /\ k \in DOMAIN Entries(tx) /\ next \in DOMAIN Entries(tx) /\ k # next
              /\ lf[k].msgIndex = Entries(tx)[k].index
          BY <1>2, <1>3, <5>1
        <5>3. QED
          BY <1>3, <3>1, <5>1, <5>2 DEF IndexesDistinct
      <4>3. CASE events[i].kind = "error"
        BY <1>1, <1>2, <2>3, <3>3, <4>3 DEF ErrorInv
      <4>4. QED
        BY <4>1, <4>2, <4>3 DEF Made
    <3>4. \A i \in 1..n : events'[i].id # events'[n + 1].id
      BY <2>2, <2>3, <3>3
    <3>5. QED
      BY <2>3, <2>5, <3>2, <3>4 DEF Injective
  <2>12. QED
    BY <1>4, <2>4, <2>8, <2>9, <2>10, <2>11 DEF IInv
<1>8. QED
  BY <1>6, <1>7

(* Behind the loops: the error, if the log did not decode, has the number  *)
(* of no message or entry.                                                 *)
LEMMA EntriesOverKeeps ==
    ASSUME IInv, EntriesOver
    PROVE  IInv'
<1> DEFINE e == Event(-1, "error", << [NoSub EXCEPT !.error = "log"] >>)
           n == Len(events)
<1>1. /\ pc = "entries" /\ pc' = "emit" /\ next > Len(lf)
      /\ UNCHANGED <<tx, lf, decoder, failed, present, next>>
      /\ events' = IF failed THEN Append(events, e) ELSE events
  BY DEF EntriesOver
<1>2. /\ LogInv /\ PlacesInv /\ MadeInv /\ ToldInv /\ ErrorInv /\ DistinctInv
      /\ next \in Nat \ {0} /\ IsSequence(events) /\ LogRead(tx, lf) /\ Working
  BY <1>1 DEF IInv, LogInv, PlacesInv, Working
<1>3. LogInv'
  BY <1>1, <1>2 DEF LogInv, Working
<1>4. \A i \in DOMAIN events : events[i].kind # "error"
  BY <1>1, <1>2 DEF ErrorInv
<1>5. e.id = -1 /\ e.kind = "error"
  BY DEF Event
<1> HIDE DEF e, n
<1>6. CASE ~failed
  <2>1. events' = events
    BY <1>1, <1>6
  <2>2. PlacesInv'
    BY <1>1, <1>2, <2>1 DEF PlacesInv
  <2>3. MadeInv'
    BY <1>1, <1>2, <2>1 DEF MadeInv, Made, Working
  <2>4. ToldInv'
    BY <1>1, <1>2, <2>1 DEF ToldInv
  <2>5. ErrorInv'
    BY <1>1, <1>4, <1>6, <2>1 DEF ErrorInv
  <2>6. DistinctInv'
    BY <1>1, <1>2, <2>1 DEF DistinctInv, Injective, Working
  <2>7. QED
    BY <1>3, <2>2, <2>3, <2>4, <2>5, <2>6 DEF IInv
<1>7. CASE failed
  <2>1. events' = Append(events, e)
    BY <1>1, <1>7
  <2>2. /\ IsSequence(events') /\ DOMAIN events' = 1..(n + 1) /\ n \in Nat
        /\ DOMAIN events = 1..n
        /\ \A i \in 1..n : events'[i] = events[i]
        /\ events'[n + 1] = e
    BY <1>2, <2>1, Appended, LengthOfSequence DEF n
  <2>3. /\ \A i \in 1..(n + 1) : i \in 1..n \/ i = n + 1
        /\ \A i \in 1..n : i \in 1..(n + 1)
        /\ n + 1 \in 1..(n + 1)
    BY <2>2
  <2>4. PlacesInv'
    BY <1>1, <1>2, <2>2 DEF PlacesInv
  <2>5. \A i \in 1..n : Made(i)' = Made(i)
    BY <2>2 DEF Made
  <2>6. events'[n + 1].kind = "error"
    BY <1>5, <2>2
  <2>7. MadeInv'
    <3>1. ASSUME NEW i \in DOMAIN events', Made(i)'
          PROVE  /\ events'[i].id \in present'
                 /\ events'[i].id + 1 \in DOMAIN tx'.msgs
                 /\ Nested(tx'.msgs[events'[i].id + 1], events'[i].sub[1].sub)
      <4>1. i \in 1..n /\ Made(i) /\ events'[i] = events[i]
        BY <2>2, <2>3, <2>5, <2>6, <3>1 DEF Made
      <4>2. QED
        BY <1>1, <1>2, <2>2, <4>1 DEF MadeInv
    <3>2. ASSUME NEW m \in present'
          PROVE  \E i \in DOMAIN events' : Made(i)' /\ events'[i].id = m
      <4>1. PICK i \in 1..n : Made(i) /\ events[i].id = m
        BY <1>1, <1>2, <2>2, <3>2 DEF MadeInv
      <4>2. QED
        BY <2>2, <2>3, <2>5, <4>1
    <3>3. present' \subseteq Nat
      BY <1>1, <1>2 DEF MadeInv
    <3>4. QED
      BY <1>1, <3>1, <3>2, <3>3 DEF MadeInv
  <2>8. ToldInv'
    <3>1. ASSUME NEW i \in DOMAIN events', events'[i].kind = ""
          PROVE  \E k \in DOMAIN lf' : /\ k < next' /\ events'[i].id = lf'[k].msgIndex
                                       /\ lf'[k].msgIndex \notin present'
      <4>1. i \in 1..n /\ events'[i] = events[i]
        BY <1>5, <2>2, <2>3, <3>1
      <4>2. PICK k \in DOMAIN lf : /\ k < next /\ events[i].id = lf[k].msgIndex
                                   /\ lf[k].msgIndex \notin present
        BY <1>1, <1>2, <2>2, <3>1, <4>1 DEF ToldInv
      <4>3. QED
        BY <1>1, <4>1, <4>2
    <3>2. ASSUME NEW k \in DOMAIN lf', k < next', lf'[k].msgIndex \notin present'
          PROVE  \E i \in DOMAIN events' : /\ events'[i].kind = ""
                                           /\ events'[i].id = lf'[k].msgIndex
      <4>1. PICK i \in 1..n : events[i].kind = "" /\ events[i].id = lf[k].msgIndex
        BY <1>1, <1>2, <2>2, <3>2 DEF ToldInv
      <4>2. QED
        BY <1>1, <2>2, <2>3, <4>1
    <3>3. QED
      BY <3>1, <3>2 DEF ToldInv
  <2>9. ErrorInv'
    <3>1. \A i \in 1..n : events'[i].kind # "error"
      BY <1>4, <2>2
    <3>2. QED
      BY <1>1, <1>5, <1>7, <2>2, <2>3, <3>1 DEF ErrorInv
  <2>10. DistinctInv'
    <3>1. SUFFICES ASSUME IndexesDistinct(tx) PROVE Injective'
      BY <1>1 DEF DistinctInv, IndexesDistinct, Entries
    <3>2. Injective
      BY <1>2, <3>1 DEF DistinctInv
    <3>3. ASSUME NEW i \in 1..n PROVE events[i].id # -1
      <4>1. CASE Made(i)
        <5>1. events[i].id \in Nat
          BY <1>2, <2>2, <3>3, <4>1 DEF MadeInv
        <5>2. QED
          BY <5>1
      <4>2. CASE events[i].kind = ""
        <5>1. PICK k \in DOMAIN lf : events[i].id = lf[k].msgIndex
          BY <1>1, <1>2, <2>2, <3>3, <4>2 DEF ToldInv
        <5>2. events[i].id \in Nat
          BY <1>2, <5>1 DEF LogRead
        <5>3. QED
          BY <5>2
      <4>3. QED
        BY <1>4, <2>2, <4>1, <4>2 DEF Made
    <3>4. \A i \in 1..n : events'[i].id # events'[n + 1].id
      BY <1>5, <2>2, <3>3
    <3>5. QED
      BY <2>2, <2>3, <3>2, <3>4 DEF Injective
  <2>11. QED
    BY <1>3, <2>4, <2>7, <2>8, <2>9, <2>10 DEF IInv
<1>8. QED
  BY <1>6, <1>7

LEMMA EmitKeeps ==
    ASSUME IInv, Emit \/ UNCHANGED vars
    PROVE  IInv'
<1>1. /\ pc' \in {"done", "take", pc} /\ (pc' = pc \/ ~Working')
      /\ UNCHANGED <<tx, lf, decoder, failed, present, events, next>>
  BY DEF Emit, vars, Working
<1>2. LogInv' /\ PlacesInv'
  BY <1>1 DEF IInv, LogInv, PlacesInv, Working
<1>3. CASE ~Working'
  BY <1>2, <1>3 DEF IInv, MadeInv, ToldInv, ErrorInv, DistinctInv, Working
<1>4. CASE pc' = pc
  <2>1. MadeInv' /\ ToldInv' /\ ErrorInv'
    BY <1>1, <1>4 DEF IInv, MadeInv, Made, ToldInv, ErrorInv, Working
  <2>2. DistinctInv'
    BY <1>1, <1>4 DEF IInv, DistinctInv, Injective, Working
  <2>3. QED
    BY <1>2, <2>1, <2>2 DEF IInv
<1>5. QED
  BY <1>1, <1>3, <1>4

-----------------------------------------------------------------------------
(* What is given.                                                          *)

Emitted == [tx |-> tx, lf |-> lf, events |-> events]

LEMMA WhatIsGiven ==
    ASSUME [Next]_vars
    PROVE  \/ outs' = outs
           \/ Given' = {}
           \/ pc = "emit" /\ Given' = {Emitted}
<1>1. CASE \E raw \in Raws : TakeRaw(raw)
  <2>1. outs' = <<>>
    BY <1>1 DEF TakeRaw
  <2>2. QED
    BY <2>1 DEF Given, Seqs!ToSet
<1>2. CASE Emit
  <2>1. outs' = <<Emitted>> /\ pc = "emit"
    BY <1>2 DEF Emit, Emitted
  <2>2. Seqs!ToSet(<<Emitted>>) = {Emitted}
    BY DEF Seqs!ToSet
  <2>3. QED
    BY <2>1, <2>2 DEF Given
<1>3. CASE AppendMessage \/ MessagesOver \/ AppendLog \/ EntriesOver \/ UNCHANGED vars
  BY <1>3 DEF AppendMessage, MessagesOver, AppendLog, EntriesOver, vars
<1>4. QED
  BY <1>1, <1>2, <1>3 DEF Next

LEMMA IndexedOnce ==
    ASSUME IInv, pc = "emit", NEW out, out = Emitted
    PROVE  /\ \A l \in Seqs!ToSet(out.lf) :
                 l.msgIndex \in Ids(out, Converted(out) \union FromLog(out))
           /\ Ids(out, Converted(out)) \intersect Ids(out, FromLog(out)) = {}
           /\ IndexesDistinct(out.tx) =>
                 \A i, j \in DOMAIN out.events : out.events[i].id = out.events[j].id => i = j
<1>1. out.tx = tx /\ out.lf = lf /\ out.events = events
  BY DEF Emitted
<1>2. /\ Converted(out) = {i \in DOMAIN events : Made(i)}
      /\ FromLog(out) = {i \in DOMAIN events : events[i].kind = ""}
  BY <1>1 DEF Converted, FromLog, Made
<1> DEFINE made == {i \in DOMAIN events : Made(i)}
           told == {i \in DOMAIN events : events[i].kind = ""}
<1>3. /\ Ids(out, Converted(out)) = {events[i].id : i \in made}
      /\ Ids(out, FromLog(out)) = {events[i].id : i \in told}
      /\ Ids(out, Converted(out) \union FromLog(out)) = {events[i].id : i \in made \union told}
  BY <1>1, <1>2 DEF Ids
<1>4. /\ MadeInv /\ ToldInv /\ DistinctInv /\ Working
      /\ next \in Nat /\ next > Len(lf) /\ DOMAIN lf = 1..Len(lf) /\ Len(lf) \in Nat
  BY LengthOfSequence DEF IInv, LogInv, LogRead, PlacesInv, Working
<1>5. ASSUME NEW k \in DOMAIN lf
      PROVE  lf[k].msgIndex \in Ids(out, Converted(out) \union FromLog(out))
  <2>1. k < next
    BY <1>4
  <2>2. CASE lf[k].msgIndex \in present
    <3>1. PICK i \in DOMAIN events : Made(i) /\ events[i].id = lf[k].msgIndex
      BY <1>4, <2>2 DEF MadeInv
    <3>2. i \in made \union told
      BY <3>1
    <3>3. QED
      BY <1>3, <3>1, <3>2
  <2>3. CASE lf[k].msgIndex \notin present
    <3>1. PICK i \in DOMAIN events : events[i].kind = "" /\ events[i].id = lf[k].msgIndex
      BY <1>4, <2>1, <2>3 DEF ToldInv
    <3>2. i \in made \union told
      BY <3>1
    <3>3. QED
      BY <1>3, <3>1, <3>2
  <2>4. QED
    BY <2>2, <2>3
<1>6. \A l \in Seqs!ToSet(lf) : l.msgIndex \in Ids(out, Converted(out) \union FromLog(out))
  BY <1>5 DEF Seqs!ToSet
<1>7. ASSUME NEW i \in DOMAIN events, Made(i), NEW j \in DOMAIN events, events[j].kind = ""
      PROVE  events[i].id # events[j].id
  <2>1. events[i].id \in present
    BY <1>4, <1>7 DEF MadeInv
  <2>2. events[j].id \notin present
    BY <1>4, <1>7 DEF ToldInv
  <2>3. QED
    BY <2>1, <2>2
<1>8. Ids(out, Converted(out)) \intersect Ids(out, FromLog(out)) = {}
  <2>1. \A i \in made : \A j \in told : events[i].id # events[j].id
    BY <1>7
  <2> HIDE DEF made, told
  <2>2. QED
    BY <1>3, <2>1
<1>9. IndexesDistinct(tx) => \A i, j \in DOMAIN events : events[i].id = events[j].id => i = j
  BY <1>4 DEF DistinctInv, Injective
<1>10. QED
  BY <1>1, <1>6, <1>8, <1>9

LEMMA NestedOfMade ==
    ASSUME IInv, pc = "emit", NEW out, out = Emitted, NEW c \in Converted(out)
    PROVE  Nested(out.tx.msgs[out.events[c].id + 1], out.events[c].sub[1].sub)
<1>1. out.tx = tx /\ out.events = events
  BY DEF Emitted
<1>2. c \in DOMAIN events /\ Made(c)
  BY <1>1 DEF Converted, Made
<1>3. QED
  BY <1>1, <1>2 DEF IInv, MadeInv, Working

(* The invariant in every run of the conversion.                           *)
THEOREM Invariance == Spec => []IInv
<1>1. Init => IInv
  BY InitIInv
<1>2. IInv /\ [Next]_vars => IInv'
  BY TakeKeeps, MessageKeeps, MessagesOverKeeps, EntryKeeps, EntriesOverKeeps, EmitKeeps DEF Next
<1>3. QED
  BY <1>1, <1>2, PTL DEF Spec

(* The two loops of appendEvents meet in presentIndexes: every message and *)
(* log entry that was read has its event, from one loop only, and no two   *)
(* events have the same number unless the log numbers entries alike.       *)
THEOREM EventsAreOnePerIndex == Spec => []OneEventPerIndex
<1>1. Init => OneEventPerIndex
  BY DEF Init, Given, OneEventPerIndex, Seqs!ToSet
<1>2. IInv /\ OneEventPerIndex /\ [Next]_vars => OneEventPerIndex'
  <2>1. SUFFICES ASSUME IInv, OneEventPerIndex, [Next]_vars PROVE OneEventPerIndex'
    OBVIOUS
  <2>2. CASE outs' = outs
    BY <2>1, <2>2 DEF OneEventPerIndex, Given
  <2>3. CASE Given' = {}
    BY <2>3 DEF OneEventPerIndex
  <2>4. CASE pc = "emit" /\ Given' = {Emitted}
    BY <2>1, <2>4, IndexedOnce DEF OneEventPerIndex
  <2>5. QED
    BY <2>1, <2>2, <2>3, <2>4, WhatIsGiven
<1>3. QED
  BY <1>1, <1>2, Invariance, PTL DEF Spec

(* A transaction carries the error of a log exactly if its own log does    *)
(* not decode, whichever logs the same call read before.                   *)
THEOREM ErrorsAreOwn == Spec => []ErrorEventIffUndecodable
<1>1. Init => ErrorEventIffUndecodable
  BY DEF Init, Given, ErrorEventIffUndecodable, Seqs!ToSet
<1>2. IInv /\ ErrorEventIffUndecodable /\ [Next]_vars => ErrorEventIffUndecodable'
  <2>1. SUFFICES ASSUME IInv, ErrorEventIffUndecodable, [Next]_vars
                 PROVE  ErrorEventIffUndecodable'
    OBVIOUS
  <2>2. CASE outs' = outs
    BY <2>1, <2>2 DEF ErrorEventIffUndecodable, Given
  <2>3. CASE Given' = {}
    BY <2>3 DEF ErrorEventIffUndecodable
  <2>4. CASE pc = "emit" /\ Given' = {Emitted}
    <3>1. Emitted.tx = tx /\ Emitted.events = events
      BY DEF Emitted
    <3>2. (\E i \in DOMAIN events : events[i].kind = "error") <=> ~LogDecodes(tx)
      BY <2>1, <2>4 DEF IInv, LogInv, ErrorInv, Working
    <3>3. QED
      BY <2>4, <3>1, <3>2 DEF ErrorEventIffUndecodable
  <2>5. QED
    BY <2>1, <2>2, <2>3, <2>4, WhatIsGiven
<1>3. QED
  BY <1>1, <1>2, Invariance, PTL DEF Spec

-----------------------------------------------------------------------------
(* The sub events of a log entry.                                          *)

SubEventsOf(evs) == Seqs!FoldLeft(AddSubEvent, <<>>, evs)

LEMMA SubEventsByLoop == \A evs : SubEventsOf(evs) = SubEvents!Loop(0, <<>>, evs)
  BY DEF SubEventsOf, SubEvents!Loop, SubEvents!Reads, SubEvents!Highest, ReadEvent,
         Seqs!FoldLeft, Seqs!MapThenFoldSet, Seqs!Max

LEMMA SubEventsAreSilent ==
    ASSUME NEW E, NEW evs \in Seq(E)
    PROVE  Silent(SubEventsOf(evs))
<1>1. PICK n \in Nat : DOMAIN evs = 1..n
  OBVIOUS
<1>2. Silent(<<>>)
  <2>1. <<>> \in Seq({}) /\ DOMAIN <<>> = {}
    OBVIOUS
  <2>2. QED
    BY <2>1, SequenceOfSome DEF Silent
<1>3. ASSUME NEW subs, NEW ev, Silent(subs)
      PROVE  Silent(AddSubEvent(subs, ev))
  <2> DEFINE one == Sub(ev.attributes.action, ev.attributes.module, <<>>, <<>>)
             more == Append(subs, one)
  <2>1. \E a, m : one = Sub(a, m, <<>>, <<>>)
    OBVIOUS
  <2> HIDE DEF one
  <2>2. /\ IsSequence(more) /\ DOMAIN more = 1..(Len(subs) + 1)
        /\ \A i \in 1..Len(subs) : more[i] = subs[i]
        /\ more[Len(subs) + 1] = one
    BY <1>3, Appended DEF Silent
  <2>3. DOMAIN subs = 1..Len(subs) /\ Len(subs) \in Nat
    BY <1>3, LengthOfSequence DEF Silent
  <2>4. DOMAIN more = DOMAIN subs \union {Len(subs) + 1}
    BY <2>2, <2>3
  <2> HIDE DEF more
  <2>5. Silent(more)
    BY <1>3, <2>1, <2>2, <2>3, <2>4 DEF Silent
  <2>6. AddSubEvent(subs, ev) \in {more, subs}
    BY DEF AddSubEvent, more, one
  <2>7. QED
    BY <1>3, <2>5, <2>6
<1>4. SilentSoFar(0, n, SubEvents!Loop(0, <<>>, evs))
  BY <1>1, <1>2, <1>3, SubEvents!LoopRule DEF SilentSoFar, ReadEvent
<1>5. QED
  BY <1>4, SubEventsByLoop DEF SilentSoFar

-----------------------------------------------------------------------------
(* Failures.                                                               *)

EventOf(l) == WithError(EventFromLogs(l), l)

LEMMA ErrorOfEntry ==
    ASSUME NEW l \in LogFormats
    PROVE  /\ \A k \in DOMAIN EventOf(l).sub :
                 EventOf(l).sub[k].error # "none" => k = 1 /\ ~l.success
           /\ ~l.success =>
                 EventOf(l).sub # <<>> /\ EventOf(l).sub[1].error = l.message
<1> DEFINE x == SubEventsOf(l.events)
           ev == EventFromLogs(l)
           subs == ev.sub
<1>1. ev = [id |-> l.msgIndex, kind |-> "", sub |-> x]
  BY DEF EventFromLogs, Event, SubEventsOf
<1>2. Silent(x)
  <2>1. PICK e \in NodeEntries : l = LogFormat(e)
    BY DEF LogFormats
  <2>2. e.events \in Seq(NodeEvents)
    BY DEF NodeEntries
  <2>3. PICK n \in Nat : DOMAIN e.events = 1..n
    BY <2>2
  <2> DEFINE F == [i \in DOMAIN e.events |-> TxEvent(e.events[i])]
  <2>4. l.events = F
    BY <2>1 DEF LogFormat
  <2>5. DOMAIN F = 1..n /\ F = [i \in 1..n |-> F[i]]
    BY <2>3
  <2> HIDE DEF F
  <2>6. F \in Seq({F[i] : i \in DOMAIN F})
    BY <2>5, FunctionIsSequence DEF IsSequence
  <2>7. QED
    BY <2>4, <2>6, SubEventsAreSilent
<1>3. \A a, m : /\ Sub(a, m, <<>>, <<>>).error = "none"
                /\ [Sub(a, m, <<>>, <<>>) EXCEPT !.error = l.message].error = l.message
  BY DEF Sub
<1> HIDE DEF x, ev
<1>4. x = [k \in DOMAIN x |-> x[k]]
  BY <1>2, LengthOfSequence DEF Silent, IsSequence
<1>5. \A k \in DOMAIN x : /\ x[k].error = "none"
                          /\ [x[k] EXCEPT !.error = l.message].error = l.message
  BY <1>2, <1>3 DEF Silent
<1>6. subs = x /\ \A k \in DOMAIN subs : subs[k].error = "none"
  BY <1>1, <1>5
<1>7. CASE l.success
  BY <1>6, <1>7 DEF EventOf, WithError, ev
<1>8. CASE ~l.success /\ ev.sub = <<>>
  <2> DEFINE s == [NoSub EXCEPT !.error = l.message]
  <2>1. s.error = l.message
    BY DEF NoSub, Sub
  <2> HIDE DEF s
  <2>2. EventOf(l) = [ev EXCEPT !.sub = <<s>>]
    BY <1>8 DEF EventOf, WithError, ev, s
  <2>3. EventOf(l).sub = <<s>>
    BY <1>1, <2>2
  <2>4. DOMAIN <<s>> = {1} /\ <<s>>[1] = s /\ <<s>> # <<>>
    OBVIOUS
  <2>5. QED
    BY <1>8, <2>1, <2>3, <2>4
<1>9. CASE ~l.success /\ ev.sub # <<>>
  <2> DEFINE w == [x EXCEPT ![1].error = l.message]
  <2>1. EventOf(l) = [ev EXCEPT !.sub[1].error = l.message]
    BY <1>9 DEF EventOf, WithError, ev
  <2>2. EventOf(l).sub = w
    BY <1>1, <2>1
  <2>3. DOMAIN w = DOMAIN x /\ \A k \in DOMAIN x : k # 1 => w[k] = x[k]
    BY <1>4
  <2>4. 1 \in DOMAIN x => w[1].error = l.message
    BY <1>5, <1>4
  <2> HIDE DEF w
  <2>5. \A k \in DOMAIN w : w[k].error # "none" => k = 1
    BY <1>5, <2>3
  <2>6. 1 \in DOMAIN x /\ w # <<>>
    <3>1. x # <<>>
      BY <1>6, <1>9
    <3>2. Len(x) \in Nat /\ DOMAIN x = 1..Len(x)
      BY <1>2, LengthOfSequence DEF Silent
    <3>3. Len(x) # 0
      BY <1>2, <3>1 DEF IsSequence, Silent
    <3>4. 1 \in DOMAIN x
      BY <3>2, <3>3
    <3>5. DOMAIN <<>> = {}
      OBVIOUS
    <3>6. QED
      BY <2>3, <3>4, <3>5
  <2>7. QED
    BY <1>6, <1>9, <2>2, <2>4, <2>5, <2>6 DEF ev
<1>10. QED
  BY <1>7, <1>8, <1>9

(* The events of the log, each with the entry it was made of.              *)
SubInv == pc \in {"entries", "emit"} =>
    /\ \A i \in DOMAIN events : events[i].kind = "" =>
          \E k \in DOMAIN lf : events[i] = EventOf(lf[k])
    /\ \A k \in DOMAIN lf : k < next /\ lf[k].msgIndex \notin present =>
          \E i \in DOMAIN events : events[i] = EventOf(lf[k])

LEMMA SubEntry ==
    ASSUME IInv, SubInv, AppendLog
    PROVE  SubInv'
<1> DEFINE l == lf[next]
           n == Len(events)
<1>1. /\ pc = "entries" /\ pc' = "entries" /\ next <= Len(lf) /\ next' = next + 1
      /\ UNCHANGED <<lf, present>>
      /\ events' = IF l.msgIndex \in present THEN events ELSE Append(events, EventOf(l))
  BY DEF AppendLog, EventOf
<1>2. next \in Nat \ {0} /\ IsSequence(events) /\ IsSequence(lf)
  BY DEF IInv, PlacesInv, LogInv, LogRead
<1>3. next \in DOMAIN lf /\ DOMAIN lf = 1..Len(lf)
  BY <1>1, <1>2, LengthOfSequence
<1>4. \A k \in DOMAIN lf : k < next' <=> (k < next \/ k = next)
  BY <1>1, <1>2, <1>3, LengthOfSequence
<1>5. CASE l.msgIndex \in present
  BY <1>1, <1>4, <1>5 DEF SubInv
<1>6. CASE l.msgIndex \notin present
  <2>1. /\ DOMAIN events' = 1..(n + 1) /\ n \in Nat /\ DOMAIN events = 1..n
        /\ \A i \in 1..n : events'[i] = events[i]
        /\ events'[n + 1] = EventOf(l)
    BY <1>1, <1>2, <1>6, Appended, LengthOfSequence
  <2> HIDE DEF n, l
  <2>2. /\ \A i \in 1..(n + 1) : i \in 1..n \/ i = n + 1
        /\ \A i \in 1..n : i \in 1..(n + 1)
        /\ n + 1 \in 1..(n + 1)
    BY <2>1
  <2>3. ASSUME NEW i \in DOMAIN events', events'[i].kind = ""
        PROVE  \E k \in DOMAIN lf : events'[i] = EventOf(lf[k])
    <3>1. CASE i \in 1..n
      BY <1>1, <2>1, <2>3, <3>1 DEF SubInv
    <3>2. CASE i = n + 1
      BY <1>3, <2>1, <3>2 DEF l
    <3>3. QED
      BY <2>1, <2>2, <3>1, <3>2
  <2>4. ASSUME NEW k \in DOMAIN lf, k < next', lf[k].msgIndex \notin present
        PROVE  \E i \in DOMAIN events' : events'[i] = EventOf(lf[k])
    <3>1. CASE k < next
      <4>1. PICK i \in 1..n : events[i] = EventOf(lf[k])
        BY <1>1, <2>1, <2>4, <3>1 DEF SubInv
      <4>2. QED
        BY <2>1, <2>2, <4>1
    <3>2. CASE k = next
      BY <2>1, <2>2, <3>2 DEF l
    <3>3. QED
      BY <1>4, <2>4, <3>1, <3>2
  <2>5. QED
    BY <1>1, <2>3, <2>4 DEF SubInv
<1>7. QED
  BY <1>5, <1>6

LEMMA SubKept ==
    ASSUME IInv, SubInv, [Next]_vars
    PROVE  SubInv'
<1>1. CASE (\E raw \in Raws : TakeRaw(raw)) \/ AppendMessage
  <2>1. pc' \notin {"entries", "emit"}
    BY <1>1 DEF TakeRaw, AppendMessage
  <2>2. QED
    BY <2>1 DEF SubInv
<1>2. CASE MessagesOver
  <2>1. pc = "messages" /\ next' = 1 /\ events' = events /\ lf' = lf
    BY <1>2 DEF MessagesOver
  <2>2. \A i \in DOMAIN events : events[i].kind # ""
    BY <2>1 DEF IInv, MadeInv, Made, Working
  <2>3. \A k \in DOMAIN lf : ~(k < 1)
    BY LengthOfSequence DEF IInv, LogInv, LogRead
  <2>4. QED
    BY <2>1, <2>2, <2>3 DEF SubInv
<1>3. CASE AppendLog
  BY <1>3, SubEntry
<1>4. CASE EntriesOver
  <2> DEFINE e == Event(-1, "error", << [NoSub EXCEPT !.error = "log"] >>)
             n == Len(events)
  <2>1. /\ pc = "entries" /\ UNCHANGED <<lf, present, next>>
        /\ events' = IF failed THEN Append(events, e) ELSE events
    BY <1>4 DEF EntriesOver
  <2>2. e.kind = "error"
    BY DEF Event
  <2> HIDE DEF e
  <2>3. CASE ~failed
    BY <2>1, <2>3 DEF SubInv
  <2>4. CASE failed
    <3>1. IsSequence(events)
      BY DEF IInv, PlacesInv
    <3>2. /\ DOMAIN events' = 1..(n + 1) /\ n \in Nat /\ DOMAIN events = 1..n
          /\ \A i \in 1..n : events'[i] = events[i]
          /\ events'[n + 1] = e
      BY <2>1, <2>4, <3>1, Appended, LengthOfSequence
    <3> HIDE DEF n
    <3>3. /\ \A i \in 1..(n + 1) : i \in 1..n \/ i = n + 1
          /\ \A i \in 1..n : i \in 1..(n + 1)
      BY <3>2
    <3>4. ASSUME NEW i \in DOMAIN events', events'[i].kind = ""
          PROVE  \E k \in DOMAIN lf : events'[i] = EventOf(lf[k])
      <4>1. i \in 1..n
        BY <2>2, <3>2, <3>3, <3>4
      <4>2. PICK k \in DOMAIN lf : events[i] = EventOf(lf[k])
        BY <2>1, <3>2, <3>4, <4>1 DEF SubInv
      <4>3. QED
        BY <3>2, <4>1, <4>2
    <3>5. ASSUME NEW k \in DOMAIN lf, k < next, lf[k].msgIndex \notin present
          PROVE  \E i \in DOMAIN events' : events'[i] = EventOf(lf[k])
      <4>1. PICK i \in 1..n : events[i] = EventOf(lf[k])
        BY <2>1, <3>2, <3>5 DEF SubInv
      <4>2. QED
        BY <3>2, <3>3, <4>1
    <3>6. QED
      BY <2>1, <3>4, <3>5 DEF SubInv
  <2>5. QED
    BY <2>3, <2>4
<1>5. CASE Emit \/ UNCHANGED vars
  <2>1. /\ UNCHANGED <<lf, present, next, events>>
        /\ pc' = pc \/ pc' \notin {"entries", "emit"}
    BY <1>5 DEF Emit, vars
  <2>2. QED
    BY <2>1 DEF SubInv
<1>6. QED
  BY <1>1, <1>2, <1>3, <1>4, <1>5 DEF Next

LEMMA FailureOfEntry ==
    ASSUME IInv, SubInv, pc = "emit", NEW out, out = Emitted
    PROVE  /\ \A l \in Seqs!ToSet(out.lf) :
                 ~l.success /\ l.msgIndex \notin Ids(out, Converted(out)) =>
                   \E i \in FromLog(out) :
                      /\ out.events[i].id = l.msgIndex
                      /\ out.events[i].sub # <<>> /\ out.events[i].sub[1].error = l.message
           /\ \A i \in FromLog(out) : \A k \in DOMAIN out.events[i].sub :
                 out.events[i].sub[k].error # "none" =>
                   k = 1 /\ \E l \in Seqs!ToSet(out.lf) : ~l.success /\ l.msgIndex = out.events[i].id
<1>1. out.tx = tx /\ out.lf = lf /\ out.events = events
  BY DEF Emitted
<1>2. FromLog(out) = {i \in DOMAIN events : events[i].kind = ""}
  BY <1>1 DEF FromLog
<1>3. Ids(out, Converted(out)) = {events[i].id : i \in {j \in DOMAIN events : Made(j)}}
  BY <1>1 DEF Ids, Converted, Made
<1>4. /\ MadeInv /\ Working /\ LogRead(tx, lf)
      /\ next \in Nat /\ next > Len(lf) /\ DOMAIN lf = 1..Len(lf) /\ Len(lf) \in Nat
  BY LengthOfSequence DEF IInv, LogInv, LogRead, PlacesInv, Working
<1>5. ASSUME NEW q \in DOMAIN lf, ~lf[q].success,
             lf[q].msgIndex \notin Ids(out, Converted(out))
      PROVE  \E i \in FromLog(out) :
                /\ events[i].id = lf[q].msgIndex
                /\ events[i].sub # <<>> /\ events[i].sub[1].error = lf[q].message
  <2>1. lf[q].msgIndex \notin present
    <3>1. SUFFICES ASSUME lf[q].msgIndex \in present PROVE FALSE
      OBVIOUS
    <3>2. PICK i \in DOMAIN events : Made(i) /\ events[i].id = lf[q].msgIndex
      BY <1>4, <3>1 DEF MadeInv
    <3>3. i \in {j \in DOMAIN events : Made(j)}
      BY <3>2
    <3>4. QED
      BY <1>3, <1>5, <3>2, <3>3
  <2>2. q < next
    BY <1>4
  <2>3. PICK i \in DOMAIN events : events[i] = EventOf(lf[q])
    BY <2>1, <2>2 DEF SubInv
  <2>4. events[i].kind = "" /\ events[i].id = lf[q].msgIndex
    BY <2>3, EventOfEntry DEF EventOf
  <2>5. lf[q] \in LogFormats
    BY <1>4 DEF LogRead
  <2>6. events[i].sub # <<>> /\ events[i].sub[1].error = lf[q].message
    BY <1>5, <2>3, <2>5, ErrorOfEntry
  <2>7. QED
    BY <1>2, <2>4, <2>6
<1>6. ASSUME NEW i \in FromLog(out), NEW k \in DOMAIN events[i].sub,
             events[i].sub[k].error # "none"
      PROVE  k = 1 /\ \E l \in Seqs!ToSet(lf) : ~l.success /\ l.msgIndex = events[i].id
  <2>1. PICK q \in DOMAIN lf : events[i] = EventOf(lf[q])
    BY <1>2 DEF SubInv
  <2>2. k = 1 /\ ~lf[q].success
    <3>1. lf[q] \in LogFormats
      BY <1>4 DEF LogRead
    <3>2. QED
      BY <1>6, <2>1, <3>1, ErrorOfEntry
  <2>3. events[i].id = lf[q].msgIndex
    BY <2>1, EventOfEntry DEF EventOf
  <2>4. QED
    BY <2>2, <2>3 DEF Seqs!ToSet
<1>7. \A l \in Seqs!ToSet(lf) : \E q \in DOMAIN lf : l = lf[q]
  BY DEF Seqs!ToSet
<1>8. QED
  BY <1>1, <1>5, <1>6, <1>7

(* A log entry that failed tells so in the first sub event of its event,   *)
(* unless its message was converted, and no other sub event tells of a     *)
(* failure.                                                                *)
THEOREM FailuresAreToldOn == Spec => []FailureTold
<1>1. Init => FailureTold /\ SubInv
  <2>1. Init => Given = {} /\ pc = "take"
    BY DEF Init, Given, Seqs!ToSet
  <2>2. QED
    BY <2>1 DEF FailureTold, SubInv
<1>2. IInv /\ SubInv /\ [Next]_vars => SubInv'
  BY SubKept
<1>3. IInv /\ SubInv /\ FailureTold /\ [Next]_vars => FailureTold'
  <2>1. SUFFICES ASSUME IInv, SubInv, FailureTold, [Next]_vars PROVE FailureTold'
    OBVIOUS
  <2>2. CASE outs' = outs
    BY <2>1, <2>2 DEF FailureTold, Given
  <2>3. CASE Given' = {}
    BY <2>3 DEF FailureTold
  <2>4. CASE pc = "emit" /\ Given' = {Emitted}
    BY <2>1, <2>4, FailureOfEntry DEF FailureTold
  <2>5. QED
    BY <2>1, <2>2, <2>3, <2>4, WhatIsGiven
<1>4. QED
  BY <1>1, <1>2, <1>3, Invariance, PTL DEF Spec

-----------------------------------------------------------------------------
(* Transfers.                                                              *)

(* What TransfersOfOwnEntry and the end of NestedPrefix say of the event   *)
(* of a message.                                                           *)
Sent(raw, ev) ==
    LET k   == MapperOf(raw.msgs[ev.id + 1])
        own == OwnEntries(raw, ev.id)
        got == ev.sub[1].transfers
    IN  IF k.transfers = "none" \/ own = {} \/ Cardinality(Read(raw)) <= ev.id
        THEN got = <<>>
        ELSE (\A e \in own : WellFormedEntry(e)) => \E e \in own : Gives(got, e, k.skip)

Stopped(raw, ev) ==
    LET msg == raw.msgs[ev.id + 1]
        sub == ev.sub[1].sub
    IN  msg.type = "exec_delegated" /\ Len(sub) < Len(msg.msgs) =>
            Inconvertible(msg.msgs[Len(sub) + 1], OwnEntries(raw, ev.id))

Owned(raw, ev) == Sent(raw, ev) /\ Stopped(raw, ev)

KnownInv == \A i \in DOMAIN Entries(tx) : EntryKnown(Entries(tx)[i])

SentInv == Working => \A i \in DOMAIN events : Made(i) => Owned(tx, events[i])

LEMMA KnownKept ==
    ASSUME KnownInv, [Next]_vars
    PROVE  KnownInv'
<1>1. CASE \E raw \in Raws : TakeRaw(raw)
  <2>1. PICK raw \in Raws : TakeRaw(raw)
    BY <1>1
  <2>2. tx' = raw \/ tx' = [raw EXCEPT !.msgs = <<>>]
    BY <2>1 DEF TakeRaw
  <2>3. raw \in RawTxs
    BY TxEventsAssumption
  <2>4. tx'.log = raw.log
    BY <2>2, <2>3 DEF RawTxs
  <2>5. Entries(tx') = Entries(raw)
    BY <2>4 DEF Entries
  <2>6. \A i \in DOMAIN Entries(raw) : EntryKnown(Entries(raw)[i])
    <3>1. CASE raw.log.form = "list"
      <4>1. Entries(raw) = raw.log.entries
        BY <3>1 DEF Entries
      <4>2. QED
        BY <3>1, <4>1, TxEventsAssumption DEF EntryKnown
    <3>2. CASE raw.log.form # "list"
      <4>1. Entries(raw) = <<>> /\ DOMAIN <<>> = {}
        BY <3>2 DEF Entries
      <4>2. QED
        BY <4>1
    <3>3. QED
      BY <3>1, <3>2
  <2>7. QED
    BY <2>5, <2>6 DEF KnownInv, Entries
<1>2. CASE tx' = tx
  BY <1>2 DEF KnownInv, Entries
<1>3. QED
  BY <1>1, <1>2 DEF Next, AppendMessage, MessagesOver, AppendLog, EntriesOver, Emit, vars

(* The entry the message is converted with, as the node wrote it.          *)
LEMMA EntryOfMessage ==
    ASSUME IInv, KnownInv, NEW index \in Nat
    PROVE  \E e \in NodeEntries :
              /\ FindLog(index) = LogFormat(e) /\ EntryKnown(e)
              /\ \/ /\ e = NothingTold
                    /\ Cardinality(Read(tx)) <= index \/ OwnEntries(tx, index) = {}
                 \/ Cardinality(Read(tx)) > index /\ e \in OwnEntries(tx, index)
<1>1. tx \in RawTxs /\ LogRead(tx, lf)
  BY DEF IInv, LogInv
<1>2. \A e \in OwnEntries(tx, index) : e \in NodeEntries /\ EntryKnown(e)
  <2>1. \A i \in Read(tx) : i \in DOMAIN Entries(tx)
    BY DEF Read
  <2>2. Entries(tx) \in Seq(NodeEntries)
    BY <1>1, RawFields
  <2>3. QED
    BY <2>1, <2>2 DEF KnownInv, OwnEntries, WithIndex
<1>3. QED
  BY <1>1, <1>2, FoundEntry, NothingIsTold

(* The event of the next message has the transfers of its entry.           *)
LEMMA MessageSends ==
    ASSUME IInv, KnownInv, pc = "messages", next <= Len(tx.msgs),
           NEW r, r = GetSubEvent(tx.msgs[next], FindLog(next - 1)), r.is = "ok",
           NEW ev, ev = Event(next - 1, tx.msgs[next].type, <<r.se>>)
    PROVE  Sent(tx, ev)
<1> DEFINE index == next - 1
           msg   == tx.msgs[next]
           own   == OwnEntries(tx, index)
           k     == MapperOf(msg)
           got   == r.se.transfers
           few   == Cardinality(Read(tx)) <= index
<1>1. index \in Nat /\ index + 1 = next /\ tx \in RawTxs /\ LogRead(tx, lf)
  BY DEF IInv, LogInv, PlacesInv
<1>2. ev.id = index /\ ev.sub[1].transfers = got
  BY DEF Event
<1>3. PICK e \in NodeEntries :
         /\ FindLog(index) = LogFormat(e) /\ EntryKnown(e)
         /\ \/ e = NothingTold /\ (few \/ own = {})
            \/ Cardinality(Read(tx)) > index /\ e \in own
  BY <1>1, EntryOfMessage
<1>4. r = GetSubEvent(msg, LogFormat(e))
  BY <1>3
<1>5. k.transfers = "none" => got = <<>>
  BY <1>4, NoTransfersOfMessage
<1>6. k.transfers # "none" /\ WellFormedEntry(e) => Gives(got, e, k.skip) /\ IsSequence(got)
  BY <1>3, <1>4, TransfersOfMessage
<1>7. Cardinality(Read(tx)) \in Nat
  <2>1. IsSequence(lf) /\ DOMAIN lf = Read(tx)
    BY <1>1 DEF LogRead
  <2>2. QED
    BY <2>1, LengthOfSequence, FirstPlaces
<1>8. few => ~(Cardinality(Read(tx)) > index)
  BY <1>1, <1>7
<1> HIDE DEF index, msg, own, k, got, few
<1>9. own = {} \/ few => got = <<>>
  <2>1. SUFFICES ASSUME own = {} \/ few, k.transfers # "none" PROVE got = <<>>
    BY <1>5
  <2>2. e = NothingTold
    BY <1>3, <1>8, <2>1
  <2>3. Gives(got, e, k.skip) /\ IsSequence(got)
    BY <1>6, <2>1, <2>2, NothingIsTold
  <2>4. Len(got) = 0
    BY <2>2, <2>3, NothingIsTold, FS_EmptySet DEF Gives
  <2>5. QED
    BY <2>3, <2>4, EmptyIsNone
<1>10. ASSUME k.transfers # "none", own # {}, ~few, \A f \in own : WellFormedEntry(f)
       PROVE  \E f \in own : Gives(got, f, k.skip)
  <2>1. e \in own
    BY <1>3, <1>10
  <2>2. QED
    BY <1>6, <1>10, <2>1
<1>11. /\ tx.msgs[ev.id + 1] = msg /\ OwnEntries(tx, ev.id) = own
       /\ MapperOf(tx.msgs[ev.id + 1]) = k /\ (Cardinality(Read(tx)) <= ev.id <=> few)
  BY <1>1, <1>2 DEF msg, own, k, few
<1>12. QED
  BY <1>2, <1>5, <1>9, <1>10, <1>11 DEF Sent

(* Where its nested events end early, the next nested message is one that  *)
(* cannot be converted.                                                    *)
LEMMA MessageStops ==
    ASSUME IInv, KnownInv, pc = "messages", next <= Len(tx.msgs),
           NEW r, r = GetSubEvent(tx.msgs[next], FindLog(next - 1)), r.is = "ok",
           NEW ev, ev = Event(next - 1, tx.msgs[next].type, <<r.se>>)
    PROVE  Stopped(tx, ev)
<1> DEFINE index == next - 1
           msg   == tx.msgs[next]
           sub   == r.se.sub
           m     == msg.msgs[Len(sub) + 1]
<1>1. index \in Nat /\ index + 1 = next /\ next \in Nat \ {0} /\ tx \in RawTxs
  BY DEF IInv, LogInv, PlacesInv
<1>2. ev.id = index /\ ev.sub[1].sub = sub
  BY DEF Event
<1>3. msg \in Messages
  <2>1. tx.msgs \in Seq(Messages)
    BY <1>1, RawFields
  <2>2. QED
    BY <1>1, <2>1
<1>4. PICK e \in NodeEntries :
         /\ FindLog(index) = LogFormat(e) /\ EntryKnown(e)
         /\ e = NothingTold \/ e \in OwnEntries(tx, index)
  BY <1>1, EntryOfMessage
<1>5. ASSUME msg.type = "exec_delegated", Len(sub) < Len(msg.msgs)
      PROVE  Inconvertible(m, OwnEntries(tx, index))
  <2>1. KnownType(msg)
    BY <1>3, SubEventOK
  <2>2. r = ExecSubEvent(msg, LogFormat(e))
    BY <1>4, <1>5, <2>1 DEF GetSubEvent
  <2>3. msg.msgs \in Seq(MessagesWith({<<>>}))
    BY <1>3 DEF Messages, MessagesWith
  <2>4. PlainSubEvent(m, LogFormat(e)).is \notin {"ok", "panic"}
    BY <1>5, <2>2, <2>3, ExecIsPrefix
  <2> HIDE DEF m, msg, sub, index
  <2>5. \/ ~KnownType(m)
        \/ /\ MapperOf(m).transfers # "none"
           /\ ~WellFormedEntry(e) \/ HasPoints(e, MapperOf(m).skip)
    BY <1>4, <2>4, PlainErrs
  <2>6. e = NothingTold => WellFormedEntry(e) /\ ~HasPoints(e, MapperOf(m).skip)
    BY NothingIsTold DEF HasPoints
  <2>7. QED
    BY <1>4, <2>5, <2>6 DEF Inconvertible
<1> HIDE DEF m, sub
<1>6. QED
  BY <1>1, <1>2, <1>5 DEF Stopped, m

OfMessage(ev) == ev.kind \notin {"", "error"}

LEMMA SentAppended ==
    ASSUME IsSequence(events), NEW ev, events' = Append(events, ev), tx' = tx,
           \A i \in DOMAIN events : Made(i) => Owned(tx, events[i]),
           OfMessage(ev) => Owned(tx, ev)
    PROVE  \A i \in DOMAIN events' : Made(i)' => Owned(tx', events'[i])
<1> DEFINE n == Len(events)
<1>1. /\ DOMAIN events' = 1..(n + 1) /\ n \in Nat /\ DOMAIN events = 1..n
      /\ \A i \in 1..n : events'[i] = events[i]
      /\ events'[n + 1] = ev
  BY Appended, LengthOfSequence
<1>2. TAKE i \in DOMAIN events'
<1>3. i \in 1..n \/ i = n + 1
  BY <1>1
<1>4. CASE i \in 1..n
  <2>1. events'[i] = events[i] /\ i \in DOMAIN events
    BY <1>1, <1>4
  <2>2. Made(i)' <=> Made(i)
    BY <2>1 DEF Made
  <2>3. QED
    BY <2>1, <2>2, Zenon
<1>5. CASE i = n + 1
  <2>1. events'[i] = ev
    BY <1>1, <1>5
  <2>2. Made(i)' => OfMessage(ev)
    BY <2>1 DEF Made, OfMessage
  <2>3. QED
    BY <2>1, <2>2, Zenon
<1>6. QED
  BY <1>3, <1>4, <1>5

LEMMA SentKept ==
    ASSUME IInv, KnownInv, SentInv, [Next]_vars
    PROVE  SentInv'
<1>1. IsSequence(events)
  BY DEF IInv, PlacesInv
<1>2. CASE \E raw \in Raws : TakeRaw(raw)
  <2>1. events' = <<>> /\ DOMAIN <<>> = {}
    BY <1>2 DEF TakeRaw
  <2>2. QED
    BY <2>1 DEF SentInv
<1>3. CASE AppendMessage
  <2> DEFINE r  == GetSubEvent(tx.msgs[next], FindLog(next - 1))
             ev == Event(next - 1, tx.msgs[next].type, <<r.se>>)
  <2>1. /\ pc = "messages" /\ next <= Len(tx.msgs) /\ tx' = tx
        /\ r.is = "ok" => events' = Append(events, ev)
        /\ r.is # "ok" => events' = events
    BY <1>3 DEF AppendMessage
  <2>2. \A i \in DOMAIN events : Made(i) => Owned(tx, events[i])
    BY <2>1 DEF SentInv, Working
  <2> HIDE DEF r, ev
  <2>3. CASE r.is = "ok"
    <3>1. Owned(tx, ev)
      BY <2>1, <2>3, MessageSends, MessageStops DEF r, ev, Owned
    <3>2. \A i \in DOMAIN events' : Made(i)' => Owned(tx', events'[i])
      BY <1>1, <2>1, <2>2, <2>3, <3>1, SentAppended
    <3>3. QED
      BY <3>2 DEF SentInv
  <2>4. CASE r.is # "ok"
    BY <2>1, <2>2, <2>4 DEF SentInv, Made
  <2>5. QED
    BY <2>3, <2>4
<1>4. CASE AppendLog
  <2>1. /\ pc = "entries" /\ tx' = tx
        /\ events' = events \/ events' = Append(events, EventOf(lf[next]))
    BY <1>4 DEF AppendLog, EventOf
  <2>2. \A i \in DOMAIN events : Made(i) => Owned(tx, events[i])
    BY <2>1 DEF SentInv, Working
  <2>3. EventOf(lf[next]).kind = ""
    BY EventOfEntry DEF EventOf
  <2>4. CASE events' = events
    BY <2>1, <2>2, <2>4 DEF SentInv, Made
  <2>5. CASE events' = Append(events, EventOf(lf[next]))
    <3>1. ~OfMessage(EventOf(lf[next]))
      BY <2>3 DEF OfMessage
    <3>2. \A i \in DOMAIN events' : Made(i)' => Owned(tx', events'[i])
      BY <1>1, <2>1, <2>2, <2>5, <3>1, SentAppended
    <3>3. QED
      BY <3>2 DEF SentInv
  <2>6. QED
    BY <2>1, <2>4, <2>5
<1>5. CASE EntriesOver
  <2> DEFINE ev == Event(-1, "error", << [NoSub EXCEPT !.error = "log"] >>)
  <2>1. /\ pc = "entries" /\ tx' = tx
        /\ events' = events \/ events' = Append(events, ev)
    BY <1>5 DEF EntriesOver
  <2>2. \A i \in DOMAIN events : Made(i) => Owned(tx, events[i])
    BY <2>1 DEF SentInv, Working
  <2>3. ev.kind = "error"
    BY DEF Event
  <2> HIDE DEF ev
  <2>4. CASE events' = events
    BY <2>1, <2>2, <2>4 DEF SentInv, Made
  <2>5. CASE events' = Append(events, ev)
    <3>1. ~OfMessage(ev)
      BY <2>3 DEF OfMessage
    <3>2. \A i \in DOMAIN events' : Made(i)' => Owned(tx', events'[i])
      BY <1>1, <2>1, <2>2, <2>5, <3>1, SentAppended
    <3>3. QED
      BY <3>2 DEF SentInv
  <2>6. QED
    BY <2>1, <2>4, <2>5
<1>6. CASE MessagesOver \/ Emit \/ UNCHANGED vars
  <2>1. tx' = tx /\ events' = events /\ (Working' => Working)
    BY <1>6 DEF MessagesOver, Emit, vars, Working
  <2>2. QED
    BY <2>1 DEF SentInv, Made
<1>7. QED
  BY <1>2, <1>3, <1>4, <1>5, <1>6 DEF Next

LEMMA OwnedAtFirst ==
    ASSUME Init
    PROVE  KnownInv /\ SentInv
<1>1. ~Working /\ tx = NoTx
  BY DEF Init, Working
<1>2. Entries(NoTx) = <<>> /\ DOMAIN <<>> = {}
  BY DEF Entries, NoTx
<1>3. QED
  BY <1>1, <1>2 DEF KnownInv, SentInv

(* The transfers of a message's event are those of a log entry with its    *)
(* index among those that were read, each recipient with the numbers in    *)
(* the next amount, wherever the log is cut and in whatever order; there   *)
(* are none where there is no such entry, or not more entries than the     *)
(* index.                                                                  *)
THEOREM TransfersAreOfOwnEntry == Spec => []TransfersOfOwnEntry
<1>1. Init => TransfersOfOwnEntry /\ KnownInv /\ SentInv
  <2>1. SUFFICES ASSUME Init PROVE TransfersOfOwnEntry /\ KnownInv /\ SentInv
    OBVIOUS
  <2>2. Given = {}
    BY <2>1 DEF Init, Given, Seqs!ToSet
  <2>3. QED
    BY <2>1, <2>2, OwnedAtFirst DEF TransfersOfOwnEntry
<1>2. IInv /\ KnownInv /\ SentInv /\ [Next]_vars => KnownInv' /\ SentInv'
  BY KnownKept, SentKept
<1>3. IInv /\ SentInv /\ TransfersOfOwnEntry /\ [Next]_vars => TransfersOfOwnEntry'
  <2>1. SUFFICES ASSUME IInv, SentInv, TransfersOfOwnEntry, [Next]_vars
                 PROVE  TransfersOfOwnEntry'
    OBVIOUS
  <2>2. CASE outs' = outs
    BY <2>1, <2>2 DEF TransfersOfOwnEntry, Given
  <2>3. CASE Given' = {}
    BY <2>3 DEF TransfersOfOwnEntry
  <2>4. CASE pc = "emit" /\ Given' = {Emitted}
    <3>1. Emitted.tx = tx /\ Emitted.events = events
      BY DEF Emitted
    <3>2. \A c \in Converted(Emitted) : Sent(Emitted.tx, Emitted.events[c])
      BY <2>1, <2>4, <3>1 DEF SentInv, Working, Converted, Made, Owned
    <3>3. QED
      BY <2>4, <3>2 DEF TransfersOfOwnEntry, Sent
  <2>5. QED
    BY <2>1, <2>2, <2>3, <2>4, WhatIsGiven
<1>4. QED
  BY <1>1, <1>2, <1>3, Invariance, PTL DEF Spec

(* The nested events of an exec_delegated are those of its first messages, *)
(* one for one, up to the first that cannot be converted: where they end   *)
(* early, the next message has no mapper, or its log entry is not          *)
(* well-formed or has an amount with several points.                       *)
THEOREM NestedArePrefix == Spec => []NestedPrefix
<1>1. Init => NestedPrefix /\ KnownInv /\ SentInv
  <2>1. SUFFICES ASSUME Init PROVE NestedPrefix /\ KnownInv /\ SentInv
    OBVIOUS
  <2>2. Given = {}
    BY <2>1 DEF Init, Given, Seqs!ToSet
  <2>3. QED
    BY <2>1, <2>2, OwnedAtFirst DEF NestedPrefix
<1>2. IInv /\ KnownInv /\ SentInv /\ [Next]_vars => KnownInv' /\ SentInv'
  BY KnownKept, SentKept
<1>3. IInv /\ SentInv /\ NestedPrefix /\ [Next]_vars => NestedPrefix'
  <2>1. SUFFICES ASSUME IInv, SentInv, NestedPrefix, [Next]_vars PROVE NestedPrefix'
    OBVIOUS
  <2>2. CASE outs' = outs
    BY <2>1, <2>2 DEF NestedPrefix, Given
  <2>3. CASE Given' = {}
    BY <2>3 DEF NestedPrefix
  <2>4. CASE pc = "emit" /\ Given' = {Emitted}
    <3>1. \A c \in Converted(Emitted) :
             Nested(Emitted.tx.msgs[Emitted.events[c].id + 1], Emitted.events[c].sub[1].sub)
      BY <2>1, <2>4, NestedOfMade
    <3>2. Emitted.tx = tx /\ Emitted.events = events
      BY DEF Emitted
    <3>3. \A c \in Converted(Emitted) : Stopped(Emitted.tx, Emitted.events[c])
      BY <2>1, <2>4, <3>2 DEF SentInv, Working, Converted, Made, Owned
    <3>4. QED
      BY <2>4, <3>1, <3>3 DEF NestedPrefix, Nested, Stopped
  <2>5. QED
    BY <2>1, <2>2, <2>3, <2>4, WhatIsGiven
<1>4. QED
  BY <1>1, <1>2, <1>3, Invariance, PTL DEF Spec

-----------------------------------------------------------------------------
(* Panics.                                                                 *)

(* Without a message that pays the community pool or lacks its value, the  *)
(* process ends only on a transfer event that is not well-formed.          *)
THEOREM OrdinaryDoesNotPanic == Spec => []OrdinaryNeverPanics
<1>1. Init => OrdinaryNeverPanics /\ KnownInv
  <2>1. SUFFICES ASSUME Init PROVE OrdinaryNeverPanics /\ KnownInv
    OBVIOUS
  <2>2. pc = "take" /\ tx = NoTx
    BY <2>1 DEF Init
  <2>3. Entries(NoTx) = <<>> /\ DOMAIN <<>> = {}
    BY DEF Entries, NoTx
  <2>4. QED
    BY <2>2, <2>3 DEF OrdinaryNeverPanics, KnownInv
<1>2. KnownInv /\ [Next]_vars => KnownInv'
  BY KnownKept
<1>3. IInv /\ KnownInv /\ OrdinaryNeverPanics /\ [Next]_vars => OrdinaryNeverPanics'
  <2>1. SUFFICES ASSUME IInv, KnownInv, OrdinaryNeverPanics, [Next]_vars
                 PROVE  OrdinaryNeverPanics'
    OBVIOUS
  <2>2. CASE AppendMessage
    <3> DEFINE msg == tx.msgs[next]
    <3>1. /\ next <= Len(tx.msgs) /\ tx' = tx
          /\ pc' = "panic" => GetSubEvent(msg, FindLog(next - 1)).is = "panic"
      BY <2>2 DEF AppendMessage
    <3>2. next \in Nat \ {0} /\ tx.msgs \in Seq(Messages)
      BY <2>1, RawFields DEF IInv, LogInv, PlacesInv
    <3>3. next \in DOMAIN tx.msgs /\ msg \in Messages /\ next - 1 \in Nat
      BY <3>1, <3>2
    <3>4. msg \in Seqs!ToSet(tx.msgs)
      BY <3>3 DEF Seqs!ToSet
    <3>5. PICK e \in NodeEntries :
             /\ FindLog(next - 1) = LogFormat(e) /\ EntryKnown(e)
             /\ e = NothingTold \/ e \in OwnEntries(tx, next - 1)
      BY <2>1, <3>3, EntryOfMessage
    <3>6. WellFormedEntry(e) \/ \E i \in DOMAIN Entries(tx) : ~WellFormedEntry(Entries(tx)[i])
      BY <3>5, NothingIsTold DEF OwnEntries, WithIndex, Read
    <3> HIDE DEF msg
    <3>7. pc' = "panic" /\ WellFormedEntry(e) =>
             OddMessage(msg) \/ \E n \in Seqs!ToSet(msg.msgs) : OddMessage(n)
      BY <3>1, <3>3, <3>5, MessagePanics
    <3>8. pc' = "panic" /\ WellFormedEntry(e) => \E m \in WithNested(tx.msgs) : OddMessage(m)
      BY <3>4, <3>7 DEF WithNested
    <3>9. QED
      BY <3>1, <3>6, <3>8 DEF OrdinaryNeverPanics, OddMessage
  <2>3. CASE UNCHANGED vars
    BY <2>1, <2>3 DEF OrdinaryNeverPanics, vars
  <2>4. CASE (\E raw \in Raws : TakeRaw(raw)) \/ MessagesOver \/ AppendLog \/ EntriesOver \/ Emit
    <3>1. pc' # "panic"
      BY <2>4 DEF TakeRaw, MessagesOver, AppendLog, EntriesOver, Emit
    <3>2. QED
      BY <3>1 DEF OrdinaryNeverPanics
  <2>5. QED
    BY <2>1, <2>2, <2>3, <2>4 DEF Next
<1>4. QED
  BY <1>1, <1>2, <1>3, Invariance, PTL DEF Spec
=============================================================================
