------------------------------ MODULE Mappers ------------------------------
(***************************************************************************)
(* From a message and its log entry to an event: getSubEvent               *)
(* (api/transaction.go) and the mappers it calls (api/mapper).  A mapper   *)
(* names the event's type and module, copies fields of the message (left   *)
(* out here: nothing depends on them) and may add the transfers its log    *)
(* entry tells of.                                                         *)
(***************************************************************************)
EXTENDS Conversions, TxLog

CONSTANT AmountTexts    \* value |-> the numbers in it, split at the commas

ASSUME MappersAssumption ==
    \A v \in DOMAIN AmountTexts : \A i \in DOMAIN AmountTexts[v] : IsText(AmountTexts[v][i])

(* A message: "coins" says whether it has any; "unset" that the value an   *)
(* interface field of it should hold is missing; "msgs" are the messages   *)
(* nested in an exec_delegated.  These nest once: the code recurses, and   *)
(* deeper messages are converted with the same log entry again.            *)
MessagesWith(nested) ==
    [route : STRING, type : STRING, coins : BOOLEAN, unset : BOOLEAN, msgs : nested]
Messages == MessagesWith(Seq(MessagesWith({<<>>})))

(* What a mapper does: the event's type and module, the kind of transfers  *)
(* it adds ("none": it does not look at the log), the recipient it skips.  *)
Maps(t, m, k) == [type |-> t, module |-> m, transfers |-> k, skip |-> ""]

UnbondedTokensPool == "unbondedTokensPoolAddr"

BankMappers ==
    [send      |-> Maps("send", "bank", "send"),
     multisend |-> Maps("multisend", "bank", "send")]

CrisisMappers == [verify_invariant |-> Maps("verify_invariant", "crisis", "none")]

DistributionMappers ==
    [withdraw_validator_commission |->
        Maps("withdraw_validator_commission", "distribution", "send"),
     set_withdraw_address      |-> Maps("set_withdraw_address", "distribution", "none"),
     withdraw_delegator_reward |-> Maps("withdraw_delegator_reward", "distribution", "reward"),
     fund_community_pool       |-> Maps("fund_community_pool", "distribution", "none")]

EvidenceMappers == [submit_evidence |-> Maps("submit_evidence", "evidence", "none")]

GovMappers ==
    [deposit         |-> Maps("deposit", "gov", "send"),
     vote            |-> Maps("vote", "gov", "none"),
     submit_proposal |-> Maps("submit_proposal", "gov", "send")]

MarketMappers ==
    [swap     |-> Maps("swap", "market", "send"),
     swapsend |-> Maps("swapsend", "market", "send")]

MsgauthMappers ==
    [grant_authorization  |-> Maps("grant_authorization", "msgAuth", "none"),
     revoke_authorization |-> Maps("revoke_authorization", "msgAuth", "none"),
     exec_delegated       |-> Maps("exec_delegated", "msgAuth", "none")]

OracleMappers ==
    [exchangeratevote    |-> Maps("exchangeratevote", "oracle", "none"),
     exchangerateprevote |-> Maps("exchangerateprevote", "oracle", "none"),
     delegatefeeder      |-> Maps("delegatefeeder", "oracle", "none"),
     aggregateexchangerateprevote |-> Maps("aggregateexchangerateprevote", "oracle", "none"),
     aggregateexchangeratevote    |-> Maps("aggregateexchangerateprevote", "oracle", "none")]

SlashingMappers == [unjail |-> Maps("unjail", "slashing", "none")]

StakingMappers ==
    [begin_unbonding  |-> [Maps("begin_unbonding", "staking", "reward")
                                EXCEPT !.skip = UnbondedTokensPool],
     edit_validator   |-> Maps("edit_validator", "distribution", "none"),
     create_validator |-> Maps("create_validator", "distribution", "none"),
     delegate         |-> Maps("delegate", "staking", "reward"),
     begin_redelegate |-> Maps("begin_redelegate", "staking", "reward")]

WasmMappers ==
    [execute_contract      |-> Maps("execute_contract", "wasm", "none"),
     store_code            |-> Maps("store_code", "wasm", "none"),
     update_contract_owner |-> Maps("update_contract_owner", "wasm", "none"),
     instantiate_contract  |-> Maps("instantiate_contract", "wasm", "none"),
     migrate_contract      |-> Maps("migrate_contract", "wasm", "none")]

(* The switch of getSubEvent over a message's route and type.              *)
Mappers ==
    [bank |-> BankMappers, crisis |-> CrisisMappers,
     distribution |-> DistributionMappers, evidence |-> EvidenceMappers,
     gov |-> GovMappers, market |-> MarketMappers, msgauth |-> MsgauthMappers,
     oracle |-> OracleMappers, slashing |-> SlashingMappers,
     staking |-> StakingMappers, wasm |-> WasmMappers]

KnownType(msg) == Has(Mappers, msg.route) /\ Has(Mappers[msg.route], msg.type)
MapperOf(msg) == Mappers[msg.route][msg.type]

-----------------------------------------------------------------------------
(* produceTransfers.                                                       *)

(* One recipient of a transfer event (number k - 1 in the code).  The      *)
(* guard lets one pass that is one past the last amount.                   *)
AddTransfer(attr, skip, done, k) ==
    IF done.is # "ok" \/ attr.recipient[k] = skip \/ Len(attr.amount) < k - 1 THEN done
    ELSE IF Len(attr.amount) < k THEN [done EXCEPT !.is = "panic"]
    ELSE LET texts == AmountTexts[attr.amount[k]]
         IN  IF \E i \in DOMAIN texts : ~GetsCoin(texts[i]) THEN [done EXCEPT !.is = "error"]
             ELSE [done EXCEPT !.transfers = Append(@,
                      [to      |-> attr.recipient[k],
                       amounts |-> [i \in DOMAIN texts |-> Coin(texts[i])]])]

(* One event of the log entry.  One without attributes is a nil pointer.   *)
AddTransfers(skip, done, ev) ==
    IF done.is # "ok" \/ ev.type # "transfer" THEN done
    ELSE IF ~Has(ev, "attributes") THEN [done EXCEPT !.is = "panic"]
    ELSE Seqs!FoldLeftDomain(LAMBDA d, k : AddTransfer(ev.attributes, skip, d, k),
                             done, ev.attributes.recipient)

(* The first transfer that panics or fails ends both loops.  What was      *)
(* added before an error is dropped with the sub event.                    *)
ProduceTransfers(lf, skip) ==
    Seqs!FoldLeft(LAMBDA done, ev : AddTransfers(skip, done, ev),
                  [is |-> "ok", transfers |-> <<>>], lf.events)

-----------------------------------------------------------------------------
(* getSubEvent.                                                            *)

Sub(type, module, transfers, nested) ==
    [type |-> type, module |-> module, transfers |-> transfers, sub |-> nested,
     error |-> "none"]
NoSub == Sub("", "", <<>>, <<>>)

(* The Content of a proposal, the Evidence and the Authorization of a      *)
(* grant are called without a look whether they are there.                 *)
CallsUnset(msg) ==
    msg.type \in {"submit_proposal", "submit_evidence", "grant_authorization"} /\ msg.unset

\* Seeded fault: the message without coins is not excepted.
AlwaysPanics(msg) ==
    \/ msg.type = "fund_community_pool"
    \/ CallsUnset(msg)

(* distributionProduceEvTx calls Set on the nil Numeric of a new           *)
(* TransactionAmount.                                                      *)
MapperPanics(msg) ==
    \/ msg.type = "fund_community_pool" /\ msg.coins
    \/ CallsUnset(msg)

PlainSubEvent(msg, lf) ==
    IF ~KnownType(msg) THEN [is |-> "error", se |-> NoSub]
    ELSE IF MapperPanics(msg) THEN [is |-> "panic", se |-> NoSub]
    ELSE LET m == MapperOf(msg)
             p == IF m.transfers = "none" THEN [is |-> "ok", transfers |-> <<>>]
                  ELSE ProduceTransfers(lf, m.skip)
         IN  [is |-> p.is, se |-> Sub(m.type, m.module, p.transfers, <<>>)]

\* Seeded fault: a nested message that fails is left out, the rest kept.
ExecSubEventSkipping(msg, lf) ==
    LET all  == [i \in DOMAIN msg.msgs |-> PlainSubEvent(msg.msgs[i], lf)]
        good == SelectSeq(all, LAMBDA r : r.is = "ok")
        m    == MapperOf(msg)
    IN  [is |-> IF \E i \in DOMAIN all : all[i].is = "panic" THEN "panic" ELSE "ok",
         se |-> Sub(m.type, m.module, <<>>, [i \in DOMAIN good |-> good[i].se])]

(* exec_delegated: the nested messages in order, all with the log entry of *)
(* the message; the first that fails ends the loop, and what is returned   *)
(* is the outer err, which is nil.                                         *)
ExecSubEvent(msg, lf) ==
    LET all  == [i \in DOMAIN msg.msgs |-> PlainSubEvent(msg.msgs[i], lf)]
        stop == Seqs!SelectInSeq(all, LAMBDA r : r.is # "ok")
        kept == IF stop = 0 THEN Len(all) ELSE stop - 1
        m    == MapperOf(msg)
    IN  [is |-> IF stop # 0 /\ all[stop].is = "panic" THEN "panic" ELSE "ok",
         se |-> Sub(m.type, m.module, <<>>, [i \in 1..kept |-> all[i].se])]

GetSubEvent(msg, lf) ==
    IF KnownType(msg) /\ msg.type = "exec_delegated" THEN ExecSubEvent(msg, lf) ELSE PlainSubEvent(msg, lf)
=============================================================================
