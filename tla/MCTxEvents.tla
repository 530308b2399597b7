----------------------------- MODULE MCTxEvents -----------------------------
(* TxEvents for TLC: the raw transactions, each a variation of an ordinary *)
(* one in its messages, its log or both.                                   *)
EXTENDS TxEvents

KV(k, v) == [key |-> k, value |-> v]
NoValue(k) == [key |-> k]

(* An address may end in a digit and letters, which read as an amount.     *)
MCAmountTexts ==
    [v \in {"", "5uluna", "1.05uluna,7ukrw", "1.2.3uluna", "anna", "bob9luna"} |->
        CASE v = "5uluna"          -> << Plain(5) >>
          [] v = "1.05uluna,7ukrw" -> << Point(1, 5, 2), Plain(7) >>
          [] v = "1.2.3uluna"      -> << Points >>
          [] v = "bob9luna"        -> << Plain(9) >>
          [] OTHER                 -> << Words >>]

Ev(t, as) == [type |-> t, attributes |-> as]
Message   == Ev("message", << KV("action", "send"), KV("module", "bank") >>)
One       == Ev("transfer", << KV("recipient", "anna"), KV("amount", "1.05uluna,7ukrw") >>)
Two       == Ev("transfer", << KV("recipient", UnbondedTokensPool), KV("amount", "5uluna"),
                               KV("recipient", "anna"), KV("sender", "bob9luna"),
                               KV("amount", "1.05uluna,7ukrw") >>)
Zero      == Ev("transfer", << KV("recipient", "anna"), KV("sender", "bob9luna"),
                               NoValue("amount") >>)
Odd       == Ev("transfer", << KV("recipient", "anna"), KV("amount", "1.2.3uluna") >>)
OneShort  == Ev("transfer", << KV("recipient", "anna"), KV("amount", "5uluna"),
                               KV("recipient", "anna") >>)
TwoShort  == Ev("transfer", << KV("recipient", "anna"), KV("recipient", UnbondedTokensPool),
                               NoValue("recipient") >>)
Bare      == [type |-> "transfer"]

EventLists == { <<>>, <<Message>>, <<Message, One>>, <<One, Message, Two>>, <<Zero>>,
                <<Odd>>, <<OneShort>>, <<TwoShort>>, <<Message, Bare>> }

Entry(n, ok, l, evs) == [index |-> n, success |-> ok, log |-> l, events |-> evs]
List(es) == [form |-> "list", entries |-> es]

Ordinary(n) == Entry(n, TRUE, "empty", <<Message, IF n = 0 THEN One ELSE Two>>)
Failing(n)  == Entry(n, FALSE, "json", <<>>)
Wordy(n)    == Entry(n, FALSE, "text", <<Message>>)

FirstEntries == {Entry(0, ok, l, evs) : ok \in BOOLEAN, l \in {"empty", "json", "text"},
                                        evs \in EventLists}
OtherLogs ==
    {[form |-> "none"], [form |-> "text"], [form |-> "object"], List(<<>>)}
      \union {List(<<a, b>>) : a, b \in {Ordinary(0), Ordinary(1), Failing(0), Failing(1),
                                         Wordy(0), Wordy(1)}}
      \union {List(<<Ordinary(1)>>), List(<<Failing(1), Ordinary(2), Ordinary(0)>>)}

Msg(route, type) ==
    [route |-> route, type |-> type, coins |-> TRUE, unset |-> FALSE, msgs |-> <<>>]
Send    == Msg("bank", "send")
Unbond  == Msg("staking", "begin_unbonding")
Vote    == Msg("gov", "vote")
Unknown == Msg("bank", "burn")
Pool    == Msg("distribution", "fund_community_pool")
Propose == Msg("gov", "submit_proposal")
Grant   == Msg("msgauth", "grant_authorization")
Accuse  == Msg("evidence", "submit_evidence")
Unset(msg) == [msg EXCEPT !.unset = TRUE]
Exec(nested) == [Msg("msgauth", "exec_delegated") EXCEPT !.msgs = nested]

MsgLists == { <<Send>>, <<Unbond, Send>>, <<Unknown, Send>>, <<Send, Vote, Send>>,
              <<Exec(<<Vote, Send, Unknown, Unbond>>), Unknown>> }
OtherMsgLists == { <<Pool>>, <<[Pool EXCEPT !.coins = FALSE]>>, <<Exec(<<Send, Pool>>)>>,
                   <<Propose, Grant, Accuse>>, <<Unset(Propose)>>, <<Unset(Accuse)>>,
                   <<Exec(<<Vote, Unset(Grant)>>)>> }

Tx(ms, log) == [msgs |-> ms, decodes |-> TRUE, log |-> log]

(* In every order: one decoder meets each of them after each other one.    *)
MCRaws ==
    {Tx(ms, log) : ms \in MsgLists, log \in OtherLogs}
      \union {Tx(ms, List(<<e, Ordinary(1)>>)) :
                 ms \in {<<Send>>, <<Unbond, Vote>>, <<Exec(<<Vote, Unbond, Send>>)>>},
                 e \in FirstEntries}
      \union {Tx(ms, List(<<Ordinary(0)>>)) : ms \in OtherMsgLists}
      \union {[Tx(<<Send>>, log) EXCEPT !.decodes = FALSE] :
                 log \in {[form |-> "none"], [form |-> "text"], List(<<Ordinary(0)>>)}}
=============================================================================
