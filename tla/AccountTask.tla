---------------------------- MODULE AccountTask ----------------------------
(***************************************************************************)
(* GetReward, GetAccountBalance and GetAccountDelegations: the handlers of *)
(* client/client.go and the LCD calls of api/reward.go,                    *)
(* api/account_balance.go and api/delegations.go, which have the same      *)
(* steps and differ in how the numbers of the node's answer are read.  The *)
(* answer has one item, the account's data.                                *)
(***************************************************************************)
EXTENDS SendResp, Conversions

CONSTANTS
    MaxRetries,    \* maxRetries, 3
    Precision,     \* the digits of the SDK's decimals, 18
    Bodies         \* what the node may answer: the numbers in the body

ASSUME AccountTaskAssumption ==
    /\ {MaxRetries, Precision} \subseteq Nat \ {0}
    /\ Bodies \subseteq Seq(Text)
    /\ \A b \in Bodies : \A i \in DOMAIN b : IsText(b[i])

Tasks == {"reward", "balance", "delegations"}

AccountData == <<1, 0>>

(* How one request to the LCD node can end.  "badBody" is an answer with   *)
(* status 200 whose body is not the expected JSON.                         *)
Outcomes == {"timeout", "netError", "5xx", "4xx", "badBody", "ok"}
Transient == {"timeout", "5xx"}

VARIABLES payloadOK,   \* the task's payload unmarshals
          task,        \* which of the three calls it is
          tries,       \* how the requests of the retry loop ended
          body,        \* the numbers in the last good answer of the node
          hasTotal,    \* a rewards answer lists something under total
          numbers      \* the numbers in the item for the manager

callVars == <<payloadOK, task, tries, body, hasTotal, numbers>>
vars == <<taskVars, sendVars, callVars>>

Init ==
    /\ TaskInit /\ SendRespInit
    /\ payloadOK \in BOOLEAN
    /\ task \in Tasks
    /\ tries = <<>> /\ body = <<>> /\ hasTotal = FALSE /\ numbers = <<>>

-----------------------------------------------------------------------------

Unmarshal ==
    /\ pc = "start"
    /\ pc' = IF payloadOK THEN "limit" ELSE "refuse"
    /\ UNCHANGED <<ctxDone, streamUp, out, outClosed, answer>>
    /\ UNCHANGED <<sendVars, callVars>>

(* rateLimiter.Wait under the call's own context of 20 seconds.            *)
AskLimiter ==
    /\ pc = "limit"
    /\ \/ ~ctxDone /\ pc' = "try"
       \/ (ctxDone \/ "expire" \in Faults) /\ pc' = "refuse"
    /\ UNCHANGED <<ctxDone, streamUp, out, outClosed, answer>>
    /\ UNCHANGED <<sendVars, callVars>>

\* Seeded fault: the last request's timeout is not returned, and the response
\* there is none of is dereferenced.
AfterTryUnguarded(i, o) ==
    IF o \in Transient /\ i < MaxRetries THEN "try"
    ELSE IF o = "netError" THEN "refuse"
    ELSE IF o = "timeout" THEN "panic" ELSE "decode"

\* Seeded fault: a request that timed out is not repeated.
AfterTryOnce(i, o) ==
    IF o = "5xx" /\ i < MaxRetries THEN "try"
    ELSE IF o \in {"timeout", "netError"} THEN "refuse" ELSE "decode"

(* Where the i-th request leads: a timeout or a status from 500 up is tried*)
(* again while i < maxRetries; any other error of the client ends the call;*)
(* the last response, whatever its status, is decoded.                     *)
AfterTry(i, o) ==
    IF o \in Transient /\ i < MaxRetries THEN "try"
    ELSE IF o \in {"timeout", "netError"} THEN "refuse" ELSE "decode"

(* One turn of the retry loop.  The request does not see the context.      *)
Try ==
    /\ pc = "try"
    /\ \E o \in Outcomes :
        /\ tries' = Append(tries, o)
        /\ pc' = AfterTry(Len(tries) + 1, o)
        /\ IF o = "ok" THEN body' \in Bodies /\ hasTotal' \in BOOLEAN
           ELSE body' = <<>> /\ hasTotal' = FALSE
    /\ UNCHANGED <<ctxDone, streamUp, out, outClosed, answer>>
    /\ UNCHANGED <<sendVars, payloadOK, task, numbers>>

LastTry == tries[Len(tries)]

\* Seeded fault: only a body that does not decode is an error.
DecodesUnlessBad(o) == o # "badBody"

(* Status 400 and up, or a body that is not the JSON, is an error.         *)
Decodes(o) == o = "ok"

(* The numbers of the body: integers of the SDK for a balance, decimals of *)
(* the SDK for rewards, text that gettIntAndExp reads for delegations.     *)
Converts(t) ==
    CASE task = "balance"     -> t.form = "plain"
      [] task = "reward"      -> t.form \in {"plain", "point"} /\ t.places <= Precision
      [] task = "delegations" -> GettsInt(t)

Converted(t) ==
    CASE task = "balance"     -> Number(t.int, 0)
      [] task = "reward"      -> Number(Digits(t) * TenTo[Precision - t.places], Precision)
      [] task = "delegations" -> IntAndExp(t)

(* The rewards of the single validators are copied only when the answer    *)
(* lists something under total.                                            *)
Copied == IF task = "reward" /\ ~hasTotal THEN <<>> ELSE body

(* The data goes into out, which is closed at once, and the handler itself *)
(* runs sendResp, without a fin channel.  One number that does not convert *)
(* fails the call.                                                         *)
Decode ==
    /\ pc = "decode"
    /\ IF Decodes(LastTry) /\ \A i \in DOMAIN body : Converts(body[i])
       THEN /\ numbers' = [i \in DOMAIN Copied |-> Converted(Copied[i])]
            /\ out' = <<AccountData>> /\ outClosed' = TRUE
            /\ spc' = "loop" /\ pc' = "send"
       ELSE /\ pc' = "refuse"
            /\ UNCHANGED <<out, outClosed, spc, numbers>>
    /\ UNCHANGED <<ctxDone, streamUp, answer, order, contextDone>>
    /\ UNCHANGED <<payloadOK, task, tries, body, hasTotal>>

\* Seeded fault: the error is sent and the handler goes on to sendResp.
RefuseAndGoOn ==
    /\ pc = "refuse"
    /\ Send(ErrorMark)
    /\ pc' = "send" /\ spc' = "loop" /\ outClosed' = TRUE
    /\ UNCHANGED <<ctxDone, streamUp, out, order, contextDone, callVars>>

(* A final response with the error; returning cancels the context.         *)
Refuse ==
    /\ pc = "refuse"
    /\ Send(ErrorMark)
    /\ pc' = "done" /\ ctxDone' = TRUE
    /\ UNCHANGED <<streamUp, out, outClosed, sendVars, callVars>>

Return ==
    /\ pc = "send" /\ spc = "done"
    /\ pc' = "done" /\ ctxDone' = TRUE
    /\ UNCHANGED <<streamUp, out, outClosed, answer, sendVars, callVars>>

Handler ==
    \/ Unmarshal \/ AskLimiter \/ Try \/ Decode \/ Refuse \/ Return
    \/ Sender /\ UNCHANGED callVars

SurroundingsStep == Surroundings /\ UNCHANGED <<sendVars, callVars>>

Terminated == pc = "done" /\ UNCHANGED vars

Next == Handler \/ SurroundingsStep \/ Terminated

(* The listener's goroutine runs; a request ends by the client's timeout.  *)
Spec == Init /\ [][Next]_vars /\ WF_vars(Handler)

-----------------------------------------------------------------------------
(* Properties.                                                             *)

TypeOK ==
    /\ TaskTypeOK({AccountData}) /\ SendRespTypeOK
    /\ pc \in {"start", "limit", "try", "decode", "refuse", "send", "done"}
    /\ payloadOK \in BOOLEAN
    /\ task \in Tasks
    /\ tries \in Seq(Outcomes)
    /\ body \in Bodies \union {<<>>} /\ Len(numbers) \in {0, Len(body)}
    /\ hasTotal \in BOOLEAN

(* A handler that has returned has given exactly one final response, and   *)
(* nothing follows it.                                                     *)
OneFinal ==
    pc = "done" /\ streamUp => Finals = {Len(answer)}

(* The manager gets the account's data only from a request that succeeded, *)
(* and an END without data only when the context ended the task; the       *)
(* outcome of an earlier, repeated request never shows.                    *)
AnswerMatchesLastTry ==
    /\ Delivered # {} => LastTry = "ok"
    /\ pc = "done" /\ streamUp /\ Delivered = {} /\ OfType("END") # {} => contextDone
    /\ pc = "done" /\ streamUp /\ OfType("error") # {} /\ tries # <<>> /\ LastTry = "ok" =>
          \E i \in DOMAIN body : body[i].form # "plain"

(* The number and exponent the manager gets stand for the very number the  *)
(* node wrote, whatever zeros come after its point and whichever of the    *)
(* three conversions it went through, and none is left out; but of rewards *)
(* without a total the manager gets none at all.                           *)
AmountsExact ==
    Delivered # {} =>
        \/ /\ Len(numbers) = Len(body)
           /\ \A i \in DOMAIN body : Denotes(numbers[i], body[i])
        \/ task = "reward" /\ ~hasTotal /\ numbers = <<>>

(* A request is repeated only after a timeout or a status from 500 up, and *)
(* the call gives up on such an outcome only after maxRetries requests.    *)
RetriesOnlyTransient ==
    /\ Len(tries) <= MaxRetries
    /\ \A i \in 1..Len(tries) - 1 : tries[i] \in Transient
    /\ pc = "done" /\ tries # <<>> /\ LastTry \in Transient => Len(tries) = MaxRetries

(* Every account task gets its final response, or its stream is gone.      *)
GetsFinal == <>(Finals # {} \/ ~streamUp)
=============================================================================
