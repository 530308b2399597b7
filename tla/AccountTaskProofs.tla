------------------------- MODULE AccountTaskProofs -------------------------
(***************************************************************************)
(* Theorems about AccountTask, for any number of retries, any bodies the   *)
(* node may answer with and any faults.                                    *)
(***************************************************************************)
EXTENDS AccountTask, ConversionProofs

Early == {"start", "limit", "try", "decode", "refuse"}
Ends == OfType("END")
Errors == OfType("error")

SomeNotPlain == \E i \in DOMAIN body : body[i].form # "plain"

(***************************************************************************)
(* The inductive invariant: CallInv is about the retry loop, AnswerInv     *)
(* about what was sent by where the handler and sendResp stand.            *)
(***************************************************************************)
DataOK ==
    /\ pc \in Early \union {"send", "done"}
    /\ spc \in {"idle", "loop", "end", "fin", "done"}
    /\ task \in Tasks
    /\ tries \in Seq(Outcomes)
    /\ body \in Bodies \union {<<>>}
    /\ out \in Seq({AccountData})
    /\ answer \in Seq([type : {"data", "END", "error"}, item : {AccountData, NoItem}, order : Nat])
    /\ order \in Nat

CallInv ==
    /\ Len(tries) <= MaxRetries
    /\ \A i \in 1..Len(tries) - 1 : tries[i] \in Transient
    /\ pc \in {"start", "limit"} => tries = <<>>
    /\ pc = "try" => Len(tries) < MaxRetries /\ \A i \in 1..Len(tries) : tries[i] \in Transient
    /\ pc = "decode" => tries # <<>>
    /\ pc = "send" => tries # <<>> /\ LastTry = "ok"
    /\ pc \in {"decode", "refuse", "send", "done"} /\ tries # <<>> /\ LastTry \in Transient =>
           Len(tries) = MaxRetries
    /\ pc = "refuse" /\ tries # <<>> /\ LastTry = "ok" => SomeNotPlain

AnswerInv ==
    /\ pc \in Early => answer = <<>> /\ spc = "idle"
    /\ pc = "send" =>
         /\ spc \in {"loop", "end", "fin", "done"} /\ Errors = {}
         /\ spc \in {"loop", "end"} => Finals = {}
         /\ spc \in {"fin", "done"} /\ streamUp => Finals = {Len(answer)}
         /\ streamUp /\ Delivered = {} => contextDone \/ (spc = "loop" /\ out # <<>>)
    /\ pc = "done" =>
         /\ spc \in {"idle", "done"}
         /\ streamUp => Finals = {Len(answer)}
         /\ streamUp /\ Delivered = {} /\ Ends # {} => contextDone
         /\ Errors # {} /\ tries # <<>> /\ LastTry = "ok" => SomeNotPlain
    /\ Delivered # {} => tries # <<>> /\ LastTry = "ok"

IInv == DataOK /\ CallInv /\ AnswerInv

-----------------------------------------------------------------------------
(* What a response sent does to the answer.                                *)

LEMMA NothingSent ==
    ASSUME answer' = answer
    PROVE  Ends' = Ends /\ Errors' = Errors /\ Finals' = Finals /\ Delivered' = Delivered
BY DEF Ends, Errors, Finals, Delivered, OfType

LEMMA Sent ==
    ASSUME NEW S, answer \in Seq(S), NEW r \in S, answer' = Append(answer, r)
    PROVE  /\ Ends' = Ends \union (IF r.type = "END" THEN {Len(answer) + 1} ELSE {})
           /\ Errors' = Errors \union (IF r.type = "error" THEN {Len(answer) + 1} ELSE {})
           /\ Finals' = Ends' \union Errors' /\ Finals = Ends \union Errors
           /\ Delivered' = Delivered \union (IF r.type = "data" THEN {r.item} ELSE {})
           /\ Len(answer') = Len(answer) + 1
<1> DEFINE n == Len(answer)
<1>1. /\ n \in Nat /\ DOMAIN answer = 1..n /\ DOMAIN answer' = 1..(n + 1) /\ Len(answer') = n + 1
      /\ answer'[n + 1] = r /\ \A i \in 1..n : answer'[i] = answer[i]
  OBVIOUS
<1> HIDE DEF n
<1>2. Ends' = Ends \union (IF r.type = "END" THEN {n + 1} ELSE {})
  BY <1>1 DEF Ends, OfType
<1>3. Errors' = Errors \union (IF r.type = "error" THEN {n + 1} ELSE {})
  BY <1>1 DEF Errors, OfType
<1>4. Finals' = Ends' \union Errors' /\ Finals = Ends \union Errors
  BY DEF Finals, Ends, Errors
<1>5. Delivered' = Delivered \union (IF r.type = "data" THEN {r.item} ELSE {})
  BY <1>1 DEF Delivered, OfType
<1>6. QED
  BY <1>1, <1>2, <1>3, <1>4, <1>5 DEF n

-----------------------------------------------------------------------------
(* The invariant under each step.                                          *)

LEMMA InitInvariant ==
    ASSUME Init
    PROVE  IInv
<1>1. Delivered = {} /\ Errors = {}
  BY DEF Init, TaskInit, Delivered, Errors, OfType
<1>2. DataOK
  BY DEF Init, TaskInit, SendRespInit, DataOK, Early
<1>3. CallInv
  BY AccountTaskAssumption DEF Init, TaskInit, CallInv
<1>4. AnswerInv
  BY <1>1 DEF Init, TaskInit, SendRespInit, AnswerInv, Early
<1>5. QED
  BY <1>2, <1>3, <1>4 DEF IInv

(* Up to the first request: the answer is empty, and stays so.             *)
LEMMA BeforeTries ==
    ASSUME IInv, Unmarshal \/ AskLimiter
    PROVE  IInv'
<1> USE DEF IInv
<1>1. /\ pc \in {"start", "limit"} /\ pc' \in {"limit", "try", "refuse"}
      /\ UNCHANGED <<ctxDone, streamUp, out, outClosed, answer, sendVars, callVars>>
  BY DEF Unmarshal, AskLimiter
<1>2. UNCHANGED <<spc, order, contextDone, task, tries, body>>
  BY <1>1 DEF sendVars, callVars
<1>3. Delivered' = Delivered /\ tries = <<>>
  BY <1>1, NothingSent DEF CallInv
<1>4. DataOK'
  BY <1>1, <1>2 DEF DataOK, Early
<1>5. CallInv'
  BY <1>1, <1>2, <1>3, AccountTaskAssumption DEF CallInv
<1>6. AnswerInv'
  BY <1>1, <1>2, <1>3 DEF AnswerInv, Early
<1>7. QED
  BY <1>4, <1>5, <1>6

LEMMA TryInvariant ==
    ASSUME IInv, Try
    PROVE  IInv'
<1> USE DEF IInv
<1>1. PICK o \in Outcomes :
        /\ pc = "try" /\ tries' = Append(tries, o) /\ pc' = AfterTry(Len(tries) + 1, o)
        /\ body' \in Bodies \union {<<>>}
        /\ UNCHANGED <<ctxDone, streamUp, out, outClosed, answer, sendVars, task>>
  BY DEF Try
<1>2. /\ tries \in Seq(Outcomes) /\ Len(tries) < MaxRetries /\ MaxRetries \in Nat
      /\ \A i \in 1..Len(tries) : tries[i] \in Transient
  BY <1>1, AccountTaskAssumption DEF DataOK, CallInv
<1>3. /\ tries' \in Seq(Outcomes) /\ Len(tries') = Len(tries) + 1 /\ tries' # <<>>
      /\ LastTry' = o /\ \A i \in 1..Len(tries) : tries'[i] = tries[i]
  BY <1>1, <1>2 DEF LastTry
<1>4. Delivered' = Delivered /\ Delivered = {}
  BY <1>1, NothingSent DEF AnswerInv, Early, Delivered, OfType
<1>5. DataOK'
  BY <1>1, <1>3 DEF DataOK, Early, AfterTry, sendVars
<1>6. CallInv'
  <2>1. Len(tries') <= MaxRetries /\ \A i \in 1..Len(tries') - 1 : tries'[i] \in Transient
    BY <1>2, <1>3
  <2>2. CASE o \in Transient /\ Len(tries) + 1 < MaxRetries
    <3>1. pc' = "try"
      BY <1>1, <2>2 DEF AfterTry
    <3>2. \A i \in 1..Len(tries') : tries'[i] \in Transient
      BY <1>2, <1>3, <2>2 DEF LastTry
    <3>3. QED
      BY <1>2, <1>3, <2>1, <2>2, <3>1, <3>2 DEF CallInv
  <2>3. CASE ~(o \in Transient /\ Len(tries) + 1 < MaxRetries)
    <3>1. pc' \in {"decode", "refuse"} /\ (pc' = "refuse" => o # "ok")
      BY <1>1, <2>3 DEF AfterTry
    <3>2. o \in Transient => Len(tries') = MaxRetries
      BY <1>2, <1>3, <2>3
    <3>3. QED
      BY <1>3, <2>1, <3>1, <3>2 DEF CallInv
  <2>4. QED
    BY <2>2, <2>3
<1>7. AnswerInv'
  BY <1>1, <1>4 DEF AnswerInv, Early, AfterTry, sendVars
<1>8. QED
  BY <1>5, <1>6, <1>7

(* A number that is written without a point always converts.               *)
LEMMA PlainConverts ==
    ASSUME NEW t, IsText(t), t.form = "plain", task \in Tasks
    PROVE  Converts(t)
<1>1. t.places = 0 /\ Precision \in Nat
  BY AccountTaskAssumption DEF IsText
<1>2. CASE task = "balance"
  BY <1>2 DEF Converts
<1>3. CASE task = "reward"
  BY <1>1, <1>3 DEF Converts
<1>4. CASE task = "delegations"
  BY <1>4 DEF Converts, GettsInt
<1>5. QED
  BY <1>2, <1>3, <1>4 DEF Tasks

LEMMA DecodeInvariant ==
    ASSUME IInv, Decode
    PROVE  IInv'
<1> USE DEF IInv
<1>1. /\ pc = "decode" /\ UNCHANGED <<streamUp, answer, order, contextDone, task, tries, body>>
      /\ tries # <<>>
      /\ LastTry \in Transient => Len(tries) = MaxRetries
  BY DEF Decode, CallInv
<1>2. /\ Delivered' = Delivered /\ Errors' = Errors /\ Finals' = Finals
      /\ Delivered = {} /\ Errors = {} /\ Finals = {} /\ LastTry' = LastTry
  BY <1>1, NothingSent DEF AnswerInv, Early, Delivered, Errors, Finals, OfType, LastTry
<1>3. CASE Decodes(LastTry) /\ \A i \in DOMAIN body : Converts(body[i])
  <2>1. /\ out' = <<AccountData>> /\ spc' = "loop" /\ pc' = "send" /\ LastTry = "ok"
    BY <1>3 DEF Decode, Decodes
  <2>2. DataOK'
    BY <1>1, <2>1 DEF DataOK
  <2>3. CallInv'
    BY <1>1, <1>2, <2>1 DEF CallInv
  <2>4. AnswerInv'
    BY <1>1, <1>2, <2>1 DEF AnswerInv, Early
  <2>5. QED
    BY <2>2, <2>3, <2>4
<1>4. CASE ~(Decodes(LastTry) /\ \A i \in DOMAIN body : Converts(body[i]))
  <2>1. pc' = "refuse" /\ out' = out /\ spc' = spc
    BY <1>4 DEF Decode
  <2>2. LastTry = "ok" => SomeNotPlain
    <3>1. SUFFICES ASSUME LastTry = "ok" PROVE SomeNotPlain
      OBVIOUS
    <3>2. PICK i \in DOMAIN body : ~Converts(body[i])
      BY <1>4, <3>1 DEF Decodes
    <3>3. body \in Bodies /\ task \in Tasks
      BY <3>2 DEF DataOK
    <3>4. IsText(body[i])
      BY <3>2, <3>3, AccountTaskAssumption
    <3>5. QED
      BY <3>2, <3>3, <3>4, PlainConverts DEF SomeNotPlain
  <2>3. DataOK'
    BY <1>1, <2>1 DEF DataOK, Early
  <2>4. CallInv'
    BY <1>1, <1>2, <2>1, <2>2 DEF CallInv, SomeNotPlain
  <2>5. AnswerInv'
    BY <1>1, <1>2, <2>1 DEF AnswerInv, Early
  <2>6. QED
    BY <2>3, <2>4, <2>5
<1>5. QED
  BY <1>3, <1>4

(* The error is the only response, and the stream may be gone.             *)
LEMMA RefuseInvariant ==
    ASSUME IInv, Refuse
    PROVE  IInv'
<1> USE DEF IInv
<1> DEFINE S == [type : {"data", "END", "error"}, item : {AccountData, NoItem}, order : Nat]
<1>1. /\ pc = "refuse" /\ pc' = "done" /\ answer = <<>> /\ spc = "idle"
      /\ Send(ErrorMark)
      /\ UNCHANGED <<streamUp, out, spc, order, contextDone, task, tries, body>>
  BY DEF Refuse, sendVars, callVars, AnswerInv, Early
<1>2. /\ Ends = {} /\ Errors = {} /\ Finals = {} /\ Delivered = {}
  BY <1>1 DEF Ends, Errors, Finals, Delivered, OfType
<1>3. ErrorMark \in S /\ ErrorMark.type = "error" /\ answer \in Seq(S) /\ Len(answer) = 0
  BY <1>1 DEF ErrorMark, NoItem
<1>4. /\ answer' \in Seq(S) /\ Ends' = {} /\ Delivered' = {}
      /\ streamUp => Finals' = {Len(answer')}
  <2>1. CASE streamUp
    <3>1. answer' = Append(answer, ErrorMark)
      BY <1>1, <2>1 DEF Send
    <3>2. answer' \in Seq(S)
      BY <1>3, <3>1
    <3>3. /\ Ends' = Ends \union (IF ErrorMark.type = "END" THEN {Len(answer) + 1} ELSE {})
          /\ Errors' = Errors \union (IF ErrorMark.type = "error" THEN {Len(answer) + 1} ELSE {})
          /\ Finals' = Ends' \union Errors'
          /\ Delivered' =
                Delivered \union (IF ErrorMark.type = "data" THEN {ErrorMark.item} ELSE {})
          /\ Len(answer') = Len(answer) + 1
      <4> HIDE DEF S
      <4>1. QED
        BY <1>3, <3>1, Sent
    <3>4. QED
      BY <1>2, <1>3, <3>2, <3>3
  <2>2. CASE ~streamUp
    BY <1>1, <1>2, <1>3, <2>2, NothingSent DEF Send
  <2>3. QED
    BY <2>1, <2>2
<1>5. DataOK'
  BY <1>1, <1>4 DEF DataOK
<1>6. CallInv'
  BY <1>1 DEF CallInv, LastTry
<1>7. AnswerInv'
  <2>1. tries # <<>> /\ LastTry = "ok" => SomeNotPlain
    BY <1>1 DEF CallInv
  <2>2. QED
    BY <1>1, <1>4, <2>1 DEF AnswerInv, Early, LastTry, SomeNotPlain
<1>8. QED
  BY <1>5, <1>6, <1>7

LEMMA ReturnInvariant ==
    ASSUME IInv, Return
    PROVE  IInv'
<1> USE DEF IInv
<1>1. /\ pc = "send" /\ spc = "done" /\ pc' = "done"
      /\ UNCHANGED <<streamUp, out, answer, spc, order, contextDone, task, tries, body>>
  BY DEF Return, sendVars, callVars
<1>2. Ends' = Ends /\ Errors' = Errors /\ Finals' = Finals /\ Delivered' = Delivered
  BY <1>1, NothingSent
<1>3. DataOK'
  BY <1>1 DEF DataOK
<1>4. CallInv'
  BY <1>1 DEF CallInv, LastTry
<1>5. AnswerInv'
  BY <1>1, <1>2 DEF AnswerInv, Early, LastTry, SomeNotPlain
<1>6. QED
  BY <1>3, <1>4, <1>5

(* sendResp runs only while the handler is at the call.                    *)
LEMMA SenderInvariant ==
    ASSUME IInv, Sender, UNCHANGED callVars
    PROVE  IInv'
<1> USE DEF IInv
<1> DEFINE S == [type : {"data", "END", "error"}, item : {AccountData, NoItem}, order : Nat]
<1>1. /\ pc = "send" /\ pc' = "send" /\ spc \in {"loop", "end", "fin"}
      /\ UNCHANGED <<streamUp, task, tries, body>>
      /\ answer \in Seq(S) /\ order \in Nat /\ out \in Seq({AccountData})
  BY DEF Sender, SendItem, OutDrained, SenderCancelled, SendEnd, SignalFin, taskVars, callVars,
         DataOK, AnswerInv, Early
<1>2. CallInv' /\ LastTry' = LastTry /\ tries # <<>> /\ LastTry = "ok"
  BY <1>1 DEF CallInv, LastTry
<1>3. CASE SendItem
  <2> DEFINE r == Data(Head(out), order)
  <2>1. /\ spc = "loop" /\ spc' = "loop" /\ out # <<>> /\ out' = Tail(out) /\ order' = order + 1
        /\ contextDone' = contextDone /\ Send(r) /\ Finals = {} /\ Errors = {}
    BY <1>1, <1>3 DEF SendItem, AnswerInv
  <2>2. r \in S /\ r.type = "data" /\ out' \in Seq({AccountData})
    BY <1>1, <2>1 DEF Data
  <2> HIDE DEF r
  <2>3. /\ answer' \in Seq(S) /\ Finals' = {} /\ Errors' = {}
        /\ streamUp => Delivered' # {}
    <3>1. CASE streamUp
      <4>1. answer' = Append(answer, r)
        BY <2>1, <3>1 DEF Send
      <4>2. answer' \in Seq(S)
        BY <1>1, <2>2, <4>1
      <4>3. /\ Ends' = Ends \union (IF r.type = "END" THEN {Len(answer) + 1} ELSE {})
            /\ Errors' = Errors \union (IF r.type = "error" THEN {Len(answer) + 1} ELSE {})
            /\ Finals' = Ends' \union Errors' /\ Finals = Ends \union Errors
            /\ Delivered' = Delivered \union (IF r.type = "data" THEN {r.item} ELSE {})
            /\ Len(answer') = Len(answer) + 1
        <5> HIDE DEF S
        <5>1. QED
          BY <1>1, <2>2, <4>1, Sent
      <4>4. QED
        BY <2>1, <2>2, <4>2, <4>3
    <3>2. CASE ~streamUp
      BY <1>1, <2>1, <3>2, NothingSent DEF Send
    <3>3. QED
      BY <3>1, <3>2
  <2>4. DataOK'
    BY <1>1, <2>1, <2>2, <2>3 DEF DataOK
  <2>5. AnswerInv'
    BY <1>1, <1>2, <2>1, <2>3 DEF AnswerInv, Early
  <2>6. QED
    BY <1>2, <2>4, <2>5
<1>4. CASE OutDrained \/ SenderCancelled \/ SignalFin
  <2>1. /\ UNCHANGED <<out, order, answer>>
        /\ \/ spc = "loop" /\ out = <<>> /\ spc' = "end" /\ contextDone' = contextDone
           \/ spc = "loop" /\ spc' = "end" /\ contextDone' = TRUE
           \/ spc = "fin" /\ spc' = "done" /\ contextDone' = contextDone
    BY <1>4 DEF OutDrained, SenderCancelled, SignalFin, taskVars
  <2>2. Ends' = Ends /\ Errors' = Errors /\ Finals' = Finals /\ Delivered' = Delivered
    BY <2>1, NothingSent
  <2>3. DataOK'
    BY <1>1, <2>1 DEF DataOK
  <2>4. AnswerInv'
    BY <1>1, <1>2, <2>1, <2>2 DEF AnswerInv, Early
  <2>5. QED
    BY <1>2, <2>3, <2>4
<1>5. CASE SendEnd
  <2> DEFINE r == EndMark(order)
  <2>1. /\ spc = "end" /\ spc' = "fin" /\ Send(r) /\ Finals = {} /\ Errors = {}
        /\ UNCHANGED <<out, order, contextDone>>
    BY <1>1, <1>5 DEF SendEnd, AnswerInv
  <2>2. r \in S /\ r.type = "END"
    BY <1>1 DEF EndMark, NoItem
  <2> HIDE DEF r
  <2>3. /\ answer' \in Seq(S) /\ Delivered' = Delivered /\ Errors' = {}
        /\ streamUp => Finals' = {Len(answer')}
    <3>1. CASE streamUp
      <4>1. answer' = Append(answer, r)
        BY <2>1, <3>1 DEF Send
      <4>2. answer' \in Seq(S)
        BY <1>1, <2>2, <4>1
      <4>3. /\ Ends' = Ends \union (IF r.type = "END" THEN {Len(answer) + 1} ELSE {})
            /\ Errors' = Errors \union (IF r.type = "error" THEN {Len(answer) + 1} ELSE {})
            /\ Finals' = Ends' \union Errors' /\ Finals = Ends \union Errors
            /\ Delivered' = Delivered \union (IF r.type = "data" THEN {r.item} ELSE {})
            /\ Len(answer') = Len(answer) + 1
        <5> HIDE DEF S
        <5>1. QED
          BY <1>1, <2>2, <4>1, Sent
      <4>4. QED
        BY <2>1, <2>2, <4>2, <4>3
    <3>2. CASE ~streamUp
      BY <1>1, <2>1, <3>2, NothingSent DEF Send
    <3>3. QED
      BY <3>1, <3>2
  <2>4. DataOK'
    BY <1>1, <2>1, <2>3 DEF DataOK
  <2>5. AnswerInv'
    BY <1>1, <1>2, <2>1, <2>3 DEF AnswerInv, Early
  <2>6. QED
    BY <1>2, <2>4, <2>5
<1>6. QED
  BY <1>3, <1>4, <1>5 DEF Sender

LEMMA SurroundingsInvariant ==
    ASSUME IInv, SurroundingsStep \/ UNCHANGED vars
    PROVE  IInv'
<1> USE DEF IInv
<1>1. /\ streamUp' => streamUp
      /\ UNCHANGED <<pc, out, answer, spc, order, contextDone, task, tries, body>>
  BY DEF SurroundingsStep, Surroundings, Expire, Disconnect, vars, taskVars, sendVars, callVars
<1>2. Ends' = Ends /\ Errors' = Errors /\ Finals' = Finals /\ Delivered' = Delivered
  BY <1>1, NothingSent
<1>3. DataOK' /\ CallInv'
  BY <1>1 DEF DataOK, CallInv, LastTry, SomeNotPlain
<1>4. LastTry' = LastTry /\ SomeNotPlain' = SomeNotPlain
  BY <1>1 DEF LastTry, SomeNotPlain
<1>5. AnswerInv'
  <2>1. CASE pc \in Early
    BY <1>1, <1>2, <1>4, <2>1 DEF AnswerInv, Early
  <2>2. CASE pc = "send"
    BY <1>1, <1>2, <1>4, <2>2 DEF AnswerInv, Early
  <2>3. CASE pc = "done"
    BY <1>1, <1>2, <1>4, <2>3 DEF AnswerInv, Early
  <2>4. QED
    BY <2>1, <2>2, <2>3 DEF DataOK
<1>6. QED
  BY <1>3, <1>5

-----------------------------------------------------------------------------
(* The retry loop and the answer in every run of an account task.          *)
THEOREM Invariance == Spec => []IInv
<1>1. Init => IInv
  BY InitInvariant
<1>2. IInv /\ [Next]_vars => IInv'
  BY BeforeTries, TryInvariant, DecodeInvariant, RefuseInvariant, ReturnInvariant,
     SenderInvariant, SurroundingsInvariant DEF Next, Handler, Terminated
<1>3. QED
  BY <1>1, <1>2, PTL DEF Spec

(* An account handler that has returned gave exactly one final response,   *)
(* and nothing after it, whatever the node did.                            *)
THEOREM ExactlyOneFinal == Spec => []OneFinal
<1>1. IInv => OneFinal
  BY DEF IInv, AnswerInv, OneFinal
<1>2. QED
  BY <1>1, Invariance, PTL

(* The retry loops repeat only timeouts and 5xx, and give up on them only  *)
(* after maxRetries requests.                                              *)
THEOREM OnlyTransientRepeated == Spec => []RetriesOnlyTransient
<1>1. IInv => RetriesOnlyTransient
  BY DEF IInv, CallInv, RetriesOnlyTransient
<1>2. QED
  BY <1>1, Invariance, PTL

(* The manager gets data only from a last request that succeeded, an empty *)
(* answer only when the context ended, an error after a good last request  *)
(* only when a number of it did not convert.                               *)
THEOREM AnswersTellLastTry == Spec => []AnswerMatchesLastTry
<1>1. IInv => AnswerMatchesLastTry
  BY DEF IInv, AnswerInv, AnswerMatchesLastTry, SomeNotPlain, Ends, Errors
<1>2. QED
  BY <1>1, Invariance, PTL

-----------------------------------------------------------------------------
(* The types, and the numbers that go with the data.                       *)

AllConverted ==
    /\ numbers = [i \in DOMAIN Copied |-> Converted(Copied[i])]
    /\ \A i \in DOMAIN body : Converts(body[i])

FlagsOK ==
    /\ ctxDone \in BOOLEAN /\ streamUp \in BOOLEAN /\ outClosed \in BOOLEAN
    /\ contextDone \in BOOLEAN /\ payloadOK \in BOOLEAN /\ hasTotal \in BOOLEAN

RoomInv == Len(out) <= OutCap

NumbersInv ==
    /\ pc \in Early => numbers = <<>>
    /\ pc = "send" => AllConverted
    /\ pc = "done" => numbers = <<>> \/ AllConverted
    /\ Delivered # {} => AllConverted

LEMMA InitNumbers ==
    ASSUME Init
    PROVE  FlagsOK /\ RoomInv /\ NumbersInv
<1>1. Delivered = {}
  BY DEF Init, TaskInit, Delivered, OfType
<1>2. FlagsOK
  BY Zenon DEF Init, TaskInit, SendRespInit, FlagsOK
<1>3. RoomInv
  BY TaskAssumption DEF Init, TaskInit, RoomInv
<1>4. NumbersInv
  BY <1>1 DEF Init, TaskInit, NumbersInv, Early
<1>5. QED
  BY <1>2, <1>3, <1>4

LEMMA FlagsKept ==
    ASSUME FlagsOK, [Next]_vars
    PROVE  FlagsOK'
<1>1. CASE Handler
  BY <1>1, Zenon DEF Handler, Unmarshal, AskLimiter, Try, Refuse, Return, Decode, Sender, SendItem,
                     OutDrained, SenderCancelled, SendEnd, SignalFin, taskVars, sendVars,
                     callVars, FlagsOK
<1>2. CASE SurroundingsStep
  BY <1>2, Zenon DEF SurroundingsStep, Surroundings, Expire, Disconnect, sendVars, callVars,
                     FlagsOK
<1>3. CASE UNCHANGED vars
  BY <1>3, Zenon DEF vars, taskVars, sendVars, callVars, FlagsOK
<1>4. QED
  BY <1>1, <1>2, <1>3 DEF Next, Terminated

LEMMA RoomKept ==
    ASSUME DataOK, RoomInv, [Next]_vars
    PROVE  RoomInv'
<1>1. out \in Seq({AccountData}) /\ OutCap \in Nat \ {0}
  BY TaskAssumption DEF DataOK
<1>2. CASE Decode
  <2>1. out' = <<AccountData>> \/ out' = out
    BY <1>2 DEF Decode
  <2>2. Len(<<AccountData>>) = 1
    OBVIOUS
  <2>3. CASE out' = <<AccountData>>
    BY <1>1, <2>2, <2>3 DEF RoomInv
  <2>4. QED
    BY <2>1, <2>3 DEF RoomInv
<1>3. CASE SendItem
  BY <1>1, <1>3 DEF SendItem, RoomInv
<1>4. CASE \/ Unmarshal \/ AskLimiter \/ Try \/ Refuse \/ Return \/ SurroundingsStep
           \/ OutDrained \/ SenderCancelled \/ SendEnd \/ SignalFin \/ UNCHANGED vars
  <2>1. out' = out
    BY <1>4 DEF Unmarshal, AskLimiter, Try, Refuse, Return, SurroundingsStep, Surroundings,
                Expire, Disconnect, OutDrained, SenderCancelled, SendEnd, SignalFin, taskVars, vars
  <2>2. QED
    BY <2>1 DEF RoomInv
<1>5. QED
  BY <1>2, <1>3, <1>4 DEF Next, Handler, Terminated, Sender

(* The numbers are made from the body of the last request, once, before    *)
(* sendResp starts; no request follows.                                    *)
LEMMA NumbersKept ==
    ASSUME IInv, IInv', NumbersInv, [Next]_vars
    PROVE  NumbersInv'
<1>1. pc \in Early \union {"send", "done"}
  BY DEF IInv, DataOK
<1>2. pc \in Early => answer = <<>>
  BY DEF IInv, AnswerInv
<1>3. answer = <<>> => Delivered = {}
  BY DEF Delivered, OfType
<1>4. answer' = answer => Delivered' = Delivered
  BY DEF Delivered, OfType
<1>5. CASE Unmarshal \/ AskLimiter \/ Try
  <2>1. pc \in Early /\ pc' \in Early /\ UNCHANGED <<answer, numbers>>
    BY <1>5 DEF Unmarshal, AskLimiter, Try, AfterTry, Early, callVars
  <2>2. QED
    BY <2>1, <1>2, <1>3, <1>4 DEF NumbersInv, Early
<1>6. CASE Decode
  <2>1. pc \in Early /\ UNCHANGED <<answer, task, body, hasTotal>>
    BY <1>6 DEF Decode, Early
  <2>2. Delivered' = {} /\ numbers = <<>>
    BY <2>1, <1>2, <1>3, <1>4 DEF NumbersInv
  <2>3. CASE Decodes(LastTry) /\ \A i \in DOMAIN body : Converts(body[i])
    <3>1. pc' = "send" /\ numbers' = [i \in DOMAIN Copied |-> Converted(Copied[i])]
      BY <1>6, <2>3 DEF Decode
    <3>2. /\ \A i \in DOMAIN body : Converts(body[i])' = Converts(body[i])
          /\ \A i \in DOMAIN Copied : Converted(Copied[i])' = Converted(Copied[i])
          /\ Copied' = Copied
      BY <2>1 DEF Converts, Converted, Copied
    <3>3. AllConverted'
      BY <2>1, <2>3, <3>1, <3>2 DEF AllConverted
    <3>4. QED
      BY <2>2, <3>1, <3>3 DEF NumbersInv, Early
  <2>4. CASE ~(Decodes(LastTry) /\ \A i \in DOMAIN body : Converts(body[i]))
    <3>1. pc' = "refuse" /\ numbers' = numbers
      BY <1>6, <2>4 DEF Decode
    <3>2. QED
      BY <2>2, <3>1 DEF NumbersInv, Early
  <2>5. QED
    BY <2>3, <2>4
<1>7. CASE \/ Refuse \/ Return \/ (Sender /\ UNCHANGED callVars) \/ SurroundingsStep
           \/ UNCHANGED vars
  <2>1. UNCHANGED <<numbers, body, task, hasTotal>>
    BY <1>7 DEF Refuse, Return, SurroundingsStep, vars, callVars
  <2>2. AllConverted' = AllConverted
    BY <2>1 DEF AllConverted, Converted, Converts, Copied
  <2>3. CASE Refuse
    <3>1. pc = "refuse" /\ pc' = "done" /\ Send(ErrorMark) /\ answer = <<>>
      BY <2>3, <1>2 DEF Refuse, Early
    <3>2. Delivered' = {}
      <4>1. answer' = <<>> \/ answer' = <<ErrorMark>>
        BY <3>1 DEF Send
      <4>2. \A n \in DOMAIN answer' : answer'[n].type = "error"
        BY <4>1 DEF ErrorMark
      <4>3. QED
        BY <4>2 DEF Delivered, OfType
    <3>3. QED
      BY <2>1, <3>1, <3>2 DEF NumbersInv, Early
  <2>4. CASE Return
    <3>1. pc = "send" /\ pc' = "done" /\ answer' = answer
      BY <2>4 DEF Return
    <3>2. QED
      BY <2>2, <3>1 DEF NumbersInv, Early
  <2>5. CASE Sender /\ UNCHANGED callVars
    <3>1. pc = "send" /\ pc' = pc
      BY <2>5 DEF Sender, SendItem, OutDrained, SenderCancelled, SendEnd, SignalFin, taskVars,
                  IInv, AnswerInv, DataOK, Early
    <3>2. QED
      BY <2>2, <3>1 DEF NumbersInv, Early
  <2>6. CASE SurroundingsStep \/ UNCHANGED vars
    <3>1. UNCHANGED <<pc, answer>>
      BY <2>6 DEF SurroundingsStep, Surroundings, Expire, Disconnect, vars, taskVars
    <3>2. QED
      BY <1>4, <2>1, <2>2, <3>1 DEF NumbersInv
  <2>7. QED
    BY <1>7, <2>3, <2>4, <2>5, <2>6
<1>8. QED
  <2>1. \/ Unmarshal \/ AskLimiter \/ Try \/ Decode \/ Refuse \/ Return
        \/ (Sender /\ UNCHANGED callVars) \/ SurroundingsStep \/ UNCHANGED vars
    BY DEF Next, Handler, Terminated
  <2>2. QED
    BY <2>1, <1>5, <1>6, <1>7

LEMMA NumbersInvariance == Spec => [](IInv /\ FlagsOK /\ RoomInv /\ NumbersInv)
<1>1. Init => IInv /\ FlagsOK /\ RoomInv /\ NumbersInv
  BY InitInvariant, InitNumbers
<1>2. IInv /\ [Next]_vars => IInv'
  BY BeforeTries, TryInvariant, DecodeInvariant, RefuseInvariant, ReturnInvariant,
     SenderInvariant, SurroundingsInvariant DEF Next, Handler, Terminated
<1>3. IInv /\ FlagsOK /\ RoomInv /\ NumbersInv /\ [Next]_vars =>
        FlagsOK' /\ RoomInv' /\ NumbersInv'
  BY <1>2, FlagsKept, RoomKept, NumbersKept DEF IInv
<1>4. QED
  BY <1>1, <1>2, <1>3, PTL DEF Spec

(* What a body's numbers become has a place for each of them, or none.     *)
LEMMA NumbersOfBody ==
    ASSUME AllConverted, DataOK
    PROVE  \/ Len(numbers) = Len(body) /\ numbers = [i \in DOMAIN body |-> Converted(body[i])]
           \/ task = "reward" /\ ~hasTotal /\ numbers = <<>>
<1>1. body \in Seq(Text)
  <2>1. Bodies \subseteq Seq(Text)
    BY AccountTaskAssumption
  <2>2. CASE body \in Bodies
    BY <2>1, <2>2
  <2>3. CASE body = <<>>
    BY <2>3
  <2>4. QED
    BY <2>2, <2>3 DEF DataOK
<1>2. DOMAIN body = 1..Len(body) /\ Len(body) \in Nat
  BY <1>1
<1>3. CASE Copied = body
  BY <1>2, <1>3 DEF AllConverted
<1>4. CASE task = "reward" /\ ~hasTotal
  <2>1. Copied = <<>>
    BY <1>4 DEF Copied
  <2>2. numbers = [i \in {} |-> Converted(Copied[i])]
    BY <2>1 DEF AllConverted
  <2>3. numbers = <<>>
    BY <2>2
  <2>4. QED
    BY <1>4, <2>3
<1>5. QED
  BY <1>3, <1>4 DEF Copied

(* The variables of an account task keep their types, in every run.        *)
THEOREM TypeCorrect == Spec => []TypeOK
<1>1. IInv /\ FlagsOK /\ RoomInv /\ NumbersInv => TypeOK
  <2>1. SUFFICES ASSUME IInv, FlagsOK, RoomInv, NumbersInv PROVE TypeOK
    OBVIOUS
  <2>2. TaskTypeOK({AccountData}) /\ SendRespTypeOK
    BY <2>1 DEF IInv, DataOK, FlagsOK, RoomInv, TaskTypeOK, TaskDataOK, Responses, SendRespTypeOK,
                SendRespDataOK
  <2>3. numbers = <<>> \/ AllConverted
    BY <2>1 DEF IInv, DataOK, NumbersInv
  <2>4. Len(numbers) \in {0, Len(body)}
    BY <2>1, <2>3, NumbersOfBody DEF IInv
  <2>5. QED
    BY <2>1, <2>2, <2>4 DEF IInv, DataOK, FlagsOK, TypeOK, Early
<1>2. QED
  BY <1>1, NumbersInvariance, PTL

-----------------------------------------------------------------------------
(* The amounts.                                                            *)

(* Each of the three conversions gives the number it reads.                *)
LEMMA ConversionIsExact ==
    ASSUME task \in Tasks, NEW t, IsText(t), Converts(t)
    PROVE  Denotes(Converted(t), t)
<1>1. CASE t.form = "plain" /\ task # "reward"
  <2>1. Converted(t) = Number(t.int, 0)
    BY <1>1 DEF Converted, IntAndExp, Tasks
  <2>2. QED
    BY <1>1, <2>1, PlainDenotes
<1>2. CASE task = "reward"
  <2> DEFINE n == Precision - t.places
  <2>1. t.places \in Nat /\ t.places <= Precision /\ Precision \in Nat
    BY <1>2, AccountTaskAssumption DEF Converts, IsText, Text
  <2>2. n \in Nat /\ n + t.places = Precision
    BY <2>1
  <2>3. Converted(t) = Number(Digits(t) * TenTo[n], Precision)
    BY <1>2 DEF Converted
  <2> HIDE DEF n
  <2>4. QED
    BY <2>2, <2>3, MoreDigitsDenote
<1>3. CASE t.form = "point" /\ task = "delegations" /\ t.dec # 0
  <2>1. Converted(t) = Number(Digits(t), t.places)
    BY <1>3 DEF Converted, IntAndExp
  <2>2. QED
    BY <2>1, DigitsDenote
<1>4. CASE t.form = "point" /\ task = "delegations" /\ t.dec = 0
  <2>1. Converted(t) = Number(t.int, 0)
    BY <1>4 DEF Converted, IntAndExp
  <2>2. QED
    BY <1>4, <2>1, NoDecimalsDenote
<1>5. QED
  BY <1>1, <1>2, <1>3, <1>4 DEF Converts, GettsInt, Tasks

(* With data, the manager has a number for each the node wrote in the body *)
(* of the last request, and it is the same number; or the body was one of  *)
(* rewards without a total, of which it has none.                          *)
THEOREM AmountsAreExact == Spec => []AmountsExact
<1>1. IInv /\ FlagsOK /\ RoomInv /\ NumbersInv => AmountsExact
  <2>1. SUFFICES ASSUME IInv, NumbersInv, Delivered # {} 
                 PROVE  \/ /\ Len(numbers) = Len(body)
                           /\ \A i \in DOMAIN body : Denotes(numbers[i], body[i])
                        \/ task = "reward" /\ ~hasTotal /\ numbers = <<>>
    BY DEF AmountsExact
  <2>2. AllConverted /\ DataOK
    BY <2>1 DEF NumbersInv, IInv
  <2>3. ASSUME NEW i \in DOMAIN body, numbers = [k \in DOMAIN body |-> Converted(body[k])]
        PROVE  Denotes(numbers[i], body[i])
    <3>1. body \in Bodies /\ task \in Tasks
      BY <2>2, <2>3 DEF DataOK
    <3>2. IsText(body[i])
      BY <3>1, <2>3, AccountTaskAssumption
    <3>3. Converts(body[i]) /\ numbers[i] = Converted(body[i])
      BY <2>2, <2>3 DEF AllConverted
    <3>4. Denotes(Converted(body[i]), body[i])
      BY <3>1, <3>2, <3>3, ConversionIsExact
    <3>5. QED
      BY <3>3, <3>4
  <2>4. QED
    BY <2>2, <2>3, NumbersOfBody
<1>2. QED
  BY <1>1, NumbersInvariance, PTL
=============================================================================
