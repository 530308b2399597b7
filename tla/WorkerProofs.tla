---------------------------- MODULE WorkerProofs ----------------------------
(***************************************************************************)
(* Theorems about Worker, for any streams, listeners and requests: that a  *)
(* request is in one place, and that the worker implements TaskService.    *)
(***************************************************************************)
EXTENDS Worker, Integers, TLAPS

(* The final responses given, on whatever stream.                          *)
Said == {x \in Requests \X Service!Kinds : Service!Given(x)}
Unanswered(r) == <<r, "END">> \notin Said /\ <<r, "error">> \notin Said
Untold(r) == <<r, "payload">> \notin Said /\ Unanswered(r)

(* Where a listener has a request, and where it may stand.                 *)
Busy == {"work", "told", "sending", "hung"}
Places == {"none", "select", "end"} \union Busy
USE DEF Busy, Places

(***************************************************************************)
(* The inductive invariant.  HeldOnce alone is not inductive: that a       *)
(* request waits unanswered rests on the listeners and the sendResp        *)
(* goroutines being at requests that were asked for, and that none is      *)
(* answered twice rests on where the listener that has it stands.          *)
(***************************************************************************)
DataOK ==
    /\ asked \subseteq Requests /\ sending \subseteq asked
    /\ queue \in [Streams -> Seq(Requests)]
    /\ at \in [Listeners -> Places]
    /\ task \in [Listeners -> Requests \union {NoRequest}]
    /\ answers \in [Streams -> Seq(Requests \X Service!Kinds)]

ListenersInv ==
    \A l \in Listeners :
        /\ task[l] # NoRequest <=> at[l] \in Busy
        /\ task[l] # NoRequest => task[l] \in asked /\ SentOn[task[l]] = StreamOf[l]
        /\ at[l] = "work" => Untold(task[l])
        /\ at[l] \in {"work", "told"} => task[l] \notin sending /\ Unanswered(task[l])
        /\ at[l] = "sending" => <<task[l], "error">> \notin Said

OneListener ==
    \A l, m \in Listeners : task[l] # NoRequest /\ task[l] = task[m] => l = m

QueuesInv ==
    \A s \in Streams : \A i \in DOMAIN queue[s] :
        /\ queue[s][i] \in asked \ sending /\ SentOn[queue[s][i]] = s
        /\ Untold(queue[s][i])
        /\ \A l \in Listeners : task[l] # queue[s][i]

QueuedOnce ==
    \A s \in Streams : \A i, j \in DOMAIN queue[s] : queue[s][i] = queue[s][j] => i = j

OpenedInv ==
    \A l \in Listeners :
        at[l] \in {"select"} \union Busy => StreamOf[l] \in opened

SaidInv ==
    /\ \A x \in Said : x[1] \in asked
    /\ \A r \in sending : <<r, "END">> \notin Said

IInv ==
    DataOK /\ ListenersInv /\ OneListener /\ QueuesInv /\ QueuedOnce /\ OpenedInv /\ SaidInv

-----------------------------------------------------------------------------
(* What a step does to the responses given.                                *)

LEMMA SaidSame ==
    ASSUME answers' = answers
    PROVE  Said' = Said
BY DEF Said, Service!Given, Service!Kinds

LEMMA SaidMore ==
    ASSUME DataOK, NEW s \in Streams, NEW r \in Requests, NEW k \in Service!Kinds,
           answers' = [answers EXCEPT ![s] = Append(@, <<r, k>>)]
    PROVE  /\ answers' \in [Streams -> Seq(Requests \X Service!Kinds)]
           /\ Said' = Said \union {<<r, k>>}
<1>1. answers \in [Streams -> Seq(Requests \X Service!Kinds)]
  BY DEF DataOK
<1>2. <<r, k>> \in Requests \X Service!Kinds
  OBVIOUS
<1>3. answers' \in [Streams -> Seq(Requests \X Service!Kinds)]
  BY <1>1, <1>2
<1>4. ASSUME NEW x \in Requests \X Service!Kinds
      PROVE  (\E t \in Streams : \E i \in DOMAIN answers'[t] : answers'[t][i] = x)
               <=> (\E t \in Streams : \E i \in DOMAIN answers[t] : answers[t][i] = x) \/ x = <<r, k>>
  <2> DEFINE new == Append(answers[s], <<r, k>>)
             n == Len(answers[s])
  <2>1. /\ n \in Nat /\ DOMAIN answers[s] = 1..n /\ DOMAIN new = 1..(n + 1)
        /\ new[n + 1] = <<r, k>>
        /\ \A i \in 1..n : new[i] = answers[s][i]
    BY <1>1, <1>2
  <2>2. answers'[s] = new /\ \A t \in Streams \ {s} : answers'[t] = answers[t]
    BY <1>1
  <2> HIDE DEF new, n
  <2>3. (\E i \in DOMAIN new : new[i] = x)
          <=> (\E i \in DOMAIN answers[s] : answers[s][i] = x) \/ x = <<r, k>>
    <3>1. ASSUME NEW i \in DOMAIN new, new[i] = x
          PROVE  (\E j \in DOMAIN answers[s] : answers[s][j] = x) \/ x = <<r, k>>
      <4>1. i \in 1..n \/ i = n + 1
        BY <2>1, <3>1
      <4>2. QED
        BY <2>1, <3>1, <4>1
    <3>2. n + 1 \in DOMAIN new /\ \A i \in DOMAIN answers[s] : i \in DOMAIN new
      BY <2>1
    <3>3. QED
      BY <2>1, <3>1, <3>2
  <2>4. QED
    BY <2>2, <2>3
<1>5. Said = {x \in Requests \X Service!Kinds :
                  \E t \in Streams : \E i \in DOMAIN answers[t] : answers[t][i] = x}
  BY DEF Said, Service!Given
<1>6. Said' = {x \in Requests \X Service!Kinds :
                  \E t \in Streams : \E i \in DOMAIN answers'[t] : answers'[t][i] = x}
  BY DEF Said, Service!Given, Service!Kinds
<1>7. ASSUME NEW x
      PROVE  x \in Said' <=> x \in Said \union {<<r, k>>}
  <2>1. CASE x \in Requests \X Service!Kinds
    BY <1>4, <1>5, <1>6, <2>1
  <2>2. CASE x \notin Requests \X Service!Kinds
    BY <1>2, <1>5, <1>6, <2>2
  <2>3. QED
    BY <2>1, <2>2
<1>8. QED
  BY <1>3, <1>7

(* StreamAccess.Send: the response is given, or the stream is over.        *)
LEMMA FinalGiven ==
    ASSUME DataOK, NEW s \in Streams, NEW r \in Requests, NEW k \in Service!Kinds,
           Final(s, r, k)
    PROVE  /\ answers' \in [Streams -> Seq(Requests \X Service!Kinds)]
           /\ Said' = Said \/ Said' = Said \union {<<r, k>>}
           /\ \/ answers' = answers
              \/ answers' = [answers EXCEPT ![s] = Append(@, <<r, k>>)]
<1>1. CASE answers' = answers
  BY <1>1, SaidSame DEF DataOK
<1>2. CASE answers' = [answers EXCEPT ![s] = Append(@, <<r, k>>)]
  BY <1>2, SaidMore
<1>3. QED
  BY <1>1, <1>2 DEF Final

-----------------------------------------------------------------------------
(* The invariant at the start and under each group of steps.               *)

LEMMA InitInvariant ==
    ASSUME WorkerInit
    PROVE  IInv
<1>1. Said = {}
  BY DEF WorkerInit, Init, Said, Service!Given
<1>2. DataOK
  BY DEF WorkerInit, Init, DataOK
<1>3. ListenersInv /\ OneListener
  BY DEF WorkerInit, Init, ListenersInv, OneListener
<1>4. QueuesInv /\ QueuedOnce /\ OpenedInv
  BY DEF WorkerInit, Init, QueuesInv, QueuedOnce, OpenedInv
<1>5. SaidInv
  BY <1>1 DEF WorkerInit, Init, SaidInv
<1>6. QED
  BY <1>2, <1>3, <1>4, <1>5 DEF IInv

(* Steps that leave requests and responses where they are, among them      *)
(* those of main, of the servers and of a listener that ends.              *)
LEMMA IdleSteps ==
    ASSUME IInv, UNCHANGED <<asked, queue, task, sending, answers>>,
           at' \in [Listeners -> Places],
           \A l \in Listeners :
              \/ at'[l] = at[l]
              \/ {at[l], at'[l]} \intersect Busy = {}
              \/ at[l] = "sending" /\ at'[l] = "hung",
           OpenedInv'
    PROVE  IInv'
<1>1. Said' = Said
  BY SaidSame
<1>2. DataOK'
  BY DEF IInv, DataOK
<1>3. ListenersInv'
  BY <1>1 DEF IInv, ListenersInv, Unanswered, Untold
<1>4. OneListener' /\ QueuesInv' /\ QueuedOnce' /\ SaidInv'
  BY <1>1 DEF IInv, OneListener, QueuesInv, QueuedOnce, SaidInv, Unanswered, Untold
<1>5. QED
  BY <1>2, <1>3, <1>4 DEF IInv

LEMMA ProcessOverInvariant ==
    ASSUME IInv, ProcessOver
    PROVE  IInv'
<1>1. Said' = Said
  BY SaidSame DEF ProcessOver
<1>2. DataOK'
  BY DEF IInv, DataOK, ProcessOver, managerVars
<1>3. ListenersInv' /\ OneListener'
  BY DEF ListenersInv, OneListener, ProcessOver
<1>4. QueuesInv' /\ QueuedOnce' /\ OpenedInv'
  BY DEF QueuesInv, QueuedOnce, OpenedInv, ProcessOver
<1>5. SaidInv'
  BY <1>1 DEF IInv, SaidInv, ProcessOver, managerVars
<1>6. QED
  BY <1>2, <1>3, <1>4, <1>5 DEF IInv

(* A request not asked for before is nowhere yet.                          *)
LEMMA AskInvariant ==
    ASSUME IInv, NEW r \in Requests, Ask(r)
    PROVE  IInv'
<1> DEFINE s == SentOn[r]
<1> USE DEF IInv
<1>1. Said' = Said
  BY SaidSame DEF Ask
<1>2. s \in Streams /\ r # NoRequest
  BY StreamRunAssumption
<1>3. /\ queue'[s] = Append(queue[s], r) /\ \A t \in Streams \ {s} : queue'[t] = queue[t]
      /\ queue[s] \in Seq(Requests)
  BY <1>2 DEF Ask, DataOK
<1>4. DataOK'
  BY <1>2, <1>3 DEF DataOK, Ask
<1>5. ListenersInv' /\ OneListener' /\ OpenedInv'
  BY <1>1 DEF ListenersInv, OneListener, OpenedInv, Ask, Unanswered, Untold
<1>6. SaidInv'
  BY <1>1 DEF SaidInv, Ask
<1>7. /\ r \notin sending /\ Untold(r)
      /\ \A l \in Listeners : task[l] # r
      /\ \A t \in Streams : \A i \in DOMAIN queue[t] : queue[t][i] # r
  BY <1>2 DEF Ask, DataOK, ListenersInv, QueuesInv, SaidInv, Unanswered, Untold
<1>8. ASSUME NEW t \in Streams, NEW i \in DOMAIN queue'[t]
      PROVE  \/ i \in DOMAIN queue[t] /\ queue'[t][i] = queue[t][i]
             \/ t = s /\ i = Len(queue[s]) + 1 /\ queue'[t][i] = r
  <2>1. CASE t = s
    BY <1>3, <2>1
  <2>2. CASE t # s
    BY <1>3, <2>2
  <2>3. QED
    BY <2>1, <2>2
<1>9. QueuesInv'
  <2> SUFFICES ASSUME NEW t \in Streams, NEW i \in DOMAIN queue'[t]
               PROVE  /\ queue'[t][i] \in asked' \ sending' /\ SentOn[queue'[t][i]] = t
                      /\ <<queue'[t][i], "payload">> \notin Said'
                      /\ <<queue'[t][i], "END">> \notin Said'
                      /\ <<queue'[t][i], "error">> \notin Said'
                      /\ \A l \in Listeners : task'[l] # queue'[t][i]
    BY DEF QueuesInv, Unanswered, Untold
  <2>1. asked' = asked \union {r} /\ sending' = sending /\ task' = task
    BY DEF Ask
  <2>2. CASE i \in DOMAIN queue[t] /\ queue'[t][i] = queue[t][i]
    BY <1>1, <2>1, <2>2 DEF QueuesInv, Unanswered, Untold
  <2>3. CASE t = s /\ queue'[t][i] = r
    BY <1>1, <1>7, <2>1, <2>3 DEF Unanswered, Untold
  <2>4. QED
    BY <1>8, <2>2, <2>3
<1>10. QueuedOnce'
  BY <1>7, <1>8 DEF QueuedOnce
<1>11. QED
  BY <1>4, <1>5, <1>6, <1>9, <1>10

(* A listener takes the head of its stream's queue, which is nowhere else. *)
LEMMA TakeInvariant ==
    ASSUME IInv, NEW l \in Listeners, Take(l)
    PROVE  IInv'
<1> DEFINE s == StreamOf[l]
           r == Head(queue[s])
<1> USE DEF IInv
<1>1. Said' = Said
  BY SaidSame DEF Take, TakeFrom
<1>2. /\ s \in Streams /\ queue[s] # <<>> /\ queue[s] \in Seq(Requests)
      /\ r \in Requests /\ r # NoRequest /\ 1 \in DOMAIN queue[s] /\ r = queue[s][1]
  <2>1. s \in Streams /\ NoRequest \notin Requests
    BY StreamRunAssumption
  <2>2. queue[s] # <<>> /\ queue[s] \in Seq(Requests)
    BY <2>1 DEF Take, TakeFrom, DataOK
  <2> HIDE DEF s
  <2>3. Len(queue[s]) \in Nat /\ Len(queue[s]) # 0 /\ DOMAIN queue[s] = 1..Len(queue[s])
    BY <2>2
  <2>4. 1 \in DOMAIN queue[s] /\ r = queue[s][1]
    BY <2>2, <2>3
  <2>5. QED
    BY <2>1, <2>2, <2>4
<1>3. /\ task' = [task EXCEPT ![l] = r] /\ at' = [at EXCEPT ![l] = "work"]
      /\ task \in [Listeners -> Requests \union {NoRequest}]
      /\ at \in [Listeners -> Places]
      /\ queue' = [queue EXCEPT ![s] = Tail(@)]
      /\ at[l] = "select" /\ asked' = asked /\ sending' = sending /\ answers' = answers
  BY DEF Take, TakeFrom, Selects, DataOK, managerVars
<1>4. DataOK'
  BY <1>2, <1>3 DEF DataOK
<1>5. /\ r \in asked \ sending /\ SentOn[r] = s /\ Untold(r)
      /\ \A m \in Listeners : task[m] # r
  BY <1>2 DEF QueuesInv
<1>6. ListenersInv' /\ OneListener'
  BY <1>1, <1>2, <1>3, <1>5 DEF ListenersInv, OneListener, Unanswered, Untold
<1>7. ASSUME NEW t \in Streams, NEW i \in DOMAIN queue'[t]
      PROVE  \/ t # s /\ i \in DOMAIN queue[t] /\ queue'[t][i] = queue[t][i]
             \/ t = s /\ i \in Nat /\ i + 1 \in DOMAIN queue[t] /\ queue'[t][i] = queue[t][i + 1]
                /\ i + 1 # 1
  <2>1. CASE t = s
    BY <1>2, <1>3, <2>1 DEF DataOK
  <2>2. CASE t # s
    BY <1>3, <2>2 DEF DataOK
  <2>3. QED
    BY <2>1, <2>2
<1>8. QueuedOnce'
  BY <1>7 DEF QueuedOnce
<1>9. ASSUME NEW t \in Streams, NEW i \in DOMAIN queue'[t]
      PROVE  queue'[t][i] # r
  BY <1>2, <1>5, <1>7, <1>9 DEF QueuesInv, QueuedOnce
<1>10. QueuesInv'
  BY <1>1, <1>3, <1>7, <1>9 DEF QueuesInv, Unanswered, Untold
<1>11. SaidInv' /\ OpenedInv'
  BY <1>1, <1>3 DEF SaidInv, OpenedInv, Take, TakeFrom
<1>12. QED
  BY <1>4, <1>6, <1>8, <1>10, <1>11

LEMMA StartSendingInvariant ==
    ASSUME IInv, NEW l \in Listeners, StartSending(l)
    PROVE  IInv'
<1> USE DEF IInv
<1>1. Said' = Said
  BY SaidSame DEF StartSending
<1>2. /\ at[l] \in {"work", "told"} /\ at' = [at EXCEPT ![l] = "sending"]
      /\ sending' = sending \union {task[l]}
      /\ asked' = asked /\ queue' = queue /\ task' = task /\ answers' = answers
  BY DEF StartSending, managerVars
<1>3. /\ task[l] \in asked /\ task[l] # NoRequest /\ task[l] \notin sending
      /\ Unanswered(task[l])
  BY <1>2 DEF ListenersInv
<1>4. DataOK'
  BY <1>2, <1>3 DEF DataOK
<1>5. ListenersInv' /\ OneListener'
  BY <1>1, <1>2, <1>3 DEF ListenersInv, OneListener, DataOK, Unanswered, Untold
<1>6. QueuesInv' /\ QueuedOnce'
  BY <1>1, <1>2, <1>3 DEF QueuesInv, QueuedOnce, Unanswered, Untold
<1>7. SaidInv' /\ OpenedInv'
  BY <1>1, <1>2, <1>3 DEF SaidInv, OpenedInv, Unanswered, Untold, StartSending, DataOK
<1>8. QED
  BY <1>4, <1>5, <1>6, <1>7

(* The listener is the only one at its request, and goes on with it.       *)
LEMMA TellPayloadInvariant ==
    ASSUME IInv, NEW l \in Listeners, TellPayload(l)
    PROVE  IInv'
<1> DEFINE r == task[l]
<1> USE DEF IInv
<1>1. /\ at[l] = "work" /\ Final(StreamOf[l], r, "payload")
      /\ at' = [at EXCEPT ![l] = "told"]
      /\ asked' = asked /\ queue' = queue /\ task' = task /\ sending' = sending
  BY DEF TellPayload, managerVars
<1>2. /\ r \in asked /\ r \in Requests /\ r # NoRequest
      /\ StreamOf[l] \in Streams /\ "payload" \in Service!Kinds
      /\ \A m \in Listeners : task[m] = r => m = l
  BY <1>1, StreamRunAssumption DEF ListenersInv, OneListener, DataOK, Service!Kinds
<1>3. /\ answers' \in [Streams -> Seq(Requests \X Service!Kinds)]
      /\ Said' = Said \/ Said' = Said \union {<<r, "payload">>}
  BY <1>1, <1>2, FinalGiven
<1>4. DataOK'
  BY <1>1, <1>3 DEF DataOK
<1>5. ListenersInv' /\ OneListener'
  BY <1>1, <1>2, <1>3 DEF ListenersInv, OneListener, DataOK, Unanswered, Untold
<1>6. QueuesInv' /\ QueuedOnce'
  <2>1. \A s \in Streams : \A i \in DOMAIN queue[s] : queue[s][i] # r
    BY <1>2 DEF QueuesInv
  <2>2. ASSUME NEW q, q # r, Untold(q)
        PROVE  /\ <<q, "payload">> \notin Said'
               /\ <<q, "END">> \notin Said' /\ <<q, "error">> \notin Said'
    BY <1>3, <2>2 DEF Unanswered, Untold
  <2>3. QueuesInv'
    <3> SUFFICES ASSUME NEW s \in Streams, NEW i \in DOMAIN queue[s]
                 PROVE  /\ queue[s][i] \in asked \ sending /\ SentOn[queue[s][i]] = s
                        /\ <<queue[s][i], "payload">> \notin Said'
                        /\ <<queue[s][i], "END">> \notin Said'
                        /\ <<queue[s][i], "error">> \notin Said'
                        /\ \A m \in Listeners : task[m] # queue[s][i]
      BY <1>1 DEF QueuesInv, Unanswered, Untold
    <3>1. QED
      BY <2>1, <2>2 DEF QueuesInv
  <2>4. QED
    BY <1>1, <2>3 DEF QueuedOnce
<1>7. SaidInv' /\ OpenedInv'
  BY <1>1, <1>2, <1>3 DEF SaidInv, OpenedInv, TellPayload, DataOK
<1>8. QED
  BY <1>4, <1>5, <1>6, <1>7

(* The listener is the only one at its request, and gives up the request   *)
(* with the step that gives the error.                                     *)
LEMMA RefuseInvariant ==
    ASSUME IInv, NEW l \in Listeners, Refuse(l)
    PROVE  IInv'
<1> DEFINE r == task[l]
<1> USE DEF IInv
<1>1. /\ at[l] \in {"work", "told", "sending"} /\ Final(StreamOf[l], r, "error")
      /\ at' = [at EXCEPT ![l] = "select"] /\ task' = [task EXCEPT ![l] = NoRequest]
      /\ asked' = asked /\ queue' = queue /\ sending' = sending
  BY DEF Refuse, Return, managerVars
<1>2. /\ r \in asked /\ r \in Requests /\ r # NoRequest
      /\ StreamOf[l] \in Streams /\ "error" \in Service!Kinds
      /\ \A m \in Listeners : task[m] = r => m = l
  BY <1>1, StreamRunAssumption DEF ListenersInv, OneListener, DataOK, Service!Kinds
<1>3. /\ answers' \in [Streams -> Seq(Requests \X Service!Kinds)]
      /\ Said' = Said \/ Said' = Said \union {<<r, "error">>}
  BY <1>1, <1>2, FinalGiven
<1>4. DataOK'
  BY <1>1, <1>3 DEF DataOK
<1>5. ListenersInv' /\ OneListener'
  BY <1>1, <1>2, <1>3 DEF ListenersInv, OneListener, DataOK, Unanswered, Untold
<1>6. QueuesInv' /\ QueuedOnce'
  <2>1. \A s \in Streams : \A i \in DOMAIN queue[s] :
           queue[s][i] # r /\ queue[s][i] # NoRequest
    BY <1>2, StreamRunAssumption DEF QueuesInv, DataOK
  <2>2. QED
    BY <1>1, <1>2, <1>3, <2>1 DEF QueuesInv, QueuedOnce, Unanswered, Untold, DataOK
<1>7. SaidInv' /\ OpenedInv'
  BY <1>1, <1>2, <1>3 DEF SaidInv, OpenedInv, Refuse, DataOK
<1>8. QED
  BY <1>4, <1>5, <1>6, <1>7

LEMMA EndInvariant ==
    ASSUME IInv, NEW r \in Requests, End(r)
    PROVE  IInv'
<1> USE DEF IInv
<1>1. /\ r \in sending /\ Final(SentOn[r], r, "END") /\ sending' = sending \ {r}
      /\ asked' = asked /\ queue' = queue /\ at' = at /\ task' = task
  BY DEF End, managerVars
<1>2. SentOn[r] \in Streams /\ "END" \in Service!Kinds
  BY StreamRunAssumption DEF Service!Kinds
<1>3. /\ answers' \in [Streams -> Seq(Requests \X Service!Kinds)]
      /\ Said' = Said \/ Said' = Said \union {<<r, "END">>}
  BY <1>1, <1>2, FinalGiven
<1>4. DataOK'
  BY <1>1, <1>3 DEF DataOK
<1>5. ListenersInv' /\ OneListener'
  BY <1>1, <1>3 DEF ListenersInv, OneListener, Unanswered, Untold
<1>6. QueuesInv' /\ QueuedOnce'
  <2>1. \A s \in Streams : \A i \in DOMAIN queue[s] : queue[s][i] # r
    BY <1>1 DEF QueuesInv
  <2>2. ASSUME NEW q, q # r, Untold(q)
        PROVE  /\ <<q, "payload">> \notin Said'
               /\ <<q, "END">> \notin Said' /\ <<q, "error">> \notin Said'
    BY <1>3, <2>2 DEF Unanswered, Untold
  <2>3. QueuesInv'
    <3> SUFFICES ASSUME NEW s \in Streams, NEW i \in DOMAIN queue[s]
                 PROVE  /\ queue[s][i] \in asked \ sending' /\ SentOn[queue[s][i]] = s
                        /\ <<queue[s][i], "payload">> \notin Said'
                        /\ <<queue[s][i], "END">> \notin Said'
                        /\ <<queue[s][i], "error">> \notin Said'
                        /\ \A l \in Listeners : task[l] # queue[s][i]
      BY <1>1 DEF QueuesInv, Unanswered, Untold
    <3>1. QED
      BY <1>1, <2>1, <2>2 DEF QueuesInv
  <2>4. QED
    BY <1>1, <2>3 DEF QueuedOnce
<1>7. SaidInv' /\ OpenedInv'
  BY <1>1, <1>3 DEF SaidInv, OpenedInv, End, DataOK
<1>8. QED
  BY <1>4, <1>5, <1>6, <1>7

(* The handler returns; what its sendResp still has to say stays.          *)
LEMMA SucceedInvariant ==
    ASSUME IInv, NEW l \in Listeners, Succeed(l)
    PROVE  IInv'
<1> USE DEF IInv
<1>1. Said' = Said
  BY SaidSame DEF Succeed
<1>2. /\ at' = [at EXCEPT ![l] = "select"] /\ task' = [task EXCEPT ![l] = NoRequest]
      /\ asked' = asked /\ queue' = queue /\ sending' = sending /\ answers' = answers
  BY DEF Succeed, Return, managerVars
<1>3. DataOK'
  BY <1>2 DEF DataOK
<1>4. ListenersInv' /\ OneListener'
  BY <1>1, <1>2, StreamRunAssumption DEF ListenersInv, OneListener, DataOK, Unanswered, Untold
<1>5. QueuesInv' /\ QueuedOnce'
  <2>1. \A s \in Streams : \A i \in DOMAIN queue[s] : queue[s][i] # NoRequest
    BY StreamRunAssumption DEF QueuesInv, DataOK
  <2>2. \A m \in Listeners : task'[m] \in {task[m], NoRequest}
    BY <1>2 DEF DataOK
  <2>3. QueuesInv'
    BY <1>1, <1>2, <2>1, <2>2 DEF QueuesInv, Unanswered, Untold
  <2>4. QED
    BY <1>2, <2>3 DEF QueuedOnce
<1>6. SaidInv' /\ OpenedInv'
  BY <1>1, <1>2 DEF SaidInv, OpenedInv, Succeed, DataOK
<1>7. QED
  BY <1>3, <1>4, <1>5, <1>6

(* RegisterStream spawns listeners where there were none.                  *)
LEMMA RegisterInvariant ==
    ASSUME IInv, NEW s \in Streams, RegisterStream(s)
    PROVE  IInv'
<1>1. /\ at' = [l \in Listeners |-> IF StreamOf[l] = s THEN "select" ELSE at[l]]
      /\ s \notin opened /\ opened' = opened \union {s}
      /\ UNCHANGED <<asked, queue, task, sending, answers>>
  BY DEF RegisterStream, managerVars
<1>2. OpenedInv'
  BY <1>1 DEF IInv, OpenedInv, DataOK
<1>3. \A l \in Listeners : at'[l] # at[l] =>
          {at[l], at'[l]} \intersect Busy = {}
  BY <1>1 DEF IInv, OpenedInv
<1>4. at' \in [Listeners -> Places]
  BY <1>1 DEF IInv, DataOK
<1>5. QED
  BY <1>1, <1>2, <1>3, <1>4, IdleSteps

(* The steps that change only where a listener stands, or nothing here.    *)
LEMMA RestInvariant ==
    ASSUME IInv,
           \/ \E s \in Streams : EndContext(s) \/ FinishStream(s) \/ CloseStream(s)
           \/ \E l \in Listeners : SeeContext(l) \/ SeeFinish(l) \/ Hang(l)
           \/ Start \/ SeeExit \/ StopServers
           \/ \E k \in Servers : EndServer(k)
           \/ UNCHANGED vars
    PROVE  IInv'
<1>1. UNCHANGED <<asked, queue, task, sending, answers, opened>>
  BY DEF EndContext, FinishStream, CloseStream, SeeContext, SeeFinish, Hang, Start, SeeExit,
         StopServers, EndServer, vars, streamVars, managerVars, workerVars
<1>2. /\ at \in [Listeners -> Places]
      /\ OpenedInv
  BY DEF IInv, DataOK
<1>3. CASE at' = at
  BY <1>1, <1>2, <1>3, IdleSteps DEF OpenedInv
<1>4. CASE \E l \in Listeners : at[l] = "select" /\ at' = [at EXCEPT ![l] = "end"]
  BY <1>1, <1>2, <1>4, IdleSteps DEF OpenedInv
<1>5. CASE \E l \in Listeners : at[l] = "sending" /\ at' = [at EXCEPT ![l] = "hung"]
  BY <1>1, <1>2, <1>5, IdleSteps DEF OpenedInv
<1>6. QED
  BY <1>3, <1>4, <1>5
     DEF EndContext, FinishStream, CloseStream, SeeContext, SeeFinish, Hang, Start, SeeExit,
         StopServers, EndServer, Selects, vars, streamVars, managerVars, workerVars

-----------------------------------------------------------------------------
(* Every step, by the kinds the lemmas treat.                              *)
StreamSteps ==
    \/ \E s \in Streams : RegisterStream(s)
    \/ \E r \in Requests : Ask(r) \/ End(r)
    \/ \E l \in Listeners :
          Take(l) \/ TellPayload(l) \/ Refuse(l) \/ StartSending(l) \/ Succeed(l)

RestSteps ==
    \/ \E s \in Streams : EndContext(s) \/ FinishStream(s) \/ CloseStream(s)
    \/ \E l \in Listeners : SeeContext(l) \/ SeeFinish(l) \/ Hang(l)
    \/ Start \/ SeeExit \/ StopServers
    \/ \E k \in Servers : EndServer(k)
    \/ UNCHANGED vars

LEMMA StepKinds ==
    ASSUME [WorkerNext]_vars
    PROVE  StreamSteps \/ RestSteps \/ ProcessOver \/ UNCHANGED streamVars
BY DEF WorkerNext, StreamStep, Opening, Others, Run, MainStep, Signal, ReturnMain, Panic,
       StreamSteps, RestSteps

LEMMA Inductive ==
    ASSUME IInv, [WorkerNext]_vars
    PROVE  IInv'
<1>1. CASE StreamSteps
  BY <1>1, RegisterInvariant, AskInvariant, EndInvariant, TakeInvariant,
     TellPayloadInvariant, RefuseInvariant, StartSendingInvariant, SucceedInvariant DEF StreamSteps
<1>2. CASE RestSteps
  BY <1>2, RestInvariant DEF RestSteps
<1>3. CASE ProcessOver
  BY <1>3, ProcessOverInvariant
<1>4. CASE UNCHANGED streamVars
  BY <1>4, IdleSteps DEF streamVars, managerVars, workerVars, IInv, DataOK, OpenedInv
<1>5. QED
  BY <1>1, <1>2, <1>3, <1>4, StepKinds

(* Requests and responses stay together in every run of the worker.        *)
THEOREM Invariance == WorkerSpec => []IInv
<1>1. WorkerInit => IInv
  BY InitInvariant
<1>2. IInv /\ [WorkerNext]_vars => IInv'
  BY Inductive
<1>3. QED
  BY <1>1, <1>2, PTL DEF WorkerSpec

(* RequestListener and Run: a request is in one queue or with one listener *)
(* of its stream, never handled twice, however many listeners read it.     *)
THEOREM RequestsHeldOnce == WorkerSpec => []HeldOnce
<1>1. IInv => HeldOnce
  <2> SUFFICES ASSUME IInv PROVE HeldOnce
    OBVIOUS
  <2>1. ASSUME NEW r \in Requests, Untold(r)
        PROVE  ~Service!Told(r)
    BY <2>1 DEF Unanswered, Untold, Said, Service!Told, Service!Kinds
  <2>2. QED
    BY <2>1 DEF IInv, HeldOnce, DataOK, ListenersInv, OneListener, QueuesInv, QueuedOnce
<1>2. QED
  BY <1>1, Invariance, PTL

-----------------------------------------------------------------------------
(* The refinement.                                                         *)

LEMMA StepsImplement ==
    ASSUME IInv, [WorkerNext]_vars
    PROVE  [Service!Next]_Service!serviceVars
<1> USE DEF IInv
<1>1. CASE asked' = asked /\ answers' = answers
  BY <1>1 DEF Service!serviceVars
<1>2. ASSUME NEW r \in Requests, Ask(r)
      PROVE  Service!Ask(r)
  BY <1>2 DEF Ask, Service!Ask
<1>3. ASSUME NEW r \in Requests, NEW k \in Service!Kinds, Final(SentOn[r], r, k),
             asked' = asked, r \in asked, <<r, k>> \notin Said, answers' # answers,
             k = "payload" => r \in Latest /\ Unanswered(r)
      PROVE  Service!Answer(r, k)
  <2>1. k = "payload" => r \in Latest /\ ~Service!Answered(r)
    BY <1>3 DEF Unanswered, Said, Service!Answered, Service!Kinds
  <2>2. QED
    BY <1>3, <2>1 DEF Final, Said, Service!Answer
<1>4. ASSUME NEW l \in Listeners, Refuse(l), answers' # answers
      PROVE  Service!Answer(task[l], "error") /\ task[l] \in Requests
  <2>1. /\ task[l] \in asked /\ task[l] \in Requests
        /\ SentOn[task[l]] = StreamOf[l] /\ <<task[l], "error">> \notin Said
    BY <1>4 DEF Refuse, ListenersInv, DataOK, Unanswered, Untold
  <2>2. Final(SentOn[task[l]], task[l], "error") /\ asked' = asked
    BY <1>4, <2>1 DEF Refuse, managerVars
  <2>3. QED
    BY <1>3, <1>4, <2>1, <2>2 DEF Service!Kinds
<1>5. ASSUME NEW l \in Listeners, TellPayload(l), answers' # answers
      PROVE  Service!Answer(task[l], "payload") /\ task[l] \in Requests
  <2>1. /\ task[l] \in asked /\ task[l] \in Requests /\ task[l] \in Latest
        /\ SentOn[task[l]] = StreamOf[l] /\ Untold(task[l])
    BY <1>5 DEF TellPayload, ListenersInv, DataOK
  <2>2. Final(SentOn[task[l]], task[l], "payload") /\ asked' = asked
    BY <1>5, <2>1 DEF TellPayload, managerVars
  <2>3. QED
    BY <1>3, <1>5, <2>1, <2>2 DEF Untold, Service!Kinds
<1>6. ASSUME NEW r \in Requests, End(r), answers' # answers
      PROVE  Service!Answer(r, "END")
  <2>1. r \in asked /\ <<r, "END">> \notin Said /\ asked' = asked
    BY <1>6 DEF End, SaidInv, DataOK, managerVars
  <2>2. QED
    BY <1>3, <1>6, <2>1 DEF End, Service!Kinds
<1>7. \/ \E r \in Requests : Ask(r) \/ End(r)
      \/ \E l \in Listeners : Refuse(l) \/ TellPayload(l)
      \/ asked' = asked /\ answers' = answers
  BY StepKinds DEF StreamSteps, RestSteps, RegisterStream, Take, TakeFrom, StartSending,
     Succeed, EndContext, FinishStream, CloseStream, SeeContext, SeeFinish, Hang, Start,
     SeeExit, StopServers, EndServer, ProcessOver, vars, streamVars, managerVars, workerVars
<1>8. CASE answers' # answers \/ asked' # asked
  <2>1. ASSUME NEW r \in Requests, NEW k \in Service!Kinds, Service!Answer(r, k)
        PROVE  Service!Next
    BY <2>1 DEF Service!Next
  <2>2. CASE \E r \in Requests : Ask(r)
    BY <1>2, <2>2 DEF Service!Next
  <2>3. CASE \E r \in Requests : End(r)
    BY <1>1, <1>6, <1>8, <2>1, <2>3 DEF End, managerVars, Service!Kinds
  <2>4. CASE \E l \in Listeners : Refuse(l)
    BY <1>1, <1>4, <1>8, <2>1, <2>4 DEF Refuse, managerVars, Service!Kinds
  <2>5. CASE \E l \in Listeners : TellPayload(l)
    BY <1>1, <1>5, <1>8, <2>1, <2>5 DEF TellPayload, managerVars, Service!Kinds
  <2>6. QED
    BY <1>7, <1>8, <2>2, <2>3, <2>4, <2>5
<1>9. QED
  BY <1>1, <1>8

(* README.md: "should always answer only to the one that sent request".    *)
(* For any number of streams, listeners and requests, whatever hangs,      *)
(* panics, disconnects or overtakes.                                       *)
THEOREM WorkerImplementsTaskService == WorkerSpec => AnswersToSender
<1>1. WorkerInit => Service!Init
  BY DEF WorkerInit, Init, Service!Init
<1>2. IInv /\ [WorkerNext]_vars => [Service!Next]_Service!serviceVars
  BY StepsImplement
<1>3. QED
  BY <1>1, <1>2, Invariance, PTL DEF WorkerSpec, AnswersToSender, Service!Spec
=============================================================================
