----------------------------- MODULE StreamRun -----------------------------
(***************************************************************************)
(* The streams of the managers and their listeners (client/client.go:      *)
(* RegisterStream, CloseStream, Run).  A stream's requests come through    *)
(* its RequestListener channel; twenty listeners take them, each handles   *)
(* one at a time and answers on its own stream.  A handler's work is the   *)
(* subject of the task modules: here it refuses its task, or lets sendResp *)
(* answer and returns, never returns, or panics; and GetLatest may tell of *)
(* its payload before any of these.                                        *)
(***************************************************************************)
EXTENDS Sequences

CONSTANTS
    Streams,
    Listeners,    \* the goroutines of Run
    StreamOf,     \* the stream each listener is started for, 20 for each
    Requests,
    SentOn,       \* the stream each request is sent on
    NoRequest,
    Ranges,       \* the GetTransactions and GetLatest requests
    Latest,       \* of these the GetLatest requests
    MayHang,      \* requests whose handler may never return
    MayPanic,     \* requests whose handler may panic
    MayFinish     \* streams whose Finish channel may be closed

ASSUME StreamRunAssumption ==
    /\ StreamOf \in [Listeners -> Streams]
    /\ SentOn \in [Requests -> Streams]
    /\ NoRequest \notin Requests
    /\ Ranges \union MayPanic \subseteq Requests
    /\ Latest \union MayHang \subseteq Ranges
    /\ MayFinish \subseteq Streams

VARIABLES
    alive,       \* the process runs
    asked,       \* the requests sent
    ctxDone,     \* streams whose context is done
    finished,    \* streams whose Finish channel is closed
    opened,      \* streams that were registered
    streams,     \* ic.streams, the registry
    queue,       \* RequestListener of each stream
    at,          \* where each listener stands
    task,        \* the request it has taken
    sending,     \* requests whose sendResp has not ended
    answers      \* the final responses each manager received

managerVars == <<asked, ctxDone, finished>>
workerVars == <<opened, streams, queue, at, task, sending>>
streamVars == <<alive, managerVars, workerVars, answers>>

Init ==
    /\ alive = TRUE
    /\ asked = {} /\ sending = {} /\ ctxDone = {} /\ finished = {} /\ opened = {} /\ streams = {}
    /\ queue = [s \in Streams |-> <<>>]
    /\ at = [l \in Listeners |-> "none"]
    /\ task = [l \in Listeners |-> NoRequest]
    /\ answers = [s \in Streams |-> <<>>]

Over(s) == s \in ctxDone \union finished

-----------------------------------------------------------------------------
(* The gRPC server and the managers.                                       *)

(* RegisterStream, called once for a new stream, spawns its listeners.     *)
RegisterStream(s) ==
    /\ alive /\ s \notin opened
    /\ opened' = opened \union {s}
    /\ streams' = streams \union {s}
    /\ at' = [l \in Listeners |-> IF StreamOf[l] = s THEN "select" ELSE at[l]]
    /\ UNCHANGED <<alive, managerVars, queue, task, sending, answers>>

Ask(r) ==
    /\ alive /\ SentOn[r] \in opened /\ ~Over(SentOn[r]) /\ r \notin asked
    /\ asked' = asked \union {r}
    /\ queue' = [queue EXCEPT ![SentOn[r]] = Append(@, r)]
    /\ UNCHANGED <<alive, ctxDone, finished, opened, streams, at, task, sending, answers>>

(* The manager disconnects.                                                *)
EndContext(s) ==
    /\ alive /\ s \in opened \ ctxDone
    /\ ctxDone' = ctxDone \union {s}
    /\ UNCHANGED <<alive, asked, finished, workerVars, answers>>

FinishStream(s) ==
    /\ alive /\ s \in (opened \ finished) \intersect MayFinish
    /\ finished' = finished \union {s}
    /\ UNCHANGED <<alive, asked, ctxDone, workerVars, answers>>

\* Seeded fault: only a stream whose context is done is removed.
CloseStreamIfDone(s) ==
    /\ alive /\ s \in streams /\ s \in ctxDone
    /\ streams' = streams \ {s}
    /\ UNCHANGED <<alive, managerVars, opened, queue, at, task, sending, answers>>

(* CloseStream, for a stream that is over; a second call changes nothing.  *)
CloseStream(s) ==
    /\ alive /\ s \in streams /\ Over(s)
    /\ streams' = streams \ {s}
    /\ UNCHANGED <<alive, managerVars, opened, queue, at, task, sending, answers>>

(* The process ends, and with it all that only it knew.                    *)
ProcessOver ==
    /\ alive' = FALSE
    /\ streams' = {}
    /\ queue' = [s \in Streams |-> <<>>]
    /\ at' = [l \in Listeners |-> "end"]
    /\ task' = [l \in Listeners |-> NoRequest] /\ sending' = {}
    /\ UNCHANGED <<managerVars, opened, answers>>

-----------------------------------------------------------------------------
(* Run, by one listener.  Of several cases that are ready select takes any.*)

Selects(l) == alive /\ at[l] = "select"

\* Seeded fault: the listeners of all streams share one context.
SeeAnyContext(l) ==
    /\ Selects(l) /\ ctxDone # {}
    /\ streams' = streams \ {StreamOf[l]}
    /\ at' = [at EXCEPT ![l] = "end"]
    /\ UNCHANGED <<alive, managerVars, opened, queue, task, sending, answers>>

(* The registry changes under sLock.                                       *)
SeeContext(l) ==
    /\ Selects(l) /\ StreamOf[l] \in ctxDone
    /\ streams' = streams \ {StreamOf[l]}
    /\ at' = [at EXCEPT ![l] = "end"]
    /\ UNCHANGED <<alive, managerVars, opened, queue, task, sending, answers>>

SeeFinish(l) ==
    /\ Selects(l) /\ StreamOf[l] \in finished
    /\ at' = [at EXCEPT ![l] = "end"]
    /\ UNCHANGED <<alive, managerVars, opened, streams, queue, task, sending, answers>>

TakeFrom(l, s) ==
    /\ Selects(l) /\ queue[s] # <<>>
    /\ task' = [task EXCEPT ![l] = Head(queue[s])]
    /\ queue' = [queue EXCEPT ![s] = Tail(@)]
    /\ at' = [at EXCEPT ![l] = "work"]
    /\ UNCHANGED <<alive, managerVars, opened, streams, sending, answers>>

\* Seeded fault: all listeners read from all streams.
TakeAny(l) == \E s \in Streams : TakeFrom(l, s)

Take(l) == TakeFrom(l, StreamOf[l])

(* StreamAccess.Send of a final response: nothing arrives once the stream  *)
(* is over.                                                                *)
Final(s, r, k) ==
    answers' = IF Over(s) THEN answers ELSE [answers EXCEPT ![s] = Append(@, <<r, k>>)]

(* The handler returns; cancel, and the loop goes on.                      *)
Return(l) ==
    /\ at' = [at EXCEPT ![l] = "select"]
    /\ task' = [task EXCEPT ![l] = NoRequest]

(* GetLatest: a payload that does not unmarshal is told, as an error with  *)
(* Final set; the handler goes on with an empty request.                   *)
TellPayload(l) ==
    /\ alive /\ at[l] = "work" /\ task[l] \in Latest
    /\ Final(StreamOf[l], task[l], "payload")
    /\ at' = [at EXCEPT ![l] = "told"]
    /\ UNCHANGED <<alive, managerVars, opened, streams, queue, task, sending>>

(* An error that ends the task: "There is no such handler", a payload or a *)
(* request to the node that fails.  GetLatest starts sendResp after all    *)
(* its errors.  When sendResp of GetTransactions runs, it still sends its  *)
(* END: before the error, or even after the handler has returned.          *)
Refuse(l) ==
    /\ alive
    /\ \/ at[l] \in {"work", "told"}
       \/ at[l] = "sending" /\ task[l] \in Ranges \ Latest
    /\ Final(StreamOf[l], task[l], "error")
    /\ Return(l)
    /\ UNCHANGED <<alive, managerVars, opened, streams, queue, sending>>

StartSending(l) ==
    /\ alive /\ at[l] \in {"work", "told"}
    /\ sending' = sending \union {task[l]}
    /\ at' = [at EXCEPT ![l] = "sending"]
    /\ UNCHANGED <<alive, managerVars, opened, streams, queue, task, answers>>

\* Seeded fault: sendResp sends END again when its context is done.
EndAgain(r) ==
    /\ alive /\ r \in sending
    /\ Final(SentOn[r], r, "END")
    /\ sending' \in {sending, sending \ {r}}
    /\ UNCHANGED <<alive, managerVars, opened, streams, queue, at, task>>

(* sendResp, a goroutine of its own for a range task, sends END.           *)
End(r) ==
    /\ alive /\ r \in sending
    /\ Final(SentOn[r], r, "END")
    /\ sending' = sending \ {r}
    /\ UNCHANGED <<alive, managerVars, opened, streams, queue, at, task>>

(* The handler of a range task does not always wait for sendResp; for the  *)
(* account tasks sendResp is a call.                                       *)
Succeed(l) ==
    /\ alive /\ at[l] = "sending" /\ (task[l] \in Ranges \/ task[l] \notin sending)
    /\ Return(l)
    /\ UNCHANGED <<alive, managerVars, opened, streams, queue, sending, answers>>

(* The handler never returns; sendResp, which sees the context, ends.      *)
Hang(l) ==
    /\ alive /\ at[l] = "sending" /\ task[l] \in MayHang
    /\ at' = [at EXCEPT ![l] = "hung"]
    /\ UNCHANGED <<alive, managerVars, opened, streams, queue, task, sending, answers>>

(* No listener recovers.                                                   *)
Panic(l) ==
    /\ alive /\ at[l] \in {"work", "told", "sending"} /\ task[l] \in MayPanic
    /\ ProcessOver

Run(l) ==
    \/ SeeContext(l) \/ SeeFinish(l) \/ Take(l)
    \/ TellPayload(l) \/ Refuse(l) \/ StartSending(l) \/ Succeed(l)

Opening == \E s \in Streams : RegisterStream(s)

Others ==
    \/ \E s \in Streams : EndContext(s) \/ FinishStream(s) \/ CloseStream(s)
    \/ \E r \in Requests : Ask(r) \/ End(r)
    \/ \E l \in Listeners : Run(l) \/ Hang(l) \/ Panic(l)

Next == Opening \/ Others

(* Listeners run; sendResp ends, with its context after five minutes at    *)
(* the latest (GetsFinal of the task modules); the server closes a stream  *)
(* that is over.                                                           *)
Fairness ==
    /\ \A s \in Streams : WF_streamVars(CloseStream(s))
    /\ \A r \in Requests : WF_streamVars(End(r))
    /\ \A l \in Listeners : WF_streamVars(Run(l))

Spec == Init /\ [][Next]_streamVars /\ Fairness

-----------------------------------------------------------------------------
Service == INSTANCE TaskService

(* README.md: a request is answered to the manager that sent it, with one  *)
(* END and one error at most, although a listener may be at another task   *)
(* when sendResp ends the one before.  Only GetLatest may give two errors: *)
(* that of its payload comes before anything else and ends nothing.        *)
AnswersToSender == Service!Spec

(* A request is in the channel of its stream or with one listener of that  *)
(* stream, never in two places, so that no two listeners handle it; and    *)
(* one that was told anything is not waiting any more.                     *)
HeldOnce ==
    /\ \A l, m \in Listeners : task[l] # NoRequest =>
          /\ SentOn[task[l]] = StreamOf[l]
          /\ task[l] = task[m] => l = m
    /\ \A s \in Streams : \A i, j \in DOMAIN queue[s] :
          /\ SentOn[queue[s][i]] = s
          /\ queue[s][i] = queue[s][j] => i = j
          /\ queue[s][i] \notin sending /\ ~Service!Told(queue[s][i])
          /\ \A l \in Listeners : task[l] # queue[s][i]

Hung(s) == \A l \in Listeners : StreamOf[l] = s => at[l] = "hung"

(* Every request finally gets END or the error that ends its task (that of *)
(* a payload GetLatest goes on from is neither), unless its stream or the  *)
(* process is over first or every listener of its stream is with a handler *)
(* that hangs: a handler that hangs costs a listener, not an answer.  A    *)
(* request stays asked for and each of these lasts, so that it comes to    *)
(* hold for good.                                                          *)
EveryTaskAnswered ==
    <>[](\A r \in asked : Service!Answered(r) \/ Over(SentOn[r]) \/ ~alive \/ Hung(SentOn[r]))

(* A stream that is over is cleaned up after, whichever of its context and *)
(* its Finish channel its listeners saw first: it leaves the registry for  *)
(* good, and its listeners end, but for those whose handler hangs.         *)
CleanedUp ==
    <>[](\A s \in Streams : Over(s) =>
            /\ s \notin streams
            /\ \A l \in Listeners : StreamOf[l] = s => at[l] \in {"end", "hung"})
=============================================================================
