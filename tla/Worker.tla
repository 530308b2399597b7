------------------------------- MODULE Worker -------------------------------
(***************************************************************************)
(* The worker process (cmd/terra-worker/main.go): main, its gRPC server    *)
(* with the managers' streams, its HTTP server, and how they end.          *)
(***************************************************************************)
EXTENDS StreamRun

VARIABLES
    main,    \* setup, wait, then what it ends for, then return
    exit     \* what the servers that ended told main, while it receives; the
             \* channel holds both

mainVars == <<main, exit>>
vars == <<streamVars, mainVars>>

Servers == {"grpc", "http"}

WorkerInit == Init /\ main = "setup" /\ exit = <<>>

(* The servers' goroutines start, main waits.                              *)
Start ==
    /\ alive /\ main = "setup"
    /\ main' = "wait"
    /\ UNCHANGED <<streamVars, exit>>

(* A signal ends the process before signal.Notify; after it, osSig has no  *)
(* buffer, and the signal is lost unless main receives.                    *)
Signal ==
    \/ alive /\ main = "setup" /\ ProcessOver /\ UNCHANGED mainVars
    \/ alive /\ main = "wait" /\ main' = "signal" /\ exit' = <<>> /\ UNCHANGED streamVars

Ended(k) == \E i \in DOMAIN exit : exit[i] = k
Serving(k) == main = "wait" /\ ~Ended(k)

(* Listen or Serve fails; runGRPC and runHTTP tell main on every path.     *)
EndServer(k) ==
    /\ alive /\ Serving(k)
    /\ exit' = Append(exit, k)
    /\ UNCHANGED <<streamVars, main>>

\* Seeded fault: only the end of the gRPC server ends the loop.
SeeExitOfGRPC ==
    /\ alive /\ main = "wait" /\ exit # <<>>
    /\ IF Head(exit) = "grpc" THEN main' = "grpc" /\ exit' = <<>>
       ELSE exit' = Tail(exit) /\ UNCHANGED main
    /\ UNCHANGED streamVars

SeeExit ==
    /\ alive /\ main = "wait" /\ exit # <<>>
    /\ main' = Head(exit) /\ exit' = <<>>
    /\ UNCHANGED streamVars

(* cancel, and the server that has not ended is stopped (both, on a        *)
(* signal); stopping the gRPC server ends the contexts of its streams.     *)
StopServers ==
    /\ alive /\ main \in {"signal", "grpc", "http"}
    /\ ctxDone' = IF main = "grpc" THEN ctxDone ELSE opened
    /\ main' = "return"
    /\ UNCHANGED <<alive, asked, finished, workerVars, answers, exit>>

(* main returns: the process is over, whatever its goroutines are at.      *)
ReturnMain == alive /\ main = "return" /\ ProcessOver /\ UNCHANGED mainVars

MainStep == Start \/ SeeExit \/ StopServers \/ ReturnMain

(* Streams are registered while the gRPC server serves.                    *)
StreamStep ==
    /\ (Serving("grpc") /\ Opening) \/ Others
    /\ UNCHANGED mainVars

WorkerNext == StreamStep \/ MainStep \/ Signal \/ \E k \in Servers : EndServer(k)

WorkerSpec ==
    /\ WorkerInit /\ [][WorkerNext]_vars
    /\ Fairness /\ WF_vars(MainStep)

-----------------------------------------------------------------------------
(* "when grpc is finished, stop http and vice versa" (main.go:155): the    *)
(* process does not go on with one server.                                 *)
ServersEndTogether == (\E k \in Servers : Ended(k)) ~> ~alive
=============================================================================
