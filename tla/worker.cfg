SPECIFICATION WorkerSpec
CONSTANTS
    s1 = s1  s2 = s2  l1 = l1  l2 = l2  m1 = m1  r1 = r1  r2 = r2
    Streams <- MCStreams
    Listeners <- MCListeners
    StreamOf <- MCStreamOf
    Requests <- MCRequests
    SentOn <- MCSentOn
    NoRequest = NoRequest
    Ranges = {r1, r2}
    Latest = {r2}
    MayHang = {r1}
    MayPanic = {r2}
    MayFinish = {s1}
INVARIANT HeldOnce
PROPERTIES AnswersToSender EveryTaskAnswered CleanedUp ServersEndTogether
CHECK_DEADLOCK FALSE
