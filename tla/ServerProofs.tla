---------------------------- MODULE ServerProofs ----------------------------
(***************************************************************************)
(* AcceptsOnlyOpenSockets and RunsUntilClosed, for any number of ports,    *)
(* closers, connections and runs.                                          *)
(*                                                                         *)
(* LoopInv holds of every execution.  OpenInv holds until a closer has     *)
(* claimed the server: every accept loop is dead or somewhere the event    *)
(* loop finds it.  OwnInv holds while only coroutines of the loop close    *)
(* the server: what they do between their claim and the end of stop is     *)
(* not interleaved with an accept loop.                                    *)
(***************************************************************************)
EXTENDS Server, TLAPS

Types ==
  /\ listening \in BOOLEAN /\ running \in BOOLEAN /\ polling \in BOOLEAN
  /\ evArmed \in BOOLEAN /\ touched \in BOOLEAN
  /\ attached \subseteq Port
  /\ sock \in [Port -> Fd \cup {None}]
  /\ pc \in {"idle", "claim", "record", "schedule", "start", "poll", "wait",
             "dispatch", "drain"}
  /\ queue \subseteq Port \cup LoopCloser
  /\ waiter \in [Fd -> Port \cup {None}]
  /\ inEpoll \subseteq Fd
  /\ current \in Port \cup LoopCloser \cup {None}
  /\ loop \in [Port -> {"none", "head", "accept", "waiting", "woken", "handoff", "ended", "dead"}]
  /\ alive \in [Port -> BOOLEAN]
  /\ cpc \in [Closer -> {"start", "queued", "claim", "unlist", "close", "stop", "ping",
                         "closed", "notRunning", "refused", "notFound"}]

\* The accept loops of this run are scheduled.
Scheduled == pc \in {"start", "poll", "wait", "dispatch", "drain"}

\* A coroutine runs only while the loop dispatches; the eventfd is armed while
\* something is in the queue and nobody drains it; an accept loop's Socket is
\* there as long as its port has a descriptor.
LoopInv ==
  /\ current # None => pc \in {"dispatch", "drain"}
  /\ current \in LoopCloser => pc = "drain"
  /\ Scheduled /\ pc # "drain" /\ queue # {} => evArmed
  /\ Scheduled => \A p \in attached : alive[p] <=> sock[p] # None
  /\ \A p \in Port : loop[p] # "none" => p \in attached
  /\ \A d \in Fd : waiter[d] # None => waiter[d] \in attached

Claimed == \E c \in Closer : cpc[c] \in {"unlist", "close", "stop", "ping", "closed", "notFound"}

\* Where the event loop finds an accept loop.
Found(p) ==
  \/ loop[p] = "dead"
  \/ p \in queue
  \/ current = p
  \/ \E d \in Fd : waiter[d] = p

OpenInv ==
  ~Claimed =>
    /\ polling
    /\ pc \notin {"idle", "claim"} => running
    /\ Scheduled => \A p \in attached : Found(p)

\* Nobody closes the server but coroutines of its loop.
Own == \A c \in ThreadCloser : cpc[c] = "start"

CloserInv ==
  /\ \A c \in LoopCloser : cpc[c] \in {"claim", "unlist", "close", "stop", "ping"} => current = c
  /\ \A c \in LoopCloser : cpc[c] \in {"unlist", "close", "stop", "ping"} => ~running
  /\ \A c \in LoopCloser : cpc[c] \in {"close", "stop", "ping"} => ~listening
  /\ ~listening /\ (\A c \in LoopCloser : cpc[c] # "close") => \A p \in Port : sock[p] = None

SocketInv ==
  /\ running \/ pc \in {"claim", "record", "schedule", "start"} => listening
  /\ listening => \A p \in attached : sock[p] # None
  /\ \A p \in Port : loop[p] \in {"accept", "woken"} => current = p /\ alive[p]
  /\ \A d \in inEpoll : waiter[d] \in attached /\ sock[waiter[d]] = d
  /\ ~touched

OwnInv == Own => CloserInv /\ SocketInv

IndInv == Types /\ LoopInv /\ OpenInv /\ OwnInv

-----------------------------------------------------------------------------

\* The cases of a step.
LEMMA NextCases ==
  ASSUME [Next]_vars
  PROVE
    \/ \E p \in Port : AttachRouter(p) \/ Arrive(p)
    \/ Listen \/ ListenFails
    \/ RunChecks \/ RunClaims \/ RunRecordsThread \/ ScheduleAcceptLoops \/ LoopStarts
    \/ RunReturns \/ EnterWait \/ Wait \/ BatchDone
    \/ \E d \in Fd : DispatchAccept(d) \/ DispatchClosed(d)
    \/ DispatchDrain \/ DrainDone
    \/ \E x \in Port \cup LoopCloser : Resume(x)
    \/ \E p \in Port :
         \/ AcceptLoopHead(p) \/ AcceptNow(p) \/ AcceptLater(p) \/ AcceptSuspends(p)
         \/ AcceptAlreadyExists(p) \/ AcceptUndefined(p) \/ AcceptFails(p) \/ HandOver(p)
    \/ ConnectionEnds
    \/ \E c \in Closer :
         \/ QueueCloser(c) \/ TryCloseRefused(c) \/ TryCloseGoesOn(c) \/ ForceCloseCalled(c)
         \/ CloseNotRunning(c) \/ CloseClaims(c) \/ CloseUnlists(c)
         \/ (\E p \in Port : CloseSocket(c, p))
         \/ CloseSocketsDone(c) \/ StopNotFound(c) \/ StopClearsPolling(c) \/ StopPings(c)
    \/ UNCHANGED vars
  BY DEF Next, RunBegins, LoopStep, AcceptStep, CloserBegins, CloserGoesOn

\* The types of the variables are kept.
LEMMA TypeStep == IndInv /\ [Next]_vars => Types'
<1> SUFFICES ASSUME IndInv, [Next]_vars PROVE Types'
  OBVIOUS
<1>1. ASSUME NEW p \in Port, AttachRouter(p) PROVE Types'
  BY <1>1, NamesAssumption DEF AttachRouter, serverVars, socketVars, loopVars, acceptVars,
       IndInv, Types, Closer
<1>2. ASSUME NEW p \in Port, Arrive(p) PROVE Types'
  BY <1>2, NamesAssumption DEF Arrive, serverVars, socketVars, loopVars, acceptVars, IndInv,
       Types, Closer
<1>3. ASSUME Listen PROVE Types'
  BY <1>3, NamesAssumption DEF Listen, serverVars, socketVars, loopVars, acceptVars, IndInv,
       Types, Closer
<1>4. ASSUME ListenFails PROVE Types'
  BY <1>4, NamesAssumption DEF ListenFails, serverVars, socketVars, loopVars, acceptVars,
       IndInv, Types, Closer
<1>5. ASSUME RunChecks PROVE Types'
  BY <1>5, NamesAssumption DEF RunChecks, serverVars, socketVars, loopVars, acceptVars,
       IndInv, Types, Closer
<1>6. ASSUME RunClaims PROVE Types'
  BY <1>6, NamesAssumption DEF RunClaims, serverVars, socketVars, loopVars, acceptVars,
       IndInv, Types, Closer
<1>7. ASSUME RunRecordsThread PROVE Types'
  BY <1>7, NamesAssumption DEF RunRecordsThread, serverVars, socketVars, loopVars,
       acceptVars, IndInv, Types, Closer
<1>8. ASSUME ScheduleAcceptLoops PROVE Types'
  BY <1>8, NamesAssumption DEF ScheduleAcceptLoops, serverVars, socketVars, loopVars,
       acceptVars, IndInv, Types, Closer
<1>9. ASSUME LoopStarts PROVE Types'
  BY <1>9, NamesAssumption DEF LoopStarts, serverVars, socketVars, loopVars, acceptVars,
       IndInv, Types, Closer
<1>10. ASSUME RunReturns PROVE Types'
  BY <1>10, NamesAssumption DEF RunReturns, serverVars, socketVars, loopVars, acceptVars,
       IndInv, Types, Closer
<1>11. ASSUME EnterWait PROVE Types'
  BY <1>11, NamesAssumption DEF EnterWait, serverVars, socketVars, loopVars, acceptVars,
       IndInv, Types, Closer
<1>12. ASSUME Wait PROVE Types'
  BY <1>12, NamesAssumption DEF Wait, serverVars, socketVars, loopVars, acceptVars, IndInv,
       Types, Closer
<1>13. ASSUME BatchDone PROVE Types'
  BY <1>13, NamesAssumption DEF BatchDone, serverVars, socketVars, loopVars, acceptVars,
       IndInv, Types, Closer
<1>14. ASSUME NEW d \in Fd, DispatchAccept(d) PROVE Types'
  BY <1>14, NamesAssumption DEF DispatchAccept, serverVars, socketVars, loopVars,
       acceptVars, IndInv, Types, Closer
<1>15. ASSUME NEW d \in Fd, DispatchClosed(d) PROVE Types'
  BY <1>15, NamesAssumption DEF DispatchClosed, serverVars, socketVars, loopVars,
       acceptVars, IndInv, Types, Closer
<1>16. ASSUME DispatchDrain PROVE Types'
  BY <1>16, NamesAssumption DEF DispatchDrain, serverVars, socketVars, loopVars, acceptVars,
       IndInv, Types, Closer
<1>17. ASSUME NEW x \in Port \cup LoopCloser, Resume(x) PROVE Types'
  BY <1>17, NamesAssumption DEF Resume, serverVars, socketVars, loopVars, acceptVars,
       IndInv, Types, Closer
<1>18. ASSUME DrainDone PROVE Types'
  BY <1>18, NamesAssumption DEF DrainDone, serverVars, socketVars, loopVars, acceptVars,
       IndInv, Types, Closer
<1>19. ASSUME NEW p \in Port, AcceptLoopHead(p) PROVE Types'
  BY <1>19, NamesAssumption DEF AcceptLoopHead, Step, serverVars, socketVars, loopVars,
       acceptVars, IndInv, Types, Closer
<1>20. ASSUME NEW p \in Port, AcceptNow(p) PROVE Types'
  BY <1>20, NamesAssumption DEF AcceptNow, Step, serverVars, socketVars, loopVars,
       acceptVars, IndInv, Types, Closer
<1>21. ASSUME NEW p \in Port, AcceptLater(p) PROVE Types'
  BY <1>21, NamesAssumption DEF AcceptLater, Step, serverVars, socketVars, loopVars,
       acceptVars, IndInv, Types, Closer
<1>22. ASSUME NEW p \in Port, AcceptSuspends(p) PROVE Types'
  <2>1. sock[p] \in Fd
    BY <1>22, NamesAssumption DEF AcceptSuspends, Step, IndInv, Types, LoopInv, Scheduled
  <2> QED  BY <1>22, <2>1 DEF AcceptSuspends, Step, serverVars, socketVars, IndInv, Types
<1>23. ASSUME NEW p \in Port, AcceptAlreadyExists(p) PROVE Types'
  BY <1>23, NamesAssumption DEF AcceptAlreadyExists, Step, serverVars, socketVars, loopVars,
       acceptVars, IndInv, Types, Closer
<1>24. ASSUME NEW p \in Port, AcceptUndefined(p) PROVE Types'
  BY <1>24, NamesAssumption DEF AcceptUndefined, Step, serverVars, socketVars, loopVars,
       acceptVars, IndInv, Types, Closer
<1>25. ASSUME NEW p \in Port, AcceptFails(p) PROVE Types'
  BY <1>25, NamesAssumption DEF AcceptFails, Step, serverVars, socketVars, loopVars,
       acceptVars, IndInv, Types, Closer
<1>26. ASSUME NEW p \in Port, HandOver(p) PROVE Types'
  BY <1>26, NamesAssumption DEF HandOver, Step, serverVars, socketVars, loopVars,
       acceptVars, IndInv, Types, Closer
<1>27. ASSUME ConnectionEnds PROVE Types'
  BY <1>27, NamesAssumption DEF ConnectionEnds, serverVars, socketVars, loopVars,
       acceptVars, IndInv, Types, Closer
<1>28. ASSUME NEW c \in Closer, QueueCloser(c) PROVE Types'
  BY <1>28, NamesAssumption DEF QueueCloser, InLoop, serverVars, socketVars, loopVars,
       acceptVars, IndInv, Types, Closer
<1>29. ASSUME NEW c \in Closer, TryCloseRefused(c) PROVE Types'
  BY <1>29, NamesAssumption DEF TryCloseRefused, CloserAt, CloserTurn, CallOver, Begin,
       serverVars, socketVars, loopVars, acceptVars, IndInv, Types, Closer
<1>30. ASSUME NEW c \in Closer, TryCloseGoesOn(c) PROVE Types'
  BY <1>30, NamesAssumption DEF TryCloseGoesOn, CloserAt, CloserTurn, Begin, serverVars,
       socketVars, loopVars, acceptVars, IndInv, Types, Closer
<1>31. ASSUME NEW c \in Closer, ForceCloseCalled(c) PROVE Types'
  BY <1>31, NamesAssumption DEF ForceCloseCalled, CloserAt, CloserTurn, Begin, serverVars,
       socketVars, loopVars, acceptVars, IndInv, Types, Closer
<1>32. ASSUME NEW c \in Closer, CloseNotRunning(c) PROVE Types'
  BY <1>32, NamesAssumption DEF CloseNotRunning, CloserAt, CloserTurn, CallOver, serverVars,
       socketVars, loopVars, acceptVars, IndInv, Types, Closer
<1>33. ASSUME NEW c \in Closer, CloseClaims(c) PROVE Types'
  BY <1>33, NamesAssumption DEF CloseClaims, CloserAt, CloserTurn, serverVars, socketVars,
       loopVars, acceptVars, IndInv, Types, Closer
<1>34. ASSUME NEW c \in Closer, CloseUnlists(c) PROVE Types'
  BY <1>34, NamesAssumption DEF CloseUnlists, CloserAt, CloserTurn, serverVars, socketVars,
       loopVars, acceptVars, IndInv, Types, Closer
<1>35. ASSUME NEW c \in Closer, NEW p \in Port, CloseSocket(c, p) PROVE Types'
  BY <1>35, NamesAssumption DEF CloseSocket, CloserAt, CloserTurn, serverVars, socketVars,
       loopVars, acceptVars, IndInv, Types, Closer
<1>36. ASSUME NEW c \in Closer, CloseSocketsDone(c) PROVE Types'
  BY <1>36, NamesAssumption DEF CloseSocketsDone, CloserAt, CloserTurn, serverVars,
       socketVars, loopVars, acceptVars, IndInv, Types, Closer
<1>37. ASSUME NEW c \in Closer, StopNotFound(c) PROVE Types'
  BY <1>37, NamesAssumption DEF StopNotFound, CloserAt, CloserTurn, CallOver, serverVars,
       socketVars, loopVars, acceptVars, IndInv, Types, Closer
<1>38. ASSUME NEW c \in Closer, StopClearsPolling(c) PROVE Types'
  BY <1>38, NamesAssumption DEF StopClearsPolling, CloserAt, CloserTurn, serverVars,
       socketVars, loopVars, acceptVars, IndInv, Types, Closer
<1>39. ASSUME NEW c \in Closer, StopPings(c) PROVE Types'
  BY <1>39, NamesAssumption DEF StopPings, CloserAt, CloserTurn, CallOver, serverVars,
       socketVars, loopVars, acceptVars, IndInv, Types, Closer
<1>40. ASSUME UNCHANGED vars PROVE Types'
  BY <1>40, NamesAssumption DEF vars, serverVars, socketVars, loopVars, acceptVars, IndInv,
       Types, Closer
<1> QED
  BY <1>1, <1>2, <1>3, <1>4, <1>5, <1>6, <1>7, <1>8, <1>9, <1>10, <1>11, <1>12, <1>13,
       <1>14, <1>15, <1>16, <1>17, <1>18, <1>19, <1>20, <1>21, <1>22, <1>23, <1>24, <1>25, <1>26,
       <1>27, <1>28, <1>29, <1>30, <1>31, <1>32, <1>33, <1>34, <1>35, <1>36, <1>37, <1>38, <1>39,
       <1>40, NextCases

\* The event loop goes its way.
LEMMA EventStep == IndInv /\ [Next]_vars => LoopInv'
<1> SUFFICES ASSUME IndInv, [Next]_vars PROVE LoopInv'
  OBVIOUS
<1>1. ASSUME NEW p \in Port, AttachRouter(p) PROVE LoopInv'
  BY <1>1, NamesAssumption DEF AttachRouter, serverVars, socketVars, loopVars, acceptVars,
       IndInv, Types, LoopInv, Scheduled, Closer
<1>2. ASSUME NEW p \in Port, Arrive(p) PROVE LoopInv'
  BY <1>2, NamesAssumption DEF Arrive, serverVars, socketVars, loopVars, acceptVars, IndInv,
       Types, LoopInv, Scheduled, Closer
<1>3. ASSUME Listen PROVE LoopInv'
  BY <1>3, NamesAssumption DEF Listen, serverVars, socketVars, loopVars, acceptVars, IndInv,
       Types, LoopInv, Scheduled, Closer
<1>4. ASSUME ListenFails PROVE LoopInv'
  BY <1>4, NamesAssumption DEF ListenFails, serverVars, socketVars, loopVars, acceptVars,
       IndInv, Types, LoopInv, Scheduled, Closer
<1>5. ASSUME RunChecks PROVE LoopInv'
  BY <1>5, NamesAssumption DEF RunChecks, serverVars, socketVars, loopVars, acceptVars,
       IndInv, Types, LoopInv, Scheduled, Closer
<1>6. ASSUME RunClaims PROVE LoopInv'
  BY <1>6, NamesAssumption DEF RunClaims, serverVars, socketVars, loopVars, acceptVars,
       IndInv, Types, LoopInv, Scheduled, Closer
<1>7. ASSUME RunRecordsThread PROVE LoopInv'
  BY <1>7, NamesAssumption DEF RunRecordsThread, serverVars, socketVars, loopVars,
       acceptVars, IndInv, Types, LoopInv, Scheduled, Closer
<1>8. ASSUME ScheduleAcceptLoops PROVE LoopInv'
  BY <1>8, NamesAssumption DEF ScheduleAcceptLoops, serverVars, socketVars, loopVars,
       acceptVars, IndInv, Types, LoopInv, Scheduled, Closer
<1>9. ASSUME LoopStarts PROVE LoopInv'
  BY <1>9, NamesAssumption DEF LoopStarts, serverVars, socketVars, loopVars, acceptVars,
       IndInv, Types, LoopInv, Scheduled, Closer
<1>10. ASSUME RunReturns PROVE LoopInv'
  BY <1>10, NamesAssumption DEF RunReturns, serverVars, socketVars, loopVars, acceptVars,
       IndInv, Types, LoopInv, Scheduled, Closer
<1>11. ASSUME EnterWait PROVE LoopInv'
  BY <1>11, NamesAssumption DEF EnterWait, serverVars, socketVars, loopVars, acceptVars,
       IndInv, Types, LoopInv, Scheduled, Closer
<1>12. ASSUME Wait PROVE LoopInv'
  BY <1>12, NamesAssumption DEF Wait, serverVars, socketVars, loopVars, acceptVars, IndInv,
       Types, LoopInv, Scheduled, Closer
<1>13. ASSUME BatchDone PROVE LoopInv'
  BY <1>13, NamesAssumption DEF BatchDone, serverVars, socketVars, loopVars, acceptVars,
       IndInv, Types, LoopInv, Scheduled, Closer
<1>14. ASSUME NEW d \in Fd, DispatchAccept(d) PROVE LoopInv'
  BY <1>14, NamesAssumption DEF DispatchAccept, serverVars, socketVars, loopVars,
       acceptVars, IndInv, Types, LoopInv, Scheduled, Closer
<1>15. ASSUME NEW d \in Fd, DispatchClosed(d) PROVE LoopInv'
  BY <1>15, NamesAssumption DEF DispatchClosed, serverVars, socketVars, loopVars,
       acceptVars, IndInv, Types, LoopInv, Scheduled, Closer
<1>16. ASSUME DispatchDrain PROVE LoopInv'
  BY <1>16, NamesAssumption DEF DispatchDrain, serverVars, socketVars, loopVars, acceptVars,
       IndInv, Types, LoopInv, Scheduled, Closer
<1>17. ASSUME NEW x \in Port \cup LoopCloser, Resume(x) PROVE LoopInv'
  BY <1>17, NamesAssumption DEF Resume, serverVars, socketVars, loopVars, acceptVars,
       IndInv, Types, LoopInv, Scheduled, Closer
<1>18. ASSUME DrainDone PROVE LoopInv'
  BY <1>18, NamesAssumption DEF DrainDone, serverVars, socketVars, loopVars, acceptVars,
       IndInv, Types, LoopInv, Scheduled, Closer
<1>19. ASSUME NEW p \in Port, AcceptLoopHead(p) PROVE LoopInv'
  BY <1>19, NamesAssumption DEF AcceptLoopHead, Step, serverVars, socketVars, loopVars,
       acceptVars, IndInv, Types, LoopInv, Scheduled, Closer
<1>20. ASSUME NEW p \in Port, AcceptNow(p) PROVE LoopInv'
  BY <1>20, NamesAssumption DEF AcceptNow, Step, serverVars, socketVars, loopVars,
       acceptVars, IndInv, Types, LoopInv, Scheduled, Closer
<1>21. ASSUME NEW p \in Port, AcceptLater(p) PROVE LoopInv'
  BY <1>21, NamesAssumption DEF AcceptLater, Step, serverVars, socketVars, loopVars,
       acceptVars, IndInv, Types, LoopInv, Scheduled, Closer
<1>22. ASSUME NEW p \in Port, AcceptSuspends(p) PROVE LoopInv'
  BY <1>22, NamesAssumption DEF AcceptSuspends, Step, serverVars, socketVars, loopVars,
       acceptVars, IndInv, Types, LoopInv, Scheduled, Closer
<1>23. ASSUME NEW p \in Port, AcceptAlreadyExists(p) PROVE LoopInv'
  BY <1>23, NamesAssumption DEF AcceptAlreadyExists, Step, serverVars, socketVars, loopVars,
       acceptVars, IndInv, Types, LoopInv, Scheduled, Closer
<1>24. ASSUME NEW p \in Port, AcceptUndefined(p) PROVE LoopInv'
  BY <1>24, NamesAssumption DEF AcceptUndefined, Step, serverVars, socketVars, loopVars,
       acceptVars, IndInv, Types, LoopInv, Scheduled, Closer
<1>25. ASSUME NEW p \in Port, AcceptFails(p) PROVE LoopInv'
  BY <1>25, NamesAssumption DEF AcceptFails, Step, serverVars, socketVars, loopVars,
       acceptVars, IndInv, Types, LoopInv, Scheduled, Closer
<1>26. ASSUME NEW p \in Port, HandOver(p) PROVE LoopInv'
  BY <1>26, NamesAssumption DEF HandOver, Step, serverVars, socketVars, loopVars,
       acceptVars, IndInv, Types, LoopInv, Scheduled, Closer
<1>27. ASSUME ConnectionEnds PROVE LoopInv'
  BY <1>27, NamesAssumption DEF ConnectionEnds, serverVars, socketVars, loopVars,
       acceptVars, IndInv, Types, LoopInv, Scheduled, Closer
<1>28. ASSUME NEW c \in Closer, QueueCloser(c) PROVE LoopInv'
  BY <1>28, NamesAssumption DEF QueueCloser, InLoop, serverVars, socketVars, loopVars,
       acceptVars, IndInv, Types, LoopInv, Scheduled, Closer
<1>29. ASSUME NEW c \in Closer, TryCloseRefused(c) PROVE LoopInv'
  BY <1>29, NamesAssumption DEF TryCloseRefused, CloserAt, CloserTurn, CallOver, Begin,
       serverVars, socketVars, loopVars, acceptVars, IndInv, Types, LoopInv, Scheduled, Closer
<1>30. ASSUME NEW c \in Closer, TryCloseGoesOn(c) PROVE LoopInv'
  BY <1>30, NamesAssumption DEF TryCloseGoesOn, CloserAt, CloserTurn, Begin, serverVars,
       socketVars, loopVars, acceptVars, IndInv, Types, LoopInv, Scheduled, Closer
<1>31. ASSUME NEW c \in Closer, ForceCloseCalled(c) PROVE LoopInv'
  BY <1>31, NamesAssumption DEF ForceCloseCalled, CloserAt, CloserTurn, Begin, serverVars,
       socketVars, loopVars, acceptVars, IndInv, Types, LoopInv, Scheduled, Closer
<1>32. ASSUME NEW c \in Closer, CloseNotRunning(c) PROVE LoopInv'
  BY <1>32, NamesAssumption DEF CloseNotRunning, CloserAt, CloserTurn, CallOver, serverVars,
       socketVars, loopVars, acceptVars, IndInv, Types, LoopInv, Scheduled, Closer
<1>33. ASSUME NEW c \in Closer, CloseClaims(c) PROVE LoopInv'
  BY <1>33, NamesAssumption DEF CloseClaims, CloserAt, CloserTurn, serverVars, socketVars,
       loopVars, acceptVars, IndInv, Types, LoopInv, Scheduled, Closer
<1>34. ASSUME NEW c \in Closer, CloseUnlists(c) PROVE LoopInv'
  BY <1>34, NamesAssumption DEF CloseUnlists, CloserAt, CloserTurn, serverVars, socketVars,
       loopVars, acceptVars, IndInv, Types, LoopInv, Scheduled, Closer
<1>35. ASSUME NEW c \in Closer, NEW p \in Port, CloseSocket(c, p) PROVE LoopInv'
  BY <1>35, NamesAssumption DEF CloseSocket, CloserAt, CloserTurn, serverVars, socketVars,
       loopVars, acceptVars, IndInv, Types, LoopInv, Scheduled, Closer
<1>36. ASSUME NEW c \in Closer, CloseSocketsDone(c) PROVE LoopInv'
  BY <1>36, NamesAssumption DEF CloseSocketsDone, CloserAt, CloserTurn, serverVars,
       socketVars, loopVars, acceptVars, IndInv, Types, LoopInv, Scheduled, Closer
<1>37. ASSUME NEW c \in Closer, StopNotFound(c) PROVE LoopInv'
  BY <1>37, NamesAssumption DEF StopNotFound, CloserAt, CloserTurn, CallOver, serverVars,
       socketVars, loopVars, acceptVars, IndInv, Types, LoopInv, Scheduled, Closer
<1>38. ASSUME NEW c \in Closer, StopClearsPolling(c) PROVE LoopInv'
  BY <1>38, NamesAssumption DEF StopClearsPolling, CloserAt, CloserTurn, serverVars,
       socketVars, loopVars, acceptVars, IndInv, Types, LoopInv, Scheduled, Closer
<1>39. ASSUME NEW c \in Closer, StopPings(c) PROVE LoopInv'
  BY <1>39, NamesAssumption DEF StopPings, CloserAt, CloserTurn, CallOver, serverVars,
       socketVars, loopVars, acceptVars, IndInv, Types, LoopInv, Scheduled, Closer
<1>40. ASSUME UNCHANGED vars PROVE LoopInv'
  BY <1>40, NamesAssumption DEF vars, serverVars, socketVars, loopVars, acceptVars, IndInv,
       Types, LoopInv, Scheduled, Closer
<1> QED
  BY <1>1, <1>2, <1>3, <1>4, <1>5, <1>6, <1>7, <1>8, <1>9, <1>10, <1>11, <1>12, <1>13,
       <1>14, <1>15, <1>16, <1>17, <1>18, <1>19, <1>20, <1>21, <1>22, <1>23, <1>24, <1>25, <1>26,
       <1>27, <1>28, <1>29, <1>30, <1>31, <1>32, <1>33, <1>34, <1>35, <1>36, <1>37, <1>38, <1>39,
       <1>40, NextCases

\* Until the server is claimed, no accept loop is lost.
LEMMA OpenStep == IndInv /\ [Next]_vars => OpenInv'
<1> SUFFICES ASSUME IndInv, [Next]_vars PROVE OpenInv'
  OBVIOUS
<1>1. ASSUME NEW p \in Port, AttachRouter(p) PROVE OpenInv'
  BY <1>1, NamesAssumption DEF AttachRouter, serverVars, socketVars, loopVars, acceptVars,
       IndInv, Types, LoopInv, Scheduled, OpenInv, Claimed, Found, Closer
<1>2. ASSUME NEW p \in Port, Arrive(p) PROVE OpenInv'
  BY <1>2, NamesAssumption DEF Arrive, serverVars, socketVars, loopVars, acceptVars, IndInv,
       Types, LoopInv, Scheduled, OpenInv, Claimed, Found, Closer
<1>3. ASSUME Listen PROVE OpenInv'
  BY <1>3, NamesAssumption DEF Listen, serverVars, socketVars, loopVars, acceptVars, IndInv,
       Types, LoopInv, Scheduled, OpenInv, Claimed, Found, Closer
<1>4. ASSUME ListenFails PROVE OpenInv'
  BY <1>4, NamesAssumption DEF ListenFails, serverVars, socketVars, loopVars, acceptVars,
       IndInv, Types, LoopInv, Scheduled, OpenInv, Claimed, Found, Closer
<1>5. ASSUME RunChecks PROVE OpenInv'
  BY <1>5, NamesAssumption DEF RunChecks, serverVars, socketVars, loopVars, acceptVars,
       IndInv, Types, LoopInv, Scheduled, OpenInv, Claimed, Found, Closer
<1>6. ASSUME RunClaims PROVE OpenInv'
  BY <1>6, NamesAssumption DEF RunClaims, serverVars, socketVars, loopVars, acceptVars,
       IndInv, Types, LoopInv, Scheduled, OpenInv, Claimed, Found, Closer
<1>7. ASSUME RunRecordsThread PROVE OpenInv'
  BY <1>7, NamesAssumption DEF RunRecordsThread, serverVars, socketVars, loopVars,
       acceptVars, IndInv, Types, LoopInv, Scheduled, OpenInv, Claimed, Found, Closer
<1>8. ASSUME ScheduleAcceptLoops PROVE OpenInv'
  BY <1>8, NamesAssumption DEF ScheduleAcceptLoops, serverVars, socketVars, loopVars,
       acceptVars, IndInv, Types, LoopInv, Scheduled, OpenInv, Claimed, Found, Closer
<1>9. ASSUME LoopStarts PROVE OpenInv'
  BY <1>9, NamesAssumption DEF LoopStarts, serverVars, socketVars, loopVars, acceptVars,
       IndInv, Types, LoopInv, Scheduled, OpenInv, Claimed, Found, Closer
<1>10. ASSUME RunReturns PROVE OpenInv'
  BY <1>10, NamesAssumption DEF RunReturns, serverVars, socketVars, loopVars, acceptVars,
       IndInv, Types, LoopInv, Scheduled, OpenInv, Claimed, Found, Closer
<1>11. ASSUME EnterWait PROVE OpenInv'
  BY <1>11, NamesAssumption DEF EnterWait, serverVars, socketVars, loopVars, acceptVars,
       IndInv, Types, LoopInv, Scheduled, OpenInv, Claimed, Found, Closer
<1>12. ASSUME Wait PROVE OpenInv'
  BY <1>12, NamesAssumption DEF Wait, serverVars, socketVars, loopVars, acceptVars, IndInv,
       Types, LoopInv, Scheduled, OpenInv, Claimed, Found, Closer
<1>13. ASSUME BatchDone PROVE OpenInv'
  BY <1>13, NamesAssumption DEF BatchDone, serverVars, socketVars, loopVars, acceptVars,
       IndInv, Types, LoopInv, Scheduled, OpenInv, Claimed, Found, Closer
<1>14. ASSUME NEW d \in Fd, DispatchAccept(d) PROVE OpenInv'
  BY <1>14, NamesAssumption DEF DispatchAccept, serverVars, socketVars, loopVars,
       acceptVars, IndInv, Types, LoopInv, Scheduled, OpenInv, Claimed, Found, Closer
<1>15. ASSUME NEW d \in Fd, DispatchClosed(d) PROVE OpenInv'
  BY <1>15, NamesAssumption DEF DispatchClosed, serverVars, socketVars, loopVars,
       acceptVars, IndInv, Types, LoopInv, Scheduled, OpenInv, Claimed, Found, Closer
<1>16. ASSUME DispatchDrain PROVE OpenInv'
  BY <1>16, NamesAssumption DEF DispatchDrain, serverVars, socketVars, loopVars, acceptVars,
       IndInv, Types, LoopInv, Scheduled, OpenInv, Claimed, Found, Closer
<1>17. ASSUME NEW x \in Port \cup LoopCloser, Resume(x) PROVE OpenInv'
  BY <1>17, NamesAssumption DEF Resume, serverVars, socketVars, loopVars, acceptVars,
       IndInv, Types, LoopInv, Scheduled, OpenInv, Claimed, Found, Closer
<1>18. ASSUME DrainDone PROVE OpenInv'
  BY <1>18, NamesAssumption DEF DrainDone, serverVars, socketVars, loopVars, acceptVars,
       IndInv, Types, LoopInv, Scheduled, OpenInv, Claimed, Found, Closer
<1>19. ASSUME NEW p \in Port, AcceptLoopHead(p) PROVE OpenInv'
  BY <1>19, NamesAssumption DEF AcceptLoopHead, Step, serverVars, socketVars, loopVars,
       acceptVars, IndInv, Types, LoopInv, Scheduled, OpenInv, Claimed, Found, Closer
<1>20. ASSUME NEW p \in Port, AcceptNow(p) PROVE OpenInv'
  BY <1>20, NamesAssumption DEF AcceptNow, Step, serverVars, socketVars, loopVars,
       acceptVars, IndInv, Types, LoopInv, Scheduled, OpenInv, Claimed, Found, Closer
<1>21. ASSUME NEW p \in Port, AcceptLater(p) PROVE OpenInv'
  BY <1>21, NamesAssumption DEF AcceptLater, Step, serverVars, socketVars, loopVars,
       acceptVars, IndInv, Types, LoopInv, Scheduled, OpenInv, Claimed, Found, Closer
<1>22. ASSUME NEW p \in Port, AcceptSuspends(p) PROVE OpenInv'
  BY <1>22, NamesAssumption DEF AcceptSuspends, Step, serverVars, socketVars, loopVars,
       acceptVars, IndInv, Types, LoopInv, Scheduled, OpenInv, Claimed, Found, Closer
<1>23. ASSUME NEW p \in Port, AcceptAlreadyExists(p) PROVE OpenInv'
  BY <1>23, NamesAssumption DEF AcceptAlreadyExists, Step, serverVars, socketVars, loopVars,
       acceptVars, IndInv, Types, LoopInv, Scheduled, OpenInv, Claimed, Found, Closer
<1>24. ASSUME NEW p \in Port, AcceptUndefined(p) PROVE OpenInv'
  BY <1>24, NamesAssumption DEF AcceptUndefined, Step, serverVars, socketVars, loopVars,
       acceptVars, IndInv, Types, LoopInv, Scheduled, OpenInv, Claimed, Found, Closer
<1>25. ASSUME NEW p \in Port, AcceptFails(p) PROVE OpenInv'
  BY <1>25, NamesAssumption DEF AcceptFails, Step, serverVars, socketVars, loopVars,
       acceptVars, IndInv, Types, LoopInv, Scheduled, OpenInv, Claimed, Found, Closer
<1>26. ASSUME NEW p \in Port, HandOver(p) PROVE OpenInv'
  BY <1>26, NamesAssumption DEF HandOver, Step, serverVars, socketVars, loopVars,
       acceptVars, IndInv, Types, LoopInv, Scheduled, OpenInv, Claimed, Found, Closer
<1>27. ASSUME ConnectionEnds PROVE OpenInv'
  BY <1>27, NamesAssumption DEF ConnectionEnds, serverVars, socketVars, loopVars,
       acceptVars, IndInv, Types, LoopInv, Scheduled, OpenInv, Claimed, Found, Closer
<1>28. ASSUME NEW c \in Closer, QueueCloser(c) PROVE OpenInv'
  BY <1>28, NamesAssumption DEF QueueCloser, InLoop, serverVars, socketVars, loopVars,
       acceptVars, IndInv, Types, LoopInv, Scheduled, OpenInv, Claimed, Found, Closer
<1>29. ASSUME NEW c \in Closer, TryCloseRefused(c) PROVE OpenInv'
  BY <1>29, NamesAssumption DEF TryCloseRefused, CloserAt, CloserTurn, CallOver, Begin,
       serverVars, socketVars, loopVars, acceptVars, IndInv, Types, LoopInv, Scheduled, OpenInv,
       Claimed, Found, Closer
<1>30. ASSUME NEW c \in Closer, TryCloseGoesOn(c) PROVE OpenInv'
  BY <1>30, NamesAssumption DEF TryCloseGoesOn, CloserAt, CloserTurn, Begin, serverVars,
       socketVars, loopVars, acceptVars, IndInv, Types, LoopInv, Scheduled, OpenInv, Claimed,
       Found, Closer
<1>31. ASSUME NEW c \in Closer, ForceCloseCalled(c) PROVE OpenInv'
  BY <1>31, NamesAssumption DEF ForceCloseCalled, CloserAt, CloserTurn, Begin, serverVars,
       socketVars, loopVars, acceptVars, IndInv, Types, LoopInv, Scheduled, OpenInv, Claimed,
       Found, Closer
<1>32. ASSUME NEW c \in Closer, CloseNotRunning(c) PROVE OpenInv'
  BY <1>32, NamesAssumption DEF CloseNotRunning, CloserAt, CloserTurn, CallOver, serverVars,
       socketVars, loopVars, acceptVars, IndInv, Types, LoopInv, Scheduled, OpenInv, Claimed,
       Found, Closer
<1>33. ASSUME NEW c \in Closer, CloseClaims(c) PROVE OpenInv'
  BY <1>33, NamesAssumption DEF CloseClaims, CloserAt, CloserTurn, serverVars, socketVars,
       loopVars, acceptVars, IndInv, Types, LoopInv, Scheduled, OpenInv, Claimed, Found, Closer
<1>34. ASSUME NEW c \in Closer, CloseUnlists(c) PROVE OpenInv'
  BY <1>34, NamesAssumption DEF CloseUnlists, CloserAt, CloserTurn, serverVars, socketVars,
       loopVars, acceptVars, IndInv, Types, LoopInv, Scheduled, OpenInv, Claimed, Found, Closer
<1>35. ASSUME NEW c \in Closer, NEW p \in Port, CloseSocket(c, p) PROVE OpenInv'
  BY <1>35, NamesAssumption DEF CloseSocket, CloserAt, CloserTurn, serverVars, socketVars,
       loopVars, acceptVars, IndInv, Types, LoopInv, Scheduled, OpenInv, Claimed, Found, Closer
<1>36. ASSUME NEW c \in Closer, CloseSocketsDone(c) PROVE OpenInv'
  BY <1>36, NamesAssumption DEF CloseSocketsDone, CloserAt, CloserTurn, serverVars,
       socketVars, loopVars, acceptVars, IndInv, Types, LoopInv, Scheduled, OpenInv, Claimed,
       Found, Closer
<1>37. ASSUME NEW c \in Closer, StopNotFound(c) PROVE OpenInv'
  BY <1>37, NamesAssumption DEF StopNotFound, CloserAt, CloserTurn, CallOver, serverVars,
       socketVars, loopVars, acceptVars, IndInv, Types, LoopInv, Scheduled, OpenInv, Claimed,
       Found, Closer
<1>38. ASSUME NEW c \in Closer, StopClearsPolling(c) PROVE OpenInv'
  BY <1>38, NamesAssumption DEF StopClearsPolling, CloserAt, CloserTurn, serverVars,
       socketVars, loopVars, acceptVars, IndInv, Types, LoopInv, Scheduled, OpenInv, Claimed,
       Found, Closer
<1>39. ASSUME NEW c \in Closer, StopPings(c) PROVE OpenInv'
  BY <1>39, NamesAssumption DEF StopPings, CloserAt, CloserTurn, CallOver, serverVars,
       socketVars, loopVars, acceptVars, IndInv, Types, LoopInv, Scheduled, OpenInv, Claimed,
       Found, Closer
<1>40. ASSUME UNCHANGED vars PROVE OpenInv'
  BY <1>40, NamesAssumption DEF vars, serverVars, socketVars, loopVars, acceptVars, IndInv,
       Types, LoopInv, Scheduled, OpenInv, Claimed, Found, Closer
<1> QED
  BY <1>1, <1>2, <1>3, <1>4, <1>5, <1>6, <1>7, <1>8, <1>9, <1>10, <1>11, <1>12, <1>13,
       <1>14, <1>15, <1>16, <1>17, <1>18, <1>19, <1>20, <1>21, <1>22, <1>23, <1>24, <1>25, <1>26,
       <1>27, <1>28, <1>29, <1>30, <1>31, <1>32, <1>33, <1>34, <1>35, <1>36, <1>37, <1>38, <1>39,
       <1>40, NextCases

\* A coroutine that closes the server is not interrupted.
LEMMA CloserStep == IndInv /\ [Next]_vars => (Own' => CloserInv')
<1> SUFFICES ASSUME IndInv, [Next]_vars, Own' PROVE CloserInv'
  OBVIOUS
<1>1. ASSUME NEW p \in Port, AttachRouter(p) PROVE CloserInv'
  BY <1>1, NamesAssumption DEF AttachRouter, serverVars, socketVars, loopVars, acceptVars,
       IndInv, Types, LoopInv, OwnInv, Own, CloserInv, Closer
<1>2. ASSUME NEW p \in Port, Arrive(p) PROVE CloserInv'
  BY <1>2, NamesAssumption DEF Arrive, serverVars, socketVars, loopVars, acceptVars, IndInv,
       Types, LoopInv, OwnInv, Own, CloserInv, Closer
<1>3. ASSUME Listen PROVE CloserInv'
  BY <1>3, NamesAssumption DEF Listen, serverVars, socketVars, loopVars, acceptVars, IndInv,
       Types, LoopInv, OwnInv, Own, CloserInv, Closer
<1>4. ASSUME ListenFails PROVE CloserInv'
  BY <1>4, NamesAssumption DEF ListenFails, serverVars, socketVars, loopVars, acceptVars,
       IndInv, Types, LoopInv, OwnInv, Own, CloserInv, Closer
<1>5. ASSUME RunChecks PROVE CloserInv'
  BY <1>5, NamesAssumption DEF RunChecks, serverVars, socketVars, loopVars, acceptVars,
       IndInv, Types, LoopInv, OwnInv, Own, CloserInv, Closer
<1>6. ASSUME RunClaims PROVE CloserInv'
  BY <1>6, NamesAssumption DEF RunClaims, serverVars, socketVars, loopVars, acceptVars,
       IndInv, Types, LoopInv, OwnInv, Own, CloserInv, Closer
<1>7. ASSUME RunRecordsThread PROVE CloserInv'
  BY <1>7, NamesAssumption DEF RunRecordsThread, serverVars, socketVars, loopVars,
       acceptVars, IndInv, Types, LoopInv, OwnInv, Own, CloserInv, Closer
<1>8. ASSUME ScheduleAcceptLoops PROVE CloserInv'
  BY <1>8, NamesAssumption DEF ScheduleAcceptLoops, serverVars, socketVars, loopVars,
       acceptVars, IndInv, Types, LoopInv, OwnInv, Own, CloserInv, Closer
<1>9. ASSUME LoopStarts PROVE CloserInv'
  BY <1>9, NamesAssumption DEF LoopStarts, serverVars, socketVars, loopVars, acceptVars,
       IndInv, Types, LoopInv, OwnInv, Own, CloserInv, Closer
<1>10. ASSUME RunReturns PROVE CloserInv'
  BY <1>10, NamesAssumption DEF RunReturns, serverVars, socketVars, loopVars, acceptVars,
       IndInv, Types, LoopInv, OwnInv, Own, CloserInv, Closer
<1>11. ASSUME EnterWait PROVE CloserInv'
  BY <1>11, NamesAssumption DEF EnterWait, serverVars, socketVars, loopVars, acceptVars,
       IndInv, Types, LoopInv, OwnInv, Own, CloserInv, Closer
<1>12. ASSUME Wait PROVE CloserInv'
  BY <1>12, NamesAssumption DEF Wait, serverVars, socketVars, loopVars, acceptVars, IndInv,
       Types, LoopInv, OwnInv, Own, CloserInv, Closer
<1>13. ASSUME BatchDone PROVE CloserInv'
  BY <1>13, NamesAssumption DEF BatchDone, serverVars, socketVars, loopVars, acceptVars,
       IndInv, Types, LoopInv, OwnInv, Own, CloserInv, Closer
<1>14. ASSUME NEW d \in Fd, DispatchAccept(d) PROVE CloserInv'
  BY <1>14, NamesAssumption DEF DispatchAccept, serverVars, socketVars, loopVars,
       acceptVars, IndInv, Types, LoopInv, OwnInv, Own, CloserInv, Closer
<1>15. ASSUME NEW d \in Fd, DispatchClosed(d) PROVE CloserInv'
  BY <1>15, NamesAssumption DEF DispatchClosed, serverVars, socketVars, loopVars,
       acceptVars, IndInv, Types, LoopInv, OwnInv, Own, CloserInv, Closer
<1>16. ASSUME DispatchDrain PROVE CloserInv'
  BY <1>16, NamesAssumption DEF DispatchDrain, serverVars, socketVars, loopVars, acceptVars,
       IndInv, Types, LoopInv, OwnInv, Own, CloserInv, Closer
<1>17. ASSUME NEW x \in Port \cup LoopCloser, Resume(x) PROVE CloserInv'
  BY <1>17, NamesAssumption DEF Resume, serverVars, socketVars, loopVars, acceptVars,
       IndInv, Types, LoopInv, OwnInv, Own, CloserInv, Closer
<1>18. ASSUME DrainDone PROVE CloserInv'
  BY <1>18, NamesAssumption DEF DrainDone, serverVars, socketVars, loopVars, acceptVars,
       IndInv, Types, LoopInv, OwnInv, Own, CloserInv, Closer
<1>19. ASSUME NEW p \in Port, AcceptLoopHead(p) PROVE CloserInv'
  BY <1>19, NamesAssumption DEF AcceptLoopHead, Step, serverVars, socketVars, loopVars,
       acceptVars, IndInv, Types, LoopInv, OwnInv, Own, CloserInv, Closer
<1>20. ASSUME NEW p \in Port, AcceptNow(p) PROVE CloserInv'
  BY <1>20, NamesAssumption DEF AcceptNow, Step, serverVars, socketVars, loopVars,
       acceptVars, IndInv, Types, LoopInv, OwnInv, Own, CloserInv, Closer
<1>21. ASSUME NEW p \in Port, AcceptLater(p) PROVE CloserInv'
  BY <1>21, NamesAssumption DEF AcceptLater, Step, serverVars, socketVars, loopVars,
       acceptVars, IndInv, Types, LoopInv, OwnInv, Own, CloserInv, Closer
<1>22. ASSUME NEW p \in Port, AcceptSuspends(p) PROVE CloserInv'
  BY <1>22, NamesAssumption DEF AcceptSuspends, Step, serverVars, socketVars, loopVars,
       acceptVars, IndInv, Types, LoopInv, OwnInv, Own, CloserInv, Closer
<1>23. ASSUME NEW p \in Port, AcceptAlreadyExists(p) PROVE CloserInv'
  BY <1>23, NamesAssumption DEF AcceptAlreadyExists, Step, serverVars, socketVars, loopVars,
       acceptVars, IndInv, Types, LoopInv, OwnInv, Own, CloserInv, Closer
<1>24. ASSUME NEW p \in Port, AcceptUndefined(p) PROVE CloserInv'
  BY <1>24, NamesAssumption DEF AcceptUndefined, Step, serverVars, socketVars, loopVars,
       acceptVars, IndInv, Types, LoopInv, OwnInv, Own, CloserInv, Closer
<1>25. ASSUME NEW p \in Port, AcceptFails(p) PROVE CloserInv'
  BY <1>25, NamesAssumption DEF AcceptFails, Step, serverVars, socketVars, loopVars,
       acceptVars, IndInv, Types, LoopInv, OwnInv, Own, CloserInv, Closer
<1>26. ASSUME NEW p \in Port, HandOver(p) PROVE CloserInv'
  BY <1>26, NamesAssumption DEF HandOver, Step, serverVars, socketVars, loopVars,
       acceptVars, IndInv, Types, LoopInv, OwnInv, Own, CloserInv, Closer
<1>27. ASSUME ConnectionEnds PROVE CloserInv'
  BY <1>27, NamesAssumption DEF ConnectionEnds, serverVars, socketVars, loopVars,
       acceptVars, IndInv, Types, LoopInv, OwnInv, Own, CloserInv, Closer
<1>28. ASSUME NEW c \in Closer, QueueCloser(c) PROVE CloserInv'
  BY <1>28, NamesAssumption DEF QueueCloser, InLoop, serverVars, socketVars, loopVars,
       acceptVars, IndInv, Types, LoopInv, OwnInv, Own, CloserInv, Closer
<1>29. ASSUME NEW c \in Closer, TryCloseRefused(c) PROVE CloserInv'
  BY <1>29, NamesAssumption DEF TryCloseRefused, CloserAt, CloserTurn, CallOver, Begin,
       serverVars, socketVars, loopVars, acceptVars, IndInv, Types, LoopInv, OwnInv, Own,
       CloserInv, Closer
<1>30. ASSUME NEW c \in Closer, TryCloseGoesOn(c) PROVE CloserInv'
  BY <1>30, NamesAssumption DEF TryCloseGoesOn, CloserAt, CloserTurn, Begin, serverVars,
       socketVars, loopVars, acceptVars, IndInv, Types, LoopInv, OwnInv, Own, CloserInv, Closer
<1>31. ASSUME NEW c \in Closer, ForceCloseCalled(c) PROVE CloserInv'
  BY <1>31, NamesAssumption DEF ForceCloseCalled, CloserAt, CloserTurn, Begin, serverVars,
       socketVars, loopVars, acceptVars, IndInv, Types, LoopInv, OwnInv, Own, CloserInv, Closer
<1>32. ASSUME NEW c \in Closer, CloseNotRunning(c) PROVE CloserInv'
  BY <1>32, NamesAssumption DEF CloseNotRunning, CloserAt, CloserTurn, CallOver, serverVars,
       socketVars, loopVars, acceptVars, IndInv, Types, LoopInv, OwnInv, Own, CloserInv, Closer
<1>33. ASSUME NEW c \in Closer, CloseClaims(c) PROVE CloserInv'
  BY <1>33, NamesAssumption DEF CloseClaims, CloserAt, CloserTurn, serverVars, socketVars,
       loopVars, acceptVars, IndInv, Types, LoopInv, OwnInv, Own, CloserInv, Closer
<1>34. ASSUME NEW c \in Closer, CloseUnlists(c) PROVE CloserInv'
  BY <1>34, NamesAssumption DEF CloseUnlists, CloserAt, CloserTurn, serverVars, socketVars,
       loopVars, acceptVars, IndInv, Types, LoopInv, OwnInv, Own, CloserInv, Closer
<1>35. ASSUME NEW c \in Closer, NEW p \in Port, CloseSocket(c, p) PROVE CloserInv'
  BY <1>35, NamesAssumption DEF CloseSocket, CloserAt, CloserTurn, serverVars, socketVars,
       loopVars, acceptVars, IndInv, Types, LoopInv, OwnInv, Own, CloserInv, Closer
<1>36. ASSUME NEW c \in Closer, CloseSocketsDone(c) PROVE CloserInv'
  BY <1>36, NamesAssumption DEF CloseSocketsDone, CloserAt, CloserTurn, serverVars,
       socketVars, loopVars, acceptVars, IndInv, Types, LoopInv, OwnInv, Own, CloserInv, Closer
<1>37. ASSUME NEW c \in Closer, StopNotFound(c) PROVE CloserInv'
  BY <1>37, NamesAssumption DEF StopNotFound, CloserAt, CloserTurn, CallOver, serverVars,
       socketVars, loopVars, acceptVars, IndInv, Types, LoopInv, OwnInv, Own, CloserInv, Closer
<1>38. ASSUME NEW c \in Closer, StopClearsPolling(c) PROVE CloserInv'
  BY <1>38, NamesAssumption DEF StopClearsPolling, CloserAt, CloserTurn, serverVars,
       socketVars, loopVars, acceptVars, IndInv, Types, LoopInv, OwnInv, Own, CloserInv, Closer
<1>39. ASSUME NEW c \in Closer, StopPings(c) PROVE CloserInv'
  BY <1>39, NamesAssumption DEF StopPings, CloserAt, CloserTurn, CallOver, serverVars,
       socketVars, loopVars, acceptVars, IndInv, Types, LoopInv, OwnInv, Own, CloserInv, Closer
<1>40. ASSUME UNCHANGED vars PROVE CloserInv'
  BY <1>40, NamesAssumption DEF vars, serverVars, socketVars, loopVars, acceptVars, IndInv,
       Types, LoopInv, OwnInv, Own, CloserInv, Closer
<1> QED
  BY <1>1, <1>2, <1>3, <1>4, <1>5, <1>6, <1>7, <1>8, <1>9, <1>10, <1>11, <1>12, <1>13,
       <1>14, <1>15, <1>16, <1>17, <1>18, <1>19, <1>20, <1>21, <1>22, <1>23, <1>24, <1>25, <1>26,
       <1>27, <1>28, <1>29, <1>30, <1>31, <1>32, <1>33, <1>34, <1>35, <1>36, <1>37, <1>38, <1>39,
       <1>40, NextCases

\* The sockets are open as long as accept loops use them.
LEMMA SocketStep == IndInv /\ [Next]_vars => (Own' => SocketInv')
<1> SUFFICES ASSUME IndInv, [Next]_vars, Own' PROVE SocketInv'
  OBVIOUS
<1>1. ASSUME NEW p \in Port, AttachRouter(p) PROVE SocketInv'
  BY <1>1, NamesAssumption DEF AttachRouter, serverVars, socketVars, loopVars, acceptVars,
       IndInv, Types, LoopInv, Scheduled, OwnInv, Own, CloserInv, SocketInv, Closer
<1>2. ASSUME NEW p \in Port, Arrive(p) PROVE SocketInv'
  BY <1>2, NamesAssumption DEF Arrive, serverVars, socketVars, loopVars, acceptVars, IndInv,
       Types, LoopInv, Scheduled, OwnInv, Own, CloserInv, SocketInv, Closer
<1>3. ASSUME Listen PROVE SocketInv'
  BY <1>3, NamesAssumption DEF Listen, serverVars, socketVars, loopVars, acceptVars, IndInv,
       Types, LoopInv, Scheduled, OwnInv, Own, CloserInv, SocketInv, Closer
<1>4. ASSUME ListenFails PROVE SocketInv'
  BY <1>4, NamesAssumption DEF ListenFails, serverVars, socketVars, loopVars, acceptVars,
       IndInv, Types, LoopInv, Scheduled, OwnInv, Own, CloserInv, SocketInv, Closer
<1>5. ASSUME RunChecks PROVE SocketInv'
  BY <1>5, NamesAssumption DEF RunChecks, serverVars, socketVars, loopVars, acceptVars,
       IndInv, Types, LoopInv, Scheduled, OwnInv, Own, CloserInv, SocketInv, Closer
<1>6. ASSUME RunClaims PROVE SocketInv'
  BY <1>6, NamesAssumption DEF RunClaims, serverVars, socketVars, loopVars, acceptVars,
       IndInv, Types, LoopInv, Scheduled, OwnInv, Own, CloserInv, SocketInv, Closer
<1>7. ASSUME RunRecordsThread PROVE SocketInv'
  BY <1>7, NamesAssumption DEF RunRecordsThread, serverVars, socketVars, loopVars,
       acceptVars, IndInv, Types, LoopInv, Scheduled, OwnInv, Own, CloserInv, SocketInv, Closer
<1>8. ASSUME ScheduleAcceptLoops PROVE SocketInv'
  BY <1>8, NamesAssumption DEF ScheduleAcceptLoops, serverVars, socketVars, loopVars,
       acceptVars, IndInv, Types, LoopInv, Scheduled, OwnInv, Own, CloserInv, SocketInv, Closer
<1>9. ASSUME LoopStarts PROVE SocketInv'
  BY <1>9, NamesAssumption DEF LoopStarts, serverVars, socketVars, loopVars, acceptVars,
       IndInv, Types, LoopInv, Scheduled, OwnInv, Own, CloserInv, SocketInv, Closer
<1>10. ASSUME RunReturns PROVE SocketInv'
  BY <1>10, NamesAssumption DEF RunReturns, serverVars, socketVars, loopVars, acceptVars,
       IndInv, Types, LoopInv, Scheduled, OwnInv, Own, CloserInv, SocketInv, Closer
<1>11. ASSUME EnterWait PROVE SocketInv'
  BY <1>11, NamesAssumption DEF EnterWait, serverVars, socketVars, loopVars, acceptVars,
       IndInv, Types, LoopInv, Scheduled, OwnInv, Own, CloserInv, SocketInv, Closer
<1>12. ASSUME Wait PROVE SocketInv'
  BY <1>12, NamesAssumption DEF Wait, serverVars, socketVars, loopVars, acceptVars, IndInv,
       Types, LoopInv, Scheduled, OwnInv, Own, CloserInv, SocketInv, Closer
<1>13. ASSUME BatchDone PROVE SocketInv'
  BY <1>13, NamesAssumption DEF BatchDone, serverVars, socketVars, loopVars, acceptVars,
       IndInv, Types, LoopInv, Scheduled, OwnInv, Own, CloserInv, SocketInv, Closer
<1>14. ASSUME NEW d \in Fd, DispatchAccept(d) PROVE SocketInv'
  BY <1>14, NamesAssumption DEF DispatchAccept, serverVars, socketVars, loopVars,
       acceptVars, IndInv, Types, LoopInv, Scheduled, OwnInv, Own, CloserInv, SocketInv, Closer
<1>15. ASSUME NEW d \in Fd, DispatchClosed(d) PROVE SocketInv'
  BY <1>15, NamesAssumption DEF DispatchClosed, serverVars, socketVars, loopVars,
       acceptVars, IndInv, Types, LoopInv, Scheduled, OwnInv, Own, CloserInv, SocketInv, Closer
<1>16. ASSUME DispatchDrain PROVE SocketInv'
  BY <1>16, NamesAssumption DEF DispatchDrain, serverVars, socketVars, loopVars, acceptVars,
       IndInv, Types, LoopInv, Scheduled, OwnInv, Own, CloserInv, SocketInv, Closer
<1>17. ASSUME NEW x \in Port \cup LoopCloser, Resume(x) PROVE SocketInv'
  BY <1>17, NamesAssumption DEF Resume, serverVars, socketVars, loopVars, acceptVars,
       IndInv, Types, LoopInv, Scheduled, OwnInv, Own, CloserInv, SocketInv, Closer
<1>18. ASSUME DrainDone PROVE SocketInv'
  BY <1>18, NamesAssumption DEF DrainDone, serverVars, socketVars, loopVars, acceptVars,
       IndInv, Types, LoopInv, Scheduled, OwnInv, Own, CloserInv, SocketInv, Closer
<1>19. ASSUME NEW p \in Port, AcceptLoopHead(p) PROVE SocketInv'
  BY <1>19, NamesAssumption DEF AcceptLoopHead, Step, serverVars, socketVars, loopVars,
       acceptVars, IndInv, Types, LoopInv, Scheduled, OwnInv, Own, CloserInv, SocketInv, Closer
<1>20. ASSUME NEW p \in Port, AcceptNow(p) PROVE SocketInv'
  BY <1>20, NamesAssumption DEF AcceptNow, Step, serverVars, socketVars, loopVars,
       acceptVars, IndInv, Types, LoopInv, Scheduled, OwnInv, Own, CloserInv, SocketInv, Closer
<1>21. ASSUME NEW p \in Port, AcceptLater(p) PROVE SocketInv'
  BY <1>21, NamesAssumption DEF AcceptLater, Step, serverVars, socketVars, loopVars,
       acceptVars, IndInv, Types, LoopInv, Scheduled, OwnInv, Own, CloserInv, SocketInv, Closer
<1>22. ASSUME NEW p \in Port, AcceptSuspends(p) PROVE SocketInv'
  BY <1>22, NamesAssumption DEF AcceptSuspends, Step, serverVars, socketVars, loopVars,
       acceptVars, IndInv, Types, LoopInv, Scheduled, OwnInv, Own, CloserInv, SocketInv, Closer
<1>23. ASSUME NEW p \in Port, AcceptAlreadyExists(p) PROVE SocketInv'
  BY <1>23, NamesAssumption DEF AcceptAlreadyExists, Step, serverVars, socketVars, loopVars,
       acceptVars, IndInv, Types, LoopInv, Scheduled, OwnInv, Own, CloserInv, SocketInv, Closer
<1>24. ASSUME NEW p \in Port, AcceptUndefined(p) PROVE SocketInv'
  BY <1>24, NamesAssumption DEF AcceptUndefined, Step, serverVars, socketVars, loopVars,
       acceptVars, IndInv, Types, LoopInv, Scheduled, OwnInv, Own, CloserInv, SocketInv, Closer
<1>25. ASSUME NEW p \in Port, AcceptFails(p) PROVE SocketInv'
  BY <1>25, NamesAssumption DEF AcceptFails, Step, serverVars, socketVars, loopVars,
       acceptVars, IndInv, Types, LoopInv, Scheduled, OwnInv, Own, CloserInv, SocketInv, Closer
<1>26. ASSUME NEW p \in Port, HandOver(p) PROVE SocketInv'
  BY <1>26, NamesAssumption DEF HandOver, Step, serverVars, socketVars, loopVars,
       acceptVars, IndInv, Types, LoopInv, Scheduled, OwnInv, Own, CloserInv, SocketInv, Closer
<1>27. ASSUME ConnectionEnds PROVE SocketInv'
  BY <1>27, NamesAssumption DEF ConnectionEnds, serverVars, socketVars, loopVars,
       acceptVars, IndInv, Types, LoopInv, Scheduled, OwnInv, Own, CloserInv, SocketInv, Closer
<1>28. ASSUME NEW c \in Closer, QueueCloser(c) PROVE SocketInv'
  BY <1>28, NamesAssumption DEF QueueCloser, InLoop, serverVars, socketVars, loopVars,
       acceptVars, IndInv, Types, LoopInv, Scheduled, OwnInv, Own, CloserInv, SocketInv, Closer
<1>29. ASSUME NEW c \in Closer, TryCloseRefused(c) PROVE SocketInv'
  BY <1>29, NamesAssumption DEF TryCloseRefused, CloserAt, CloserTurn, CallOver, Begin,
       serverVars, socketVars, loopVars, acceptVars, IndInv, Types, LoopInv, Scheduled, OwnInv,
       Own, CloserInv, SocketInv, Closer
<1>30. ASSUME NEW c \in Closer, TryCloseGoesOn(c) PROVE SocketInv'
  BY <1>30, NamesAssumption DEF TryCloseGoesOn, CloserAt, CloserTurn, Begin, serverVars,
       socketVars, loopVars, acceptVars, IndInv, Types, LoopInv, Scheduled, OwnInv, Own,
       CloserInv, SocketInv, Closer
<1>31. ASSUME NEW c \in Closer, ForceCloseCalled(c) PROVE SocketInv'
  BY <1>31, NamesAssumption DEF ForceCloseCalled, CloserAt, CloserTurn, Begin, serverVars,
       socketVars, loopVars, acceptVars, IndInv, Types, LoopInv, Scheduled, OwnInv, Own,
       CloserInv, SocketInv, Closer
<1>32. ASSUME NEW c \in Closer, CloseNotRunning(c) PROVE SocketInv'
  BY <1>32, NamesAssumption DEF CloseNotRunning, CloserAt, CloserTurn, CallOver, serverVars,
       socketVars, loopVars, acceptVars, IndInv, Types, LoopInv, Scheduled, OwnInv, Own,
       CloserInv, SocketInv, Closer
<1>33. ASSUME NEW c \in Closer, CloseClaims(c) PROVE SocketInv'
  BY <1>33, NamesAssumption DEF CloseClaims, CloserAt, CloserTurn, serverVars, socketVars,
       loopVars, acceptVars, IndInv, Types, LoopInv, Scheduled, OwnInv, Own, CloserInv,
       SocketInv, Closer
<1>34. ASSUME NEW c \in Closer, CloseUnlists(c) PROVE SocketInv'
  BY <1>34, NamesAssumption DEF CloseUnlists, CloserAt, CloserTurn, serverVars, socketVars,
       loopVars, acceptVars, IndInv, Types, LoopInv, Scheduled, OwnInv, Own, CloserInv,
       SocketInv, Closer
<1>35. ASSUME NEW c \in Closer, NEW p \in Port, CloseSocket(c, p) PROVE SocketInv'
  BY <1>35, NamesAssumption DEF CloseSocket, CloserAt, CloserTurn, serverVars, socketVars,
       loopVars, acceptVars, IndInv, Types, LoopInv, Scheduled, OwnInv, Own, CloserInv,
       SocketInv, Closer
<1>36. ASSUME NEW c \in Closer, CloseSocketsDone(c) PROVE SocketInv'
  BY <1>36, NamesAssumption DEF CloseSocketsDone, CloserAt, CloserTurn, serverVars,
       socketVars, loopVars, acceptVars, IndInv, Types, LoopInv, Scheduled, OwnInv, Own,
       CloserInv, SocketInv, Closer
<1>37. ASSUME NEW c \in Closer, StopNotFound(c) PROVE SocketInv'
  BY <1>37, NamesAssumption DEF StopNotFound, CloserAt, CloserTurn, CallOver, serverVars,
       socketVars, loopVars, acceptVars, IndInv, Types, LoopInv, Scheduled, OwnInv, Own,
       CloserInv, SocketInv, Closer
<1>38. ASSUME NEW c \in Closer, StopClearsPolling(c) PROVE SocketInv'
  BY <1>38, NamesAssumption DEF StopClearsPolling, CloserAt, CloserTurn, serverVars,
       socketVars, loopVars, acceptVars, IndInv, Types, LoopInv, Scheduled, OwnInv, Own,
       CloserInv, SocketInv, Closer
<1>39. ASSUME NEW c \in Closer, StopPings(c) PROVE SocketInv'
  BY <1>39, NamesAssumption DEF StopPings, CloserAt, CloserTurn, CallOver, serverVars,
       socketVars, loopVars, acceptVars, IndInv, Types, LoopInv, Scheduled, OwnInv, Own,
       CloserInv, SocketInv, Closer
<1>40. ASSUME UNCHANGED vars PROVE SocketInv'
  BY <1>40, NamesAssumption DEF vars, serverVars, socketVars, loopVars, acceptVars, IndInv,
       Types, LoopInv, Scheduled, OwnInv, Own, CloserInv, SocketInv, Closer
<1> QED
  BY <1>1, <1>2, <1>3, <1>4, <1>5, <1>6, <1>7, <1>8, <1>9, <1>10, <1>11, <1>12, <1>13,
       <1>14, <1>15, <1>16, <1>17, <1>18, <1>19, <1>20, <1>21, <1>22, <1>23, <1>24, <1>25, <1>26,
       <1>27, <1>28, <1>29, <1>30, <1>31, <1>32, <1>33, <1>34, <1>35, <1>36, <1>37, <1>38, <1>39,
       <1>40, NextCases

\* A server that was just made.
LEMMA Initially == Init => IndInv
<1> SUFFICES ASSUME Init PROVE IndInv
  OBVIOUS
<1>1. Types
  BY DEF Init, Types
<1>2. LoopInv
  BY NamesAssumption DEF Init, LoopInv, Scheduled
<1>3. OpenInv
  BY DEF Init, OpenInv, Scheduled
<1>4. OwnInv
  BY DEF Init, OwnInv, CloserInv, SocketInv, Closer
<1> QED  BY <1>1, <1>2, <1>3, <1>4 DEF IndInv

\* Every step keeps the invariant.
LEMMA InductiveStep == IndInv /\ [Next]_vars => IndInv'
  BY TypeStep, EventStep, OpenStep, CloserStep, SocketStep DEF IndInv, OwnInv

\* The inductive invariant holds of every execution.
THEOREM Invariance == Spec => []IndInv
  BY Initially, InductiveStep, PTL DEF Spec

\* While only coroutines of the server's own loop close it, no accept loop uses
\* the Socket it points to after force_close destroyed it.
THEOREM OpenSocketsOnly == Spec => []AcceptsOnlyOpenSockets
<1>1. IndInv => AcceptsOnlyOpenSockets
  BY DEF IndInv, OwnInv, Own, SocketInv, AcceptsOnlyOpenSockets
<1> QED  BY <1>1, Invariance, PTL

\* Server::run returns to its caller only after a closer claimed the server or
\* when every accept loop died of an error, however many threads close it.
THEOREM RunStaysUntilClosed == Spec => RunsUntilClosed
<1> DEFINE A == pc = "poll" /\ pc' = "idle" =>
                  \/ \E c \in Closer : cpc[c] \in {"unlist", "close", "stop", "ping", "closed",
                                                   "notFound"}
                  \/ \A p \in attached : loop[p] = "dead"
<1>1. IndInv /\ [Next]_vars => [A]_vars
  <2> SUFFICES ASSUME IndInv, [Next]_vars, pc = "poll", pc' = "idle", ~Claimed
               PROVE  \A p \in attached : loop[p] = "dead"
    BY DEF Claimed
  <2>1. RunReturns
    BY NextCases DEF AttachRouter, Arrive, Listen, ListenFails, RunChecks, RunClaims,
         RunRecordsThread, ScheduleAcceptLoops, LoopStarts, EnterWait, Wait, BatchDone,
         DispatchAccept, DispatchClosed, DispatchDrain, DrainDone, Resume, AcceptLoopHead,
         AcceptNow, AcceptLater, AcceptSuspends, AcceptAlreadyExists, AcceptUndefined,
         AcceptFails, HandOver, ConnectionEnds, QueueCloser, TryCloseRefused, TryCloseGoesOn,
         ForceCloseCalled, CloseNotRunning, CloseClaims, CloseUnlists, CloseSocket,
         CloseSocketsDone, StopNotFound, StopClearsPolling, StopPings, vars
  <2>2. ~HasPendingItems
    BY <2>1 DEF RunReturns, IndInv, OpenInv
  <2>3. queue = {} /\ current = None /\ \A d \in Fd : waiter[d] = None
    BY <2>2 DEF HasPendingItems, IndInv, LoopInv, Scheduled
  <2> QED  BY <2>3, NamesAssumption DEF IndInv, Types, OpenInv, Scheduled, Found
<1> QED  BY <1>1, Invariance, PTL DEF Spec, RunsUntilClosed

=============================================================================
