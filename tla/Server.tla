------------------------------- MODULE Server -------------------------------
(***************************************************************************)
(* lw::net::Server (lw/net/server.cpp): ports with routers, the thread     *)
(* that listens and runs the event loop, the accept loop of each port, and *)
(* closers, which call try_close or force_close from other threads or from *)
(* a coroutine of the server's own loop.                                   *)
(*                                                                         *)
(* The event loop is Scheduler.tla's, reduced to what a server uses: the   *)
(* registered descriptors, the notification eventfd, the coroutine queue   *)
(* and the batch of one epoll_wait.  Atomic variables, the runner's thread *)
(* id and each socket are separate steps of the threads that touch them.   *)
(***************************************************************************)
EXTENDS Naturals, FiniteSets

CONSTANTS Port,            \* ports that can be given a router
          Fd,              \* descriptors for listening sockets
          Ev,              \* the scheduler's eventfd
          None,
          ThreadCloser,    \* closers on threads of their own
          LoopCloser,      \* closers that are coroutines of the server's loop
          AcceptMayFail,   \* accept or the hand-over to the router may throw
          MaxArrivals,     \* bound: connections that arrive
          MaxRuns          \* bound: calls of listen

ASSUME FdAssumption == IsFiniteSet(Port) /\ IsFiniteSet(Fd) /\ Cardinality(Fd) >= Cardinality(Port)
ASSUME NamesAssumption ==
  /\ None \notin Port \cup Fd \cup ThreadCloser \cup LoopCloser
  /\ Ev \notin Fd /\ Port \cap LoopCloser = {}
ASSUME BoundsAssumption ==
  /\ AcceptMayFail \in BOOLEAN
  /\ MaxArrivals \in Nat /\ MaxRuns \in Nat

Closer == ThreadCloser \cup LoopCloser

VARIABLES
  listening, running,  \* _listening, _running
  runnerKnown,         \* _runner_thread names the thread whose scheduler runs
  attached,            \* keys of _port_map
  sock,                \* the descriptor of each RouterSocket::socket, or None
  backlog,             \* connections the kernel holds for each port
  arrivals,            \* connections that ever arrived
  conns,               \* connections the routers handle
  pc,                  \* the thread in listen, run and the event loop
  runs,                \* calls of listen
  polling,             \* Scheduler::_continue_polling
  queue,               \* accept loops and closers in the coroutine queue
  evArmed,             \* the eventfd is registered and pinged
  waiter,              \* the accept loop registered for each descriptor
  inEpoll,             \* descriptors the kernel watches
  batch,               \* events of this epoll_wait not yet dispatched
  current,             \* the coroutine that runs now
  loop,                \* where each accept loop is
  alive,               \* the Socket an accept loop points to still exists
  touched,             \* an accept loop used a Socket that was destroyed
  cpc                  \* where each closer is

serverVars == <<listening, running, runnerKnown, attached, runs>>
socketVars == <<sock, backlog, arrivals, conns>>
loopVars == <<polling, queue, evArmed, waiter, inEpoll, batch, current>>
acceptVars == <<loop, alive, touched>>
vars == <<serverVars, socketVars, pc, loopVars, acceptVars, cpc>>

\* Type invariant.
TypeOK ==
  /\ listening \in BOOLEAN /\ running \in BOOLEAN /\ runnerKnown \in BOOLEAN
  /\ attached \subseteq Port
  /\ sock \in [Port -> Fd \cup {None}]
  /\ backlog \in [Port -> 0..MaxArrivals]
  /\ arrivals \in 0..MaxArrivals
  /\ conns \in 0..MaxArrivals
  /\ pc \in {"idle", "claim", "record", "schedule", "start", "poll", "wait",
             "dispatch", "drain"}
  /\ runs \in 0..MaxRuns
  /\ polling \in BOOLEAN /\ evArmed \in BOOLEAN
  /\ queue \subseteq Port \cup LoopCloser
  /\ waiter \in [Fd -> Port \cup {None}]
  /\ inEpoll \subseteq Fd
  /\ batch \subseteq Fd \cup {Ev}
  /\ current \in Port \cup LoopCloser \cup {None}
  /\ loop \in [Port -> {"none", "head", "accept", "waiting", "woken", "handoff", "ended", "dead"}]
  /\ alive \in [Port -> BOOLEAN]
  /\ touched \in BOOLEAN
  /\ cpc \in [Closer -> {"start", "queued", "claim", "unlist", "close", "stop", "ping",
                         "closed", "notRunning", "refused", "notFound"}]

Init ==
  /\ listening = FALSE /\ running = FALSE /\ runnerKnown = FALSE
  /\ attached = {}
  /\ sock = [p \in Port |-> None]
  /\ backlog = [p \in Port |-> 0]
  /\ arrivals = 0 /\ conns = 0
  /\ pc = "idle" /\ runs = 0
  /\ polling = TRUE /\ evArmed = FALSE
  /\ queue = {}
  /\ waiter = [d \in Fd |-> None]
  /\ inEpoll = {} /\ batch = {}
  /\ current = None
  /\ loop = [p \in Port |-> "none"]
  /\ alive = [p \in Port |-> FALSE]
  /\ touched = FALSE
  /\ cpc = [c \in Closer |-> "start"]

-----------------------------------------------------------------------------
(* The server's thread, up to the event loop. *)

AttachRouter(p) ==
  /\ pc = "idle"
  /\ ~listening
  /\ p \notin attached
  /\ attached' = attached \cup {p}
  /\ UNCHANGED <<listening, running, runnerKnown, runs, socketVars, pc, loopVars,
                 acceptVars, cpc>>

Free(d) == \A p \in Port : sock[p] # d

\* A socket for every attached port that has none.
Listen ==
  /\ pc = "idle"
  /\ attached # {}
  /\ runs < MaxRuns
  /\ ~listening
  /\ runs' = runs + 1
  /\ listening' = TRUE
  /\ \E s \in [Port -> Fd \cup {None}] :
       /\ \A p \in Port : IF p \in attached /\ sock[p] = None
                          THEN s[p] # None /\ Free(s[p])
                          ELSE s[p] = sock[p]
       /\ \A p, q \in Port : s[p] = s[q] /\ s[p] # None => p = q
       /\ sock' = s
  /\ UNCHANGED <<running, runnerKnown, attached, backlog, arrivals, conns, pc,
                 loopVars, acceptVars, cpc>>

\* One port cannot be bound: every socket is dropped and listen throws.
ListenFails ==
  /\ pc = "idle"
  /\ attached # {}
  /\ runs < MaxRuns
  /\ ~listening
  /\ runs' = runs + 1
  /\ sock' = [p \in Port |-> None]
  /\ backlog' = [p \in Port |-> 0]
  /\ UNCHANGED <<listening, running, runnerKnown, attached, arrivals, conns, pc,
                 loopVars, acceptVars, cpc>>

\* run throws when nothing listens.
RunChecks ==
  /\ pc = "idle"
  /\ listening
  /\ pc' = "claim"
  /\ UNCHANGED <<serverVars, socketVars, loopVars, acceptVars, cpc>>

RunClaims ==
  /\ pc = "claim"
  /\ ~running
  /\ running' = TRUE
  /\ pc' = "record"
  /\ UNCHANGED <<listening, runnerKnown, attached, runs, socketVars, loopVars,
                 acceptVars, cpc>>

RunRecordsThread ==
  /\ pc = "record"
  /\ runnerKnown' = TRUE
  /\ pc' = "schedule"
  /\ UNCHANGED <<listening, running, attached, runs, socketVars, loopVars,
                 acceptVars, cpc>>

\* _schedule_accept_loops: each loop keeps the address of its port's Socket.
ScheduleAcceptLoops ==
  /\ pc = "schedule"
  /\ queue' = queue \cup attached
  /\ loop' = [p \in Port |-> IF p \in attached THEN "head" ELSE loop[p]]
  /\ alive' = [p \in Port |-> IF p \in attached THEN sock[p] # None ELSE alive[p]]
  /\ evArmed' = TRUE
  /\ pc' = "start"
  /\ UNCHANGED <<serverVars, socketVars, polling, waiter, inEpoll, batch,
                 current, touched, cpc>>

\* Scheduler::run begins by forgetting an earlier stop.
LoopStarts ==
  /\ pc = "start"
  /\ polling' = TRUE
  /\ pc' = "poll"
  /\ UNCHANGED <<serverVars, socketVars, queue, evArmed, waiter, inEpoll, batch,
                 current, acceptVars, cpc>>

-----------------------------------------------------------------------------
(* The event loop. *)

HasPendingItems == evArmed \/ \E d \in Fd : waiter[d] # None

Ready == {d \in inEpoll : \E p \in Port : sock[p] = d /\ backlog[p] > 0}
           \cup (IF evArmed THEN {Ev} ELSE {})

\* A slip: the loop ends when no event is there.
RunReturnsWhenQuiet ==
  /\ pc = "poll"
  /\ ~polling \/ Ready = {}
  /\ running' = FALSE
  /\ pc' = "idle"
  /\ UNCHANGED <<listening, runnerKnown, attached, runs, socketVars, loopVars,
                 acceptVars, cpc>>

\* Scheduler::run returns, then Server::run.
RunReturns ==
  /\ pc = "poll"
  /\ ~polling \/ ~HasPendingItems
  /\ running' = FALSE
  /\ pc' = "idle"
  /\ UNCHANGED <<listening, runnerKnown, attached, runs, socketVars, loopVars,
                 acceptVars, cpc>>

EnterWait ==
  /\ pc = "poll"
  /\ polling /\ HasPendingItems
  /\ pc' = "wait"
  /\ UNCHANGED <<serverVars, socketVars, loopVars, acceptVars, cpc>>

\* epoll_wait sleeps until an event is there.
Wait ==
  /\ pc = "wait"
  /\ \E b \in SUBSET Ready : b # {} /\ batch' = b
  /\ pc' = "dispatch"
  /\ UNCHANGED <<serverVars, socketVars, polling, queue, evArmed, waiter, inEpoll,
                 current, acceptVars, cpc>>

BatchDone ==
  /\ pc = "dispatch"
  /\ current = None
  /\ batch = {}
  /\ pc' = "poll"
  /\ UNCHANGED <<serverVars, socketVars, loopVars, acceptVars, cpc>>

\* A connection event resumes the accept loop inside _do_accept.
DispatchAccept(d) ==
  /\ pc = "dispatch"
  /\ current = None
  /\ d \in batch \cap inEpoll
  /\ batch' = batch \ {d}
  /\ waiter' = [waiter EXCEPT ![d] = None]
  /\ inEpoll' = inEpoll \ {d}
  /\ current' = waiter[d]
  /\ loop' = [loop EXCEPT ![waiter[d]] = "woken"]
  /\ UNCHANGED <<serverVars, socketVars, pc, polling, queue, evArmed, alive,
                 touched, cpc>>

\* The descriptor was closed after epoll_wait reported it: EPOLL_CTL_DEL fails
\* and the error leaves EPoll::wait, Scheduler::run and Server::run.  What else was
\* in the batch is armed again for a later run here; in the code its one shot is
\* spent, as Scheduler.tla has it.
DispatchClosed(d) ==
  /\ pc = "dispatch"
  /\ current = None
  /\ d \in (batch \ inEpoll) \ {Ev}
  /\ waiter' = [waiter EXCEPT ![d] = None]
  /\ batch' = {}
  /\ running' = FALSE
  /\ pc' = "idle"
  /\ UNCHANGED <<listening, runnerKnown, attached, runs, socketVars, polling, queue,
                 evArmed, inEpoll, current, acceptVars, cpc>>

DispatchDrain ==
  /\ pc = "dispatch"
  /\ current = None
  /\ Ev \in batch
  /\ batch' = batch \ {Ev}
  /\ evArmed' = FALSE
  /\ pc' = "drain"
  /\ UNCHANGED <<serverVars, socketVars, polling, queue, waiter, inEpoll, current,
                 acceptVars, cpc>>

\* The next coroutine of the queue.
Resume(x) ==
  /\ pc = "drain"
  /\ current = None
  /\ x \in queue
  /\ queue' = queue \ {x}
  /\ current' = x
  /\ UNCHANGED <<serverVars, socketVars, pc, polling, evArmed, waiter, inEpoll,
                 batch, acceptVars, cpc>>

\* The drain's limit, which leaves the rest of a long queue to the next round, is in
\* Scheduler.tla.
DrainDone ==
  /\ pc = "drain"
  /\ current = None
  /\ queue = {}
  /\ pc' = "dispatch"
  /\ UNCHANGED <<serverVars, socketVars, loopVars, acceptVars, cpc>>

-----------------------------------------------------------------------------
(* accept_loop and Socket::accept. *)

Step(p, here, there) ==
  /\ current = p
  /\ loop[p] = here
  /\ loop' = [loop EXCEPT ![p] = there]

\* A slip: the loop does not look at *running.
AcceptLoopForever(p) ==
  /\ Step(p, "head", "accept")
  /\ UNCHANGED <<serverVars, socketVars, pc, loopVars, alive, touched, cpc>>

\* while (*running)
AcceptLoopHead(p) ==
  /\ Step(p, "head", IF running THEN "accept" ELSE "ended")
  /\ current' = IF running THEN p ELSE None
  /\ UNCHANGED <<serverVars, socketVars, pc, polling, queue, evArmed, waiter,
                 inEpoll, batch, alive, touched, cpc>>

\* accept succeeds at once and the loop goes on.
AcceptNow(p) ==
  /\ Step(p, "accept", "handoff")
  /\ alive[p]
  /\ backlog[p] > 0
  /\ backlog' = [backlog EXCEPT ![p] = @ - 1]
  /\ UNCHANGED <<serverVars, sock, arrivals, conns, pc, loopVars, alive, touched,
                 cpc>>

\* accept succeeds after an event: the loop goes on through the queue.
AcceptLater(p) ==
  /\ Step(p, "woken", "handoff")
  /\ alive[p]
  /\ backlog[p] > 0
  /\ backlog' = [backlog EXCEPT ![p] = @ - 1]
  /\ current' = None
  /\ queue' = queue \cup {p}
  /\ evArmed' = TRUE
  /\ UNCHANGED <<serverVars, sock, arrivals, conns, pc, polling, waiter, inEpoll,
                 batch, alive, touched, cpc>>

\* A slip: the callback is kept and the kernel not told.
SuspendUnarmed(p) ==
  /\ loop[p] \in {"accept", "woken"} /\ Step(p, loop[p], "waiting")
  /\ alive[p]
  /\ backlog[p] = 0
  /\ waiter[sock[p]] = None
  /\ waiter' = [waiter EXCEPT ![sock[p]] = p]
  /\ current' = None
  /\ UNCHANGED <<serverVars, socketVars, pc, polling, queue, evArmed, inEpoll, batch,
                 alive, touched, cpc>>

\* Nobody there: co_await fd_readable.
AcceptSuspends(p) ==
  /\ loop[p] \in {"accept", "woken"} /\ Step(p, loop[p], "waiting")
  /\ alive[p]
  /\ backlog[p] = 0
  /\ waiter[sock[p]] = None
  /\ waiter' = [waiter EXCEPT ![sock[p]] = p]
  /\ inEpoll' = inEpoll \cup {sock[p]}
  /\ current' = None
  /\ UNCHANGED <<serverVars, socketVars, pc, polling, queue, evArmed, batch, alive,
                 touched, cpc>>

\* EPoll::add finds the number of a closed descriptor still registered: the
\* exception ends the task, and nobody looks at it.
AcceptAlreadyExists(p) ==
  /\ loop[p] \in {"accept", "woken"} /\ Step(p, loop[p], "dead")
  /\ alive[p]
  /\ backlog[p] = 0
  /\ waiter[sock[p]] # None
  /\ current' = None
  /\ UNCHANGED <<serverVars, socketVars, pc, polling, queue, evArmed, waiter, inEpoll,
                 batch, alive, touched, cpc>>

\* The Socket is gone.  close() had zeroed its descriptor: accept fails and the
\* task ends.
AcceptUndefined(p) ==
  /\ loop[p] \in {"accept", "woken"} /\ Step(p, loop[p], "dead")
  /\ ~alive[p]
  /\ touched' = TRUE
  /\ current' = None
  /\ UNCHANGED <<serverVars, socketVars, pc, polling, queue, evArmed, waiter, inEpoll,
                 batch, alive, cpc>>

\* accept reports another error, or the scheduler's queue is full when the
\* router's task is scheduled.
AcceptFails(p) ==
  /\ AcceptMayFail
  /\ loop[p] \in {"accept", "woken", "handoff"} /\ Step(p, loop[p], "dead")
  /\ current' = None
  /\ UNCHANGED <<serverVars, socketVars, pc, polling, queue, evArmed, waiter, inEpoll,
                 batch, alive, touched, cpc>>

\* The router is given the connection.  Its task counts it when it first runs, which
\* is taken to be now.
HandOver(p) ==
  /\ Step(p, "handoff", "head")
  /\ conns' = conns + 1
  /\ UNCHANGED <<serverVars, sock, backlog, arrivals, pc, loopVars, alive, touched,
                 cpc>>

AcceptStep(p) ==
  \/ AcceptLoopHead(p)
  \/ AcceptNow(p)
  \/ AcceptLater(p)
  \/ AcceptSuspends(p)
  \/ AcceptAlreadyExists(p)
  \/ AcceptUndefined(p)
  \/ AcceptFails(p)
  \/ HandOver(p)

\* A client connects to a bound port.
Arrive(p) ==
  /\ sock[p] # None
  /\ arrivals < MaxArrivals
  /\ arrivals' = arrivals + 1
  /\ backlog' = [backlog EXCEPT ![p] = @ + 1]
  /\ UNCHANGED <<serverVars, sock, conns, pc, loopVars, acceptVars, cpc>>

\* A router is done with a connection (one of its coroutines' steps).
ConnectionEnds ==
  /\ pc \in {"dispatch", "drain"}
  /\ current = None
  /\ conns > 0
  /\ conns' = conns - 1
  /\ UNCHANGED <<serverVars, sock, backlog, arrivals, pc, loopVars, acceptVars, cpc>>

-----------------------------------------------------------------------------
(* try_close and force_close. *)

InLoop == pc \in {"poll", "wait", "dispatch", "drain"}

CloserTurn(c) == c \in LoopCloser => current = c

CloserAt(c, here, there) ==
  /\ CloserTurn(c)
  /\ cpc[c] = here
  /\ cpc' = [cpc EXCEPT ![c] = there]

\* A coroutine that will close the server is scheduled on its loop (if the loop
\* sleeps, by an event of the coroutine's own, such as a timer's).
QueueCloser(c) ==
  /\ c \in LoopCloser
  /\ InLoop /\ current = None
  /\ cpc[c] = "start"
  /\ cpc' = [cpc EXCEPT ![c] = "queued"]
  /\ queue' = queue \cup {c}
  /\ evArmed' = TRUE
  /\ UNCHANGED <<serverVars, socketVars, pc, polling, waiter, inEpoll, batch, current,
                 acceptVars>>

\* What the caller sees when the call is over.
CallOver(c) == current' = IF c \in LoopCloser THEN None ELSE current

\* A thread closes whenever it likes, a coroutine when it is resumed.
Begin(c) == IF c \in LoopCloser THEN "queued" ELSE "start"

TryCloseRefused(c) ==
  /\ conns > 0
  /\ CloserAt(c, Begin(c), "refused")
  /\ CallOver(c)
  /\ UNCHANGED <<serverVars, socketVars, pc, polling, queue, evArmed, waiter, inEpoll,
                 batch, acceptVars>>

TryCloseGoesOn(c) ==
  /\ conns = 0
  /\ CloserAt(c, Begin(c), "claim")
  /\ UNCHANGED <<serverVars, socketVars, pc, loopVars, acceptVars>>

ForceCloseCalled(c) ==
  /\ CloserAt(c, Begin(c), "claim")
  /\ UNCHANGED <<serverVars, socketVars, pc, loopVars, acceptVars>>

\* Not running: force_close returns, and try_close then returns true.
CloseNotRunning(c) ==
  /\ ~running
  /\ CloserAt(c, "claim", "notRunning")
  /\ CallOver(c)
  /\ UNCHANGED <<serverVars, socketVars, pc, polling, queue, evArmed, waiter, inEpoll,
                 batch, acceptVars>>

CloseClaims(c) ==
  /\ running
  /\ CloserAt(c, "claim", "unlist")
  /\ running' = FALSE
  /\ UNCHANGED <<listening, runnerKnown, attached, runs, socketVars, pc, loopVars,
                 acceptVars>>

CloseUnlists(c) ==
  /\ CloserAt(c, "unlist", "close")
  /\ listening' = FALSE
  /\ UNCHANGED <<running, runnerKnown, attached, runs, socketVars, pc, loopVars,
                 acceptVars>>

\* The socket of one port is closed and destroyed; the kernel forgets it, the
\* callbacks of the scheduler do not.
CloseSocket(c, p) ==
  /\ CloserAt(c, "close", "close")
  /\ sock[p] # None
  /\ sock' = [sock EXCEPT ![p] = None]
  /\ backlog' = [backlog EXCEPT ![p] = 0]
  /\ inEpoll' = inEpoll \ {sock[p]}
  /\ alive' = [alive EXCEPT ![p] = FALSE]
  /\ UNCHANGED <<serverVars, arrivals, conns, pc, polling, queue, evArmed, waiter, batch,
                 current, loop, touched>>

CloseSocketsDone(c) ==
  /\ CloserAt(c, "close", "stop")
  /\ \A p \in Port : sock[p] = None
  /\ UNCHANGED <<serverVars, socketVars, pc, loopVars, acceptVars>>

\* Scheduler::for_thread(_runner_thread): scheduling the accept loops made it.
SchedulerFound == runnerKnown /\ \E p \in Port : loop[p] # "none"

\* for_thread throws when the runner's id or its scheduler is not there yet.
StopNotFound(c) ==
  /\ ~SchedulerFound
  /\ CloserAt(c, "stop", "notFound")
  /\ CallOver(c)
  /\ UNCHANGED <<serverVars, socketVars, pc, polling, queue, evArmed, waiter, inEpoll,
                 batch, acceptVars>>

StopClearsPolling(c) ==
  /\ SchedulerFound
  /\ CloserAt(c, "stop", "ping")
  /\ polling' = FALSE
  /\ UNCHANGED <<serverVars, socketVars, pc, queue, evArmed, waiter, inEpoll, batch,
                 current, acceptVars>>

\* A slip: the flag is cleared and the sleeping loop not woken.
StopNoPing(c) ==
  /\ CloserAt(c, "ping", "closed")
  /\ CallOver(c)
  /\ UNCHANGED <<serverVars, socketVars, pc, polling, queue, evArmed, waiter, inEpoll,
                 batch, acceptVars>>

StopPings(c) ==
  /\ CloserAt(c, "ping", "closed")
  /\ evArmed' = TRUE
  /\ CallOver(c)
  /\ UNCHANGED <<serverVars, socketVars, pc, polling, queue, waiter, inEpoll, batch,
                 acceptVars>>

CloserGoesOn(c) ==
  \/ CloseNotRunning(c)
  \/ CloseClaims(c)
  \/ CloseUnlists(c)
  \/ \E p \in Port : CloseSocket(c, p)
  \/ CloseSocketsDone(c)
  \/ StopNotFound(c)
  \/ StopClearsPolling(c)
  \/ StopPings(c)

-----------------------------------------------------------------------------
RunBegins == RunChecks \/ RunClaims \/ RunRecordsThread \/ ScheduleAcceptLoops \/ LoopStarts

LoopStep ==
  \/ RunReturns
  \/ EnterWait
  \/ Wait
  \/ BatchDone
  \/ \E d \in Fd : DispatchAccept(d) \/ DispatchClosed(d)
  \/ DispatchDrain
  \/ \E x \in Port \cup LoopCloser : Resume(x)
  \/ DrainDone
  \/ \E p \in Port : AcceptStep(p)

CloserBegins(c) == QueueCloser(c) \/ TryCloseRefused(c) \/ TryCloseGoesOn(c) \/ ForceCloseCalled(c)

Next ==
  \/ \E p \in Port : AttachRouter(p) \/ Arrive(p)
  \/ Listen \/ ListenFails
  \/ RunBegins
  \/ LoopStep
  \/ ConnectionEnds
  \/ \E c \in Closer : CloserBegins(c) \/ CloserGoesOn(c)

\* The server's thread keeps running once run was called, and a coroutine that
\* was queued or a call that was begun is carried on.
Fairness ==
  /\ WF_vars(RunClaims \/ RunRecordsThread \/ ScheduleAcceptLoops \/ LoopStarts)
  /\ WF_vars(LoopStep)
  /\ \A c \in Closer : WF_vars(CloserGoesOn(c))
  /\ \A c \in LoopCloser : WF_vars(TryCloseRefused(c) \/ TryCloseGoesOn(c) \/ ForceCloseCalled(c))

Spec == Init /\ [][Next]_vars /\ Fairness

-----------------------------------------------------------------------------
(* Properties. *)

\* Socket::accept refuses a socket that is not open: as long as the server is
\* closed only from its own loop, an accept loop never uses the Socket it points
\* to once force_close destroyed it.
AcceptsOnlyOpenSockets == (\A c \in ThreadCloser : cpc[c] = "start") => ~touched

Resting == running /\ pc = "wait" /\ polling /\ ~evArmed

Served(p) ==
  sock[p] # None => /\ loop[p] = "waiting"
                    /\ waiter[sock[p]] = p
                    /\ sock[p] \in inEpoll

\* run "starts the server receiving connections on the bound sockets": when the
\* event loop rests, every bound port has its accept loop registered and armed.
BoundIsServed == Resting => \A p \in attached : Served(p)

\* run "will run infinitely until the server is closed": once force_close has
\* cleared _listening on a first run, the thread in run comes out of it.
RunEndsWhenClosed == (~listening /\ runs = 1) ~> (pc = "idle")

\* ... and not before: as long as no closer claimed the server and not every
\* accept loop died of an error, run stays in.
RunsUntilClosed ==
  [][pc = "poll" /\ pc' = "idle" =>
       \/ \E c \in Closer : cpc[c] \in {"unlist", "close", "stop", "ping", "closed", "notFound"}
       \/ \A p \in attached : loop[p] = "dead"]_vars

\* On a server's first run a connection the kernel holds for a bound port is
\* accepted, unless the server is closed or its accept loop dies first.
ConnectionIsAccepted ==
  \A p \in Port :
    (backlog[p] > 0 /\ InLoop /\ runs = 1)
      ~> (backlog[p] = 0 \/ ~running \/ loop[p] = "dead")
=============================================================================
