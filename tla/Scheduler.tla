----------------------------- MODULE Scheduler -----------------------------
(***************************************************************************)
(* lw::co::Scheduler and lw::co::internal::EPoll on the scheduler's own    *)
(* thread: the coroutine queue, the callbacks map, the eventfd that makes  *)
(* epoll wake up when the queue has work, and the loop of Scheduler::run.  *)
(*                                                                         *)
(* The queue is the bounded FIFO that CircularQueue implements.  Of the    *)
(* eventfd's 64-bit counter only "is it non-zero" matters, because a read  *)
(* resets it.  A call that throws into its caller and changes nothing (a   *)
(* full queue, a handle that is already registered) is a stuttering step:  *)
(* the coroutine catches the exception or ends, which are steps of their   *)
(* own.  System calls fail only where the code's own state makes them.     *)
(* Two throws of the loop have no action because EventsHaveCallbacks says  *)
(* they cannot happen: an event whose handle is not in the map, and a read *)
(* of an eventfd whose counter is zero.                                    *)
(***************************************************************************)
EXTENDS Naturals, Sequences

CONSTANTS Coro,             \* coroutine handles
          Fd,               \* file descriptors the coroutines wait on
          EventFd,          \* _queue_notification_fd
          QueueSize,        \* --lw_scheduler_queue_size
          EventBufferSize,  \* --lw_epoll_event_buffer_size
          None              \* no coroutine, no callback

ASSUME QueueSizeAssumption == QueueSize \in Nat
ASSUME EventBufferSizeAssumption == EventBufferSize \in Nat \ {0}
ASSUME HandlesAssumption ==
  /\ EventFd \notin Fd
  /\ None \notin Coro
  /\ "drain" \notin Coro
  /\ None # "drain"

VARIABLES
  pc,               \* where Scheduler::run is
  continuePolling,  \* _continue_polling
  queue,            \* _coro_queue
  todo,             \* limit - i of the drain callback's loop
  callbacks,        \* EPoll::_callbacks: the callback of each handle, or None
  interest,         \* kernel: handles added to the epoll instance
  armed,            \* kernel: of those, the ones whose one shot is left
  readyList,        \* kernel: armed handles to report, oldest first
  batch,            \* events of epoll_wait not yet dispatched
  signalled,        \* the eventfd's counter is not zero
  fdReady,          \* descriptors that are readable (or writable)
  running,          \* the coroutine being resumed, or None
  coroState         \* what each coroutine is suspended on

loopVars   == <<pc, continuePolling, todo>>
epollVars  == <<callbacks, interest, armed, readyList, signalled>>
vars == <<loopVars, epollVars, queue, batch, fdReady, running, coroState>>

Handle == Fd \cup {EventFd}
CoroStates == {"new", "queued", "fdwait", "parked", "running", "done"}

Init ==
  /\ pc = "idle"
  /\ continuePolling = TRUE
  /\ queue = <<>>
  /\ todo = 0
  /\ callbacks = [h \in Handle |-> None]
  /\ interest = {}
  /\ armed = {}
  /\ readyList = <<>>
  /\ batch = <<>>
  /\ signalled = FALSE
  /\ fdReady = {}
  /\ running = None
  /\ coroState = [c \in Coro |-> "new"]

In(x, s) == \E i \in 1 .. Len(s) : s[i] = x
Distinct(s) == \A i, j \in 1 .. Len(s) : s[i] = s[j] => i = j

\* The user program has control: before, between and after calls of run, or
\* inside a coroutine that run resumed.
UserCode == pc = "idle" \/ running # None

-----------------------------------------------------------------------------
(* The kernel's side of epoll (external). *)

\* A handle is ready: the kernel lists it unless it is listed or disarmed.
Listed(h, newArmed) ==
  IF h \in newArmed /\ ~In(h, readyList) THEN Append(readyList, h) ELSE readyList

IsReady(h) == IF h = EventFd THEN signalled ELSE h \in fdReady

FdBecomesReady(f) ==
  /\ f \notin fdReady
  /\ fdReady' = fdReady \cup {f}
  /\ readyList' = Listed(f, armed)
  /\ UNCHANGED <<loopVars, callbacks, interest, armed, signalled, queue, batch,
                 running, coroState>>

-----------------------------------------------------------------------------
(* EPoll::add and EPoll::remove.  Both keep the map and the kernel in step. *)

Registered(h) == callbacks[h] # None

Add(h, callback) ==
  /\ callbacks' = [callbacks EXCEPT ![h] = callback]
  /\ interest' = interest \cup {h}
  /\ armed' = armed \cup {h}

Remove(h) ==
  /\ callbacks' = [callbacks EXCEPT ![h] = None]
  /\ interest' = interest \ {h}
  /\ armed' = armed \ {h}

-----------------------------------------------------------------------------
(* Scheduler::_schedule_queue_drain and its callers. *)

\* Registers the drain callback unless it is registered, then pings.
ScheduleQueueDrain ==
  /\ IF Registered(EventFd)
     THEN UNCHANGED <<callbacks, interest, armed>>
     ELSE Add(EventFd, "drain")
  /\ signalled' = TRUE
  /\ readyList' = Listed(EventFd, armed')

\* A slip: the drain in progress is trusted to find the new entry.
AddToQueueTrustsDrain(c) ==
  /\ Len(queue) < QueueSize
  /\ queue' = Append(queue, c)
  /\ IF pc = "drain" THEN UNCHANGED epollVars ELSE ScheduleQueueDrain

\* _add_to_queue when the queue has room.
AddToQueue(c) ==
  /\ Len(queue) < QueueSize
  /\ queue' = Append(queue, c)
  /\ ScheduleQueueDrain

\* schedule(coroutine_handle), schedule(Task) and a promise's _schedule_task,
\* from the host program or from a running coroutine.
Schedule(c) ==
  /\ UserCode
  /\ coroState[c] \in {"new", "parked"}
  /\ AddToQueue(c)
  /\ coroState' = [coroState EXCEPT ![c] = "queued"]
  /\ UNCHANGED <<loopVars, batch, fdReady, running>>

\* A slip: stop cancels the drain that may be in the event buffer.
StopCancelsDrain ==
  /\ UserCode
  /\ continuePolling' = FALSE
  /\ Remove(EventFd)
  /\ UNCHANGED <<pc, todo, readyList, signalled, queue, batch, fdReady, running,
                 coroState>>

Stop ==
  /\ UserCode
  /\ continuePolling' = FALSE
  /\ ScheduleQueueDrain
  /\ UNCHANGED <<pc, todo, queue, batch, fdReady, running, coroState>>

-----------------------------------------------------------------------------
(* What a resumed coroutine does before it gives control back. *)

\* Coroutine c is suspended and control returns to whoever resumed it.
Suspends(c, state) ==
  /\ running = c
  /\ running' = None
  /\ coroState' = [coroState EXCEPT ![c] = state]

\* co_await next_tick()
NextTick(c) ==
  /\ Suspends(c, "queued")
  /\ AddToQueue(c)
  /\ UNCHANGED <<loopVars, batch, fdReady>>

\* co_await fd_readable(f) or fd_writable(f)
AwaitFd(c, f) ==
  /\ ~Registered(f)
  /\ Suspends(c, "fdwait")
  /\ Add(f, c)
  /\ readyList' = IF f \in fdReady THEN Listed(f, armed') ELSE readyList
  /\ UNCHANGED <<loopVars, signalled, queue, batch, fdReady>>

\* co_await of a future or of anything else that hands the handle to someone
\* who schedules it later.
Park(c) ==
  /\ Suspends(c, "parked")
  /\ UNCHANGED <<loopVars, epollVars, queue, batch, fdReady>>

Finish(c) ==
  /\ Suspends(c, "done")
  /\ UNCHANGED <<loopVars, epollVars, queue, batch, fdReady>>

\* The coroutine reads (or fills) descriptor f until it is not ready any more;
\* a stale entry stays on the kernel's list.
ReadFd(f) ==
  /\ running # None
  /\ f \in fdReady
  /\ fdReady' = fdReady \ {f}
  /\ UNCHANGED <<loopVars, epollVars, queue, batch, running, coroState>>

-----------------------------------------------------------------------------
(* Scheduler::run and EPoll::_wait. *)

HasPendingItems == \E h \in Handle : Registered(h)

Run ==
  /\ pc = "idle"
  /\ pc' = "check"
  /\ continuePolling' = TRUE
  /\ UNCHANGED <<todo, epollVars, queue, batch, fdReady, running, coroState>>

\* A slip: the loop's condition forgets what is still pending.
RunReturnsEarly ==
  /\ pc = "check"
  /\ ~continuePolling \/ ~\E f \in Fd : Registered(f)
  /\ pc' = "idle"
  /\ UNCHANGED <<continuePolling, todo, epollVars, queue, batch, fdReady,
                 running, coroState>>

RunReturns ==
  /\ pc = "check"
  /\ ~continuePolling \/ ~HasPendingItems
  /\ pc' = "idle"
  /\ UNCHANGED <<continuePolling, todo, epollVars, queue, batch, fdReady,
                 running, coroState>>

\* A slip: the flag is not checked.
EnterWaitIgnoresStop ==
  /\ pc = "check"
  /\ HasPendingItems
  /\ pc' = "wait"
  /\ UNCHANGED <<continuePolling, todo, epollVars, queue, batch, fdReady,
                 running, coroState>>

EnterWait ==
  /\ pc = "check"
  /\ continuePolling /\ HasPendingItems
  /\ pc' = "wait"
  /\ UNCHANGED <<continuePolling, todo, epollVars, queue, batch, fdReady,
                 running, coroState>>

\* epoll_wait moves the next handle of the ready list that is still ready into
\* the event buffer and, all registrations being one-shot, disarms it.
CollectEvent ==
  /\ pc = "wait"
  /\ Len(batch) < EventBufferSize
  /\ readyList # <<>>
  /\ readyList' = Tail(readyList)
  /\ IF IsReady(Head(readyList))
     THEN /\ batch' = Append(batch, Head(readyList))
          /\ armed' = armed \ {Head(readyList)}
     ELSE UNCHANGED <<batch, armed>>
  /\ UNCHANGED <<loopVars, callbacks, interest, signalled, queue, fdReady,
                 running, coroState>>

WaitReturns ==
  /\ pc = "wait"
  /\ batch # <<>>
  /\ Len(batch) = EventBufferSize \/ readyList = <<>>
  /\ pc' = "dispatch"
  /\ UNCHANGED <<continuePolling, todo, epollVars, queue, batch, fdReady,
                 running, coroState>>

Dispatching == pc = "dispatch" /\ running = None /\ batch # <<>>

Resume(c) ==
  /\ running' = c
  /\ coroState' = [coroState EXCEPT ![c] = "running"]

\* An exception leaves EPoll::_wait and Scheduler::run: the rest of the event
\* buffer and of the drain's loop is forgotten.
Unwind ==
  /\ pc' = "idle"
  /\ batch' = <<>>
  /\ todo' = 0
  /\ running' = None
  /\ UNCHANGED continuePolling

\* A slip: the callback runs before its registration is removed, so the
\* registration it makes while it runs is the one that goes.
DispatchCoroutineKeeps ==
  /\ Dispatching
  /\ LET h == Head(batch) IN
     /\ callbacks[h] \in Coro
     /\ Resume(callbacks[h])
  /\ batch' = Tail(batch)
  /\ UNCHANGED <<loopVars, epollVars, queue, fdReady>>

\* A one-shot event of a descriptor: the registration is removed, then the
\* coroutine is resumed.
DispatchCoroutine ==
  /\ Dispatching
  /\ LET h == Head(batch) IN
     /\ callbacks[h] \in Coro
     /\ Remove(h)
     /\ Resume(callbacks[h])
  /\ batch' = Tail(batch)
  /\ UNCHANGED <<loopVars, readyList, signalled, queue, fdReady>>

\* The eventfd's event: the drain callback clears the counter and fixes how
\* many coroutines it will resume.
DispatchDrain ==
  /\ Dispatching
  /\ Head(batch) = EventFd
  /\ callbacks[EventFd] = "drain"
  /\ Remove(EventFd)
  /\ signalled
  /\ signalled' = FALSE
  /\ todo' = Len(queue)
  /\ pc' = "drain"
  /\ batch' = Tail(batch)
  /\ UNCHANGED <<continuePolling, readyList, queue, fdReady, running, coroState>>

WaitDone ==
  /\ pc = "dispatch" /\ running = None /\ batch = <<>>
  /\ pc' = "check"
  /\ UNCHANGED <<continuePolling, todo, epollVars, queue, batch, fdReady,
                 running, coroState>>

DrainMore == todo > 0 /\ queue # <<>>

\* A slip: the newest coroutine is resumed first.
DrainResumeNewest ==
  /\ pc = "drain" /\ running = None
  /\ DrainMore
  /\ todo' = todo - 1
  /\ queue' = SubSeq(queue, 1, Len(queue) - 1)
  /\ Resume(queue[Len(queue)])
  /\ UNCHANGED <<pc, continuePolling, epollVars, batch, fdReady>>

\* A slip: the drain goes on for as long as coroutines are queued.
DrainResumeUncounted ==
  /\ pc = "drain" /\ running = None
  /\ DrainMore
  /\ queue' = Tail(queue)
  /\ Resume(Head(queue))
  /\ UNCHANGED <<pc, continuePolling, epollVars, todo, batch, fdReady>>

DrainResume ==
  /\ pc = "drain" /\ running = None
  /\ DrainMore
  /\ todo' = todo - 1
  /\ queue' = Tail(queue)
  /\ Resume(Head(queue))
  /\ UNCHANGED <<pc, continuePolling, epollVars, batch, fdReady>>

DrainDone ==
  /\ pc = "drain" /\ running = None
  /\ ~DrainMore
  /\ pc' = "dispatch"
  /\ todo' = 0
  /\ UNCHANGED <<continuePolling, epollVars, queue, batch, fdReady, running,
                 coroState>>

-----------------------------------------------------------------------------

Loop ==
  \/ RunReturns
  \/ EnterWait
  \/ CollectEvent
  \/ WaitReturns
  \/ DispatchCoroutine
  \/ DispatchDrain
  \/ WaitDone
  \/ DrainResume
  \/ DrainDone

CoroutineSuspends ==
  \E c \in Coro :
    \/ NextTick(c)
    \/ \E f \in Fd : AwaitFd(c, f)
    \/ Park(c)
    \/ Finish(c)

User ==
  \/ Run
  \/ Stop
  \/ \E c \in Coro : Schedule(c)
  \/ \E f \in Fd : ReadFd(f)

Next ==
  \/ Loop
  \/ CoroutineSuspends
  \/ User
  \/ \E f \in Fd : FdBecomesReady(f)

\* The loop keeps executing and coroutines are cooperative: one that has been
\* resumed eventually suspends or ends.  Nothing is assumed of descriptors or of
\* the host program.
Fairness == WF_vars(Loop) /\ WF_vars(CoroutineSuspends)

Spec == Init /\ [][Next]_vars /\ Fairness

\* A coroutine that returns a Future ends while the queue is full: set_value
\* has claimed the promise when scheduling the awaiter throws, so the promise's
\* unhandled_exception throws as well and the exception leaves resume, the
\* callback and run.
CompletionThrows(c) ==
  /\ running = c
  /\ Len(queue) = QueueSize
  /\ \E w \in Coro : coroState[w] = "parked"
  /\ coroState' = [coroState EXCEPT ![c] = "done"]
  /\ Unwind
  /\ UNCHANGED <<epollVars, queue, fdReady>>

NextWithErrors ==
  \/ Next
  \/ \E c \in Coro : CompletionThrows(c)

SpecWithErrors == Init /\ [][NextWithErrors]_vars

-----------------------------------------------------------------------------

\* Type invariant.
TypeOK ==
  /\ pc \in {"idle", "check", "wait", "dispatch", "drain"}
  /\ continuePolling \in BOOLEAN
  /\ queue \in Seq(Coro) /\ Len(queue) <= QueueSize
  /\ todo \in Nat
  /\ callbacks \in [Handle -> Coro \cup {"drain", None}]
  /\ callbacks[EventFd] \notin Coro
  /\ \A f \in Fd : callbacks[f] # "drain"
  /\ interest \subseteq Handle
  /\ armed \subseteq interest
  /\ readyList \in Seq(Handle)
  /\ batch \in Seq(Handle) /\ Len(batch) <= EventBufferSize
  /\ signalled \in BOOLEAN
  /\ fdReady \subseteq Fd
  /\ running \in Coro \cup {None}
  /\ coroState \in [Coro -> CoroStates]

\* The callbacks map and the kernel's interest list name the same handles.
MapMatchesKernel == interest = {h \in Handle : Registered(h)}

\* The internal errors of the loop never happen: every event in the buffer,
\* however long ago epoll_wait returned it and whatever the coroutines resumed
\* since have registered, still has its callback, and the eventfd can be read.
EventsHaveCallbacks ==
  /\ \A h \in Handle : In(h, batch) => Registered(h)
  /\ In(EventFd, batch) => signalled

\* A coroutine is never resumable from two places, nor while it runs or after
\* it ended: what the loop resumes is suspended, and suspended on just that.
ResumesOnlySuspended ==
  /\ Distinct(queue)
  /\ \A c \in Coro : In(c, queue) => coroState[c] = "queued"
  /\ \A f \in Fd : Registered(f) => coroState[callbacks[f]] = "fdwait"
  /\ \A f, g \in Fd : Registered(f) /\ callbacks[f] = callbacks[g] => f = g

\* A registered handle whose event has happened is on its way to be dispatched.
OnItsWay(h) == In(h, readyList) \/ In(h, batch)

\* "Wakeup is already scheduled": when the drain callback is registered, the
\* loop is going to run it.
WakeupIsScheduled == Registered(EventFd) => signalled /\ OnItsWay(EventFd)

\* No lost wakeup: a queued coroutine that the drain loop in progress will not
\* reach has a drain registered for it, and a descriptor that is ready while a
\* coroutine waits on it is going to be reported.
NoLostWakeup ==
  /\ Len(queue) > todo => Registered(EventFd)
  /\ \A f \in Fd : Registered(f) /\ f \in fdReady => OnItsWay(f)

\* run "Runs the event loop until it is empty or stop is called": it returns
\* only after a stop or when no coroutine is queued or waits on a descriptor.
RunReturnsWhenDone ==
  [][pc = "check" /\ pc' = "idle" =>
       \/ ~continuePolling
       \/ \A c \in Coro : coroState[c] \notin {"queued", "fdwait"}]_vars

\* A queued coroutine is resumed unless run returns first.
QueuedIsResumed ==
  \A c \in Coro :
    (pc # "idle" /\ coroState[c] = "queued")
      ~> (pc = "idle" \/ coroState[c] # "queued")

\* "prevent starvation of epoll": a coroutine whose descriptor stays ready is
\* resumed, even while others yield with next_tick for ever.
EpollNotStarved ==
  \A f \in Fd :
    (pc # "idle" /\ Registered(f) /\ f \in fdReady)
      ~> (pc = "idle" \/ ~Registered(f) \/ f \notin fdReady)

\* A stop from inside the loop makes run return.
StopEndsRun == (pc # "idle" /\ ~continuePolling) ~> (pc = "idle")

-----------------------------------------------------------------------------
(* The inductive invariant behind the safety properties. *)

\* Who is in control, and what is left over when the loop is between steps.
ControlInv ==
  /\ pc \in {"idle", "check", "wait"} => running = None
  /\ pc \in {"idle", "check"} => batch = <<>>
  /\ todo > 0 => pc = "drain"
  /\ todo <= Len(queue)
  /\ \A c \in Coro : coroState[c] = "running" <=> running = c

\* A one-shot registration is armed until it is reported and reported once:
\* what is listed is armed, what is in the event buffer is not.
OneShotInv ==
  /\ Distinct(readyList)
  /\ \A h \in Handle : In(h, readyList) => h \in armed
  /\ Distinct(batch)
  /\ \A h \in Handle : In(h, batch) => h \notin armed
  /\ \A h \in Handle : Registered(h) => h \in armed \/ In(h, batch)

\* A coroutine that is suspended on the queue or on a descriptor is there.
SuspendedInv ==
  /\ \A c \in Coro : coroState[c] = "queued" => In(c, queue)
  /\ \A c \in Coro : coroState[c] = "fdwait" => \E f \in Fd : callbacks[f] = c

IndInv ==
  /\ TypeOK
  /\ MapMatchesKernel
  /\ EventsHaveCallbacks
  /\ ResumesOnlySuspended
  /\ WakeupIsScheduled
  /\ NoLostWakeup
  /\ ControlInv
  /\ OneShotInv
  /\ SuspendedInv
=============================================================================
