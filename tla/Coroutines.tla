----------------------------- MODULE Coroutines -----------------------------
(***************************************************************************)
(* Coroutines on one scheduler: lw::co::Task and task_completion           *)
(* (lw/co/task.h, await.h), sleep_for and sleep_until (lw/co/time.{h,cpp}) *)
(* and one lw::co::AsyncGenerator (lw/co/generator.h) with its consumer.   *)
(* What a body does next is any of these operations.                       *)
(*                                                                         *)
(* The scheduler is the queue and the callbacks of Scheduler.tla, and the  *)
(* promise of the generator behaves as in FuturePromise.tla.  The queue    *)
(* does not fill up here.                                                  *)
(***************************************************************************)
EXTENDS Integers, Sequences, SequencesExt, FiniteSets, FiniteSetsExt

CONSTANTS Task,      \* the tasks
          Consumer,  \* the one that creates the generator and asks for its values
          Gen,       \* the generator's coroutine
          Duration,  \* what is slept for; negative when sleep_until is late
          MaxSteps,  \* bound: operations of the bodies
          MaxTime,   \* bound: the clock
          None

ASSUME ConsumerAssumption == Consumer \in Task /\ Gen \notin Task /\ None \notin Task \cup {Gen}
ASSUME BoundsAssumption == MaxSteps \in Nat /\ MaxTime \in Nat /\ Duration \subseteq Int

VARIABLES
  stack,    \* the coroutines being resumed, the one that runs last
  queue,    \* Scheduler::_coro_queue
  task,     \* what has become of every task
  awaits,   \* the child whose completion a task awaits
  callback, \* TaskPromise::State::callback, as the task it schedules
  now,      \* the clock
  timer,    \* the open timer descriptors: when they expire, or Never
  watched,  \* EPoll's callbacks for them: the task that is resumed
  gen,      \* the generator: its state, done and the `next` promise
  steps,    \* operations done
  crashed   \* an exception left the scheduler, or the program was terminated

timeVars == <<now, timer, watched>>
taskVars == <<task, awaits, callback>>
vars == <<stack, queue, taskVars, timeVars, gen, steps, crashed>>

Never == -1

Running == IF stack = <<>> \/ crashed THEN None ELSE Last(stack)
Leave == stack' = Front(stack)
Step == steps < MaxSteps /\ steps' = steps + 1

Runs(t) == Running = t /\ t \in Task

Init ==
  /\ stack = <<>> /\ queue = <<>>
  /\ task = [t \in Task |-> "new"] /\ awaits = [t \in Task |-> None]
  /\ callback = [t \in Task |-> None]
  /\ now = 0 /\ timer = [fd \in {} |-> 0] /\ watched = [fd \in {} |-> None]
  /\ gen = [state |-> "none", done |-> FALSE, next |-> "unset"]
  /\ steps = 0 /\ crashed = FALSE

-----------------------------------------------------------------------------
(* The scheduler. *)

\* Scheduler::schedule of a task that has not been started.
Start(t) ==
  /\ stack = <<>> /\ ~crashed /\ task[t] = "new"
  /\ task' = [task EXCEPT ![t] = "queued"] /\ queue' = Append(queue, t)
  /\ UNCHANGED <<stack, awaits, callback, timeVars, gen, steps, crashed>>

\* The queue is drained one coroutine at a time.
Resume ==
  /\ stack = <<>> /\ ~crashed /\ queue # <<>>
  /\ stack' = <<Head(queue)>> /\ queue' = Tail(queue)
  /\ IF Head(queue) = Gen
     THEN /\ gen' = [gen EXCEPT !.state = IF @ = "throwing" THEN "raising" ELSE "running"]
          /\ UNCHANGED <<task, awaits>>
     ELSE /\ task' = [task EXCEPT ![Head(queue)] = "running"]
          /\ awaits' = [awaits EXCEPT ![Head(queue)] = None]
          /\ UNCHANGED gen
  /\ UNCHANGED <<callback, timeVars, steps, crashed>>

Tick ==
  /\ stack = <<>> /\ now < MaxTime
  /\ now' = now + 1
  /\ UNCHANGED <<stack, queue, taskVars, timer, watched, gen, steps, crashed>>

Without(f, k) == [n \in DOMAIN f \ {k} |-> f[n]]

\* A slip: the callback of a timer that fired is kept.
FireAgain(fd) ==
  /\ stack = <<>> /\ ~crashed /\ fd \in DOMAIN watched
  /\ timer[fd] # Never /\ timer[fd] <= now
  /\ stack' = <<watched[fd]>>
  /\ task' = [task EXCEPT ![watched[fd]] = "running"]
  /\ timer' = Without(timer, fd)
  /\ UNCHANGED <<queue, awaits, callback, now, watched, gen, steps, crashed>>

\* The one shot of a timer, and await_resume closing it.
Fire(fd) ==
  /\ stack = <<>> /\ ~crashed /\ fd \in DOMAIN watched
  /\ timer[fd] # Never /\ timer[fd] <= now
  /\ stack' = <<watched[fd]>>
  /\ task' = [task EXCEPT ![watched[fd]] = "running"]
  /\ timer' = Without(timer, fd) /\ watched' = Without(watched, fd)
  /\ UNCHANGED <<queue, awaits, callback, now, gen, steps, crashed>>

-----------------------------------------------------------------------------
(* Operations of a task that runs. *)

\* An exception no body catches: ~Task would terminate, but the task is not destroyed.
Fail(t) ==
  /\ task' = [task EXCEPT ![t] = "failed"]
  /\ Leave

NextTick(t) ==
  /\ Runs(t) /\ Step
  /\ task' = [task EXCEPT ![t] = "queued"] /\ queue' = Append(queue, t)
  /\ Leave
  /\ UNCHANGED <<awaits, callback, timeVars, gen, crashed>>

\* When a timer that is created now expires: zero disarms it, and a negative duration is
\* an error that leaves it open.
CreateTimerfd(d) == IF d > 0 THEN now + d ELSE Never

\* SuspendFor::await_suspend on the lowest free descriptor.
Sleep(t, d) ==
  /\ Runs(t) /\ Step /\ now + d <= MaxTime
  /\ \E fd \in {Min(1..(Cardinality(DOMAIN timer) + 1) \ DOMAIN timer)} :
       /\ timer' = [n \in DOMAIN timer \cup {fd} |->
                      IF n = fd THEN CreateTimerfd(d) ELSE timer[n]]
       /\ IF d < 0 \/ fd \in DOMAIN watched THEN Fail(t) /\ UNCHANGED watched
          ELSE /\ watched' = [n \in DOMAIN watched \cup {fd} |-> IF n = fd THEN t ELSE watched[n]]
               /\ task' = [task EXCEPT ![t] = "sleeping"] /\ Leave
  /\ UNCHANGED <<queue, awaits, callback, now, gen, crashed>>

\* TaskAwaitable::await_suspend: the child is scheduled with a callback.  That it was not
\* scheduled before is left to the caller, which is taken to see to it.
AwaitTask(t, child) ==
  /\ Runs(t) /\ Step /\ child # t /\ task[child] = "new"
  /\ queue' = Append(queue, child)
  /\ task' = [task EXCEPT ![t] = "awaiting", ![child] = "queued"]
  /\ awaits' = [awaits EXCEPT ![t] = child]
  /\ callback' = [callback EXCEPT ![child] = t]
  /\ Leave /\ UNCHANGED <<timeVars, gen, crashed>>

\* A child that is done is not waited for; if it failed, ~Task rethrows and terminates.
AwaitDone(t, child) ==
  /\ Runs(t) /\ Step /\ child # t /\ task[child] \in {"returned", "failed"}
  /\ crashed' = (task[child] = "failed")
  /\ UNCHANGED <<stack, queue, taskVars, timeVars, gen>>

\* A slip: the callback is not called.
ReturnQuietly(t) ==
  /\ Runs(t)
  /\ task' = [task EXCEPT ![t] = "returned"] /\ Leave
  /\ UNCHANGED <<queue, awaits, callback, timeVars, gen, steps, crashed>>

\* return_void.
Return(t) ==
  /\ Runs(t)
  /\ task' = [task EXCEPT ![t] = "returned"] /\ Leave
  /\ queue' = (IF callback[t] = None THEN queue ELSE Append(queue, callback[t]))
  /\ UNCHANGED <<awaits, callback, timeVars, gen, steps, crashed>>

\* unhandled_exception: the error is kept and the callback is not called.
Throw(t) ==
  /\ Runs(t) /\ Step /\ Fail(t)
  /\ UNCHANGED <<queue, awaits, callback, timeVars, gen, crashed>>

-----------------------------------------------------------------------------
(* The generator.  Its body starts at once, inside its consumer. *)

CreateGenerator ==
  /\ Runs(Consumer) /\ gen.state = "none" /\ Step
  /\ gen' = [gen EXCEPT !.state = "running"]
  /\ stack' = Append(stack, Gen)
  /\ UNCHANGED <<queue, taskVars, timeVars, crashed>>

\* next(): false at once when done, else a new promise, whatever became of the last one.
GeneratorNext ==
  /\ Runs(Consumer) /\ gen.state # "none" /\ Step
  /\ IF gen.done
     THEN UNCHANGED <<stack, task, gen>>
     ELSE /\ gen' = [gen EXCEPT !.next = "unset"]
          /\ task' = [task EXCEPT ![Consumer] = "nexting"] /\ Leave
  /\ UNCHANGED <<queue, awaits, callback, timeVars, crashed>>

Woken(q) == IF task[Consumer] = "nexting" THEN Append(q, Consumer) ELSE q

\* A slip: the value is set and nobody is woken.
SettlesQuietly(next, g) ==
  /\ gen' = [g EXCEPT !.next = next]
  /\ UNCHANGED queue

\* Promise::set_value: whoever awaits the future is scheduled.
Settles(next, g) ==
  /\ gen' = [g EXCEPT !.next = next]
  /\ queue' = Woken(queue)

\* A promise is set once.  The error of the second time leaves the generator: into the
\* consumer that creates it, or out of the scheduler.
Escapes(g) ==
  /\ gen' = [g EXCEPT !.state = "dead"]
  /\ stack' = <<>>
  /\ crashed' = (Len(stack) = 1)
  /\ task' = (IF Len(stack) > 1 THEN [task EXCEPT ![Consumer] = "failed"] ELSE task)
  /\ UNCHANGED queue

\* co_yield of a value: nothing ever resumes the generator.
YieldValue ==
  /\ Running = Gen /\ gen.state = "running" /\ Step
  /\ IF gen.next = "unset"
     THEN Settles("true", [gen EXCEPT !.state = "yielded"]) /\ Leave /\ UNCHANGED <<task, crashed>>
     ELSE Escapes(gen)
  /\ UNCHANGED <<awaits, callback, timeVars>>

\* co_yield of a future that has its value: the generator goes on.
YieldReadyFuture ==
  /\ Running = Gen /\ gen.state = "running" /\ Step
  /\ IF gen.next = "unset"
     THEN Settles("true", gen) /\ UNCHANGED <<stack, task, crashed>>
     ELSE Escapes(gen)
  /\ UNCHANGED <<awaits, callback, timeVars>>

\* co_await of something, or co_yield of a future that is not ready yet.
GeneratorAwaits(then) ==
  /\ Running = Gen /\ gen.state = "running" /\ Step
  /\ gen' = [gen EXCEPT !.state = then] /\ Leave
  /\ queue' = (IF then = "queued" THEN Append(queue, Gen) ELSE queue)
  /\ UNCHANGED <<taskVars, timeVars, crashed>>

\* The future completes: yield_value goes on, and the generator after the consumer.  A
\* promise already set is an error for the generator.
FutureCompletes ==
  /\ gen.state = "pending" /\ stack = <<>> /\ ~crashed
  /\ IF gen.next = "unset"
     THEN /\ gen' = [gen EXCEPT !.state = "queued", !.next = "true"]
          /\ queue' = Woken(queue) \o <<Gen>>
     ELSE /\ gen' = [gen EXCEPT !.state = "throwing"]
          /\ queue' = Append(queue, Gen)
  /\ UNCHANGED <<stack, taskVars, timeVars, steps, crashed>>

\* return_void.  When its set_value fails, so does set_exception.
GeneratorReturns ==
  /\ Running = Gen /\ gen.state = "running"
  /\ IF gen.next = "unset"
     THEN Settles("false", [gen EXCEPT !.state = "dead", !.done = TRUE]) /\ Leave /\ UNCHANGED <<task, crashed>>
     ELSE Escapes([gen EXCEPT !.done = TRUE])
  /\ UNCHANGED <<awaits, callback, timeVars, steps>>

\* unhandled_exception; the generator is gone and not done.
GeneratorThrows ==
  /\ Running = Gen
  /\ \/ gen.state = "raising" /\ UNCHANGED steps
     \/ gen.state = "running" /\ Step
  /\ IF gen.next = "unset"
     THEN Settles("error", [gen EXCEPT !.state = "dead"]) /\ Leave /\ UNCHANGED <<task, crashed>>
     ELSE Escapes(gen)
  /\ UNCHANGED <<awaits, callback, timeVars>>

-----------------------------------------------------------------------------

TaskStep(t) ==
  \/ NextTick(t) \/ Return(t) \/ Throw(t)
  \/ \E d \in Duration : Sleep(t, d)
  \/ \E child \in Task : AwaitTask(t, child) \/ AwaitDone(t, child)

GeneratorStep ==
  \/ YieldValue \/ YieldReadyFuture \/ GeneratorReturns \/ GeneratorThrows
  \/ \E then \in {"queued", "pending"} : GeneratorAwaits(then)

\* Whatever runs goes on until it suspends.
RunningStep == (\E t \in Task : TaskStep(t)) \/ CreateGenerator \/ GeneratorNext \/ GeneratorStep

Next ==
  \/ \E t \in Task : Start(t)
  \/ Resume \/ Tick \/ FutureCompletes \/ RunningStep
  \/ \E fd \in DOMAIN watched : Fire(fd)

\* The loop drains its queue and dispatches its events, a coroutine that runs suspends or
\* ends, time passes, and what a future waits for happens.
Fairness ==
  /\ WF_vars(Resume) /\ WF_vars(RunningStep) /\ WF_vars(Tick) /\ WF_vars(FutureCompletes)
  /\ \A fd \in 1..MaxSteps : WF_vars(Fire(fd))

Spec == Init /\ [][Next]_vars /\ Fairness

-----------------------------------------------------------------------------

\* A descriptor epoll watches is an open timer of a task that sleeps, and no two tasks
\* share one: a number that is used again (time.cpp close_timerfd, await_resume) never
\* meets the callback of an earlier sleep.
TimersBelongToSleepers ==
  /\ \A fd \in DOMAIN watched : fd \in DOMAIN timer /\ task[watched[fd]] = "sleeping"
  /\ \A t \in Task : task[t] = "sleeping" => Cardinality({fd \in DOMAIN watched : watched[fd] = t}) = 1

\* The tasks a task awaits, directly or not, and itself.
Chain(t) ==
  LET reach[n \in Nat] ==
        IF n = 0 THEN {t} ELSE reach[n - 1] \cup ({awaits[c] : c \in reach[n - 1]} \ {None})
  IN reach[Cardinality(Task)]

\* Threw, slept for nothing, or waits for a generator: none of which ends.
Blocked(c) ==
  \/ task[c] \in {"failed", "nexting"}
  \/ \E fd \in DOMAIN watched : watched[fd] = c /\ timer[fd] = Never

\* A task that awaits another goes on once that returned, unless something down the chain
\* of awaited tasks threw or is blocked (task_completion, TaskPromise::return_void).
AwaiterResumes ==
  \A t \in Task :
    (awaits[t] # None) ~> (awaits[t] = None \/ crashed \/ \E c \in Chain(t) : Blocked(c))

\* A consumer that awaits next() is told of a value or of the end, unless it asked when the
\* generator was gone or had yielded a value that is no future, after which nothing
\* resumes it (AsyncGenerator::promise_type).
NextSettles ==
  (task[Consumer] = "nexting") ~>
    (\/ task[Consumer] # "nexting" \/ crashed
     \/ gen.state \in {"yielded", "dead"} /\ gen.next = "unset")
=============================================================================
