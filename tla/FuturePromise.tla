--------------------------- MODULE FuturePromise ---------------------------
(***************************************************************************)
(* lw::co::Promise<T> and Future<T> (lw/co/future.h): the shared state of  *)
(* one promise, the "outer" one, that consumers try to await, and of a     *)
(* second, the "inner" one, that setters try to fulfil.  A coroutine that  *)
(* returns the inner future from the outer one (co_return of a Future)     *)
(* either copies the inner result or chains the inner state to the outer.  *)
(*                                                                         *)
(* Every load and store of the shared state is a step.  In the world       *)
(* "loop" the agents are coroutines of one scheduler, whose queue has room *)
(* for them, and an operation runs to its end before another agent moves;  *)
(* in the world "threads" they are threads, and the queue may be full.     *)
(***************************************************************************)
EXTENDS Naturals, Sequences, FiniteSets

CONSTANTS Setter,        \* agents calling set_value or set_exception
          Consumer,      \* agents calling get_future and awaiting it
          Returner,      \* the coroutine returning the inner future
          World,         \* which of the two worlds are looked at
          None

ASSUME WorldAssumption == World \subseteq {"loop", "threads"}
ASSUME AgentsAssumption ==
  /\ Setter \cap Consumer = {}
  /\ Returner \notin Setter \cup Consumer
  /\ None \notin Setter \cup Consumer \cup {Returner, "inner", "outer"}

State == {"inner", "outer"}
Writer == Setter \cup {Returner}
Agent == Writer \cup Consumer

VARIABLES
  stateSet,         \* SharedPromiseState::state_set
  futureSuspended,  \* future_suspended
  value, exception, \* the setter whose value or exception is stored, or None
  handle,           \* handle (and scheduler) of the awaiting coroutine
  chained,          \* inner.chain_state points to the outer state
  futureObtained,   \* Promise::_future_obtained of the outer promise
  scheduled,        \* handles in the scheduler's queue
  pc,               \* where each agent is
  target,           \* the state a writer reached through chain_state
  outcome,          \* what a writer stores
  sawSet,           \* what await_suspend read from state_set
  got,              \* what a consumer's co_await returned or threw
  world             \* chosen once, see above

vars == <<stateSet, futureSuspended, value, exception, handle, chained,
          futureObtained, scheduled, pc, target, outcome, sawSet, got,
          world>>

sharedVars == <<stateSet, futureSuspended, value, exception, handle, chained>>

Val(s) == [kind |-> "value", by |-> s]
Exn(s) == [kind |-> "exception", by |-> s]
NotSet == [kind |-> "FailedPrecondition", by |-> None]  \* await_resume's throw
Empty  == Val(None)                         \* *value of an empty optional

Init ==
  /\ stateSet = [s \in State |-> FALSE]
  /\ futureSuspended = [s \in State |-> FALSE]
  /\ value = [s \in State |-> None]
  /\ exception = [s \in State |-> None]
  /\ handle = [s \in State |-> None]
  /\ chained = FALSE
  /\ futureObtained = FALSE
  /\ scheduled = <<>>
  /\ pc = [a \in Agent |-> "start"]
  /\ target = [w \in Writer |-> None]
  /\ outcome = [w \in Writer |-> None]
  /\ sawSet = [c \in Consumer |-> FALSE]
  /\ got = [c \in Consumer |-> None]
  /\ world \in World

\* Inside an operation that one thread would finish before anything else runs.
Busy(a) == pc[a] \notin {"start", "obtained", "suspended", "done", "refused", "threw"}

Turn(a) == world = "loop" => \A b \in Agent \ {a} : ~Busy(b)

At(a, here, there) ==
  /\ Turn(a)
  /\ pc[a] = here
  /\ pc' = [pc EXCEPT ![a] = there]
  /\ UNCHANGED world

-----------------------------------------------------------------------------
(* set_value and set_exception. *)

\* _get_state of the inner promise.
SetterWalks(s) ==
  /\ At(s, "start", "claim")
  /\ target' = [target EXCEPT ![s] = IF chained THEN "outer" ELSE "inner"]
  /\ \E o \in {Val(s), Exn(s)} : outcome' = [outcome EXCEPT ![s] = o]
  /\ UNCHANGED <<sharedVars, futureObtained, scheduled, sawSet, got>>

\* A slip: what the exchange returned is ignored.
ClaimStateSetUnchecked(w) ==
  /\ At(w, "claim", "store")
  /\ stateSet' = [stateSet EXCEPT ![target[w]] = TRUE]
  /\ UNCHANGED <<futureSuspended, value, exception, handle, chained,
                 futureObtained, scheduled, target, outcome, sawSet, got>>

\* _claim_state_set: an atomic exchange; the loser's caller gets an exception.
ClaimStateSet(w) ==
  /\ At(w, "claim", IF stateSet[target[w]] THEN "refused" ELSE "store")
  /\ stateSet' = [stateSet EXCEPT ![target[w]] = TRUE]
  /\ UNCHANGED <<futureSuspended, value, exception, handle, chained,
                 futureObtained, scheduled, target, outcome, sawSet, got>>

StoreOutcome(w) ==
  /\ At(w, "store", "wake")
  /\ IF outcome[w].kind = "value"
     THEN value' = [value EXCEPT ![target[w]] = outcome[w].by] /\ UNCHANGED exception
     ELSE exception' = [exception EXCEPT ![target[w]] = outcome[w].by] /\ UNCHANGED value
  /\ UNCHANGED <<stateSet, futureSuspended, handle, chained, futureObtained,
                 scheduled, target, outcome, sawSet, got>>

\* _schedule_task; a full queue throws into the setter's caller.
ScheduleTask(w) ==
  /\ \/ /\ At(w, "wake", "done")
        /\ scheduled' = IF futureSuspended[target[w]]
                        THEN Append(scheduled, handle[target[w]])
                        ELSE scheduled
     \/ /\ world = "threads"
        /\ At(w, "wake", "threw")
        /\ futureSuspended[target[w]]
        /\ UNCHANGED scheduled
  /\ UNCHANGED <<sharedVars, futureObtained, target, outcome, sawSet, got>>

-----------------------------------------------------------------------------
(* return_value(Future<T>&&): the outer coroutine returns the inner future. *)

\* A slip: only the value is copied.
InnerValue == Val(value["inner"])

InnerResult ==
  IF exception["inner"] # None THEN Exn(exception["inner"]) ELSE Val(value["inner"])

ReturnChecks ==
  /\ IF stateSet["inner"]
     THEN /\ At(Returner, "start", "claim")
          /\ target' = [target EXCEPT ![Returner] = "outer"]
          /\ outcome' = [outcome EXCEPT ![Returner] = InnerResult]
     ELSE /\ At(Returner, "start", "chain")
          /\ UNCHANGED <<target, outcome>>
  /\ UNCHANGED <<sharedVars, futureObtained, scheduled, sawSet, got>>

\* A slip: the unfinished inner future is dropped.
ReturnDrops ==
  /\ At(Returner, "chain", "done")
  /\ UNCHANGED <<sharedVars, futureObtained, scheduled, target, outcome, sawSet, got>>

ReturnChains ==
  /\ At(Returner, "chain", "done")
  /\ chained' = TRUE
  /\ UNCHANGED <<stateSet, futureSuspended, value, exception, handle,
                 futureObtained, scheduled, target, outcome, sawSet, got>>

-----------------------------------------------------------------------------
(* get_future and co_await of the outer future. *)

\* A slip: every caller gets a future.
GetFutureAgain(c) ==
  /\ At(c, "start", "obtained")
  /\ UNCHANGED <<sharedVars, futureObtained, scheduled, target, outcome, sawSet, got>>

GetFuture(c) ==
  /\ At(c, "start", IF futureObtained THEN "refused" ELSE "obtained")
  /\ futureObtained' = TRUE
  /\ UNCHANGED <<sharedVars, scheduled, target, outcome, sawSet, got>>

AwaitReady(c) ==
  /\ At(c, "obtained", IF stateSet["outer"] THEN "resume" ELSE "record")
  /\ UNCHANGED <<sharedVars, futureObtained, scheduled, target, outcome, sawSet, got>>

\* await_suspend, the stores of scheduler and handle ...
RecordHandle(c) ==
  /\ At(c, "record", "test")
  /\ handle' = [handle EXCEPT !["outer"] = c]
  /\ UNCHANGED <<stateSet, futureSuspended, value, exception, chained,
                 futureObtained, scheduled, target, outcome, sawSet, got>>

\* ... the load of state_set ...
TestStateSet(c) ==
  /\ At(c, "test", "mark")
  /\ sawSet' = [sawSet EXCEPT ![c] = stateSet["outer"]]
  /\ UNCHANGED <<sharedVars, futureObtained, scheduled, target, outcome, got>>

\* A slip: the future counts as suspended even when the coroutine goes on.
MarkSuspendedAlways(c) ==
  /\ At(c, "mark", IF sawSet[c] THEN "resume" ELSE "suspended")
  /\ futureSuspended' = [futureSuspended EXCEPT !["outer"] = TRUE]
  /\ UNCHANGED <<stateSet, value, exception, handle, chained, futureObtained,
                 scheduled, target, outcome, sawSet, got>>

\* ... and the store of its negation in future_suspended.
MarkSuspended(c) ==
  /\ At(c, "mark", IF sawSet[c] THEN "resume" ELSE "suspended")
  /\ futureSuspended' = [futureSuspended EXCEPT !["outer"] = ~sawSet[c]]
  /\ UNCHANGED <<stateSet, value, exception, handle, chained, futureObtained,
                 scheduled, target, outcome, sawSet, got>>

\* The scheduler resumes the oldest handle of its queue (external: Scheduler).
SchedulerResumes ==
  /\ scheduled # <<>>
  /\ At(Head(scheduled), "suspended", "resume")
  /\ scheduled' = Tail(scheduled)
  /\ UNCHANGED <<sharedVars, futureObtained, target, outcome, sawSet, got>>

AwaitResume(c) ==
  /\ At(c, "resume", "done")
  /\ got' = [got EXCEPT ![c] =
       IF ~stateSet["outer"] THEN NotSet
       ELSE IF exception["outer"] # None THEN Exn(exception["outer"])
       ELSE Val(value["outer"])]
  /\ UNCHANGED <<sharedVars, futureObtained, scheduled, target, outcome, sawSet>>

-----------------------------------------------------------------------------

WriterStep(w) ==
  \/ w \in Setter /\ SetterWalks(w)
  \/ w = Returner /\ (ReturnChecks \/ ReturnChains)
  \/ ClaimStateSet(w)
  \/ StoreOutcome(w)
  \/ ScheduleTask(w)

ConsumerStep(c) ==
  \/ GetFuture(c)
  \/ AwaitReady(c)
  \/ RecordHandle(c)
  \/ TestStateSet(c)
  \/ MarkSuspended(c)
  \/ AwaitResume(c)

Next ==
  \/ \E w \in Writer : WriterStep(w)
  \/ \E c \in Consumer : ConsumerStep(c)
  \/ SchedulerResumes

\* Whoever started an operation finishes it, and the scheduler keeps running;
\* nobody has to start one.
Fairness ==
  /\ \A w \in Writer : WF_vars(pc[w] # "start" /\ WriterStep(w))
  /\ \A c \in Consumer : WF_vars(pc[c] # "start" /\ ConsumerStep(c))
  /\ WF_vars(SchedulerResumes)

Spec == Init /\ [][Next]_vars /\ Fairness

-----------------------------------------------------------------------------

Outcomes == {Val(s) : s \in Setter} \cup {Exn(s) : s \in Setter} \cup {Empty}

\* Type invariant.
TypeOK ==
  /\ stateSet \in [State -> BOOLEAN]
  /\ futureSuspended \in [State -> BOOLEAN]
  /\ value \in [State -> Setter \cup {None}]
  /\ exception \in [State -> Setter \cup {None}]
  /\ handle \in [State -> Consumer \cup {None}]
  /\ chained \in BOOLEAN
  /\ futureObtained \in BOOLEAN
  /\ scheduled \in Seq(Consumer)
  /\ pc \in [Agent -> {"start", "claim", "store", "wake", "chain", "obtained",
                       "record", "test", "mark", "suspended", "resume", "done",
                       "refused", "threw"}]
  /\ target \in [Writer -> State \cup {None}]
  /\ outcome \in [Writer -> Outcomes \cup {None}]
  /\ sawSet \in [Consumer -> BOOLEAN]
  /\ got \in [Consumer -> Outcomes \cup {NotSet, None}]
  /\ world \in World

\* A state is written by one setter only, however the calls of several setters
\* and of the returning coroutine interleave: nobody's value or exception is
\* overwritten and no state holds both.
WrittenOnce ==
  \A s \in State :
    /\ Cardinality({w \in Writer : target[w] = s /\ pc[w] \in {"store", "wake", "done", "threw"}}) <= 1
    /\ ~(value[s] # None /\ exception[s] # None)

\* The coroutine handle is put into the scheduler's queue at most once, and only
\* while that coroutine is suspended: it is never resumed while it runs.
ResumedOnce ==
  /\ Len(scheduled) <= 1
  /\ \A i \in 1 .. Len(scheduled) : pc[scheduled[i]] = "suspended"

\* On one scheduler a co_await returns what the winning setter stored, never an
\* empty optional and never the "before state is set" error.
AwaitGetsTheResult ==
  world = "loop" => \A c \in Consumer :
    pc[c] = "done" => \E s \in Setter : got[c] \in {Val(s), Exn(s)}

\* On one scheduler, once the state is set and its setter has returned, a
\* suspended awaiter is on the scheduler's queue.
NoLostWakeup ==
  (world = "loop" /\ stateSet["outer"] /\ \A w \in Writer : pc[w] \in {"start", "done", "refused"})
    => \A c \in Consumer : pc[c] = "suspended" => \E i \in 1 .. Len(scheduled) : scheduled[i] = c

\* Promises are kept on one scheduler: when a setter has been accepted and the outer coroutine
\* has returned the inner future, whoever awaits the outer future gets a result.
AwaiterIsResumed ==
  \A c \in Consumer :
    (/\ world = "loop"
     /\ pc[c] = "suspended"
     /\ pc[Returner] \in {"done", "refused", "threw"}
     /\ \E s \in Setter : pc[s] \in {"done", "threw"}) ~> (pc[c] = "done")
=============================================================================
