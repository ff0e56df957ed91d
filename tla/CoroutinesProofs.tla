-------------------------- MODULE CoroutinesProofs --------------------------
(***************************************************************************)
(* TimersBelongToSleepers for any number of tasks, any durations and any   *)
(* number of steps.                                                        *)
(*                                                                         *)
(* A descriptor can only be used again by mistake if a task is resumed     *)
(* that sleeps, so the invariant says who may be resumed: QueueInv that    *)
(* what is in the queue is there once and for a reason, StackInv what is   *)
(* being resumed, AwaitInv that a callback belongs to a task that awaits,  *)
(* and TimerInv that the callbacks of EPoll are those of the sleepers.     *)
(***************************************************************************)
EXTENDS Coroutines, FiniteSetTheorems, SequenceTheorems, WellFoundedInduction, TLAPS

In(x, s) == \E i \in 1 .. Len(s) : s[i] = x
Distinct(s) == \A i, j \in 1 .. Len(s) : s[i] = s[j] => i = j

Coroutine == Task \cup {Gen}

Types ==
  /\ queue \in Seq(Coroutine)
  /\ task \in [Task -> {"new", "queued", "running", "sleeping", "awaiting", "nexting",
                        "returned", "failed"}]
  /\ awaits \in [Task -> Task \cup {None}]
  /\ callback \in [Task -> Task \cup {None}]
  /\ gen \in [state : {"none", "running", "raising", "queued", "pending", "throwing",
                       "yielded", "dead"},
              done : BOOLEAN, next : {"unset", "true", "false", "error"}]

\* Whatever is being resumed runs; the generator may run on top of its creator.
StackInv ==
  \/ stack = <<>>
  \/ \E t \in Task : stack = <<t>> /\ task[t] = "running"
  \/ /\ gen.state \in {"running", "raising"}
     /\ stack = <<Gen>> \/ (stack = <<Consumer, Gen>> /\ task[Consumer] = "running")

\* Why a task may be in the queue.
Scheduled(t) ==
  \/ task[t] = "queued"
  \/ task[t] = "awaiting" /\ awaits[t] \in Task /\ task[awaits[t]] = "returned"
  \/ task[t] = "nexting" /\ gen.next # "unset"

QueueInv ==
  /\ Distinct(queue)
  /\ \A t \in Task : In(t, queue) => Scheduled(t)
  /\ In(Gen, queue) => gen.state \in {"queued", "throwing"}

\* A callback not yet called is that of the task that awaits the child.
AwaitInv ==
  /\ \A c \in Task : callback[c] # None /\ task[c] # "returned" =>
       task[callback[c]] = "awaiting" /\ awaits[callback[c]] = c
  /\ \A t \in Task : task[t] = "nexting" => t = Consumer

TimerInv ==
  /\ IsFiniteSet(DOMAIN timer)
  /\ DOMAIN watched \subseteq DOMAIN timer
  /\ watched \in [DOMAIN watched -> Task]
  /\ \A fd \in DOMAIN watched : task[watched[fd]] = "sleeping"
  /\ \A d, e \in DOMAIN watched : watched[d] = watched[e] => d = e
  /\ \A t \in Task : task[t] = "sleeping" => \E fd \in DOMAIN watched : watched[fd] = t

IndInv == Types /\ StackInv /\ QueueInv /\ AwaitInv /\ TimerInv

-----------------------------------------------------------------------------
(* Sequences, stacks and descriptors. *)

\* The queue when a coroutine is added at its end.
LEMMA AppendFacts ==
  ASSUME NEW s \in Seq(Coroutine), NEW e \in Coroutine
  PROVE  /\ Append(s, e) \in Seq(Coroutine)
         /\ \A x : In(x, Append(s, e)) <=> In(x, s) \/ x = e
         /\ Distinct(s) /\ ~In(e, s) => Distinct(Append(s, e))
<1> DEFINE t == Append(s, e)
<1>1. /\ t \in Seq(Coroutine) /\ Len(s) \in Nat /\ Len(t) = Len(s) + 1
      /\ t[Len(s) + 1] = e
      /\ \A i \in 1 .. Len(s) : t[i] = s[i]
  BY AppendProperties
<1> HIDE DEF t
<1>2. \A i \in 1 .. Len(t) : i \in 1 .. Len(s) \/ i = Len(s) + 1
  BY <1>1
<1>3. Len(s) + 1 \in 1 .. Len(t) /\ \A i \in 1 .. Len(s) : i \in 1 .. Len(t)
  BY <1>1
<1>4. \A x : In(x, t) <=> In(x, s) \/ x = e
  BY <1>1, <1>2, <1>3 DEF In
<1>5. Distinct(s) /\ ~In(e, s) => Distinct(t)
  BY <1>1, <1>2 DEF In, Distinct
<1> QED  BY <1>1, <1>4, <1>5 DEF t

\* ... and when its first one is taken.
LEMMA TailFacts ==
  ASSUME NEW s \in Seq(Coroutine), s # <<>>, Distinct(s)
  PROVE  /\ Head(s) \in Coroutine /\ In(Head(s), s)
         /\ Tail(s) \in Seq(Coroutine) /\ Distinct(Tail(s))
         /\ \A x : In(x, Tail(s)) => In(x, s) /\ x # Head(s)
<1> DEFINE t == Tail(s)
<1>1. /\ t \in Seq(Coroutine) /\ Len(s) \in Nat \ {0} /\ Len(t) = Len(s) - 1
      /\ Head(s) = s[1] /\ Head(s) \in Coroutine
      /\ \A i \in 1 .. Len(t) : t[i] = s[i + 1]
  BY HeadTailProperties
<1> HIDE DEF t
<1>2. \A i \in 1 .. Len(t) : i + 1 \in 1 .. Len(s) /\ i + 1 # 1
  BY <1>1
<1>3. 1 \in 1 .. Len(s)
  BY <1>1
<1>4. In(Head(s), s)
  BY <1>1, <1>3 DEF In
<1>5. \A x : In(x, t) => In(x, s) /\ x # Head(s)
  BY <1>1, <1>2, <1>3 DEF In, Distinct
<1>6. \A i, j \in 1 .. Len(t) : t[i] = t[j] => i + 1 = j + 1
  BY <1>1, <1>2 DEF Distinct
<1>7. Distinct(t)
  BY <1>6 DEF Distinct
<1> QED  BY <1>1, <1>4, <1>5, <1>7 DEF t

\* A task that runs is alone on the stack.
LEMMA RunsFacts ==
  ASSUME StackInv, NEW t \in Task, Runs(t)
  PROVE  stack = <<t>> /\ Front(stack) = <<>> /\ task[t] = "running"
<1>1. stack # <<>> /\ Last(stack) = t /\ t # Gen /\ t # None
  BY ConsumerAssumption DEF Runs, Running
<1>2. CASE \E u \in Task : stack = <<u>> /\ task[u] = "running"
  <2>1. PICK u \in Task : stack = <<u>> /\ task[u] = "running"
    BY <1>2
  <2>2. Len(<<u>>) = 1 /\ <<u>>[1] = u
    OBVIOUS
  <2>3. u = t /\ Len(stack) = 1
    BY <1>1, <2>1, <2>2 DEF Last
  <2>4. Front(stack) = <<>>
    BY <2>3, SubSeqEmpty DEF Front
  <2> QED  BY <2>1, <2>3, <2>4
<1>3. CASE stack = <<Gen>> \/ stack = <<Consumer, Gen>>
  BY <1>1, <1>3 DEF Last
<1> QED  BY <1>1, <1>2, <1>3 DEF StackInv

\* The generator runs alone, or within the task that creates it.
LEMMA GenFacts ==
  ASSUME StackInv, Running = Gen
  PROVE  /\ gen.state \in {"running", "raising"}
         /\ \/ stack = <<Gen>> /\ Front(stack) = <<>> /\ Len(stack) = 1
            \/ /\ stack = <<Consumer, Gen>> /\ Front(stack) = <<Consumer>> /\ Len(stack) = 2
               /\ task[Consumer] = "running"
<1>1. stack # <<>> /\ Last(stack) = Gen
  BY ConsumerAssumption DEF Running
<1>2. ASSUME NEW u \in Task, stack = <<u>> PROVE FALSE
  BY <1>1, <1>2, ConsumerAssumption DEF Last
<1>3. CASE stack = <<Gen>>
  <2>1. Len(stack) = 1
    BY <1>3
  <2>2. Front(stack) = <<>>
    BY <2>1, SubSeqEmpty DEF Front
  <2> QED  BY <1>1, <1>2, <1>3, <2>1, <2>2 DEF StackInv
<1>4. CASE stack = <<Consumer, Gen>>
  <2>1. Len(stack) = 2 /\ stack # <<Gen>>
    BY <1>4
  <2>2. Front(stack) = <<Consumer>>
    <3>1. stack \in Seq(Coroutine) /\ stack[1] = Consumer
      BY <1>4, ConsumerAssumption DEF Coroutine
    <3>2. /\ SubSeq(stack, 1, 1) \in Seq(Coroutine) /\ Len(SubSeq(stack, 1, 1)) = 1
          /\ SubSeq(stack, 1, 1)[1] = Consumer
      BY <2>1, <3>1
    <3>3. /\ <<Consumer>> \in Seq(Coroutine) /\ Len(<<Consumer>>) = 1
          /\ <<Consumer>>[1] = Consumer
      BY ConsumerAssumption DEF Coroutine
    <3>4. SubSeq(stack, 1, 1) = <<Consumer>>
      <4>1. \A i \in 1 .. 1 : SubSeq(stack, 1, 1)[i] = <<Consumer>>[i]
        BY <3>2, <3>3
      <4> QED  BY <3>2, <3>3, <4>1, SeqEqual
    <3> QED  BY <2>1, <3>4 DEF Front
  <2> QED  BY <1>1, <1>2, <1>4, <2>1, <2>2 DEF StackInv
<1> QED  BY <1>1, <1>2, <1>3, <1>4 DEF StackInv

\* A set of naturals has a least element.
LEMMA MinFacts ==
  ASSUME NEW S \in SUBSET Nat, S # {}
  PROVE  Min(S) \in S
<1> DEFINE R == OpToRel(<, Nat)
<1>1. IsWellFoundedOn(R, Nat)
  BY NatLessThanWellFounded, Zenon
<1>2. \A x, y \in Nat : x < y => <<x, y>> \in R
  BY DEF OpToRel
<1> HIDE DEF R
<1>3. PICK x \in S : \A y \in S : <<y, x>> \notin R
  BY <1>1, WFMin
<1>4. ASSUME NEW y \in S PROVE x <= y
  <2>1. x \in Nat /\ y \in Nat /\ ~(y < x)
    BY <1>2, <1>3
  <2> QED  BY <2>1
<1> QED  BY <1>4 DEF Min

\* The lowest free descriptor is free.
LEMMA FreeDescriptor ==
  ASSUME NEW S, IsFiniteSet(S)
  PROVE  /\ Min(1 .. (Cardinality(S) + 1) \ S) \notin S
         /\ IsFiniteSet(S \cup {Min(1 .. (Cardinality(S) + 1) \ S)})
<1> DEFINE n == Cardinality(S)
           I == 1 .. (n + 1)
<1>1. n \in Nat
  BY FS_CardinalityType
<1> HIDE DEF n
<1>2. IsFiniteSet(I) /\ Cardinality(I) = n + 1
  BY <1>1, FS_Interval
<1>3. ~(I \subseteq S)
  BY <1>1, <1>2, FS_Subset DEF n
<1>4. I \ S # {} /\ I \ S \in SUBSET Nat
  BY <1>1, <1>3
<1>5. Min(I \ S) \in I \ S
  BY <1>4, MinFacts
<1> QED  BY <1>5, FS_AddElement DEF n

-----------------------------------------------------------------------------
(* The cases of a step. *)

\* The generator settles the promise of next() and suspends, ends or goes on.
GenSettles ==
  /\ Running = Gen /\ gen.next = "unset"
  /\ gen' \in [state : {"running", "yielded", "dead"},
               done : BOOLEAN, next : {"true", "false", "error"}]
  /\ queue' = Woken(queue)
  /\ Leave \/ (UNCHANGED stack /\ gen'.state = "running")
  /\ UNCHANGED <<taskVars, timeVars>>

\* It finds the promise settled, and the error leaves it.
GenEscapes ==
  /\ Running = Gen
  /\ gen' \in [state : {"dead"}, done : BOOLEAN, next : {gen.next}]
  /\ stack' = <<>>
  /\ task' = (IF Len(stack) > 1 THEN [task EXCEPT ![Consumer] = "failed"] ELSE task)
  /\ UNCHANGED <<queue, awaits, callback, timeVars>>

\* A step of the running generator settles the promise of next, or an exception escapes.
LEMMA GenStepFacts ==
  ASSUME Types, YieldValue \/ YieldReadyFuture \/ GeneratorReturns \/ GeneratorThrows
  PROVE  GenSettles \/ GenEscapes
<1>1. CASE YieldValue
  <2>1. CASE gen.next = "unset"
    BY <1>1, <2>1 DEF YieldValue, Settles, GenSettles, Types, taskVars
  <2>2. CASE gen.next # "unset"
    BY <1>1, <2>2 DEF YieldValue, Escapes, GenEscapes, Types, taskVars
  <2> QED  BY <2>1, <2>2
<1>2. CASE YieldReadyFuture
  BY <1>2 DEF YieldReadyFuture, Settles, Escapes, GenSettles, GenEscapes, Types, taskVars
<1>3. CASE GeneratorReturns
  <2>1. CASE gen.next = "unset"
    BY <1>3, <2>1 DEF GeneratorReturns, Settles, GenSettles, Types, taskVars
  <2>2. CASE gen.next # "unset"
    BY <1>3, <2>2 DEF GeneratorReturns, Escapes, GenEscapes, Types, taskVars
  <2> QED  BY <2>1, <2>2
<1>4. CASE GeneratorThrows
  BY <1>4 DEF GeneratorThrows, Settles, Escapes, GenSettles, GenEscapes, Types, taskVars
<1> QED  BY <1>1, <1>2, <1>3, <1>4

\* A task ends with an exception, no timer being watched for it.
Fails(t) == Runs(t) /\ Fail(t) /\ UNCHANGED <<queue, awaits, callback, watched, gen>>

\* A sleep on a descriptor of its own.
FallsAsleep(t, fd) ==
  /\ Runs(t) /\ fd \notin DOMAIN timer
  /\ DOMAIN timer' = DOMAIN timer \cup {fd}
  /\ watched' = [n \in DOMAIN watched \cup {fd} |-> IF n = fd THEN t ELSE watched[n]]
  /\ task' = [task EXCEPT ![t] = "sleeping"] /\ Leave
  /\ UNCHANGED <<queue, awaits, callback, gen>>

\* What happens to the open timers.
Opens == /\ DOMAIN timer \subseteq DOMAIN timer' /\ IsFiniteSet(DOMAIN timer')

\* The descriptor of a new timer is the lowest free one, so it belongs to nobody.
LEMMA SleepFacts ==
  ASSUME TimerInv, NEW t \in Task, NEW d \in Duration, Sleep(t, d)
  PROVE  Opens /\ (Fails(t) \/ \E fd : FallsAsleep(t, fd))
<1> DEFINE fd == Min(1 .. (Cardinality(DOMAIN timer) + 1) \ DOMAIN timer)
<1>1. fd \notin DOMAIN timer /\ IsFiniteSet(DOMAIN timer \cup {fd})
  BY FreeDescriptor DEF TimerInv
<1>2. /\ timer' = [n \in DOMAIN timer \cup {fd} |->
                     IF n = fd THEN CreateTimerfd(d) ELSE timer[n]]
      /\ IF d < 0 \/ fd \in DOMAIN watched THEN Fail(t) /\ UNCHANGED watched
         ELSE /\ watched' = [n \in DOMAIN watched \cup {fd} |-> IF n = fd THEN t ELSE watched[n]]
              /\ task' = [task EXCEPT ![t] = "sleeping"] /\ Leave
      /\ UNCHANGED <<queue, awaits, callback, gen>> /\ Runs(t)
  BY DEF Sleep
<1> HIDE DEF fd
<1>3. Opens
  BY <1>1, <1>2 DEF Opens
<1>4. Fails(t) \/ FallsAsleep(t, fd)
  BY <1>1, <1>2 DEF Fails, FallsAsleep
<1> QED  BY <1>3, <1>4

\* The steps that leave all of this alone.
Quiet == UNCHANGED <<stack, queue, taskVars, timer, watched, gen>>

\* The cases of a step.
LEMMA NextCases ==
  ASSUME IndInv, [Next]_vars
  PROVE  \/ \E t \in Task :
              \/ Start(t) \/ NextTick(t) \/ Return(t)
              \/ Opens /\ (Fails(t) \/ \E fd : FallsAsleep(t, fd))
              \/ \E child \in Task : AwaitTask(t, child)
         \/ Resume \/ (\E fd \in DOMAIN watched : Fire(fd))
         \/ CreateGenerator \/ GeneratorNext \/ GenSettles \/ GenEscapes
         \/ (\E then \in {"queued", "pending"} : GeneratorAwaits(then))
         \/ FutureCompletes \/ Quiet
<1>1. CASE UNCHANGED vars
  BY <1>1 DEF vars, Quiet, timeVars
<1>2. CASE Tick
  BY <1>2 DEF Tick, Quiet
<1>3. ASSUME NEW t \in Task, NEW child \in Task, AwaitDone(t, child) PROVE Quiet
  BY <1>3 DEF AwaitDone, Quiet, timeVars
<1>4. ASSUME NEW t \in Task, Throw(t) PROVE Opens /\ Fails(t)
  BY <1>4 DEF Throw, Opens, Fails, timeVars, IndInv, TimerInv
<1>5. ASSUME NEW t \in Task, NEW d \in Duration, Sleep(t, d)
      PROVE  Opens /\ (Fails(t) \/ \E fd : FallsAsleep(t, fd))
  BY <1>5, SleepFacts DEF IndInv
<1>6. CASE GeneratorStep
  BY <1>6, GenStepFacts DEF GeneratorStep, IndInv
<1> QED  BY <1>1, <1>2, <1>3, <1>4, <1>5, <1>6 DEF Next, RunningStep, TaskStep

-----------------------------------------------------------------------------
(* What the parts of the invariant say of a step. *)

\* Who is in the queue is suspended for one of these reasons.
LEMMA QueuedFacts ==
  ASSUME IndInv, NEW t \in Task, In(t, queue)
  PROVE  Scheduled(t) /\ task[t] \in {"queued", "awaiting", "nexting"}
  BY DEF IndInv, QueueInv, Scheduled

\* The coroutine at the head of the queue.
LEMMA HeadFacts ==
  ASSUME IndInv, queue # <<>>
  PROVE  /\ Head(queue) \in Coroutine /\ In(Head(queue), queue)
         /\ Tail(queue) \in Seq(Coroutine) /\ Distinct(Tail(queue))
         /\ \A x : In(x, Tail(queue)) => In(x, queue) /\ x # Head(queue)
         /\ Head(queue) # Gen =>
              /\ Head(queue) \in Task /\ Scheduled(Head(queue))
              /\ task[Head(queue)] \in {"queued", "awaiting", "nexting"}
<1>1. /\ Head(queue) \in Coroutine /\ In(Head(queue), queue)
      /\ Tail(queue) \in Seq(Coroutine) /\ Distinct(Tail(queue))
      /\ \A x : In(x, Tail(queue)) => In(x, queue) /\ x # Head(queue)
  BY TailFacts DEF IndInv, Types, QueueInv
<1> QED  BY <1>1, QueuedFacts DEF Coroutine

\* A timer that fires is that of a sleeper.
LEMMA FireFacts ==
  ASSUME IndInv, NEW fd \in DOMAIN watched
  PROVE  watched[fd] \in Task /\ task[watched[fd]] = "sleeping" /\ ~In(watched[fd], queue)
<1>1. watched[fd] \in Task /\ task[watched[fd]] = "sleeping"
  BY DEF IndInv, TimerInv
<1> QED  BY <1>1, QueuedFacts

\* An error that leaves the generator changes at most its creator.
LEMMA EscapeFacts ==
  ASSUME IndInv, GenEscapes
  PROVE  /\ gen.state \in {"running", "raising"}
         /\ gen'.next = gen.next
         /\ \A t \in Task :
              task'[t] = task[t] \/ (t = Consumer /\ task[t] = "running" /\ task'[t] = "failed")
<1>1. /\ gen.state \in {"running", "raising"}
      /\ Len(stack) = 1 \/ (Len(stack) = 2 /\ task[Consumer] = "running")
  <2>1. StackInv /\ Running = Gen
    BY DEF GenEscapes, IndInv
  <2> QED  BY <2>1, GenFacts
<1>2. gen'.next = gen.next
  BY DEF GenEscapes
<1>3. CASE Len(stack) = 1
  <2>1. task' = task
    BY <1>3 DEF GenEscapes
  <2> QED  BY <1>1, <1>2, <2>1
<1>4. CASE Len(stack) = 2
  <2>1. task' = [task EXCEPT ![Consumer] = "failed"] /\ task[Consumer] = "running"
    BY <1>1, <1>4 DEF GenEscapes
  <2> QED  BY <1>1, <1>2, <2>1, ConsumerAssumption DEF IndInv, Types
<1> QED  BY <1>1, <1>3, <1>4

\* The queue when the promise of next() is settled.
LEMMA WokenFacts ==
  ASSUME IndInv, gen.next = "unset"
  PROVE  /\ Woken(queue) \in Seq(Coroutine) /\ Distinct(Woken(queue))
         /\ \A x : In(x, Woken(queue)) =>
              In(x, queue) \/ (x = Consumer /\ task[Consumer] = "nexting")
<1>1. Consumer \in Task /\ Consumer \in Coroutine /\ queue \in Seq(Coroutine) /\ Distinct(queue)
  BY ConsumerAssumption DEF Coroutine, IndInv, Types, QueueInv
<1>2. task[Consumer] = "nexting" => ~In(Consumer, queue)
  BY <1>1, QueuedFacts DEF Scheduled
<1> QED  BY <1>1, <1>2, AppendFacts DEF Woken

\* A reason to be in the queue lasts until the task is resumed.
LEMMA StillScheduled ==
  ASSUME IndInv, NEW t \in Task, In(t, queue),
         task'[t] = task[t], awaits'[t] = awaits[t],
         \A c \in Task : task[c] = "returned" => task'[c] = "returned",
         task[t] = "nexting" /\ gen.next # "unset" => gen'.next # "unset"
  PROVE  Scheduled(t)'
  BY QueuedFacts DEF Scheduled

\* The queue is left alone, or something is added that was not there.
LEMMA QueueKept ==
  ASSUME IndInv, UNCHANGED queue,
         \A t \in Task : In(t, queue) => Scheduled(t)',
         In(Gen, queue) => gen'.state \in {"queued", "throwing"}
  PROVE  QueueInv'
  BY DEF IndInv, QueueInv, In, Distinct

\* A coroutine may be added to the queue for one of the reasons of Scheduled.
LEMMA QueueGrows ==
  ASSUME IndInv, NEW e \in Coroutine, queue' = Append(queue, e), ~In(e, queue),
         \A t \in Task : In(t, queue) \/ t = e => Scheduled(t)',
         In(Gen, queue) \/ e = Gen => gen'.state \in {"queued", "throwing"}
  PROVE  QueueInv'
<1>1. queue \in Seq(Coroutine) /\ Distinct(queue)
  BY DEF IndInv, Types, QueueInv
<1>2. Distinct(queue') /\ \A x : In(x, queue') <=> In(x, queue) \/ x = e
  BY <1>1, AppendFacts
<1>3. /\ \A t \in Task : In(t, queue') => Scheduled(t)'
      /\ In(Gen, queue') => gen'.state \in {"queued", "throwing"}
  BY <1>2
<1> QED  BY <1>2, <1>3 DEF QueueInv, In, Distinct

\* The types of the variables are kept.
LEMMA TypeStep == IndInv /\ [Next]_vars => Types'
<1> SUFFICES ASSUME IndInv, [Next]_vars PROVE Types'
  OBVIOUS
<1>1. ASSUME NEW t \in Task, Start(t) PROVE Types'
  BY <1>1 DEF Start, timeVars, IndInv, Types, Coroutine
<1>2. ASSUME Resume PROVE Types'
  BY <1>2 DEF Resume, timeVars, IndInv, Types, Coroutine
<1>3. ASSUME NEW fd \in DOMAIN watched, Fire(fd) PROVE Types'
  BY <1>3 DEF Fire, Without, IndInv, Types, Coroutine
<1>4. ASSUME NEW t \in Task, NextTick(t) PROVE Types'
  BY <1>4, RunsFacts DEF NextTick, Leave, timeVars, IndInv, Types, Coroutine
<1>5. ASSUME NEW t \in Task, Return(t) PROVE Types'
  BY <1>5, RunsFacts DEF Return, Leave, timeVars, IndInv, Types, Coroutine
<1>6. ASSUME NEW t \in Task, Opens, Fails(t) PROVE Types'
  BY <1>6, RunsFacts DEF Opens, Fails, Fail, Leave, IndInv, Types, Coroutine
<1>7. ASSUME NEW t \in Task, NEW fd, Opens, FallsAsleep(t, fd) PROVE Types'
  BY <1>7, RunsFacts DEF Opens, FallsAsleep, Leave, IndInv, Types, Coroutine
<1>8. ASSUME NEW t \in Task, NEW child \in Task, AwaitTask(t, child) PROVE Types'
  BY <1>8, RunsFacts DEF AwaitTask, Leave, timeVars, IndInv, Types, Coroutine
<1>9. ASSUME CreateGenerator PROVE Types'
  BY <1>9, RunsFacts, ConsumerAssumption DEF CreateGenerator, taskVars, timeVars, IndInv,
       Types, Coroutine
<1>10. ASSUME GeneratorNext PROVE Types'
  BY <1>10, RunsFacts, ConsumerAssumption DEF GeneratorNext, Leave, timeVars, IndInv, Types,
       Coroutine
<1>11. ASSUME GenSettles PROVE Types'
  <2>1. queue' \in Seq(Coroutine)
    BY <1>11, WokenFacts DEF GenSettles
  <2> QED  BY <1>11, <2>1 DEF GenSettles, taskVars, IndInv, Types
<1>12. ASSUME GenEscapes PROVE Types'
  BY <1>12, GenFacts, ConsumerAssumption DEF GenEscapes, timeVars, IndInv, Types, Coroutine
<1>13. ASSUME NEW then \in {"queued", "pending"}, GeneratorAwaits(then) PROVE Types'
  BY <1>13, GenFacts, ConsumerAssumption DEF GeneratorAwaits, Leave, taskVars, timeVars,
       IndInv, Types, Coroutine
<1>14. ASSUME FutureCompletes PROVE Types'
  <2>1. queue' \in Seq(Coroutine)
    <3>1. Gen \in Coroutine /\ <<Gen>> \in Seq(Coroutine)
      BY DEF Coroutine
    <3>2. CASE gen.next = "unset"
      BY <1>14, <3>1, <3>2, WokenFacts, ConcatProperties DEF FutureCompletes
    <3>3. CASE gen.next # "unset"
      BY <1>14, <3>1, <3>3, AppendFacts DEF FutureCompletes, IndInv, Types
    <3> QED  BY <3>2, <3>3
  <2>2. gen' = [gen EXCEPT !.state = "queued", !.next = "true"] \/ gen' = [gen EXCEPT !.state = "throwing"]
    BY <1>14 DEF FutureCompletes
  <2>3. gen' \in [state : {"none", "running", "raising", "queued", "pending", "throwing",
                          "yielded", "dead"},
                 done : BOOLEAN, next : {"unset", "true", "false", "error"}]
    BY <2>2 DEF IndInv, Types
  <2> QED  BY <1>14, <2>1, <2>3 DEF FutureCompletes, taskVars, IndInv, Types
<1>15. ASSUME Quiet PROVE Types'
  BY <1>15 DEF Quiet, taskVars, IndInv, Types, Coroutine
<1> QED
  BY <1>1, <1>2, <1>3, <1>4, <1>5, <1>6, <1>7, <1>8, <1>9, <1>10, <1>11, <1>12, <1>13,
       <1>14, <1>15, NextCases

\* Whatever is being resumed runs.
LEMMA StackStep == IndInv /\ [Next]_vars => StackInv'
<1> SUFFICES ASSUME IndInv, [Next]_vars PROVE StackInv'
  OBVIOUS
<1>1. ASSUME NEW t \in Task, Start(t) PROVE StackInv'
  BY <1>1 DEF Start, timeVars, IndInv, Types, StackInv
<1>2. ASSUME Resume PROVE StackInv'
  <2>1. CASE Head(queue) = Gen
    BY <1>2, <2>1 DEF Resume, IndInv, Types, StackInv
  <2>2. CASE Head(queue) # Gen
    <3>1. Head(queue) \in Task
      BY <1>2, <2>2, HeadFacts DEF Resume
    <3>2. stack' = <<Head(queue)>> /\ task'[Head(queue)] = "running"
      BY <1>2, <2>2, <3>1 DEF Resume, IndInv, Types
    <3> QED  BY <3>1, <3>2 DEF StackInv
  <2> QED  BY <2>1, <2>2
<1>3. ASSUME NEW fd \in DOMAIN watched, Fire(fd) PROVE StackInv'
  <2>1. watched[fd] \in Task
    BY <1>3, FireFacts
  <2>2. stack' = <<watched[fd]>> /\ task'[watched[fd]] = "running"
    BY <1>3, <2>1 DEF Fire, IndInv, Types
  <2> QED  BY <2>1, <2>2 DEF StackInv
<1>4. ASSUME NEW t \in Task, NextTick(t) PROVE StackInv'
  BY <1>4, RunsFacts DEF NextTick, Leave, timeVars, IndInv, Types, StackInv
<1>5. ASSUME NEW t \in Task, Return(t) PROVE StackInv'
  BY <1>5, RunsFacts DEF Return, Leave, timeVars, IndInv, Types, StackInv
<1>6. ASSUME NEW t \in Task, Opens, Fails(t) PROVE StackInv'
  BY <1>6, RunsFacts DEF Opens, Fails, Fail, Leave, IndInv, Types, StackInv
<1>7. ASSUME NEW t \in Task, NEW fd, Opens, FallsAsleep(t, fd) PROVE StackInv'
  BY <1>7, RunsFacts DEF Opens, FallsAsleep, Leave, IndInv, Types, StackInv
<1>8. ASSUME NEW t \in Task, NEW child \in Task, AwaitTask(t, child) PROVE StackInv'
  BY <1>8, RunsFacts DEF AwaitTask, Leave, timeVars, IndInv, Types, StackInv
<1>9. ASSUME CreateGenerator PROVE StackInv'
  <2>1. stack = <<Consumer>> /\ task[Consumer] = "running"
    BY <1>9, RunsFacts, ConsumerAssumption DEF CreateGenerator, IndInv
  <2>2. stack' = <<Consumer, Gen>> /\ gen'.state = "running" /\ UNCHANGED task
    <3>1. stack' = Append(<<Consumer>>, Gen)
      BY <1>9, <2>1 DEF CreateGenerator
    <3>2. Append(<<Consumer>>, Gen) = <<Consumer, Gen>>
      <4> DEFINE s == Append(<<Consumer>>, Gen)
      <4>1. /\ <<Consumer>> \in Seq(Coroutine) /\ Len(<<Consumer>>) = 1 /\ <<Consumer>>[1] = Consumer
            /\ <<Consumer, Gen>> \in Seq(Coroutine) /\ Len(<<Consumer, Gen>>) = 2
            /\ Gen \in Coroutine
        BY ConsumerAssumption DEF Coroutine
      <4>2. s \in Seq(Coroutine) /\ Len(s) = 2 /\ s[1] = Consumer /\ s[2] = Gen
        BY <4>1, AppendProperties
      <4> HIDE DEF s
      <4>3. \A i \in 1 .. 2 : s[i] = <<Consumer, Gen>>[i]
        BY <4>2
      <4>4. s = <<Consumer, Gen>>
        BY <4>1, <4>2, <4>3, SeqEqual
      <4> QED  BY <4>4 DEF s
    <3> QED  BY <1>9, <3>1, <3>2 DEF CreateGenerator, taskVars, IndInv, Types
  <2> QED  BY <2>1, <2>2 DEF StackInv
<1>10. ASSUME GeneratorNext PROVE StackInv'
  BY <1>10, RunsFacts, ConsumerAssumption DEF GeneratorNext, Leave, timeVars, IndInv, Types,
       StackInv
<1>11. ASSUME GenSettles PROVE StackInv'
  BY <1>11, GenFacts, ConsumerAssumption DEF GenSettles, Leave, taskVars, timeVars, IndInv,
       Types, StackInv
<1>12. ASSUME GenEscapes PROVE StackInv'
  BY <1>12, GenFacts, ConsumerAssumption DEF GenEscapes, timeVars, IndInv, Types, StackInv
<1>13. ASSUME NEW then \in {"queued", "pending"}, GeneratorAwaits(then) PROVE StackInv'
  BY <1>13, GenFacts, ConsumerAssumption DEF GeneratorAwaits, Leave, taskVars, timeVars,
       IndInv, Types, StackInv
<1>14. ASSUME FutureCompletes PROVE StackInv'
  BY <1>14 DEF FutureCompletes, taskVars, timeVars, IndInv, Types, StackInv
<1>15. ASSUME Quiet PROVE StackInv'
  BY <1>15 DEF Quiet, taskVars, IndInv, Types, StackInv
<1> QED
  BY <1>1, <1>2, <1>3, <1>4, <1>5, <1>6, <1>7, <1>8, <1>9, <1>10, <1>11, <1>12, <1>13,
       <1>14, <1>15, NextCases

\* What is in the queue is there once, and for a reason.
LEMMA QueueStep == IndInv /\ [Next]_vars => QueueInv'
<1> SUFFICES ASSUME IndInv, [Next]_vars PROVE QueueInv'
  OBVIOUS
<1>1. ASSUME NEW t \in Task, Start(t) PROVE QueueInv'
  <2>1. /\ task[t] = "new" /\ task' = [task EXCEPT ![t] = "queued"] /\ queue' = Append(queue, t)
        /\ UNCHANGED <<awaits, gen>> /\ t \in Coroutine /\ t # Gen
    BY <1>1, ConsumerAssumption DEF Start, Coroutine
  <2>2. ~In(t, queue)
    BY <2>1, QueuedFacts
  <2>3. Scheduled(t)'
    BY <2>1 DEF Scheduled, IndInv, Types
  <2>4. \A u \in Task : In(u, queue) => Scheduled(u)'
    BY <2>1, <2>2, StillScheduled DEF IndInv, Types
  <2> QED  BY <2>1, <2>2, <2>3, <2>4, QueueGrows DEF IndInv, QueueInv
<1>2. ASSUME Resume PROVE QueueInv'
  <2>1. queue # <<>> /\ queue' = Tail(queue)
    BY <1>2 DEF Resume
  <2>2. /\ Distinct(queue')
        /\ \A x : In(x, queue') => In(x, queue) /\ x # Head(queue)
        /\ Head(queue) # Gen =>
             Head(queue) \in Task /\ task[Head(queue)] \in {"queued", "awaiting", "nexting"}
    BY <2>1, HeadFacts
  <2>3. ASSUME NEW t \in Task, In(t, queue') PROVE Scheduled(t)'
    <3>1. In(t, queue) /\ t # Head(queue)
      BY <2>2, <2>3
    <3>2. task'[t] = task[t] /\ awaits'[t] = awaits[t] /\ gen'.next = gen.next
      BY <1>2, <3>1 DEF Resume, IndInv, Types
    <3>3. \A c \in Task : task[c] = "returned" => task'[c] = "returned"
      BY <1>2, <2>2 DEF Resume, IndInv, Types
    <3> QED  BY <3>1, <3>2, <3>3, StillScheduled
  <2>4. In(Gen, queue') => gen'.state \in {"queued", "throwing"}
    BY <1>2, <2>2 DEF Resume, IndInv, QueueInv
  <2> QED  BY <2>2, <2>3, <2>4 DEF QueueInv, In, Distinct
<1>3. ASSUME NEW fd \in DOMAIN watched, Fire(fd) PROVE QueueInv'
  <2>1. /\ UNCHANGED <<queue, awaits, gen>>
        /\ task' = [task EXCEPT ![watched[fd]] = "running"]
    BY <1>3 DEF Fire
  <2>2. watched[fd] \in Task /\ task[watched[fd]] = "sleeping" /\ ~In(watched[fd], queue)
    BY <1>3, FireFacts
  <2>3. \A u \in Task : In(u, queue) => Scheduled(u)'
    BY <2>1, <2>2, StillScheduled DEF IndInv, Types
  <2> QED  BY <2>1, <2>3, QueueKept DEF IndInv, QueueInv
<1>4. ASSUME NEW t \in Task, NextTick(t) PROVE QueueInv'
  <2>1. /\ task[t] = "running" /\ task' = [task EXCEPT ![t] = "queued"] /\ queue' = Append(queue, t)
        /\ UNCHANGED <<awaits, gen>> /\ t \in Coroutine /\ t # Gen
    BY <1>4, RunsFacts, ConsumerAssumption DEF NextTick, Coroutine, IndInv
  <2>2. ~In(t, queue)
    BY <2>1, QueuedFacts
  <2>3. Scheduled(t)'
    BY <2>1 DEF Scheduled, IndInv, Types
  <2>4. \A u \in Task : In(u, queue) => Scheduled(u)'
    BY <2>1, <2>2, StillScheduled DEF IndInv, Types
  <2> QED  BY <2>1, <2>2, <2>3, <2>4, QueueGrows DEF IndInv, QueueInv
<1>5. ASSUME NEW t \in Task, Return(t) PROVE QueueInv'
  <2>1. /\ task[t] = "running" /\ task' = [task EXCEPT ![t] = "returned"]
        /\ UNCHANGED <<awaits, gen>>
    BY <1>5, RunsFacts DEF Return, IndInv
  <2>2. ~In(t, queue)
    BY <2>1, QueuedFacts
  <2>3. \A u \in Task : In(u, queue) => Scheduled(u)'
    BY <2>1, <2>2, StillScheduled DEF IndInv, Types
  <2>4. CASE callback[t] = None
    <3>1. UNCHANGED queue
      BY <1>5, <2>4 DEF Return
    <3> QED  BY <2>1, <2>3, <3>1, QueueKept DEF IndInv, QueueInv
  <2>5. CASE callback[t] # None
    <3>1. PICK a \in Task : /\ a \in Coroutine /\ a # Gen
                            /\ task[a] = "awaiting" /\ awaits[a] = t
                            /\ queue' = Append(queue, a)
      BY <1>5, <2>1, <2>5, ConsumerAssumption DEF Return, IndInv, Types, AwaitInv, Coroutine
    <3>2. ~In(a, queue)
      BY <2>1, <3>1, QueuedFacts DEF Scheduled
    <3>3. Scheduled(a)'
      BY <2>1, <3>1 DEF Scheduled, IndInv, Types
    <3> QED  BY <2>1, <2>3, <3>1, <3>2, <3>3, QueueGrows DEF IndInv, QueueInv
  <2> QED  BY <2>4, <2>5
<1>6. ASSUME NEW t \in Task, Opens, Fails(t) PROVE QueueInv'
  BY <1>6, RunsFacts DEF Opens, Fails, Fail, Leave, IndInv, Types, QueueInv, Scheduled
<1>7. ASSUME NEW t \in Task, NEW fd, Opens, FallsAsleep(t, fd) PROVE QueueInv'
  BY <1>7, RunsFacts DEF Opens, FallsAsleep, Leave, IndInv, Types, QueueInv, Scheduled
<1>8. ASSUME NEW t \in Task, NEW child \in Task, AwaitTask(t, child) PROVE QueueInv'
  <2>1. /\ task[t] = "running" /\ task[child] = "new" /\ queue' = Append(queue, child)
        /\ task' = [task EXCEPT ![t] = "awaiting", ![child] = "queued"]
        /\ awaits' = [awaits EXCEPT ![t] = child]
        /\ UNCHANGED gen /\ child \in Coroutine /\ child # Gen
    BY <1>8, RunsFacts, ConsumerAssumption DEF AwaitTask, Coroutine, IndInv
  <2>2. ~In(t, queue) /\ ~In(child, queue)
    BY <2>1, QueuedFacts
  <2>3. Scheduled(child)'
    BY <2>1 DEF Scheduled, IndInv, Types
  <2>4. \A u \in Task : In(u, queue) => Scheduled(u)'
    BY <2>1, <2>2, StillScheduled DEF IndInv, Types
  <2> QED  BY <2>1, <2>2, <2>3, <2>4, QueueGrows DEF IndInv, QueueInv
<1>9. ASSUME CreateGenerator PROVE QueueInv'
  BY <1>9, RunsFacts, ConsumerAssumption DEF CreateGenerator, taskVars, timeVars, IndInv,
       Types, QueueInv, Scheduled
<1>10. ASSUME GeneratorNext PROVE QueueInv'
  <2>1. /\ task[Consumer] = "running" /\ Consumer \in Task
        /\ UNCHANGED <<queue, awaits>>
        /\ UNCHANGED <<task, gen>> \/ (/\ task' = [task EXCEPT ![Consumer] = "nexting"]
                                     /\ gen' = [gen EXCEPT !.next = "unset"])
    BY <1>10, RunsFacts, ConsumerAssumption DEF GeneratorNext, IndInv
  <2>2. ~In(Consumer, queue)
    BY <2>1, QueuedFacts
  <2>3. \A u \in Task : task[u] = "nexting" => u = Consumer
    BY DEF IndInv, AwaitInv
  <2>4. ASSUME NEW u \in Task, In(u, queue) PROVE Scheduled(u)'
    <3>1. u # Consumer /\ task[u] # "nexting"
      BY <2>2, <2>3, <2>4
    <3>2. task'[u] = task[u] /\ \A c \in Task : task[c] = "returned" => task'[c] = "returned"
      BY <2>1, <3>1 DEF IndInv, Types
    <3> QED  BY <2>1, <2>4, <3>1, <3>2, StillScheduled
  <2>5. gen'.state = gen.state
    BY <2>1 DEF IndInv, Types
  <2> QED  BY <2>1, <2>4, <2>5, QueueKept DEF IndInv, QueueInv
<1>11. ASSUME GenSettles PROVE QueueInv'
  <2>1. /\ gen.next = "unset" /\ gen'.next # "unset" /\ queue' = Woken(queue)
        /\ UNCHANGED <<task, awaits>> /\ gen.state \in {"running", "raising"}
    BY <1>11, GenFacts DEF GenSettles, taskVars, IndInv
  <2>2. /\ Distinct(queue')
        /\ \A x : In(x, queue') => In(x, queue) \/ (x = Consumer /\ task[Consumer] = "nexting")
    BY <2>1, WokenFacts
  <2>3. ~In(Gen, queue')
    BY <2>1, <2>2, ConsumerAssumption DEF IndInv, QueueInv
  <2>4. \A u \in Task : In(u, queue) => Scheduled(u)'
    BY <2>1, StillScheduled
  <2>5. task[Consumer] = "nexting" => Scheduled(Consumer)'
    BY <2>1 DEF Scheduled
  <2>6. \A u \in Task : In(u, queue') => Scheduled(u)'
    BY <2>2, <2>4, <2>5
  <2> QED  BY <2>2, <2>3, <2>6 DEF QueueInv, In, Distinct
<1>12. ASSUME GenEscapes PROVE QueueInv'
  <2>1. /\ UNCHANGED <<queue, awaits>> /\ gen.state \in {"running", "raising"}
        /\ gen'.next = gen.next
        /\ \A t \in Task :
             task'[t] = task[t] \/ (t = Consumer /\ task[t] = "running" /\ task'[t] = "failed")
    BY <1>12, EscapeFacts DEF GenEscapes
  <2>2. ASSUME NEW u \in Task, In(u, queue) PROVE Scheduled(u)'
    <3>1. task[u] # "running"
      BY <2>2, QueuedFacts
    <3>2. task'[u] = task[u] /\ \A c \in Task : task[c] = "returned" => task'[c] = "returned"
      BY <2>1, <3>1
    <3> QED  BY <2>1, <2>2, <3>2, StillScheduled
  <2> QED  BY <2>1, <2>2, QueueKept DEF IndInv, QueueInv
<1>13. ASSUME NEW then \in {"queued", "pending"}, GeneratorAwaits(then) PROVE QueueInv'
  <2>1. /\ UNCHANGED <<task, awaits>> /\ gen.state \in {"running", "raising"}
        /\ gen'.next = gen.next /\ gen'.state = then /\ Gen \in Coroutine /\ Gen \notin Task
        /\ queue' = (IF then = "queued" THEN Append(queue, Gen) ELSE queue)
    BY <1>13, GenFacts, ConsumerAssumption DEF GeneratorAwaits, taskVars, IndInv, Types,
         Coroutine
  <2>2. ~In(Gen, queue)
    BY <2>1 DEF IndInv, QueueInv
  <2>3. \A u \in Task : In(u, queue) => Scheduled(u)'
    BY <2>1, StillScheduled
  <2>4. CASE then = "queued"
    BY <2>1, <2>2, <2>3, <2>4, QueueGrows
  <2>5. CASE then # "queued"
    BY <2>1, <2>2, <2>3, <2>5, QueueKept
  <2> QED  BY <2>4, <2>5
<1>14. ASSUME FutureCompletes PROVE QueueInv'
  <2>1. /\ UNCHANGED <<task, awaits>> /\ gen.state = "pending" /\ Gen \in Coroutine
        /\ Gen \notin Task /\ gen'.state \in {"queued", "throwing"} /\ gen'.next # "unset"
    <3>1. UNCHANGED <<task, awaits>> /\ gen.state = "pending" /\ Gen \in Coroutine /\ Gen \notin Task
      BY <1>14, ConsumerAssumption DEF FutureCompletes, taskVars, Coroutine
    <3>2. CASE gen.next = "unset"
      <4>1. gen' = [gen EXCEPT !.state = "queued", !.next = "true"]
        BY <1>14, <3>2 DEF FutureCompletes
      <4>2. gen'.state = "queued" /\ gen'.next = "true"
        BY <4>1 DEF IndInv, Types
      <4> QED  BY <3>1, <4>2
    <3>3. CASE gen.next # "unset"
      <4>1. gen' = [gen EXCEPT !.state = "throwing"]
        BY <1>14, <3>3 DEF FutureCompletes
      <4>2. gen'.state = "throwing" /\ gen'.next = gen.next
        BY <4>1 DEF IndInv, Types
      <4> QED  BY <3>1, <3>3, <4>2
    <3> QED  BY <3>2, <3>3
  <2>2. ~In(Gen, queue)
    BY <2>1 DEF IndInv, QueueInv
  <2>3. \A u \in Task : In(u, queue) => Scheduled(u)'
    BY <2>1, StillScheduled
  <2>4. CASE gen.next # "unset"
    <3>1. queue' = Append(queue, Gen)
      BY <1>14, <2>4 DEF FutureCompletes
    <3> QED  BY <2>1, <2>2, <2>3, <3>1, QueueGrows
  <2>5. CASE gen.next = "unset"
    <3> DEFINE w == Woken(queue)
    <3>1. /\ w \in Seq(Coroutine) /\ Distinct(w)
          /\ \A x : In(x, w) => In(x, queue) \/ (x = Consumer /\ task[Consumer] = "nexting")
      BY <2>5, WokenFacts
    <3>2. queue' = w \o <<Gen>>
      BY <1>14, <2>5 DEF FutureCompletes
    <3> HIDE DEF w
    <3>3. queue' = Append(w, Gen) /\ ~In(Gen, w)
      BY <2>1, <2>2, <3>1, <3>2, AppendIsConcat, ConsumerAssumption
    <3>4. Distinct(queue') /\ \A x : In(x, queue') <=> In(x, w) \/ x = Gen
      BY <2>1, <3>1, <3>3, AppendFacts
    <3>5. task[Consumer] = "nexting" => Scheduled(Consumer)'
      BY <2>1 DEF Scheduled
    <3>6. \A u \in Task : In(u, queue') => Scheduled(u)'
      BY <2>1, <2>3, <3>1, <3>4, <3>5
    <3> QED  BY <2>1, <3>4, <3>6 DEF QueueInv, In, Distinct
  <2> QED  BY <2>4, <2>5
<1>15. ASSUME Quiet PROVE QueueInv'
  BY <1>15 DEF Quiet, taskVars, IndInv, Types, QueueInv, Scheduled
<1> QED
  BY <1>1, <1>2, <1>3, <1>4, <1>5, <1>6, <1>7, <1>8, <1>9, <1>10, <1>11, <1>12, <1>13,
       <1>14, <1>15, NextCases

\* Callbacks belong to tasks that await.
LEMMA AwaitStep == IndInv /\ [Next]_vars => AwaitInv'
<1> SUFFICES ASSUME IndInv, [Next]_vars PROVE AwaitInv'
  OBVIOUS
<1>1. ASSUME NEW t \in Task, Start(t) PROVE AwaitInv'
  BY <1>1 DEF Start, timeVars, IndInv, Types, AwaitInv
<1>2. ASSUME Resume PROVE AwaitInv'
  <2>1. CASE Head(queue) = Gen
    BY <1>2, <2>1 DEF Resume, IndInv, AwaitInv
  <2>2. CASE Head(queue) # Gen
    <3> DEFINE h == Head(queue)
    <3>1. h \in Task /\ Scheduled(h) /\ task[h] # "returned"
      BY <1>2, <2>2, HeadFacts DEF Resume
    <3>2. /\ task' = [task EXCEPT ![h] = "running"] /\ awaits' = [awaits EXCEPT ![h] = None]
          /\ UNCHANGED callback
      BY <1>2, <2>2 DEF Resume
    <3> HIDE DEF h
    <3>3. ASSUME NEW c \in Task, callback[c] # None, task'[c] # "returned"
          PROVE  task'[callback[c]] = "awaiting" /\ awaits'[callback[c]] = c
      <4>1. task[c] # "returned" /\ callback[c] \in Task
        BY <3>1, <3>2, <3>3 DEF IndInv, Types
      <4>2. task[callback[c]] = "awaiting" /\ awaits[callback[c]] = c
        BY <3>3, <4>1 DEF IndInv, AwaitInv
      <4>3. callback[c] # h
        BY <3>1, <4>1, <4>2 DEF Scheduled
      <4> QED  BY <3>2, <4>1, <4>2, <4>3 DEF IndInv, Types
    <3>4. \A t \in Task : task'[t] = "nexting" => t = Consumer
      BY <3>1, <3>2 DEF IndInv, Types, AwaitInv
    <3> QED  BY <3>2, <3>3, <3>4 DEF AwaitInv
  <2> QED  BY <2>1, <2>2
<1>3. ASSUME NEW fd \in DOMAIN watched, Fire(fd) PROVE AwaitInv'
  <2>1. UNCHANGED <<awaits, callback>> /\ task' = [task EXCEPT ![watched[fd]] = "running"]
    BY <1>3 DEF Fire
  <2>2. watched[fd] \in Task /\ task[watched[fd]] = "sleeping"
    BY <1>3, FireFacts
  <2> QED  BY <2>1, <2>2 DEF IndInv, Types, AwaitInv
<1>4. ASSUME NEW t \in Task, NextTick(t) PROVE AwaitInv'
  BY <1>4, RunsFacts DEF NextTick, Leave, timeVars, IndInv, Types, AwaitInv
<1>5. ASSUME NEW t \in Task, Return(t) PROVE AwaitInv'
  BY <1>5, RunsFacts DEF Return, Leave, timeVars, IndInv, Types, AwaitInv
<1>6. ASSUME NEW t \in Task, Opens, Fails(t) PROVE AwaitInv'
  BY <1>6, RunsFacts DEF Opens, Fails, Fail, Leave, IndInv, Types, AwaitInv
<1>7. ASSUME NEW t \in Task, NEW fd, Opens, FallsAsleep(t, fd) PROVE AwaitInv'
  BY <1>7, RunsFacts DEF Opens, FallsAsleep, Leave, IndInv, Types, AwaitInv
<1>8. ASSUME NEW t \in Task, NEW child \in Task, AwaitTask(t, child) PROVE AwaitInv'
  BY <1>8, RunsFacts DEF AwaitTask, Leave, timeVars, IndInv, Types, AwaitInv
<1>9. ASSUME CreateGenerator PROVE AwaitInv'
  BY <1>9, RunsFacts, ConsumerAssumption DEF CreateGenerator, taskVars, timeVars, IndInv,
       Types, AwaitInv
<1>10. ASSUME GeneratorNext PROVE AwaitInv'
  BY <1>10, RunsFacts, ConsumerAssumption DEF GeneratorNext, Leave, timeVars, IndInv, Types,
       AwaitInv
<1>11. ASSUME GenSettles PROVE AwaitInv'
  BY <1>11, GenFacts, ConsumerAssumption DEF GenSettles, Leave, taskVars, timeVars, IndInv,
       Types, AwaitInv
<1>12. ASSUME GenEscapes PROVE AwaitInv'
  <2>1. /\ UNCHANGED <<awaits, callback>>
        /\ \A t \in Task :
             task'[t] = task[t] \/ (t = Consumer /\ task[t] = "running" /\ task'[t] = "failed")
    BY <1>12, EscapeFacts DEF GenEscapes
  <2> QED  BY <2>1 DEF IndInv, Types, AwaitInv
<1>13. ASSUME NEW then \in {"queued", "pending"}, GeneratorAwaits(then) PROVE AwaitInv'
  BY <1>13, GenFacts, ConsumerAssumption DEF GeneratorAwaits, Leave, taskVars, timeVars,
       IndInv, Types, AwaitInv
<1>14. ASSUME FutureCompletes PROVE AwaitInv'
  BY <1>14 DEF FutureCompletes, taskVars, timeVars, IndInv, Types, AwaitInv
<1>15. ASSUME Quiet PROVE AwaitInv'
  BY <1>15 DEF Quiet, taskVars, IndInv, Types, AwaitInv
<1> QED
  BY <1>1, <1>2, <1>3, <1>4, <1>5, <1>6, <1>7, <1>8, <1>9, <1>10, <1>11, <1>12, <1>13,
       <1>14, <1>15, NextCases

\* The callbacks of EPoll are those of the sleepers.
LEMMA TimerStep == IndInv /\ [Next]_vars => TimerInv'
<1> SUFFICES ASSUME IndInv, [Next]_vars PROVE TimerInv'
  OBVIOUS
<1>1. ASSUME NEW t \in Task, Start(t) PROVE TimerInv'
  BY <1>1 DEF Start, timeVars, IndInv, Types, TimerInv
<1>2. ASSUME Resume PROVE TimerInv'
  <2>1. CASE Head(queue) = Gen
    BY <1>2, <2>1 DEF Resume, timeVars, IndInv, TimerInv
  <2>2. CASE Head(queue) # Gen
    <3>1. Head(queue) \in Task /\ task[Head(queue)] # "sleeping"
      BY <1>2, <2>2, HeadFacts DEF Resume
    <3> QED  BY <1>2, <2>2, <3>1 DEF Resume, timeVars, IndInv, Types, TimerInv
  <2> QED  BY <2>1, <2>2
<1>3. ASSUME NEW fd \in DOMAIN watched, Fire(fd) PROVE TimerInv'
  <2> DEFINE t == watched[fd]
  <2>1. t \in Task /\ task[t] = "sleeping"
    BY <1>3, FireFacts
  <2>2. /\ task' = [task EXCEPT ![t] = "running"]
        /\ DOMAIN timer' = DOMAIN timer \ {fd} /\ DOMAIN watched' = DOMAIN watched \ {fd}
        /\ \A n \in DOMAIN watched' : watched'[n] = watched[n]
        /\ watched' = [n \in DOMAIN watched' |-> watched[n]]
    BY <1>3 DEF Fire, Without
  <2>3. \A n \in DOMAIN watched' : n \in DOMAIN watched /\ watched[n] \in Task /\ watched[n] # t
    BY <2>2 DEF IndInv, TimerInv
  <2>4. watched' \in [DOMAIN watched' -> Task]
    BY <2>2, <2>3
  <2>5. IsFiniteSet(DOMAIN timer')
    BY <2>2, FS_RemoveElement DEF IndInv, TimerInv
  <2>6. \A n \in DOMAIN watched' : task'[watched'[n]] = "sleeping"
    BY <2>1, <2>2, <2>3 DEF IndInv, Types, TimerInv
  <2>7. ASSUME NEW u \in Task, task'[u] = "sleeping" PROVE \E n \in DOMAIN watched' : watched'[n] = u
    <3>1. u # t /\ task[u] = "sleeping"
      BY <2>1, <2>2, <2>7 DEF IndInv, Types
    <3>2. PICK n \in DOMAIN watched : watched[n] = u
      BY <3>1 DEF IndInv, TimerInv
    <3> QED  BY <2>2, <3>1, <3>2
  <2>8. \A d, e \in DOMAIN watched' : watched'[d] = watched'[e] => d = e
    BY <2>2, <2>3 DEF IndInv, TimerInv
  <2>9. DOMAIN watched' \subseteq DOMAIN timer'
    BY <2>2 DEF IndInv, TimerInv
  <2> QED  BY <2>4, <2>5, <2>6, <2>7, <2>8, <2>9 DEF TimerInv
<1>4. ASSUME NEW t \in Task, NextTick(t) PROVE TimerInv'
  BY <1>4, RunsFacts DEF NextTick, Leave, timeVars, IndInv, Types, TimerInv
<1>5. ASSUME NEW t \in Task, Return(t) PROVE TimerInv'
  BY <1>5, RunsFacts DEF Return, Leave, timeVars, IndInv, Types, TimerInv
<1>6. ASSUME NEW t \in Task, Opens, Fails(t) PROVE TimerInv'
  BY <1>6, RunsFacts DEF Opens, Fails, Fail, Leave, IndInv, Types, TimerInv
<1>7. ASSUME NEW t \in Task, NEW fd, Opens, FallsAsleep(t, fd) PROVE TimerInv'
  BY <1>7, RunsFacts DEF Opens, FallsAsleep, Leave, IndInv, Types, TimerInv
<1>8. ASSUME NEW t \in Task, NEW child \in Task, AwaitTask(t, child) PROVE TimerInv'
  BY <1>8, RunsFacts DEF AwaitTask, Leave, timeVars, IndInv, Types, TimerInv
<1>9. ASSUME CreateGenerator PROVE TimerInv'
  BY <1>9, RunsFacts, ConsumerAssumption DEF CreateGenerator, taskVars, timeVars, IndInv,
       Types, TimerInv
<1>10. ASSUME GeneratorNext PROVE TimerInv'
  BY <1>10, RunsFacts, ConsumerAssumption DEF GeneratorNext, Leave, timeVars, IndInv, Types,
       TimerInv
<1>11. ASSUME GenSettles PROVE TimerInv'
  BY <1>11, GenFacts, ConsumerAssumption DEF GenSettles, Leave, taskVars, timeVars, IndInv,
       Types, TimerInv
<1>12. ASSUME GenEscapes PROVE TimerInv'
  <2>1. /\ UNCHANGED <<timer, watched>>
        /\ \A t \in Task :
             task'[t] = task[t] \/ (t = Consumer /\ task[t] = "running" /\ task'[t] = "failed")
    BY <1>12, EscapeFacts DEF GenEscapes, timeVars
  <2> QED  BY <2>1 DEF IndInv, Types, TimerInv
<1>13. ASSUME NEW then \in {"queued", "pending"}, GeneratorAwaits(then) PROVE TimerInv'
  BY <1>13, GenFacts, ConsumerAssumption DEF GeneratorAwaits, Leave, taskVars, timeVars,
       IndInv, Types, TimerInv
<1>14. ASSUME FutureCompletes PROVE TimerInv'
  BY <1>14 DEF FutureCompletes, taskVars, timeVars, IndInv, Types, TimerInv
<1>15. ASSUME Quiet PROVE TimerInv'
  BY <1>15 DEF Quiet, taskVars, IndInv, Types, TimerInv
<1> QED
  BY <1>1, <1>2, <1>3, <1>4, <1>5, <1>6, <1>7, <1>8, <1>9, <1>10, <1>11, <1>12, <1>13,
       <1>14, <1>15, NextCases

\* Nothing is scheduled and nobody sleeps.
LEMMA Initially == Init => IndInv
<1> SUFFICES ASSUME Init PROVE IndInv
  OBVIOUS
<1>1. Types /\ StackInv /\ QueueInv /\ AwaitInv
  BY DEF Init, Types, StackInv, QueueInv, AwaitInv, In, Distinct, Coroutine
<1>2. DOMAIN timer = {} /\ DOMAIN watched = {}
  BY DEF Init
<1>3. TimerInv
  BY <1>2, FS_EmptySet DEF Init, TimerInv
<1> QED  BY <1>1, <1>3 DEF IndInv

\* The inductive invariant holds of every execution.
THEOREM Invariance == Spec => []IndInv
<1>1. IndInv /\ [Next]_vars => IndInv'
  BY TypeStep, StackStep, QueueStep, AwaitStep, TimerStep DEF IndInv
<1> QED  BY <1>1, Initially, PTL DEF Spec

\* A descriptor that epoll watches is an open timer of a task that sleeps, and
\* a task that sleeps has one: closing a timer in await_resume and using its
\* number again never meets the callback of an earlier sleep.
THEOREM TimersAreSleepers == Spec => []TimersBelongToSleepers
<1>1. ASSUME IndInv PROVE TimersBelongToSleepers
  <2>1. ASSUME NEW t \in Task, task[t] = "sleeping"
        PROVE  Cardinality({fd \in DOMAIN watched : watched[fd] = t}) = 1
    <3>1. PICK fd \in DOMAIN watched : watched[fd] = t
      BY <1>1, <2>1 DEF IndInv, TimerInv
    <3>2. {e \in DOMAIN watched : watched[e] = t} = {fd}
      BY <1>1, <3>1 DEF IndInv, TimerInv
    <3> QED  BY <3>2, FS_Singleton
  <2> QED  BY <1>1, <2>1 DEF TimersBelongToSleepers, IndInv, TimerInv
<1> QED  BY <1>1, Invariance, PTL

=============================================================================
