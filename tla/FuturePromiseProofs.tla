------------------------ MODULE FuturePromiseProofs ------------------------
(***************************************************************************)
(* The safety properties of FuturePromise, for any number of setters and   *)
(* consumers, on one scheduler and on threads.                             *)
(*                                                                         *)
(* ClaimInv is about the writers and the two shared states, AwaitInv about *)
(* the consumer that obtained the future and its handle; both hold however *)
(* loads and stores interleave.  LoopInv is what one scheduler adds: at    *)
(* most one agent is inside an operation.                                  *)
(***************************************************************************)
EXTENDS FuturePromise, FiniteSetTheorems, SequenceTheorems, TLAPS

WriterPc == {"start", "claim", "store", "wake", "chain", "done", "refused", "threw"}
ConsumerPc == {"start", "obtained", "record", "test", "mark", "suspended", "resume",
               "done", "refused"}

\* The writers that won the claim of a state, and those of them that have stored.
Won(w, s) == target[w] = s /\ pc[w] \in {"store", "wake", "done", "threw"}
Wrote(w, s) == target[w] = s /\ pc[w] \in {"wake", "done", "threw"}
Told(w, s) == target[w] = s /\ pc[w] = "done"
Stored(s) == value[s] # None \/ exception[s] # None

WriterPcInv ==
  \A w \in Writer :
    /\ pc[w] \in WriterPc
    /\ pc[w] \in {"claim", "store", "wake"} => target[w] \in State /\ outcome[w] \in Outcomes
    /\ pc[w] \in {"start", "chain"} => target[w] = None

CellInv ==
  \A s \in State :
    /\ stateSet[s] <=> \E w \in Writer : Won(w, s)
    /\ \A v, w \in Writer : Won(v, s) /\ Won(w, s) => v = w
    /\ Stored(s) => \E w \in Writer : Wrote(w, s)
    /\ ~(value[s] # None /\ exception[s] # None)

ClaimInv == WriterPcInv /\ CellInv

\* The consumer that has the future.
Holds(c) == pc[c] \notin {"start", "refused"}

AwaitInv ==
  /\ \A c \in Consumer :
       /\ pc[c] \in ConsumerPc
       /\ Holds(c) => futureObtained
       /\ pc[c] \in {"test", "mark", "suspended"} => handle["outer"] = c
  /\ \A b, c \in Consumer : Holds(b) /\ Holds(c) => b = c
  /\ ~futureSuspended["inner"]
  /\ futureSuspended["outer"] =>
       /\ handle["outer"] \in Consumer
       /\ \/ pc[handle["outer"]] = "suspended"
          \/ pc[handle["outer"]] \in {"resume", "done"} /\ \E w \in Writer : Told(w, "outer")
  /\ scheduled # <<>> =>
       /\ scheduled = <<handle["outer"]>>
       /\ handle["outer"] \in Consumer
       /\ pc[handle["outer"]] = "suspended"
       /\ \E w \in Writer : Told(w, "outer")

LoopInv ==
  world = "loop" =>
    /\ \A a, b \in Agent : Busy(a) /\ Busy(b) => a = b
    /\ \A w \in Writer :
         /\ pc[w] # "threw"
         /\ pc[w] \in {"claim", "store"} => outcome[w].by \in Setter
         /\ \A s \in State : Wrote(w, s) => Stored(s)
    /\ \A c \in Consumer :
         /\ pc[c] = "resume" => stateSet["outer"] /\ Stored("outer")
         /\ pc[c] = "mark" => sawSet[c] = stateSet["outer"]
         /\ pc[c] = "suspended" =>
              /\ futureSuspended["outer"]
              /\ (\E w \in Writer : Told(w, "outer")) => scheduled = <<c>>
         /\ pc[c] = "done" => \E s \in Setter : got[c] \in {Val(s), Exn(s)}

IndInv == TypeOK /\ ClaimInv /\ AwaitInv /\ LoopInv

-----------------------------------------------------------------------------

\* Setters, the returner and consumers are different agents.
LEMMA AgentFacts ==
  /\ \A s \in Setter : s \in Writer /\ s \in Agent /\ s # None
  /\ Returner \in Writer
  /\ \A w \in Writer : w \in Agent /\ w \notin Consumer /\ w # None
  /\ \A c \in Consumer : c \in Agent /\ c \notin Writer /\ c # None
  /\ None \notin State
  BY AgentsAssumption DEF Agent, Writer, State

\* The winners of each state are the same as before.
WritersKept ==
  \A w \in Writer, s \in State : (Won(w, s)' <=> Won(w, s)) /\ (Wrote(w, s)' <=> Wrote(w, s))

\* A step that changes neither the states nor who won them keeps the claims.
LEMMA ClaimFrame ==
  ASSUME CellInv, WritersKept, UNCHANGED <<stateSet, value, exception>>
  PROVE  CellInv'
<1>1. \A s \in State : (\E w \in Writer : Won(w, s)') <=> (\E w \in Writer : Won(w, s))
  BY DEF WritersKept
<1>2. \A s \in State : (\E w \in Writer : Wrote(w, s)') <=> (\E w \in Writer : Wrote(w, s))
  BY DEF WritersKept
<1> QED  BY <1>1, <1>2 DEF CellInv, WritersKept, Stored

\* A writer that finds an awaiter to wake is the first to do so.
LEMMA WakeFacts ==
  ASSUME TypeOK, ClaimInv, AwaitInv,
         NEW a \in Writer, pc[a] = "wake", futureSuspended[target[a]]
  PROVE  /\ target[a] = "outer"
         /\ handle["outer"] \in Consumer
         /\ pc[handle["outer"]] = "suspended"
         /\ scheduled = <<>>
<1>1. target[a] = "outer"
  BY DEF ClaimInv, WriterPcInv, AwaitInv, State
<1>2. ~ \E w \in Writer : Told(w, "outer")
  BY <1>1 DEF ClaimInv, CellInv, State, Told, Won
<1> QED  BY <1>1, <1>2 DEF AwaitInv

\* What ScheduleTask does, by cases.
LEMMA ScheduleFacts ==
  ASSUME TypeOK, ClaimInv, AwaitInv, NEW a \in Writer, ScheduleTask(a)
  PROVE  /\ pc[a] = "wake" /\ target[a] \in State
         /\ \/ ~futureSuspended[target[a]] /\ scheduled' = scheduled /\ pc' = [pc EXCEPT ![a] = "done"]
            \/ /\ futureSuspended[target[a]]
               /\ scheduled' = <<handle["outer"]>> /\ pc' = [pc EXCEPT ![a] = "done"]
            \/ /\ futureSuspended[target[a]] /\ world = "threads"
               /\ scheduled' = scheduled /\ pc' = [pc EXCEPT ![a] = "threw"]
<1>1. pc[a] = "wake" /\ target[a] \in State
  BY DEF ScheduleTask, At, ClaimInv, WriterPcInv
<1>2. CASE futureSuspended[target[a]]
  <2>1. Append(<<>>, handle["outer"]) = <<handle["outer"]>>
    OBVIOUS
  <2> QED  BY <1>1, <1>2, <2>1, WakeFacts DEF ScheduleTask, At
<1> QED  BY <1>1, <1>2 DEF ScheduleTask, At

\* Every step keeps the types.
LEMMA TypeStep == TypeOK /\ ClaimInv /\ AwaitInv /\ [Next]_vars => TypeOK'
<1> SUFFICES ASSUME TypeOK, ClaimInv, AwaitInv, [Next]_vars PROVE TypeOK'
  OBVIOUS
<1> USE AgentFacts DEF TypeOK, ClaimInv, WriterPcInv, CellInv, AwaitInv, State, Outcomes,
     Val, Exn, NotSet, Empty, WriterPc, ConsumerPc
<1>1. ASSUME NEW a \in Setter, SetterWalks(a) PROVE TypeOK'
  BY <1>1 DEF SetterWalks, At, sharedVars
<1>2. ASSUME ReturnChecks PROVE TypeOK'
  BY <1>2 DEF ReturnChecks, InnerResult, At, sharedVars
<1>3. ASSUME ReturnChains PROVE TypeOK'
  BY <1>3 DEF ReturnChains, At, sharedVars
<1>4. ASSUME NEW a \in Writer, ClaimStateSet(a) PROVE TypeOK'
  BY <1>4 DEF ClaimStateSet, At, sharedVars
<1>5. ASSUME NEW a \in Writer, StoreOutcome(a) PROVE TypeOK'
  BY <1>5 DEF StoreOutcome, At, sharedVars
<1>6. ASSUME NEW a \in Writer, ScheduleTask(a) PROVE TypeOK'
  <2>1. handle["outer"] \in Consumer => <<handle["outer"]>> \in Seq(Consumer)
    OBVIOUS
  <2>2. scheduled' \in Seq(Consumer)
    BY <1>6, <2>1, ScheduleFacts, WakeFacts
  <2>3. UNCHANGED <<sharedVars, futureObtained, target, outcome, sawSet, got, world>>
    BY <1>6 DEF ScheduleTask, At
  <2> QED  BY <1>6, <2>2, <2>3, ScheduleFacts DEF sharedVars
<1>7. ASSUME NEW a \in Consumer, GetFuture(a) PROVE TypeOK'
  BY <1>7 DEF GetFuture, At, sharedVars
<1>8. ASSUME NEW a \in Consumer, AwaitReady(a) PROVE TypeOK'
  BY <1>8 DEF AwaitReady, At, sharedVars
<1>9. ASSUME NEW a \in Consumer, RecordHandle(a) PROVE TypeOK'
  BY <1>9 DEF RecordHandle, At, sharedVars
<1>10. ASSUME NEW a \in Consumer, TestStateSet(a) PROVE TypeOK'
  BY <1>10 DEF TestStateSet, At, sharedVars
<1>11. ASSUME NEW a \in Consumer, MarkSuspended(a) PROVE TypeOK'
  BY <1>11 DEF MarkSuspended, At, sharedVars
<1>12. ASSUME NEW a \in Consumer, AwaitResume(a) PROVE TypeOK'
  BY <1>12 DEF AwaitResume, At, sharedVars
<1>13. ASSUME SchedulerResumes PROVE TypeOK'
  BY <1>13 DEF SchedulerResumes, At, sharedVars
<1>14. CASE UNCHANGED vars
  BY <1>14 DEF vars, sharedVars
<1> QED  BY <1>1, <1>2, <1>3, <1>4, <1>5, <1>6, <1>7, <1>8, <1>9, <1>10, <1>11, <1>12,
     <1>13, <1>14 DEF Next, WriterStep, ConsumerStep

\* Every step keeps one winner per state: only the claim of an unset state adds one.
LEMMA ClaimStep == TypeOK /\ ClaimInv /\ AwaitInv /\ [Next]_vars => ClaimInv'
<1> SUFFICES ASSUME TypeOK, ClaimInv, AwaitInv, [Next]_vars PROVE ClaimInv'
  OBVIOUS
<1> USE AgentFacts DEF TypeOK, ClaimInv, WriterPcInv, State, Outcomes, Val, Exn, Empty,
     WriterPc
<1>1. ASSUME NEW a \in Setter, SetterWalks(a) PROVE ClaimInv'
  <2>1. UNCHANGED <<stateSet, value, exception>>
    BY <1>1 DEF SetterWalks, sharedVars
  <2>2. WritersKept
    BY <1>1 DEF SetterWalks, At, WritersKept, Won, Wrote
  <2>3. WriterPcInv'
    BY <1>1 DEF SetterWalks, At, sharedVars
  <2> QED  BY <2>1, <2>2, <2>3, ClaimFrame DEF ClaimInv
<1>2. ASSUME ReturnChecks PROVE ClaimInv'
  <2>1. UNCHANGED <<stateSet, value, exception>>
    BY <1>2 DEF ReturnChecks, sharedVars
  <2>2. WritersKept
    BY <1>2 DEF ReturnChecks, At, WritersKept, Won, Wrote
  <2>3. WriterPcInv'
    BY <1>2 DEF ReturnChecks, InnerResult, At, sharedVars
  <2> QED  BY <2>1, <2>2, <2>3, ClaimFrame DEF ClaimInv
<1>3. ASSUME ReturnChains PROVE ClaimInv'
  <2>1. UNCHANGED <<stateSet, value, exception>>
    BY <1>3 DEF ReturnChains, sharedVars
  <2>2. WritersKept
    BY <1>3 DEF ReturnChains, At, WritersKept, Won, Wrote
  <2>3. WriterPcInv'
    BY <1>3 DEF ReturnChains, At, sharedVars
  <2> QED  BY <2>1, <2>2, <2>3, ClaimFrame DEF ClaimInv
<1>4. ASSUME NEW a \in Writer, ClaimStateSet(a) PROVE ClaimInv'
  BY <1>4 DEF ClaimStateSet, At, sharedVars, CellInv, Won, Wrote, Stored
<1>5. ASSUME NEW a \in Writer, StoreOutcome(a) PROVE ClaimInv'
  BY <1>5 DEF StoreOutcome, At, sharedVars, CellInv, Won, Wrote, Stored
<1>6. ASSUME NEW a \in Writer, ScheduleTask(a) PROVE ClaimInv'
  <2>1. UNCHANGED <<stateSet, value, exception>>
    BY <1>6 DEF ScheduleTask, sharedVars
  <2>2. WritersKept
    BY <1>6 DEF ScheduleTask, At, WritersKept, Won, Wrote
  <2>3. WriterPcInv'
    BY <1>6 DEF ScheduleTask, At, sharedVars
  <2> QED  BY <2>1, <2>2, <2>3, ClaimFrame DEF ClaimInv
<1>7. ASSUME NEW a \in Consumer, GetFuture(a) PROVE ClaimInv'
  BY <1>7 DEF GetFuture, At, sharedVars, CellInv, Won, Wrote, Stored
<1>8. ASSUME NEW a \in Consumer, AwaitReady(a) PROVE ClaimInv'
  BY <1>8 DEF AwaitReady, At, sharedVars, CellInv, Won, Wrote, Stored
<1>9. ASSUME NEW a \in Consumer, RecordHandle(a) PROVE ClaimInv'
  BY <1>9 DEF RecordHandle, At, sharedVars, CellInv, Won, Wrote, Stored
<1>10. ASSUME NEW a \in Consumer, TestStateSet(a) PROVE ClaimInv'
  BY <1>10 DEF TestStateSet, At, sharedVars, CellInv, Won, Wrote, Stored
<1>11. ASSUME NEW a \in Consumer, MarkSuspended(a) PROVE ClaimInv'
  BY <1>11 DEF MarkSuspended, At, sharedVars, CellInv, Won, Wrote, Stored
<1>12. ASSUME NEW a \in Consumer, AwaitResume(a) PROVE ClaimInv'
  BY <1>12 DEF AwaitResume, At, sharedVars, CellInv, Won, Wrote, Stored
<1>13. ASSUME SchedulerResumes PROVE ClaimInv'
  BY <1>13 DEF SchedulerResumes, At, sharedVars, CellInv, Won, Wrote, Stored
<1>14. CASE UNCHANGED vars
  BY <1>14 DEF vars, sharedVars, CellInv, Won, Wrote, Stored
<1> QED  BY <1>1, <1>2, <1>3, <1>4, <1>5, <1>6, <1>7, <1>8, <1>9, <1>10, <1>11, <1>12,
     <1>13, <1>14 DEF Next, WriterStep, ConsumerStep

\* Every step keeps one consumer and its handle, and schedules it at most once.
LEMMA AwaitStep == TypeOK /\ ClaimInv /\ AwaitInv /\ [Next]_vars => AwaitInv'
<1> SUFFICES ASSUME TypeOK, ClaimInv, AwaitInv, [Next]_vars PROVE AwaitInv'
  OBVIOUS
<1> USE AgentFacts DEF TypeOK, ClaimInv, WriterPcInv, CellInv, AwaitInv, State, Won, Told,
     Holds, ConsumerPc, WriterPc
<1>1. ASSUME NEW a \in Setter, SetterWalks(a) PROVE AwaitInv'
  BY <1>1 DEF SetterWalks, At, sharedVars
<1>2. ASSUME ReturnChecks PROVE AwaitInv'
  BY <1>2 DEF ReturnChecks, InnerResult, At, sharedVars
<1>3. ASSUME ReturnChains PROVE AwaitInv'
  BY <1>3 DEF ReturnChains, At, sharedVars
<1>4. ASSUME NEW a \in Writer, ClaimStateSet(a) PROVE AwaitInv'
  BY <1>4 DEF ClaimStateSet, At, sharedVars
<1>5. ASSUME NEW a \in Writer, StoreOutcome(a) PROVE AwaitInv'
  BY <1>5 DEF StoreOutcome, At, sharedVars
<1>6. ASSUME NEW a \in Writer, ScheduleTask(a) PROVE AwaitInv'
  <2>1. UNCHANGED <<futureSuspended, handle, futureObtained, target>>
    BY <1>6 DEF ScheduleTask, sharedVars
  <2>2. /\ \A c \in Consumer : pc[c]' = pc[c]
        /\ \A w \in Writer : Told(w, "outer") => Told(w, "outer")'
    BY <1>6, <2>1, ScheduleFacts DEF Told
  <2>3. scheduled' # <<>> =>
          /\ scheduled' = <<handle["outer"]>>
          /\ handle["outer"] \in Consumer
          /\ pc[handle["outer"]] = "suspended"
          /\ \E w \in Writer : Told(w, "outer")'
    <3>1. CASE scheduled' = scheduled
      BY <2>2, <3>1 DEF AwaitInv
    <3>2. CASE scheduled' # scheduled
      BY <1>6, <2>1, <3>2, ScheduleFacts, WakeFacts DEF Told
    <3> QED  BY <3>1, <3>2
  <2> QED  BY <2>1, <2>2, <2>3 DEF AwaitInv, Holds
<1>7. ASSUME NEW a \in Consumer, GetFuture(a) PROVE AwaitInv'
  BY <1>7 DEF GetFuture, At, sharedVars
<1>8. ASSUME NEW a \in Consumer, AwaitReady(a) PROVE AwaitInv'
  BY <1>8 DEF AwaitReady, At, sharedVars
<1>9. ASSUME NEW a \in Consumer, RecordHandle(a) PROVE AwaitInv'
  BY <1>9 DEF RecordHandle, At, sharedVars
<1>10. ASSUME NEW a \in Consumer, TestStateSet(a) PROVE AwaitInv'
  BY <1>10 DEF TestStateSet, At, sharedVars
<1>11. ASSUME NEW a \in Consumer, MarkSuspended(a) PROVE AwaitInv'
  BY <1>11 DEF MarkSuspended, At, sharedVars
<1>12. ASSUME NEW a \in Consumer, AwaitResume(a) PROVE AwaitInv'
  BY <1>12 DEF AwaitResume, At, sharedVars
<1>13. ASSUME SchedulerResumes PROVE AwaitInv'
  BY <1>13 DEF SchedulerResumes, At, sharedVars
<1>14. CASE UNCHANGED vars
  BY <1>14 DEF vars, sharedVars
<1> QED  BY <1>1, <1>2, <1>3, <1>4, <1>5, <1>6, <1>7, <1>8, <1>9, <1>10, <1>11, <1>12,
     <1>13, <1>14 DEF Next, WriterStep, ConsumerStep

\* On one scheduler every step finds the other agents outside their operations.
LEMMA LoopStep == IndInv /\ [Next]_vars => LoopInv'
<1> SUFFICES ASSUME IndInv, [Next]_vars PROVE LoopInv'
  OBVIOUS
<1> USE AgentFacts DEF IndInv, TypeOK, ClaimInv, WriterPcInv, CellInv, AwaitInv, LoopInv,
     State, Won, Wrote, Stored, Told, Holds, Busy, Turn, Val, Exn, ConsumerPc, WriterPc
<1>1. ASSUME NEW a \in Setter, SetterWalks(a) PROVE LoopInv'
  BY <1>1 DEF SetterWalks, At, sharedVars
<1>2. ASSUME ReturnChecks PROVE LoopInv'
  BY <1>2 DEF ReturnChecks, InnerResult, At, sharedVars
<1>3. ASSUME ReturnChains PROVE LoopInv'
  BY <1>3 DEF ReturnChains, At, sharedVars
<1>4. ASSUME NEW a \in Writer, ClaimStateSet(a) PROVE LoopInv'
  <2> SUFFICES ASSUME world = "loop" PROVE LoopInv'
    BY <1>4 DEF ClaimStateSet, At
  <2>1. \A b \in Agent : b # a => ~Busy(b) /\ ~Busy(b)' /\ pc[b]' = pc[b]
    BY <1>4 DEF ClaimStateSet, At
  <2>2. \A w \in Writer, s \in State : Wrote(w, s)' => Wrote(w, s)
    BY <1>4 DEF ClaimStateSet, At
  <2>3. \A w \in Writer : Told(w, "outer")' => Told(w, "outer")
    BY <1>4 DEF ClaimStateSet, At
  <2>4. UNCHANGED <<futureSuspended, value, exception, scheduled, target, outcome, got>>
    BY <1>4 DEF ClaimStateSet
  <2>5. \A c \in Consumer : pc[c]' = pc[c] /\ pc[c] \notin {"resume", "mark"}
    BY <2>1
  <2>6. \A w \in Writer : pc[w]' # "threw" /\ (pc[w]' \in {"claim", "store"} => outcome[w].by \in Setter)
    BY <1>4, <2>1 DEF ClaimStateSet, At
  <2>7. \A c, b \in Agent : Busy(c)' /\ Busy(b)' => c = b
    BY <2>1
  <2> QED  BY <2>2, <2>3, <2>4, <2>5, <2>6, <2>7
<1>5. ASSUME NEW a \in Writer, StoreOutcome(a) PROVE LoopInv'
  BY <1>5 DEF StoreOutcome, At, sharedVars
<1>6. ASSUME NEW a \in Writer, ScheduleTask(a) PROVE LoopInv'
  <2> SUFFICES ASSUME world = "loop" PROVE LoopInv'
    BY <1>6 DEF ScheduleTask, At
  <2>1. UNCHANGED <<stateSet, futureSuspended, value, exception, handle, target, outcome, sawSet, got>>
    BY <1>6 DEF ScheduleTask, sharedVars
  <2>2. \A b \in Agent : b # a => ~Busy(b) /\ ~Busy(b)' /\ pc[b]' = pc[b]
    BY <1>6 DEF ScheduleTask, At
  <2>3. pc[a] = "wake" /\ pc[a]' = "done"
    BY <1>6, ScheduleFacts
  <2>4. \A w \in Writer, s \in State : Wrote(w, s)' => Wrote(w, s)
    BY <2>1, <2>2, <2>3
  <2>5. ASSUME NEW c \in Consumer, pc[c] = "suspended", NEW w \in Writer, Told(w, "outer")'
        PROVE  scheduled' = <<c>>
    <3>1. CASE w = a
      BY <1>6, <2>1, <2>3, <2>5, <3>1, ScheduleFacts
    <3>2. CASE w # a
      BY <1>6, <2>1, <2>2, <2>5, <3>2, ScheduleFacts
    <3> QED  BY <3>1, <3>2
  <2> QED  BY <2>1, <2>2, <2>3, <2>4, <2>5
<1>7. ASSUME NEW a \in Consumer, GetFuture(a) PROVE LoopInv'
  BY <1>7 DEF GetFuture, At, sharedVars
<1>8. ASSUME NEW a \in Consumer, AwaitReady(a) PROVE LoopInv'
  BY <1>8 DEF AwaitReady, At, sharedVars
<1>9. ASSUME NEW a \in Consumer, RecordHandle(a) PROVE LoopInv'
  BY <1>9 DEF RecordHandle, At, sharedVars
<1>10. ASSUME NEW a \in Consumer, TestStateSet(a) PROVE LoopInv'
  BY <1>10 DEF TestStateSet, At, sharedVars
<1>11. ASSUME NEW a \in Consumer, MarkSuspended(a) PROVE LoopInv'
  BY <1>11 DEF MarkSuspended, At, sharedVars
<1>12. ASSUME NEW a \in Consumer, AwaitResume(a) PROVE LoopInv'
  BY <1>12 DEF AwaitResume, At, sharedVars
<1>13. ASSUME SchedulerResumes PROVE LoopInv'
  BY <1>13 DEF SchedulerResumes, At, sharedVars
<1>14. CASE UNCHANGED vars
  BY <1>14 DEF vars, sharedVars
<1> QED  BY <1>1, <1>2, <1>3, <1>4, <1>5, <1>6, <1>7, <1>8, <1>9, <1>10, <1>11, <1>12,
     <1>13, <1>14 DEF Next, WriterStep, ConsumerStep

-----------------------------------------------------------------------------
(* Theorems. *)

\* Nobody has begun.
LEMMA Initially == Init => IndInv
<1> SUFFICES ASSUME Init PROVE IndInv
  OBVIOUS
<1>1. TypeOK
  <2>1. <<>> \in Seq(Consumer)
    OBVIOUS
  <2> QED  BY <2>1 DEF Init, TypeOK
<1>2. ClaimInv
  BY AgentFacts DEF Init, ClaimInv, WriterPcInv, CellInv, WriterPc, Won, Stored
<1>3. AwaitInv
  BY AgentFacts DEF Init, AwaitInv, ConsumerPc, Holds, State
<1>4. LoopInv
  BY AgentFacts DEF Init, LoopInv, Busy, Wrote
<1> QED  BY <1>1, <1>2, <1>3, <1>4 DEF IndInv

\* The inductive invariant holds however setters, the returning coroutine, the
\* consumers and the scheduler interleave (Promise, Future of future.h).
THEOREM Invariance == Spec => []IndInv
<1>1. IndInv /\ [Next]_vars => IndInv'
  BY TypeStep, ClaimStep, AwaitStep, LoopStep DEF IndInv
<1> QED  BY <1>1, Initially, PTL DEF Spec

\* Set once: _claim_state_set lets one writer through, so that no value or exception
\* is overwritten and no state holds both, on any number of threads.
THEOREM StatesAreWrittenOnce == Spec => []WrittenOnce
<1>1. IndInv => WrittenOnce
  <2> SUFFICES ASSUME IndInv, NEW s \in State
               PROVE  /\ Cardinality({w \in Writer : Won(w, s)}) <= 1
                      /\ ~(value[s] # None /\ exception[s] # None)
    BY DEF WrittenOnce, Won
  <2> DEFINE W == {w \in Writer : Won(w, s)}
  <2>1. W = {} \/ \E w : W = {w}
    BY DEF IndInv, ClaimInv, CellInv
  <2> HIDE DEF W
  <2>2. Cardinality(W) \in {0, 1}
    <3>1. CASE W = {}
      BY <3>1, FS_EmptySet, Zenon
    <3>2. ASSUME NEW w, W = {w} PROVE Cardinality(W) = 1
      BY <3>2, FS_Singleton, Zenon
    <3> QED  BY <2>1, <3>1, <3>2
  <2> QED  BY <2>2 DEF W, IndInv, ClaimInv, CellInv
<1> QED  BY <1>1, Invariance, PTL

\* Resumed once: the awaiter's handle is queued at most once and only while it is
\* suspended (_schedule_task, await_suspend), on any number of threads.
THEOREM AwaitersAreResumedOnce == Spec => []ResumedOnce
<1>1. ASSUME IndInv PROVE ResumedOnce
  <2>1. CASE scheduled = <<>>
    BY <2>1 DEF ResumedOnce
  <2>2. CASE scheduled # <<>>
    <3>1. scheduled = <<handle["outer"]>> /\ pc[handle["outer"]] = "suspended"
      BY <1>1, <2>2 DEF IndInv, AwaitInv
    <3>2. Len(scheduled) = 1 /\ scheduled[1] = handle["outer"]
      BY <3>1
    <3> QED  BY <3>1, <3>2 DEF ResumedOnce
  <2> QED  BY <2>1, <2>2
<1> QED  BY <1>1, Invariance, PTL

\* On one scheduler co_await returns what a setter stored, also through a returned
\* future, never an empty optional (await_resume, return_value).
THEOREM AwaitersGetTheResult == Spec => []AwaitGetsTheResult
<1>1. IndInv => AwaitGetsTheResult
  BY DEF IndInv, LoopInv, AwaitGetsTheResult
<1> QED  BY <1>1, Invariance, PTL

\* On one scheduler no awaiter is left suspended once the state is set and the setter
\* has returned (set_value, await_suspend).
THEOREM NoWakeupIsLost == Spec => []NoLostWakeup
<1>1. IndInv => NoLostWakeup
  <2> SUFFICES ASSUME IndInv, world = "loop", stateSet["outer"],
                      \A w \in Writer : pc[w] \in {"start", "done", "refused"},
                      NEW c \in Consumer, pc[c] = "suspended"
               PROVE  \E i \in 1 .. Len(scheduled) : scheduled[i] = c
    BY DEF NoLostWakeup
  <2>1. \E w \in Writer : Told(w, "outer")
    BY DEF IndInv, ClaimInv, CellInv, State, Won, Told
  <2>2. scheduled = <<c>>
    BY <2>1 DEF IndInv, LoopInv
  <2> QED  BY <2>2
<1> QED  BY <1>1, Invariance, PTL
=============================================================================
