--------------------------- MODULE ServerResource ---------------------------
(***************************************************************************)
(* One lw::ServerResourceContext (lw/net/server_resource.h): the resources *)
(* of a request cycle, each built by its registered factory the first time *)
(* somebody fetches it, after the resources it depends on.                 *)
(*                                                                         *)
(* create_and_get, construct_server_resource and the factory invocation    *)
(* are coroutines of one scheduler that start eagerly: a call runs on the  *)
(* caller's stack until it first suspends.  stack holds the constructions  *)
(* that are still on the C++ stack; while it is not empty nothing but its  *)
(* top moves, and when it is empty the scheduler may resume any coroutine  *)
(* whose awaited future is ready.                                          *)
(***************************************************************************)
EXTENDS Naturals, Sequences, FiniteSets

CONSTANTS Resource,      \* resource types
          Request,       \* outside callers of create_and_get
          Deps,          \* dependencies_t of each resource
          Registered,    \* types with a factory in get_server_resources()
          Async,         \* factories that return a pending future
          Failing,       \* factories that may throw
          QueueMayFill,  \* the scheduler's queue can be full at set_value
          None

ASSUME DepsAssumption == Deps \in [Resource -> SUBSET Resource]
ASSUME KindsAssumption ==
  /\ Registered \subseteq Resource
  /\ Async \subseteq Resource
  /\ Failing \subseteq Resource
  /\ QueueMayFill \in BOOLEAN

VARIABLES
  dependencies,  \* keys of _dependencies
  construction,  \* the entries of _construction: <<type, fetch to notify or None>>
  fetch,         \* what each call of create_and_get is doing
  phase,         \* the construction of each type
  builder,       \* the fetch that constructs each type
  stack,         \* constructions on the C++ stack, innermost first
  invoked        \* factory calls made so far

vars == <<dependencies, construction, fetch, phase, builder, stack, invoked>>

\* A call of create_and_get<of>: by a request, or by the construction of a type.
Fetch == [by : Request \cup Resource, of : Resource]

ASSUME NamesAssumption == None \notin Fetch /\ Request \cap Resource = {}

Need(r) == {[by |-> r, of |-> d] : d \in Deps[r]}
Settled(f) == fetch[f] \in {"done", "failed"}
Waiters(r) == {f \in Fetch : <<r, f>> \in construction}
Building(r) == \E f \in Fetch \cup {None} : <<r, f>> \in construction

\* At most two calls of one factory are counted.
MaxInvoked == 2

\* Type invariant.
TypeOK ==
  /\ dependencies \subseteq Resource
  /\ construction \subseteq Resource \X (Fetch \cup {None})
  /\ fetch \in [Fetch -> {"none", "awaiting", "notified", "building", "done", "failed"}]
  /\ phase \in [Resource -> {"idle", "deps", "making", "made", "stored", "threw"}]
  /\ builder \in [Resource -> Fetch \cup {None}]
  /\ stack \in Seq(Resource)
  /\ invoked \in [Resource -> 0..MaxInvoked]

Init ==
  /\ dependencies = {}
  /\ construction = {}
  /\ fetch = [f \in Fetch |-> "none"]
  /\ phase = [r \in Resource |-> "idle"]
  /\ builder = [r \in Resource |-> None]
  /\ stack = <<>>
  /\ invoked = [r \in Resource |-> 0]

-----------------------------------------------------------------------------
(* create_and_get up to its first suspension. *)

FetchBuilt(f) ==
  /\ f.of \in dependencies
  /\ fetch' = [fetch EXCEPT ![f] = "done"]
  /\ UNCHANGED <<dependencies, construction, phase, builder, stack, invoked>>

\* Under construction: wait for a promise of one's own in the multimap.
FetchWaits(f) ==
  /\ f.of \notin dependencies
  /\ Building(f.of)
  /\ construction' = construction \cup {<<f.of, f>>}
  /\ fetch' = [fetch EXCEPT ![f] = "awaiting"]
  /\ UNCHANGED <<dependencies, phase, builder, stack, invoked>>

\* A slip: the type is built whether or not somebody is building it.
FetchConstructsAgain(f) ==
  /\ f.of \notin dependencies
  /\ f.of \in Registered
  /\ construction' = construction \cup {<<f.of, None>>}
  /\ fetch' = [fetch EXCEPT ![f] = "building"]
  /\ phase' = [phase EXCEPT ![f.of] = "deps"]
  /\ builder' = [builder EXCEPT ![f.of] = f]
  /\ stack' = <<f.of>> \o stack
  /\ UNCHANGED <<dependencies, invoked>>

\* Tag the type and start its factory's invoker.
FetchConstructs(f) ==
  /\ f.of \notin dependencies
  /\ ~Building(f.of)
  /\ f.of \in Registered
  /\ construction' = construction \cup {<<f.of, None>>}
  /\ fetch' = [fetch EXCEPT ![f] = "building"]
  /\ phase' = [phase EXCEPT ![f.of] = "deps"]
  /\ builder' = [builder EXCEPT ![f.of] = f]
  /\ stack' = <<f.of>> \o stack
  /\ UNCHANGED <<dependencies, invoked>>

\* construct_server_resource throws NotFound after the type was tagged.
FetchNotFound(f) ==
  /\ f.of \notin dependencies
  /\ ~Building(f.of)
  /\ f.of \notin Registered
  /\ construction' = construction \cup {<<f.of, None>>}
  /\ fetch' = [fetch EXCEPT ![f] = "failed"]
  /\ UNCHANGED <<dependencies, phase, builder, stack, invoked>>

CreateAndGet(f) ==
  \/ FetchBuilt(f)
  \/ FetchWaits(f)
  \/ FetchConstructs(f)
  \/ FetchNotFound(f)

\* An outside coroutine of the request's handling fetches a resource.
Call(q, r) ==
  /\ stack = <<>>
  /\ \A x \in Resource : fetch[[by |-> q, of |-> x]] = "none"
  /\ CreateAndGet([by |-> q, of |-> r])

\* A waiter is resumed and reads its resource.
ResumeWaiter(f) ==
  /\ stack = <<>>
  /\ fetch[f] = "notified"
  /\ f.of \in dependencies
  /\ fetch' = [fetch EXCEPT ![f] = "done"]
  /\ UNCHANGED <<dependencies, construction, phase, builder, stack, invoked>>

-----------------------------------------------------------------------------
(* FetchDependenciesAndInvoke::invoke. *)

OnTop(r) == stack # <<>> /\ Head(stack) = r
Turn(r) == stack = <<>> \/ OnTop(r)
Pop(r) == stack' = IF OnTop(r) THEN Tail(stack) ELSE stack

\* The arguments of co::all: the fetches start in an unspecified order.
Launch(r, d) ==
  /\ OnTop(r)
  /\ phase[r] = "deps"
  /\ d \in Deps[r]
  /\ fetch[[by |-> r, of |-> d]] = "none"
  /\ CreateAndGet([by |-> r, of |-> d])

Launched(r) == \A f \in Need(r) : fetch[f] # "none"

\* co::all has to wait: control returns to the caller of this construction.
SuspendOnDeps(r) ==
  /\ OnTop(r)
  /\ phase[r] = "deps"
  /\ Launched(r)
  /\ \E f \in Need(r) : ~Settled(f)
  /\ stack' = Tail(stack)
  /\ UNCHANGED <<dependencies, construction, fetch, phase, builder, invoked>>

\* co::all rethrows a failure, the other futures being dropped.
DepsFail(r) ==
  /\ Turn(r)
  /\ phase[r] = "deps"
  /\ Launched(r)
  /\ \E f \in Need(r) : fetch[f] = "failed"
  /\ phase' = [phase EXCEPT ![r] = "threw"]
  /\ UNCHANGED <<dependencies, construction, fetch, builder, stack, invoked>>

\* A slip: the factory is called as soon as one dependency is there.
DepsDoneAny(r) == Need(r) = {} \/ \E f \in Need(r) : fetch[f] = "done"

DepsDone(r) == \A f \in Need(r) : fetch[f] = "done"

\* Every dependency is there: call the factory.  An asynchronous one suspends
\* the construction; a synchronous one returns or throws at once.
CallFactory(r) ==
  /\ Turn(r)
  /\ phase[r] = "deps"
  /\ Launched(r)
  /\ DepsDone(r)
  /\ invoked[r] < MaxInvoked
  /\ invoked' = [invoked EXCEPT ![r] = @ + 1]
  /\ \/ r \in Async /\ phase' = [phase EXCEPT ![r] = "making"] /\ Pop(r)
     \/ r \notin Async /\ phase' = [phase EXCEPT ![r] = "made"] /\ UNCHANGED stack
     \/ r \in Failing /\ phase' = [phase EXCEPT ![r] = "threw"] /\ UNCHANGED stack
  /\ UNCHANGED <<dependencies, construction, fetch, builder>>

\* The factory's future is fulfilled and the invoker returns the resource.
FactoryResolves(r) ==
  /\ stack = <<>>
  /\ phase[r] = "making"
  /\ phase' = [phase EXCEPT ![r] = "made"]
  /\ UNCHANGED <<dependencies, construction, fetch, builder, stack, invoked>>

FactoryRejects(r) ==
  /\ stack = <<>>
  /\ r \in Failing
  /\ phase[r] = "making"
  /\ phase' = [phase EXCEPT ![r] = "threw"]
  /\ UNCHANGED <<dependencies, construction, fetch, builder, stack, invoked>>

-----------------------------------------------------------------------------
(* create_and_get after construct_server_resource. *)

\* A slip: the waiters registered meanwhile are erased without a word.
StoreForgetsWaiters(r) ==
  /\ Turn(r)
  /\ phase[r] = "made"
  /\ dependencies' = dependencies \cup {r}
  /\ fetch' = [fetch EXCEPT ![builder[r]] = "done"]
  /\ construction' = {e \in construction : e[1] # r}
  /\ phase' = [phase EXCEPT ![r] = "stored"]
  /\ Pop(r)
  /\ UNCHANGED <<builder, invoked>>

\* A slip: _construction is never cleaned up.
StoreKeepsTag(r) ==
  /\ Turn(r)
  /\ phase[r] = "made"
  /\ dependencies' = dependencies \cup {r}
  /\ fetch' = [f \in Fetch |->
                 CASE f = builder[r] -> "done"
                   [] f \in Waiters(r) -> "notified"
                   [] OTHER -> fetch[f]]
  /\ phase' = [phase EXCEPT ![r] = "stored"]
  /\ Pop(r)
  /\ UNCHANGED <<construction, builder, invoked>>

\* Keep the resource, notify every waiter, drop the entries, return.
Store(r) ==
  /\ Turn(r)
  /\ phase[r] = "made"
  /\ dependencies' = dependencies \cup {r}
  /\ fetch' = [f \in Fetch |->
                 CASE f = builder[r] -> "done"
                   [] f \in Waiters(r) -> "notified"
                   [] OTHER -> fetch[f]]
  /\ construction' = {e \in construction : e[1] # r}
  /\ phase' = [phase EXCEPT ![r] = "stored"]
  /\ Pop(r)
  /\ UNCHANGED <<builder, invoked>>

\* A full scheduler queue makes the set_value of one waiter throw out of the
\* loop: the later waiters are not notified and nothing is erased.  (That the
\* builder's own caller then hears of it is FuturePromise's concern.)
StoreInterrupted(r) ==
  /\ QueueMayFill
  /\ Turn(r)
  /\ phase[r] = "made"
  /\ \E told \in SUBSET Waiters(r) :
       /\ told # Waiters(r)
       /\ fetch' = [f \in Fetch |->
                      CASE f = builder[r] -> "failed"
                        [] f \in told -> "notified"
                        [] OTHER -> fetch[f]]
  /\ dependencies' = dependencies \cup {r}
  /\ phase' = [phase EXCEPT ![r] = "stored"]
  /\ Pop(r)
  /\ UNCHANGED <<construction, builder, invoked>>

\* The exception leaves create_and_get: the tag and the waiters stay.
Rethrow(r) ==
  /\ Turn(r)
  /\ phase[r] = "threw"
  /\ fetch' = [fetch EXCEPT ![builder[r]] = "failed"]
  /\ phase' = [phase EXCEPT ![r] = "idle"]
  /\ Pop(r)
  /\ UNCHANGED <<dependencies, construction, builder, invoked>>

Construct(r) ==
  \/ \E d \in Resource : Launch(r, d)
  \/ SuspendOnDeps(r)
  \/ DepsFail(r)
  \/ CallFactory(r)
  \/ FactoryResolves(r)
  \/ FactoryRejects(r)
  \/ Store(r)
  \/ StoreInterrupted(r)
  \/ Rethrow(r)

Next ==
  \/ \E q \in Request, r \in Resource : Call(q, r)
  \/ \E f \in Fetch : ResumeWaiter(f)
  \/ \E r \in Resource : Construct(r)

\* The scheduler resumes what is ready and a factory's future is fulfilled or
\* rejected in the end; nobody has to call.
Fairness ==
  /\ WF_vars(\E f \in Fetch : ResumeWaiter(f))
  /\ WF_vars(\E r \in Resource : Construct(r))

Spec == Init /\ [][Next]_vars /\ Fairness

-----------------------------------------------------------------------------
(* Properties. *)

\* "If this is the first time the resource is requested, it is constructed
\* first": however the fetches of one context interleave, and whatever fails,
\* create_and_get calls a type's factory at most once.
ConstructedOnce == \A r \in Resource : invoked[r] <= 1

\* ServerResource::get relies on unsafe_get finding what the type depends on:
\* a factory runs, and a resource is stored, only with all of them stored.
DependenciesComeFirst ==
  \A r \in Resource :
    phase[r] \in {"making", "made"} \/ r \in dependencies => Deps[r] \subseteq dependencies

\* A construction of that type has thrown.
Failed(r) == \E f \in Fetch : f.of = r /\ fetch[f] = "failed"

HasBuilder(f) ==
  /\ <<f.of, f>> \in construction
  /\ phase[f.of] \in {"deps", "making", "made", "threw"}

\* Whoever waits in _construction has a construction under way that will notify
\* it: the comment in create_and_get promises to "notify everyone waiting for
\* its completion".
WaiterHasBuilder == \A f \in Fetch : fetch[f] = "awaiting" => HasBuilder(f)

\* When every outside fetch has returned, none of them with an exception, the
\* context is at rest: nothing is tagged as under construction and no coroutine
\* is left that would touch the context after its owner destroyed it.
AtRestWhenSettled ==
  (\A f \in [by : Request, of : Resource] : fetch[f] \in {"none", "done"}) =>
    /\ construction = {}
    /\ stack = <<>>
    /\ \A f \in Fetch : fetch[f] = "none" \/ Settled(f)

\* Every request's create_and_get returns or throws, unless some construction
\* threw.
FetchSettles ==
  \A q \in Request :
    (\E r \in Resource : fetch[[by |-> q, of |-> r]] # "none")
      ~> (\E r \in Resource : Settled([by |-> q, of |-> r]) \/ Failed(r))
=============================================================================
