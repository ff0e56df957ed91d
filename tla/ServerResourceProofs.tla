------------------------ MODULE ServerResourceProofs ------------------------
(***************************************************************************)
(* The safety properties of ServerResource, for any set of types and any   *)
(* dependencies between them, cyclic ones included.                        *)
(*                                                                         *)
(* BuildInv follows the construction of each type, FetchInv the calls of   *)
(* create_and_get, StackInv the constructions on the C++ stack.  NoCycle   *)
(* says that the types are built on behalf of one another without a cycle, *)
(* so that whatever is still under way is under way for some request.      *)
(***************************************************************************)
EXTENDS ServerResource, SequenceTheorems, TLAPS

Live(r) == phase[r] \in {"deps", "making", "made", "threw"}

\* A type is built at most once: what was begun is live, stored or has failed.
Begun(r) == builder[r] # None
Broken(r) == Begun(r) /\ fetch[builder[r]] = "failed"

BuildOK(r) ==
  /\ ~Begun(r) => phase[r] = "idle" /\ invoked[r] = 0 /\ r \notin dependencies
  /\ Begun(r) => builder[r].of = r /\ r \in Registered
  /\ Begun(r) /\ r \notin dependencies => <<r, None>> \in construction
  /\ Live(r) => Begun(r) /\ fetch[builder[r]] = "building"
  /\ Begun(r) => fetch[builder[r]] \in {"building", "done", "failed"}
  /\ phase[r] = "stored" <=> r \in dependencies
  /\ phase[r] = "idle" /\ Begun(r) => Broken(r)
  /\ phase[r] = "deps" => invoked[r] = 0
  /\ invoked[r] <= 1
  /\ phase[r] \in {"making", "made"} \/ r \in dependencies => Deps[r] \subseteq dependencies

BuildInv == \A r \in Resource : BuildOK(r)

FetchOK(f) ==
  /\ fetch[f] \in {"done", "notified"} => f.of \in dependencies
  /\ fetch[f] = "building" => builder[f.of] = f /\ Live(f.of)
  /\ f.by \in Resource /\ fetch[f] # "none" => Begun(f.by) /\ f.of \in Deps[f.by]
  /\ f.by \in Resource /\ fetch[f] \notin {"none", "done"} =>
       phase[f.by] \in {"deps", "threw"} \/ Broken(f.by)

FetchInv == \A f \in Fetch : FetchOK(f)

\* Why a type may be tagged as under construction.
Reason(r) ==
  \/ Live(r)
  \/ Broken(r)
  \/ r \notin Registered /\ \E f \in Fetch : f.of = r /\ fetch[f] = "failed"

TagOK(r, x) ==
  <<r, x>> \in construction =>
    /\ Reason(r)
    /\ x # None => x.of = r /\ fetch[x] \in {"awaiting", "notified", "done"}

TagInv == \A r \in Resource, x \in Fetch \cup {None} : TagOK(r, x)

StackInv ==
  /\ \A i \in 1 .. Len(stack) : phase[stack[i]] \in {"deps", "made", "threw"}
  /\ \A i, j \in 1 .. Len(stack) : stack[i] = stack[j] => i = j

NoCycle ==
  /\ \A r \in Resource : Begun(r) /\ builder[r].by \in Resource => Begun(builder[r].by)
  /\ \A S \in SUBSET Resource :
       S # {} /\ (\A r \in S : Begun(r)) => \E r \in S : builder[r].by \notin S

IndInv == TypeOK /\ BuildInv /\ FetchInv /\ TagInv /\ StackInv /\ NoCycle

-----------------------------------------------------------------------------

\* A fetch is made of who asks and the type asked for.
LEMMA FetchFacts ==
  /\ \A f \in Fetch : /\ f.of \in Resource /\ f # None
                      /\ f.by \in Request \/ f.by \in Resource
  /\ \A b \in Request \cup Resource, r \in Resource :
       /\ [by |-> b, of |-> r] \in Fetch
       /\ [by |-> b, of |-> r].by = b /\ [by |-> b, of |-> r].of = r
  /\ \A f, g \in Fetch : f.by = g.by /\ f.of = g.of => f = g
  /\ \A q \in Request : q \notin Resource
  BY NamesAssumption DEF Fetch

\* Who calls create_and_get: a request, or a construction at the top of the stack.
Calls(f) ==
  /\ fetch[f] = "none"
  /\ f.by \in Resource => OnTop(f.by) /\ phase[f.by] = "deps" /\ f.of \in Deps[f.by]

\* The cases of a step.
LEMMA NextCases ==
  [Next]_vars =>
    \/ \E f \in Fetch : /\ Calls(f)
                        /\ FetchBuilt(f) \/ FetchWaits(f) \/ FetchConstructs(f) \/ FetchNotFound(f)
    \/ \E f \in Fetch : ResumeWaiter(f)
    \/ \E r \in Resource :
         \/ SuspendOnDeps(r) \/ DepsFail(r) \/ CallFactory(r) \/ FactoryResolves(r)
         \/ FactoryRejects(r) \/ Store(r) \/ StoreInterrupted(r) \/ Rethrow(r)
    \/ UNCHANGED vars
<1>1. ASSUME NEW q \in Request, NEW r \in Resource, Call(q, r)
      PROVE  Calls([by |-> q, of |-> r]) /\ CreateAndGet([by |-> q, of |-> r])
  BY <1>1, FetchFacts DEF Call, Calls
<1>2. ASSUME NEW r \in Resource, NEW d \in Resource, Launch(r, d)
      PROVE  Calls([by |-> r, of |-> d]) /\ CreateAndGet([by |-> r, of |-> d])
  BY <1>2, FetchFacts DEF Launch, Calls
<1> QED  BY <1>1, <1>2, FetchFacts DEF Next, Construct, CreateAndGet

\* What is left of the stack when a construction leaves it.
LEMMA PopFacts ==
  ASSUME TypeOK, StackInv, NEW r \in Resource, Turn(r), Pop(r)
  PROVE  /\ stack' \in Seq(Resource)
         /\ \A i \in 1 .. Len(stack') : stack'[i] # r /\ \E j \in 1 .. Len(stack) : stack'[i] = stack[j]
         /\ \A i, j \in 1 .. Len(stack') : stack'[i] = stack'[j] => i = j
<1>1. CASE stack = <<>>
  <2>1. stack' = <<>>
    BY <1>1 DEF Pop, OnTop
  <2> QED  BY <2>1
<1>2. CASE stack # <<>>
  <2>1. stack' = Tail(stack) /\ Head(stack) = r
    BY <1>2 DEF Turn, Pop, OnTop
  <2>2. /\ stack' \in Seq(Resource) /\ Len(stack) \in Nat \ {0} /\ Len(stack') = Len(stack) - 1
        /\ stack[1] = r
        /\ \A i \in 1 .. Len(stack') : stack'[i] = stack[i + 1]
    BY <1>2, <2>1, HeadTailProperties DEF TypeOK
  <2>3. \A i \in 1 .. Len(stack') : i + 1 \in 1 .. Len(stack) /\ i + 1 # 1
    BY <2>2
  <2>4. \A i, j \in 1 .. Len(stack') : stack'[i] = stack'[j] => i + 1 = j + 1
    BY <2>2, <2>3 DEF StackInv
  <2>5. \A i \in 1 .. Len(stack') : stack'[i] # r
    BY <2>2, <2>3 DEF StackInv
  <2> QED  BY <2>2, <2>3, <2>4, <2>5
<1> QED  BY <1>1, <1>2

\* ... and when one enters it.
LEMMA PushFacts ==
  ASSUME TypeOK, StackInv, NEW r \in Resource, stack' = <<r>> \o stack,
         \A i \in 1 .. Len(stack) : stack[i] # r
  PROVE  /\ stack' \in Seq(Resource)
         /\ \A i \in 1 .. Len(stack') : stack'[i] = r \/ \E j \in 1 .. Len(stack) : stack'[i] = stack[j]
         /\ \A i, j \in 1 .. Len(stack') : stack'[i] = stack'[j] => i = j
<1>1. /\ stack \in Seq(Resource) /\ <<r>> \in Seq(Resource) /\ Len(<<r>>) = 1 /\ <<r>>[1] = r
  BY DEF TypeOK
<1>2. /\ stack' \in Seq(Resource) /\ Len(stack) \in Nat /\ Len(stack') = Len(stack) + 1
      /\ stack'[1] = r
      /\ \A i \in 1 .. Len(stack') : i # 1 => stack'[i] = stack[i - 1]
  BY <1>1, ConcatProperties
<1>3. \A i \in 1 .. Len(stack') : i = 1 \/ i - 1 \in 1 .. Len(stack)
  BY <1>2
<1>4. ASSUME NEW i \in 1 .. Len(stack'), NEW j \in 1 .. Len(stack'), stack'[i] = stack'[j]
      PROVE  i = j
  <2>1. CASE i = 1 \/ j = 1
    BY <1>2, <1>3, <1>4, <2>1
  <2>2. CASE i # 1 /\ j # 1
    <3>1. i - 1 = j - 1
      BY <1>2, <1>3, <1>4, <2>2 DEF StackInv
    <3> QED  BY <3>1
  <2> QED  BY <2>1, <2>2
<1> QED  BY <1>2, <1>3, <1>4

\* The stack invariant, when a construction changes its phase and leaves the
\* stack or stays on it in a phase that may be there.
LEMMA StackGoesOn ==
  ASSUME TypeOK, StackInv, NEW r \in Resource,
         \A x \in Resource : x # r => phase'[x] = phase[x],
         \/ Turn(r) /\ Pop(r)
         \/ UNCHANGED stack /\ phase'[r] \in {"deps", "made", "threw"}
  PROVE  StackInv'
<1>1. \A i \in 1 .. Len(stack) : stack[i] \in Resource
  BY DEF TypeOK
<1>2. CASE Turn(r) /\ Pop(r)
  <2>1. /\ \A i \in 1 .. Len(stack') :
             stack'[i] # r /\ \E j \in 1 .. Len(stack) : stack'[i] = stack[j]
        /\ \A i, j \in 1 .. Len(stack') : stack'[i] = stack'[j] => i = j
    BY <1>2, PopFacts
  <2>2. ASSUME NEW i \in 1 .. Len(stack') PROVE phase'[stack'[i]] \in {"deps", "made", "threw"}
    <3>1. PICK j \in 1 .. Len(stack) : stack'[i] = stack[j] /\ stack[j] # r
      BY <2>1
    <3>2. phase'[stack[j]] = phase[stack[j]]
      BY <1>1, <3>1
    <3> QED  BY <3>1, <3>2 DEF StackInv
  <2> QED  BY <2>1, <2>2 DEF StackInv
<1>3. CASE UNCHANGED stack /\ phase'[r] \in {"deps", "made", "threw"}
  <2>1. ASSUME NEW i \in 1 .. Len(stack) PROVE phase'[stack[i]] \in {"deps", "made", "threw"}
    <3>1. CASE stack[i] = r
      BY <1>3, <3>1
    <3>2. CASE stack[i] # r
      <4>1. phase'[stack[i]] = phase[stack[i]]
        BY <1>1, <3>2
      <4> QED  BY <4>1 DEF StackInv
    <3> QED  BY <3>1, <3>2
  <2> QED  BY <1>3, <2>1 DEF StackInv
<1> QED  BY <1>2, <1>3

\* A live construction and the call that began it.
LEMMA LiveFacts ==
  ASSUME IndInv, NEW r \in Resource, Live(r)
  PROVE  /\ builder[r] \in Fetch /\ builder[r].of = r
         /\ fetch[builder[r]] = "building"
         /\ r \notin dependencies /\ r \in Registered
         /\ \A f \in Waiters(r) : f.of = r /\ fetch[f] = "awaiting" /\ f # builder[r]
<1>1. /\ builder[r] \in Fetch /\ builder[r].of = r
      /\ fetch[builder[r]] = "building"
      /\ r \notin dependencies /\ r \in Registered
  <2>1. Begun(r) /\ phase[r] # "stored"
    BY DEF IndInv, BuildInv, BuildOK, Live
  <2>2. BuildOK(r) /\ builder[r] \in Fetch \cup {None}
    BY DEF IndInv, TypeOK, BuildInv
  <2> QED  BY <2>1, <2>2 DEF BuildOK, Live, Begun
<1>2. ASSUME NEW f \in Waiters(r)
      PROVE  f.of = r /\ fetch[f] = "awaiting"
  <2>1. f \in Fetch /\ f # None /\ f.of = r /\ fetch[f] \in {"awaiting", "notified", "done"}
    BY FetchFacts DEF IndInv, TagInv, TagOK, Waiters
  <2> QED  BY <1>1, <2>1 DEF IndInv, FetchInv, FetchOK
<1> QED  BY <1>1, <1>2

\* What the end of a construction tells those who fetched the type.
Ends(r) ==
  /\ Turn(r) /\ Pop(r) /\ UNCHANGED <<builder, invoked>>
  /\ fetch' \in [Fetch -> {"none", "awaiting", "notified", "building", "done", "failed"}]
  /\ \A f \in Fetch : f # builder[r] =>
       \/ fetch'[f] = fetch[f]
       \/ f.of = r /\ fetch[f] = "awaiting" /\ fetch'[f] = "notified" /\ r \in dependencies'
  /\ \/ fetch'[builder[r]] = "done" /\ r \in dependencies'
     \/ fetch'[builder[r]] = "failed"
  /\ \A x \in Resource : x # r => phase'[x] = phase[x]
  /\ phase[r] = "made" \/ (phase[r] = "threw" /\ fetch'[builder[r]] = "failed")
  /\ phase'[r] \in {"stored", "idle"}
  /\ dependencies \subseteq dependencies'

\* What the end of a construction changes, whichever way it ends.
LEMMA EndFacts ==
  ASSUME IndInv, NEW r \in Resource, Store(r) \/ StoreInterrupted(r) \/ Rethrow(r)
  PROVE  Live(r) /\ Ends(r)
<1>1. Live(r)
  BY DEF Store, StoreInterrupted, Rethrow, Live
<1> DEFINE b == builder[r]
<1>2. /\ b \in Fetch
      /\ \A f \in Waiters(r) : f.of = r /\ fetch[f] = "awaiting" /\ f # b
      /\ fetch \in [Fetch -> {"none", "awaiting", "notified", "building", "done", "failed"}]
      /\ phase \in [Resource -> {"idle", "deps", "making", "made", "stored", "threw"}]
  BY <1>1, LiveFacts DEF IndInv, TypeOK
<1>3. CASE Store(r)
  <2>1. /\ fetch' = [f \in Fetch |->
                       CASE f = b -> "done" [] f \in Waiters(r) -> "notified" [] OTHER -> fetch[f]]
        /\ r \in dependencies'
    BY <1>3 DEF Store
  <2> HIDE DEF b
  <2>2. \A f \in Fetch : /\ f = b => fetch'[f] = "done"
                         /\ f # b /\ f \in Waiters(r) => fetch'[f] = "notified"
                         /\ f # b /\ f \notin Waiters(r) => fetch'[f] = fetch[f]
    BY <1>2, <2>1
  <2> QED  BY <1>1, <1>2, <1>3, <2>1, <2>2 DEF Store, Ends, b
<1>4. CASE StoreInterrupted(r)
  <2>1. PICK told \in SUBSET Waiters(r) :
          fetch' = [f \in Fetch |->
                      CASE f = b -> "failed" [] f \in told -> "notified" [] OTHER -> fetch[f]]
    BY <1>4 DEF StoreInterrupted
  <2> HIDE DEF b
  <2>2. \A f \in Fetch : /\ f = b => fetch'[f] = "failed"
                         /\ f # b /\ f \in told => fetch'[f] = "notified"
                         /\ f # b /\ f \notin told => fetch'[f] = fetch[f]
    BY <1>2, <2>1
  <2> QED  BY <1>1, <1>2, <1>4, <2>1, <2>2 DEF StoreInterrupted, Ends, b
<1>5. CASE Rethrow(r)
  BY <1>1, <1>2, <1>5 DEF Rethrow, Ends
<1> QED  BY <1>1, <1>3, <1>4, <1>5

\* The end of one construction is not seen by the others.
LEMMA OthersGoOn ==
  ASSUME IndInv, NEW r \in Resource, Live(r), Ends(r),
         NEW x \in Resource, x # r
  PROVE  /\ builder'[x] = builder[x] /\ phase'[x] = phase[x]
         /\ Begun(x) => fetch'[builder[x]] = fetch[builder[x]]
<1>1. builder[r].of = r
  BY LiveFacts
<1>2. BuildOK(x) /\ builder[x] \in Fetch \cup {None}
  BY DEF IndInv, BuildInv, TypeOK
<1>3. Begun(x) => /\ builder[x] \in Fetch /\ builder[x] # builder[r]
                  /\ fetch[builder[x]] # "awaiting"
  BY <1>1, <1>2 DEF BuildOK, Begun
<1> QED  BY <1>3 DEF Ends

\* A call that begins is not in the books yet.
LEMMA CallFacts ==
  ASSUME IndInv, NEW f \in Fetch, Calls(f)
  PROVE  /\ \A x \in Resource : Begun(x) => builder[x] \in Fetch /\ builder[x] # f
         /\ \A x \in Resource : <<x, f>> \notin construction
         /\ f.by \in Resource => Begun(f.by) /\ phase[f.by] = "deps" /\ f.of \in Deps[f.by]
<1>1. ASSUME NEW x \in Resource, Begun(x)
      PROVE  builder[x] \in Fetch /\ builder[x] # f
  <2>1. BuildOK(x) /\ builder[x] \in Fetch \cup {None}
    BY DEF IndInv, BuildInv, TypeOK
  <2> QED  BY <1>1, <2>1 DEF BuildOK, Begun, Calls
<1>2. ASSUME NEW x \in Resource, <<x, f>> \in construction
      PROVE  FALSE
  BY <1>2, FetchFacts DEF IndInv, TagInv, TagOK, Calls
<1>3. f.by \in Resource => Begun(f.by)
  BY DEF IndInv, BuildInv, BuildOK, Live, Calls
<1> QED  BY <1>1, <1>2, <1>3 DEF Calls

\* A type that is built now has not been begun before.
LEMMA FreshFacts ==
  ASSUME IndInv, NEW f \in Fetch, FetchConstructs(f)
  PROVE  ~Begun(f.of) /\ phase[f.of] = "idle" /\ invoked[f.of] = 0
<1>1. f.of \in Resource
  BY FetchFacts
<1>2. <<f.of, None>> \notin construction
  BY DEF FetchConstructs, Building
<1> QED  BY <1>1, <1>2 DEF FetchConstructs, IndInv, BuildInv, BuildOK

\* When a construction ends, each fetch ends with it, is notified or stays as it was.
LEMMA FetchGoesOn ==
  ASSUME IndInv, NEW r \in Resource, Live(r), Ends(r), NEW g \in Fetch
  PROVE  FetchOK(g)'
<1>1. /\ builder[r] \in Fetch /\ builder[r].of = r /\ fetch[builder[r]] = "building"
      /\ builder' = builder
  BY LiveFacts DEF Ends
<1>2. FetchOK(g) /\ FetchOK(builder[r]) /\ g.of \in Resource
  BY <1>1, FetchFacts DEF IndInv, FetchInv
<1>3. \A x \in Resource : x # r => (Live(x) => Live(x)') /\ (Broken(x) => Broken(x)')
  BY OthersGoOn DEF Live, Broken, Begun
<1>4. ~Broken(r) /\ Begun(r)
  BY <1>1, FetchFacts DEF Broken, Begun
<1>5. phase[r] = "made" \/ Broken(r)'
  BY <1>1, <1>4 DEF Ends, Broken, Begun
<1>6. fetch'[g] \in {"done", "notified"} => g.of \in dependencies'
  BY <1>1, <1>2 DEF Ends, FetchOK
<1>7. fetch'[g] = "building" => builder'[g.of] = g /\ Live(g.of)'
  BY <1>1, <1>2, <1>3 DEF Ends, FetchOK
<1>8. fetch'[g] # "none" => fetch[g] # "none"
  BY <1>1 DEF Ends
<1>9. g.by \in Resource /\ fetch'[g] \notin {"none", "done"} =>
        phase'[g.by] \in {"deps", "threw"} \/ Broken(g.by)'
  <2> SUFFICES ASSUME g.by \in Resource, fetch'[g] \notin {"none", "done"}
               PROVE  phase'[g.by] \in {"deps", "threw"} \/ Broken(g.by)'
    OBVIOUS
  <2>1. fetch[g] \notin {"none", "done"}
    BY <1>1 DEF Ends
  <2>2. phase[g.by] \in {"deps", "threw"} \/ Broken(g.by)
    BY <1>2, <2>1 DEF FetchOK
  <2> QED  BY <1>3, <1>4, <1>5, <2>2 DEF Ends
<1> QED  BY <1>1, <1>2, <1>6, <1>7, <1>8, <1>9 DEF FetchOK, Begun

\* ... and a tag that remains has a reason: another construction, or the failure of this one.
LEMMA TagsGoOn ==
  ASSUME IndInv, NEW r \in Resource, Live(r), Ends(r),
         \A x \in Resource, y \in Fetch \cup {None} :
           <<x, y>> \in construction' => <<x, y>> \in construction /\ (x # r \/ Broken(r)')
  PROVE  TagInv'
<1>1. builder[r] \in Fetch /\ fetch[builder[r]] = "building"
  BY LiveFacts
<1>2. \A g \in Fetch :
        /\ fetch[g] = "failed" => fetch'[g] = "failed"
        /\ fetch[g] \in {"awaiting", "notified", "done"} =>
             fetch'[g] \in {"awaiting", "notified", "done"}
  BY <1>1 DEF Ends
<1>3. ASSUME NEW x \in Resource, x # r, Reason(x) PROVE Reason(x)'
  <2>1. /\ builder'[x] = builder[x] /\ phase'[x] = phase[x]
        /\ Begun(x) => fetch'[builder[x]] = fetch[builder[x]]
    BY <1>3, OthersGoOn
  <2>2. (Live(x) => Live(x)') /\ (Broken(x) => Broken(x)')
    BY <2>1 DEF Live, Broken, Begun
  <2>3. ASSUME x \notin Registered, NEW g \in Fetch, g.of = x, fetch[g] = "failed" PROVE Reason(x)'
    <3>1. fetch'[g] = "failed"
      BY <1>2, <2>3
    <3> QED  BY <2>3, <3>1 DEF Reason
  <2>4. (Live(x)' => Reason(x)') /\ (Broken(x)' => Reason(x)')
    BY DEF Reason
  <2> QED  BY <1>3, <2>2, <2>3, <2>4 DEF Reason
<1>4. ASSUME NEW x \in Resource, NEW y \in Fetch \cup {None}, <<x, y>> \in construction'
      PROVE  TagOK(x, y)'
  <2>1. <<x, y>> \in construction /\ (x # r \/ Broken(r)') /\ TagOK(x, y)
    BY <1>4 DEF IndInv, TagInv
  <2>2. Reason(x)'
    BY <1>3, <2>1 DEF TagOK, Reason
  <2> QED  BY <1>2, <2>1, <2>2 DEF TagOK
<1> QED  BY <1>4 DEF TagInv, TagOK

\* The types of the variables are kept.
LEMMA TypeStep == IndInv /\ [Next]_vars => TypeOK'
<1> SUFFICES ASSUME IndInv, [Next]_vars PROVE TypeOK'
  OBVIOUS
<1>1. ASSUME NEW f \in Fetch, Calls(f), FetchBuilt(f) PROVE TypeOK'
  BY <1>1, FetchFacts DEF FetchBuilt, IndInv, TypeOK, BuildInv, BuildOK, Calls, Live, Begun
<1>2. ASSUME NEW f \in Fetch, Calls(f), FetchWaits(f) PROVE TypeOK'
  BY <1>2, FetchFacts DEF FetchWaits, IndInv, TypeOK, BuildInv, BuildOK, Calls, Live, Begun
<1>3. ASSUME NEW f \in Fetch, Calls(f), FetchConstructs(f) PROVE TypeOK'
  BY <1>3, FetchFacts DEF FetchConstructs, IndInv, TypeOK, BuildInv, BuildOK, Calls, Live,
       Begun
<1>4. ASSUME NEW f \in Fetch, Calls(f), FetchNotFound(f) PROVE TypeOK'
  BY <1>4, FetchFacts DEF FetchNotFound, IndInv, TypeOK, BuildInv, BuildOK, Calls, Live,
       Begun
<1>5. ASSUME NEW f \in Fetch, ResumeWaiter(f) PROVE TypeOK'
  BY <1>5, FetchFacts DEF ResumeWaiter, IndInv, TypeOK, BuildInv, BuildOK, Calls, Live,
       Begun
<1>6. ASSUME NEW r \in Resource, SuspendOnDeps(r) PROVE TypeOK'
  <2>1. Turn(r) /\ Pop(r)
    BY <1>6 DEF SuspendOnDeps, Turn, Pop
  <2> QED  BY <1>6, <2>1, PopFacts DEF SuspendOnDeps, IndInv, TypeOK
<1>7. ASSUME NEW r \in Resource, DepsFail(r) PROVE TypeOK'
  BY <1>7, FetchFacts DEF DepsFail, IndInv, TypeOK, BuildInv, BuildOK, Calls, Live, Begun
<1>8. ASSUME NEW r \in Resource, CallFactory(r) PROVE TypeOK'
  <2>1. stack' \in Seq(Resource)
    BY <1>8, PopFacts DEF CallFactory, IndInv, TypeOK
  <2>2. invoked' \in [Resource -> 0 .. MaxInvoked]
    <3>1. invoked \in [Resource -> 0 .. MaxInvoked] /\ MaxInvoked \in Nat
      BY DEF IndInv, TypeOK, MaxInvoked
    <3>2. invoked[r] + 1 \in 0 .. MaxInvoked
      BY <1>8, <3>1 DEF CallFactory
    <3>3. invoked' = [invoked EXCEPT ![r] = invoked[r] + 1]
      BY <1>8 DEF CallFactory
    <3> QED  BY <3>1, <3>2, <3>3
  <2> QED  BY <1>8, <2>1, <2>2 DEF CallFactory, IndInv, TypeOK
<1>9. ASSUME NEW r \in Resource, FactoryResolves(r) PROVE TypeOK'
  BY <1>9, FetchFacts DEF FactoryResolves, IndInv, TypeOK, BuildInv, BuildOK, Calls, Live,
       Begun
<1>10. ASSUME NEW r \in Resource, FactoryRejects(r) PROVE TypeOK'
  BY <1>10, FetchFacts DEF FactoryRejects, IndInv, TypeOK, BuildInv, BuildOK, Calls, Live,
       Begun
<1>11. ASSUME NEW r \in Resource, Store(r) PROVE TypeOK'
  <2>1. Ends(r) /\ stack' \in Seq(Resource)
    BY <1>11, EndFacts, PopFacts DEF Ends, IndInv
  <2> QED  BY <1>11, <2>1 DEF Store, Ends, IndInv, TypeOK
<1>12. ASSUME NEW r \in Resource, StoreInterrupted(r) PROVE TypeOK'
  <2>1. Ends(r) /\ stack' \in Seq(Resource)
    BY <1>12, EndFacts, PopFacts DEF Ends, IndInv
  <2> QED  BY <1>12, <2>1 DEF StoreInterrupted, Ends, IndInv, TypeOK
<1>13. ASSUME NEW r \in Resource, Rethrow(r) PROVE TypeOK'
  <2>1. Ends(r) /\ stack' \in Seq(Resource)
    BY <1>13, EndFacts, PopFacts DEF Ends, IndInv
  <2> QED  BY <1>13, <2>1 DEF Rethrow, Ends, IndInv, TypeOK
<1>14. CASE UNCHANGED vars
  BY <1>14 DEF vars, IndInv, TypeOK, BuildInv, BuildOK, Calls, Live, Begun
<1> QED  BY <1>1, <1>2, <1>3, <1>4, <1>5, <1>6, <1>7, <1>8, <1>9, <1>10, <1>11, <1>12,
     <1>13, <1>14, NextCases

\* Constructions go their way.
LEMMA BuildStep == IndInv /\ [Next]_vars => BuildInv'
<1> SUFFICES ASSUME IndInv, [Next]_vars PROVE BuildInv'
  OBVIOUS
<1>1. ASSUME NEW f \in Fetch, Calls(f), FetchBuilt(f) PROVE BuildInv'
  BY <1>1, FetchFacts DEF FetchBuilt, IndInv, TypeOK, BuildInv, BuildOK, FetchInv, FetchOK,
       Calls, Begun, Broken, Live
<1>2. ASSUME NEW f \in Fetch, Calls(f), FetchWaits(f) PROVE BuildInv'
  BY <1>2, FetchFacts DEF FetchWaits, IndInv, TypeOK, BuildInv, BuildOK, FetchInv, FetchOK,
       Calls, Begun, Broken, Live
<1>3. ASSUME NEW f \in Fetch, Calls(f), FetchConstructs(f) PROVE BuildInv'
  <2>1. f.of \in Resource /\ ~Begun(f.of) /\ invoked[f.of] = 0 /\ f.of \notin dependencies /\ f # None
    BY <1>3, FreshFacts, FetchFacts DEF FetchConstructs
  <2>2. /\ builder'[f.of] = f /\ phase'[f.of] = "deps" /\ fetch'[f] = "building"
        /\ <<f.of, None>> \in construction' /\ f.of \in Registered
        /\ \A x \in Resource : x # f.of => builder'[x] = builder[x] /\ phase'[x] = phase[x]
        /\ \A g \in Fetch : g # f => fetch'[g] = fetch[g]
        /\ construction \subseteq construction' /\ dependencies' = dependencies /\ invoked' = invoked
    BY <1>3, <2>1 DEF FetchConstructs, IndInv, TypeOK
  <2>3. BuildOK(f.of)'
    BY <2>1, <2>2 DEF BuildOK, Live, Begun, Broken
  <2>4. ASSUME NEW x \in Resource, x # f.of PROVE BuildOK(x)'
    <3>1. BuildOK(x) /\ (Begun(x) => fetch'[builder[x]] = fetch[builder[x]])
      BY <1>3, <2>2, CallFacts DEF IndInv, BuildInv
    <3> QED  BY <2>2, <2>4, <3>1 DEF BuildOK, Live, Begun, Broken
  <2> QED  BY <2>3, <2>4 DEF BuildInv
<1>4. ASSUME NEW f \in Fetch, Calls(f), FetchNotFound(f) PROVE BuildInv'
  BY <1>4, FetchFacts DEF FetchNotFound, IndInv, TypeOK, BuildInv, BuildOK, FetchInv,
       FetchOK, Calls, Begun, Broken, Live
<1>5. ASSUME NEW f \in Fetch, ResumeWaiter(f) PROVE BuildInv'
  BY <1>5, FetchFacts DEF ResumeWaiter, IndInv, TypeOK, BuildInv, BuildOK, FetchInv,
       FetchOK, Calls, Begun, Broken, Live
<1>6. ASSUME NEW r \in Resource, SuspendOnDeps(r) PROVE BuildInv'
  BY <1>6, FetchFacts DEF SuspendOnDeps, IndInv, TypeOK, BuildInv, BuildOK, FetchInv,
       FetchOK, Calls, Begun, Broken, Live
<1>7. ASSUME NEW r \in Resource, DepsFail(r) PROVE BuildInv'
  BY <1>7, FetchFacts DEF DepsFail, IndInv, TypeOK, BuildInv, BuildOK, FetchInv, FetchOK,
       Calls, Begun, Broken, Live
<1>8. ASSUME NEW r \in Resource, CallFactory(r) PROVE BuildInv'
  <2>1. Live(r) /\ phase[r] = "deps" /\ Deps[r] \subseteq Resource
    BY <1>8, DepsAssumption DEF CallFactory, Live
  <2>2. Deps[r] \subseteq dependencies
    <3> SUFFICES ASSUME NEW d \in Deps[r] PROVE d \in dependencies
      OBVIOUS
    <3> DEFINE g == [by |-> r, of |-> d]
    <3>1. g \in Fetch /\ g.of = d
      BY <2>1, FetchFacts
    <3>2. fetch[g] = "done"
      BY <1>8 DEF CallFactory, DepsDone, Need
    <3> QED  BY <3>1, <3>2 DEF IndInv, FetchInv, FetchOK
  <2>3. /\ UNCHANGED <<dependencies, construction, fetch, builder>>
        /\ phase'[r] \in {"making", "made", "threw"} /\ invoked'[r] = invoked[r] + 1
        /\ \A x \in Resource : x # r => phase'[x] = phase[x] /\ invoked'[x] = invoked[x]
    BY <1>8 DEF CallFactory, IndInv, TypeOK
  <2>4. BuildOK(r)'
    <3>1. BuildOK(r)
      BY DEF IndInv, BuildInv
    <3> QED  BY <2>1, <2>2, <2>3, <3>1 DEF BuildOK, Live, Begun, Broken
  <2>5. ASSUME NEW x \in Resource, x # r PROVE BuildOK(x)'
    <3>1. BuildOK(x)
      BY DEF IndInv, BuildInv
    <3> QED  BY <2>3, <2>5, <3>1 DEF BuildOK, Live, Begun, Broken
  <2> QED  BY <2>4, <2>5 DEF BuildInv
<1>9. ASSUME NEW r \in Resource, FactoryResolves(r) PROVE BuildInv'
  BY <1>9, FetchFacts DEF FactoryResolves, IndInv, TypeOK, BuildInv, BuildOK, FetchInv,
       FetchOK, Calls, Begun, Broken, Live
<1>10. ASSUME NEW r \in Resource, FactoryRejects(r) PROVE BuildInv'
  BY <1>10, FetchFacts DEF FactoryRejects, IndInv, TypeOK, BuildInv, BuildOK, FetchInv,
       FetchOK, Calls, Begun, Broken, Live
<1>11. ASSUME NEW r \in Resource, Store(r) PROVE BuildInv'
  <2>1. Live(r) /\ Ends(r)
    BY <1>11, EndFacts
  <2>2. /\ builder[r] \in Fetch /\ builder[r].of = r /\ r \in Registered /\ BuildOK(r)
        /\ builder'[r] = builder[r] /\ invoked'[r] = invoked[r] /\ phase \in [Resource -> {"idle", "deps", "making", "made", "stored", "threw"}]
    BY <2>1, LiveFacts DEF IndInv, BuildInv, Ends, TypeOK
  <2>3. BuildOK(r)'
    BY <1>11, <2>1, <2>2, FetchFacts DEF Store, Ends, BuildOK, Live, Begun, Broken
  <2>4. ASSUME NEW x \in Resource, x # r PROVE BuildOK(x)'
    <3>1. /\ builder'[x] = builder[x] /\ phase'[x] = phase[x] /\ invoked'[x] = invoked[x]
          /\ Begun(x) => fetch'[builder[x]] = fetch[builder[x]]
      BY <2>1, <2>4, OthersGoOn DEF Ends
    <3>2. /\ x \in dependencies' <=> x \in dependencies
          /\ <<x, None>> \in construction => <<x, None>> \in construction'
      BY <1>11, <2>4 DEF Store
    <3>3. BuildOK(x) /\ dependencies \subseteq dependencies'
      BY <2>1 DEF IndInv, BuildInv, Ends
    <3> QED  BY <3>1, <3>2, <3>3 DEF BuildOK, Live, Begun, Broken
  <2> QED  BY <2>3, <2>4 DEF BuildInv
<1>12. ASSUME NEW r \in Resource, StoreInterrupted(r) PROVE BuildInv'
  <2>1. Live(r) /\ Ends(r)
    BY <1>12, EndFacts
  <2>2. /\ builder[r] \in Fetch /\ builder[r].of = r /\ r \in Registered /\ BuildOK(r)
        /\ builder'[r] = builder[r] /\ invoked'[r] = invoked[r] /\ phase \in [Resource -> {"idle", "deps", "making", "made", "stored", "threw"}]
    BY <2>1, LiveFacts DEF IndInv, BuildInv, Ends, TypeOK
  <2>3. BuildOK(r)'
    BY <1>12, <2>1, <2>2, FetchFacts DEF StoreInterrupted, Ends, BuildOK, Live, Begun,
         Broken
  <2>4. ASSUME NEW x \in Resource, x # r PROVE BuildOK(x)'
    <3>1. /\ builder'[x] = builder[x] /\ phase'[x] = phase[x] /\ invoked'[x] = invoked[x]
          /\ Begun(x) => fetch'[builder[x]] = fetch[builder[x]]
      BY <2>1, <2>4, OthersGoOn DEF Ends
    <3>2. /\ x \in dependencies' <=> x \in dependencies
          /\ <<x, None>> \in construction => <<x, None>> \in construction'
      BY <1>12, <2>4 DEF StoreInterrupted
    <3>3. BuildOK(x) /\ dependencies \subseteq dependencies'
      BY <2>1 DEF IndInv, BuildInv, Ends
    <3> QED  BY <3>1, <3>2, <3>3 DEF BuildOK, Live, Begun, Broken
  <2> QED  BY <2>3, <2>4 DEF BuildInv
<1>13. ASSUME NEW r \in Resource, Rethrow(r) PROVE BuildInv'
  <2>1. Live(r) /\ Ends(r)
    BY <1>13, EndFacts
  <2>2. /\ builder[r] \in Fetch /\ builder[r].of = r /\ r \in Registered /\ BuildOK(r)
        /\ builder'[r] = builder[r] /\ invoked'[r] = invoked[r] /\ phase \in [Resource -> {"idle", "deps", "making", "made", "stored", "threw"}]
    BY <2>1, LiveFacts DEF IndInv, BuildInv, Ends, TypeOK
  <2>3. BuildOK(r)'
    BY <1>13, <2>1, <2>2, FetchFacts DEF Rethrow, Ends, BuildOK, Live, Begun, Broken
  <2>4. ASSUME NEW x \in Resource, x # r PROVE BuildOK(x)'
    <3>1. /\ builder'[x] = builder[x] /\ phase'[x] = phase[x] /\ invoked'[x] = invoked[x]
          /\ Begun(x) => fetch'[builder[x]] = fetch[builder[x]]
      BY <2>1, <2>4, OthersGoOn DEF Ends
    <3>2. /\ x \in dependencies' <=> x \in dependencies
          /\ <<x, None>> \in construction => <<x, None>> \in construction'
      BY <1>13, <2>4 DEF Rethrow
    <3>3. BuildOK(x) /\ dependencies \subseteq dependencies'
      BY <2>1 DEF IndInv, BuildInv, Ends
    <3> QED  BY <3>1, <3>2, <3>3 DEF BuildOK, Live, Begun, Broken
  <2> QED  BY <2>3, <2>4 DEF BuildInv
<1>14. CASE UNCHANGED vars
  BY <1>14 DEF vars, IndInv, TypeOK, BuildInv, BuildOK, FetchInv, FetchOK, Calls, Begun,
       Broken, Live
<1> QED  BY <1>1, <1>2, <1>3, <1>4, <1>5, <1>6, <1>7, <1>8, <1>9, <1>10, <1>11, <1>12,
     <1>13, <1>14, NextCases

\* Calls of create_and_get go theirs.
LEMMA FetchStep == IndInv /\ [Next]_vars => FetchInv'
<1> SUFFICES ASSUME IndInv, [Next]_vars PROVE FetchInv'
  OBVIOUS
<1>1. ASSUME NEW f \in Fetch, Calls(f), FetchBuilt(f) PROVE FetchInv'
  <2>1. /\ UNCHANGED <<dependencies, phase, builder>> /\ fetch'[f] = "done"
        /\ \A g \in Fetch : g # f => fetch'[g] = fetch[g]
    BY <1>1 DEF FetchBuilt, IndInv, TypeOK
  <2>2. \A x \in Resource : /\ Begun(x)' <=> Begun(x)
                            /\ Live(x)' <=> Live(x)
                            /\ Broken(x) => Broken(x)'
    BY <1>1, <2>1, CallFacts DEF Begun, Live, Broken
  <2>3. FetchOK(f)'
    BY <1>1, <2>1, <2>2, CallFacts DEF FetchBuilt, FetchOK
  <2>4. ASSUME NEW g \in Fetch, g # f PROVE FetchOK(g)'
    <3>1. FetchOK(g) /\ g.of \in Resource
      BY FetchFacts DEF IndInv, FetchInv
    <3> QED  BY <2>1, <2>2, <2>4, <3>1 DEF FetchOK
  <2> QED  BY <2>3, <2>4 DEF FetchInv
<1>2. ASSUME NEW f \in Fetch, Calls(f), FetchWaits(f) PROVE FetchInv'
  <2>1. /\ UNCHANGED <<dependencies, phase, builder>> /\ fetch'[f] = "awaiting"
        /\ \A g \in Fetch : g # f => fetch'[g] = fetch[g]
    BY <1>2 DEF FetchWaits, IndInv, TypeOK
  <2>2. \A x \in Resource : /\ Begun(x)' <=> Begun(x)
                            /\ Live(x)' <=> Live(x)
                            /\ Broken(x) => Broken(x)'
    BY <1>2, <2>1, CallFacts DEF Begun, Live, Broken
  <2>3. FetchOK(f)'
    BY <1>2, <2>1, <2>2, CallFacts DEF FetchWaits, FetchOK
  <2>4. ASSUME NEW g \in Fetch, g # f PROVE FetchOK(g)'
    <3>1. FetchOK(g) /\ g.of \in Resource
      BY FetchFacts DEF IndInv, FetchInv
    <3> QED  BY <2>1, <2>2, <2>4, <3>1 DEF FetchOK
  <2> QED  BY <2>3, <2>4 DEF FetchInv
<1>3. ASSUME NEW f \in Fetch, Calls(f), FetchConstructs(f) PROVE FetchInv'
  <2>1. f.of \in Resource /\ ~Begun(f.of) /\ f # None
    BY <1>3, FreshFacts, FetchFacts
  <2>2. /\ builder'[f.of] = f /\ phase'[f.of] = "deps" /\ fetch'[f] = "building"
        /\ \A x \in Resource : x # f.of => builder'[x] = builder[x] /\ phase'[x] = phase[x]
        /\ \A g \in Fetch : g # f => fetch'[g] = fetch[g]
        /\ dependencies' = dependencies
    BY <1>3, <2>1 DEF FetchConstructs, IndInv, TypeOK
  <2>3. \A x \in Resource : /\ Begun(x) => Begun(x)' /\ x # f.of
                            /\ Live(x) => Live(x)'
                            /\ Broken(x) => Broken(x)'
    BY <1>3, <2>1, <2>2, CallFacts DEF Begun, Live, Broken
  <2>4. FetchOK(f)'
    BY <1>3, <2>1, <2>2, <2>3, CallFacts DEF FetchOK, Live
  <2>5. ASSUME NEW g \in Fetch, g # f PROVE FetchOK(g)'
    <3>1. FetchOK(g) /\ g.of \in Resource
      BY FetchFacts DEF IndInv, FetchInv
    <3>2. Live(g.of) => Begun(g.of)
      BY <3>1 DEF IndInv, BuildInv, BuildOK
    <3> QED  BY <2>2, <2>3, <2>5, <3>1, <3>2 DEF FetchOK
  <2> QED  BY <2>4, <2>5 DEF FetchInv
<1>4. ASSUME NEW f \in Fetch, Calls(f), FetchNotFound(f) PROVE FetchInv'
  <2>1. /\ UNCHANGED <<dependencies, phase, builder>> /\ fetch'[f] = "failed"
        /\ \A g \in Fetch : g # f => fetch'[g] = fetch[g]
    BY <1>4 DEF FetchNotFound, IndInv, TypeOK
  <2>2. \A x \in Resource : /\ Begun(x)' <=> Begun(x)
                            /\ Live(x)' <=> Live(x)
                            /\ Broken(x) => Broken(x)'
    BY <1>4, <2>1, CallFacts DEF Begun, Live, Broken
  <2>3. FetchOK(f)'
    BY <1>4, <2>1, <2>2, CallFacts DEF FetchNotFound, FetchOK
  <2>4. ASSUME NEW g \in Fetch, g # f PROVE FetchOK(g)'
    <3>1. FetchOK(g) /\ g.of \in Resource
      BY FetchFacts DEF IndInv, FetchInv
    <3> QED  BY <2>1, <2>2, <2>4, <3>1 DEF FetchOK
  <2> QED  BY <2>3, <2>4 DEF FetchInv
<1>5. ASSUME NEW f \in Fetch, ResumeWaiter(f) PROVE FetchInv'
  BY <1>5, FetchFacts DEF ResumeWaiter, IndInv, TypeOK, BuildInv, BuildOK, FetchInv,
       FetchOK, Calls, Begun, Broken, Live
<1>6. ASSUME NEW r \in Resource, SuspendOnDeps(r) PROVE FetchInv'
  BY <1>6, FetchFacts DEF SuspendOnDeps, IndInv, TypeOK, BuildInv, BuildOK, FetchInv,
       FetchOK, Calls, Begun, Broken, Live
<1>7. ASSUME NEW r \in Resource, DepsFail(r) PROVE FetchInv'
  BY <1>7, FetchFacts DEF DepsFail, IndInv, TypeOK, BuildInv, BuildOK, FetchInv, FetchOK,
       Calls, Begun, Broken, Live
<1>8. ASSUME NEW r \in Resource, CallFactory(r) PROVE FetchInv'
  <2>1. /\ UNCHANGED <<dependencies, fetch, builder>>
        /\ phase[r] = "deps" /\ phase'[r] \in {"making", "made", "threw"}
        /\ \A x \in Resource : x # r => phase'[x] = phase[x]
    BY <1>8 DEF CallFactory, IndInv, TypeOK
  <2>2. ASSUME NEW g \in Fetch PROVE FetchOK(g)'
    <3>1. FetchOK(g) /\ g.of \in Resource
      BY FetchFacts DEF IndInv, FetchInv
    <3>2. g.by = r /\ fetch[g] # "none" => fetch[g] = "done"
      <4> SUFFICES ASSUME g.by = r, fetch[g] # "none" PROVE fetch[g] = "done"
        OBVIOUS
      <4>1. g = [by |-> r, of |-> g.of]
        <5>1. /\ [by |-> r, of |-> g.of] \in Fetch
              /\ [by |-> r, of |-> g.of].by = g.by /\ [by |-> r, of |-> g.of].of = g.of
          BY <3>1, FetchFacts
        <5> QED  BY <5>1, FetchFacts
      <4>2. g.of \in Deps[r]
        BY <3>1 DEF FetchOK
      <4> QED  BY <1>8, <4>1, <4>2 DEF CallFactory, DepsDone, Need
    <3> QED  BY <2>1, <3>1, <3>2 DEF FetchOK, Live, Begun, Broken
  <2> QED  BY <2>2 DEF FetchInv
<1>9. ASSUME NEW r \in Resource, FactoryResolves(r) PROVE FetchInv'
  BY <1>9, FetchFacts DEF FactoryResolves, IndInv, TypeOK, BuildInv, BuildOK, FetchInv,
       FetchOK, Calls, Begun, Broken, Live
<1>10. ASSUME NEW r \in Resource, FactoryRejects(r) PROVE FetchInv'
  BY <1>10, FetchFacts DEF FactoryRejects, IndInv, TypeOK, BuildInv, BuildOK, FetchInv,
       FetchOK, Calls, Begun, Broken, Live
<1>11. ASSUME NEW r \in Resource, Store(r) PROVE FetchInv'
  <2>1. Live(r) /\ Ends(r)
    BY <1>11, EndFacts
  <2> SUFFICES ASSUME NEW g \in Fetch PROVE FetchOK(g)'
    BY DEF FetchInv
  <2> QED  BY <2>1, FetchGoesOn
<1>12. ASSUME NEW r \in Resource, StoreInterrupted(r) PROVE FetchInv'
  <2>1. Live(r) /\ Ends(r)
    BY <1>12, EndFacts
  <2> SUFFICES ASSUME NEW g \in Fetch PROVE FetchOK(g)'
    BY DEF FetchInv
  <2> QED  BY <2>1, FetchGoesOn
<1>13. ASSUME NEW r \in Resource, Rethrow(r) PROVE FetchInv'
  <2>1. Live(r) /\ Ends(r)
    BY <1>13, EndFacts
  <2> SUFFICES ASSUME NEW g \in Fetch PROVE FetchOK(g)'
    BY DEF FetchInv
  <2> QED  BY <2>1, FetchGoesOn
<1>14. CASE UNCHANGED vars
  BY <1>14 DEF vars, IndInv, TypeOK, BuildInv, BuildOK, FetchInv, FetchOK, Calls, Begun,
       Broken, Live
<1> QED  BY <1>1, <1>2, <1>3, <1>4, <1>5, <1>6, <1>7, <1>8, <1>9, <1>10, <1>11, <1>12,
     <1>13, <1>14, NextCases

\* Every entry of _construction has its reason.
LEMMA TagStep == IndInv /\ [Next]_vars => TagInv'
<1> SUFFICES ASSUME IndInv, [Next]_vars PROVE TagInv'
  OBVIOUS
<1>1. ASSUME NEW f \in Fetch, Calls(f), FetchBuilt(f) PROVE TagInv'
  BY <1>1, FetchFacts DEF FetchBuilt, IndInv, TypeOK, BuildInv, BuildOK, FetchInv, FetchOK,
       TagInv, TagOK, Reason, Calls, Begun, Broken, Live
<1>2. ASSUME NEW f \in Fetch, Calls(f), FetchWaits(f) PROVE TagInv'
  <2>1. /\ UNCHANGED <<phase, builder>> /\ fetch'[f] = "awaiting" /\ f.of \in Resource
        /\ \A g \in Fetch : g # f => fetch'[g] = fetch[g]
        /\ construction' = construction \cup {<<f.of, f>>}
    BY <1>2, FetchFacts DEF FetchWaits, IndInv, TypeOK
  <2>2. \A x \in Resource : Reason(x) => Reason(x)'
    <3>1. \A g \in Fetch : fetch[g] = "failed" => fetch'[g] = "failed"
      BY <1>2, <2>1 DEF Calls
    <3> QED  BY <1>2, <2>1, <3>1, CallFacts DEF Reason, Begun, Live, Broken
  <2>3. Reason(f.of)
    BY <1>2, <2>1 DEF FetchWaits, Building, IndInv, TagInv, TagOK
  <2>4. ASSUME NEW x \in Resource, NEW y \in Fetch \cup {None}, <<x, y>> \in construction'
        PROVE  TagOK(x, y)'
    <3>1. CASE <<x, y>> \in construction
      <4>1. y # f /\ TagOK(x, y)
        BY <1>2, <3>1, CallFacts DEF IndInv, TagInv
      <4> QED  BY <2>1, <2>2, <3>1, <4>1 DEF TagOK
    <3>2. CASE x = f.of /\ y = f
      BY <2>1, <2>2, <2>3, <3>2 DEF TagOK
    <3> QED  BY <2>1, <2>4, <3>1, <3>2
  <2> QED  BY <2>4 DEF TagInv, TagOK
<1>3. ASSUME NEW f \in Fetch, Calls(f), FetchConstructs(f) PROVE TagInv'
  BY <1>3, FetchFacts DEF FetchConstructs, IndInv, TypeOK, BuildInv, BuildOK, FetchInv,
       FetchOK, TagInv, TagOK, Reason, Calls, Begun, Broken, Live
<1>4. ASSUME NEW f \in Fetch, Calls(f), FetchNotFound(f) PROVE TagInv'
  BY <1>4, FetchFacts DEF FetchNotFound, IndInv, TypeOK, BuildInv, BuildOK, FetchInv,
       FetchOK, TagInv, TagOK, Reason, Calls, Begun, Broken, Live
<1>5. ASSUME NEW f \in Fetch, ResumeWaiter(f) PROVE TagInv'
  BY <1>5, FetchFacts DEF ResumeWaiter, IndInv, TypeOK, BuildInv, BuildOK, FetchInv,
       FetchOK, TagInv, TagOK, Reason, Calls, Begun, Broken, Live
<1>6. ASSUME NEW r \in Resource, SuspendOnDeps(r) PROVE TagInv'
  BY <1>6, FetchFacts DEF SuspendOnDeps, IndInv, TypeOK, BuildInv, BuildOK, FetchInv,
       FetchOK, TagInv, TagOK, Reason, Calls, Begun, Broken, Live
<1>7. ASSUME NEW r \in Resource, DepsFail(r) PROVE TagInv'
  BY <1>7, FetchFacts DEF DepsFail, IndInv, TypeOK, BuildInv, BuildOK, FetchInv, FetchOK,
       TagInv, TagOK, Reason, Calls, Begun, Broken, Live
<1>8. ASSUME NEW r \in Resource, CallFactory(r) PROVE TagInv'
  BY <1>8, FetchFacts DEF CallFactory, IndInv, TypeOK, BuildInv, BuildOK, FetchInv, FetchOK,
       TagInv, TagOK, Reason, Calls, Begun, Broken, Live
<1>9. ASSUME NEW r \in Resource, FactoryResolves(r) PROVE TagInv'
  BY <1>9, FetchFacts DEF FactoryResolves, IndInv, TypeOK, BuildInv, BuildOK, FetchInv,
       FetchOK, TagInv, TagOK, Reason, Calls, Begun, Broken, Live
<1>10. ASSUME NEW r \in Resource, FactoryRejects(r) PROVE TagInv'
  BY <1>10, FetchFacts DEF FactoryRejects, IndInv, TypeOK, BuildInv, BuildOK, FetchInv,
       FetchOK, TagInv, TagOK, Reason, Calls, Begun, Broken, Live
<1>11. ASSUME NEW r \in Resource, Store(r) PROVE TagInv'
  <2>1. /\ Live(r) /\ Ends(r)
        /\ builder[r] \in Fetch
        /\ \A g \in Waiters(r) : g # builder[r]
    BY <1>11, EndFacts, LiveFacts
  <2>2. Begun(r) /\ builder' = builder
    BY <2>1, FetchFacts DEF Begun, Ends
  <2>3. \A x \in Resource, y \in Fetch \cup {None} :
          <<x, y>> \in construction' => <<x, y>> \in construction /\ x # r
    BY <1>11 DEF Store
  <2> QED  BY <2>1, <2>3, TagsGoOn
<1>12. ASSUME NEW r \in Resource, StoreInterrupted(r) PROVE TagInv'
  <2>1. /\ Live(r) /\ Ends(r)
        /\ builder[r] \in Fetch
        /\ \A g \in Waiters(r) : g # builder[r]
    BY <1>12, EndFacts, LiveFacts
  <2>2. Begun(r) /\ builder' = builder
    BY <2>1, FetchFacts DEF Begun, Ends
  <2>3. fetch'[builder[r]] = "failed" /\ construction' = construction
    BY <1>12, <2>1 DEF StoreInterrupted, IndInv, TypeOK
  <2>4. Broken(r)'
    BY <2>2, <2>3 DEF Broken, Begun
  <2> QED  BY <2>1, <2>3, <2>4, TagsGoOn
<1>13. ASSUME NEW r \in Resource, Rethrow(r) PROVE TagInv'
  <2>1. /\ Live(r) /\ Ends(r)
        /\ builder[r] \in Fetch
        /\ \A g \in Waiters(r) : g # builder[r]
    BY <1>13, EndFacts, LiveFacts
  <2>2. Begun(r) /\ builder' = builder
    BY <2>1, FetchFacts DEF Begun, Ends
  <2>3. fetch'[builder[r]] = "failed" /\ construction' = construction
    BY <1>13, <2>1 DEF Rethrow, IndInv, TypeOK
  <2>4. Broken(r)'
    BY <2>2, <2>3 DEF Broken, Begun
  <2> QED  BY <2>1, <2>3, <2>4, TagsGoOn
<1>14. CASE UNCHANGED vars
  BY <1>14 DEF vars, IndInv, TypeOK, BuildInv, BuildOK, FetchInv, FetchOK, TagInv, TagOK,
       Reason, Calls, Begun, Broken, Live
<1> QED  BY <1>1, <1>2, <1>3, <1>4, <1>5, <1>6, <1>7, <1>8, <1>9, <1>10, <1>11, <1>12,
     <1>13, <1>14, NextCases

\* The stack holds live constructions, each once.
LEMMA StackStep == IndInv /\ [Next]_vars => StackInv'
<1> SUFFICES ASSUME IndInv, [Next]_vars PROVE StackInv'
  OBVIOUS
<1>1. ASSUME NEW f \in Fetch, Calls(f), FetchBuilt(f) PROVE StackInv'
  BY <1>1, FetchFacts DEF FetchBuilt, IndInv, TypeOK, BuildInv, BuildOK, StackInv, Calls,
       Begun, Broken, Live
<1>2. ASSUME NEW f \in Fetch, Calls(f), FetchWaits(f) PROVE StackInv'
  BY <1>2, FetchFacts DEF FetchWaits, IndInv, TypeOK, BuildInv, BuildOK, StackInv, Calls,
       Begun, Broken, Live
<1>3. ASSUME NEW f \in Fetch, Calls(f), FetchConstructs(f) PROVE StackInv'
  <2>1. f.of \in Resource /\ phase[f.of] = "idle"
    BY <1>3, FreshFacts, FetchFacts
  <2>2. \A i \in 1 .. Len(stack) : stack[i] # f.of
    BY <2>1 DEF IndInv, StackInv
  <2>3. stack' = <<f.of>> \o stack /\ phase'[f.of] = "deps"
        /\ \A x \in Resource : x # f.of => phase'[x] = phase[x]
    BY <1>3, <2>1 DEF FetchConstructs, IndInv, TypeOK
  <2>4. /\ \A i \in 1 .. Len(stack') :
             stack'[i] = f.of \/ \E j \in 1 .. Len(stack) : stack'[i] = stack[j]
        /\ \A i, j \in 1 .. Len(stack') : stack'[i] = stack'[j] => i = j
    BY <2>1, <2>2, <2>3, PushFacts DEF IndInv
  <2>5. \A j \in 1 .. Len(stack) : phase'[stack[j]] = phase[stack[j]]
    BY <2>2, <2>3 DEF IndInv, TypeOK
  <2>6. \A i \in 1 .. Len(stack') : phase'[stack'[i]] \in {"deps", "made", "threw"}
    BY <2>3, <2>4, <2>5 DEF IndInv, StackInv
  <2> QED  BY <2>4, <2>6 DEF StackInv
<1>4. ASSUME NEW f \in Fetch, Calls(f), FetchNotFound(f) PROVE StackInv'
  BY <1>4, FetchFacts DEF FetchNotFound, IndInv, TypeOK, BuildInv, BuildOK, StackInv, Calls,
       Begun, Broken, Live
<1>5. ASSUME NEW f \in Fetch, ResumeWaiter(f) PROVE StackInv'
  BY <1>5, FetchFacts DEF ResumeWaiter, IndInv, TypeOK, BuildInv, BuildOK, StackInv, Calls,
       Begun, Broken, Live
<1>6. ASSUME NEW r \in Resource, SuspendOnDeps(r) PROVE StackInv'
  <2>1. Turn(r) /\ Pop(r) /\ UNCHANGED phase
    BY <1>6 DEF SuspendOnDeps, Turn, Pop
  <2> QED  BY <2>1, PopFacts DEF IndInv, StackInv
<1>7. ASSUME NEW r \in Resource, DepsFail(r) PROVE StackInv'
  BY <1>7, FetchFacts DEF DepsFail, IndInv, TypeOK, BuildInv, BuildOK, StackInv, Calls,
       Begun, Broken, Live
<1>8. ASSUME NEW r \in Resource, CallFactory(r) PROVE StackInv'
  <2>1. \A x \in Resource : x # r => phase'[x] = phase[x]
    BY <1>8 DEF CallFactory, IndInv, TypeOK
  <2>2. Pop(r) \/ (UNCHANGED stack /\ phase'[r] \in {"made", "threw"})
    BY <1>8 DEF CallFactory, IndInv, TypeOK
  <2> QED  BY <1>8, <2>1, <2>2, StackGoesOn DEF CallFactory, IndInv
<1>9. ASSUME NEW r \in Resource, FactoryResolves(r) PROVE StackInv'
  BY <1>9, FetchFacts DEF FactoryResolves, IndInv, TypeOK, BuildInv, BuildOK, StackInv,
       Calls, Begun, Broken, Live
<1>10. ASSUME NEW r \in Resource, FactoryRejects(r) PROVE StackInv'
  BY <1>10, FetchFacts DEF FactoryRejects, IndInv, TypeOK, BuildInv, BuildOK, StackInv,
       Calls, Begun, Broken, Live
<1>11. ASSUME NEW r \in Resource, Store(r) PROVE StackInv'
  <2>1. Ends(r)
    BY <1>11, EndFacts
  <2> QED  BY <2>1, StackGoesOn DEF IndInv, Ends
<1>12. ASSUME NEW r \in Resource, StoreInterrupted(r) PROVE StackInv'
  <2>1. Ends(r)
    BY <1>12, EndFacts
  <2> QED  BY <2>1, StackGoesOn DEF IndInv, Ends
<1>13. ASSUME NEW r \in Resource, Rethrow(r) PROVE StackInv'
  <2>1. Ends(r)
    BY <1>13, EndFacts
  <2> QED  BY <2>1, StackGoesOn DEF IndInv, Ends
<1>14. CASE UNCHANGED vars
  BY <1>14 DEF vars, IndInv, TypeOK, BuildInv, BuildOK, StackInv, Calls, Begun, Broken, Live
<1> QED  BY <1>1, <1>2, <1>3, <1>4, <1>5, <1>6, <1>7, <1>8, <1>9, <1>10, <1>11, <1>12,
     <1>13, <1>14, NextCases

\* A type that is begun was not there to be waited for.
LEMMA CycleStep == IndInv /\ [Next]_vars => NoCycle'
<1> SUFFICES ASSUME IndInv, [Next]_vars PROVE NoCycle'
  OBVIOUS
<1>1. ASSUME NEW f \in Fetch, Calls(f), FetchBuilt(f) PROVE NoCycle'
  BY <1>1, FetchFacts DEF FetchBuilt, IndInv, TypeOK, BuildInv, BuildOK, NoCycle, Calls,
       Begun, Broken, Live
<1>2. ASSUME NEW f \in Fetch, Calls(f), FetchWaits(f) PROVE NoCycle'
  BY <1>2, FetchFacts DEF FetchWaits, IndInv, TypeOK, BuildInv, BuildOK, NoCycle, Calls,
       Begun, Broken, Live
<1>3. ASSUME NEW f \in Fetch, Calls(f), FetchConstructs(f) PROVE NoCycle'
  <2>1. f.of \in Resource /\ ~Begun(f.of) /\ f # None
    BY <1>3, FreshFacts, FetchFacts
  <2>2. /\ builder'[f.of] = f
        /\ \A x \in Resource : x # f.of => builder'[x] = builder[x]
    BY <1>3, <2>1 DEF FetchConstructs, IndInv, TypeOK
  <2>3. f.by \in Resource => Begun(f.by) /\ f.by # f.of
    BY <1>3, <2>1, CallFacts
  <2>4. \A x \in Resource : Begun(x)' <=> Begun(x) \/ x = f.of
    BY <2>1, <2>2 DEF Begun
  <2>5. ASSUME NEW x \in Resource, Begun(x)', builder'[x].by \in Resource
        PROVE  builder'[builder'[x].by] # None
    <3>1. CASE x = f.of
      BY <2>2, <2>3, <2>4, <2>5, <3>1 DEF Begun
    <3>2. CASE x # f.of
      <4>1. Begun(x) /\ builder'[x] = builder[x]
        BY <2>2, <2>4, <2>5, <3>2
      <4>2. Begun(builder[x].by)
        BY <2>5, <4>1 DEF IndInv, NoCycle
      <4> QED  BY <2>4, <2>5, <4>1, <4>2 DEF Begun
    <3> QED  BY <3>1, <3>2
  <2>6. ASSUME NEW S \in SUBSET Resource, S # {}, \A x \in S : Begun(x)'
        PROVE  \E x \in S : builder'[x].by \notin S
    <3> DEFINE T == S \ {f.of}
    <3>1. CASE T = {}
      <4>1. S = {f.of}
        BY <2>6, <3>1
      <4>2. f.by \notin S
        BY <2>1, <2>3, <4>1
      <4> QED  BY <2>2, <4>1, <4>2
    <3>2. CASE T # {}
      <4>1. T \in SUBSET Resource /\ \A x \in T : Begun(x)
        BY <2>4, <2>6
      <4>2. PICK x \in T : builder[x].by \notin T
        BY <3>2, <4>1 DEF IndInv, NoCycle
      <4>3. builder[x].by # f.of
        BY <2>1, <4>1, <4>2 DEF IndInv, NoCycle
      <4> QED  BY <2>2, <4>2, <4>3
    <3> QED  BY <3>1, <3>2
  <2>7. \A S \in SUBSET Resource :
          S # {} /\ (\A x \in S : Begun(x)') => \E x \in S : builder'[x].by \notin S
    BY <2>6
  <2>8. \A x \in Resource : Begun(x)' /\ builder'[x].by \in Resource =>
          builder'[builder'[x].by] # None
    BY <2>5
  <2> QED  BY <2>7, <2>8 DEF NoCycle, Begun
<1>4. ASSUME NEW f \in Fetch, Calls(f), FetchNotFound(f) PROVE NoCycle'
  BY <1>4, FetchFacts DEF FetchNotFound, IndInv, TypeOK, BuildInv, BuildOK, NoCycle, Calls,
       Begun, Broken, Live
<1>5. ASSUME NEW f \in Fetch, ResumeWaiter(f) PROVE NoCycle'
  BY <1>5, FetchFacts DEF ResumeWaiter, IndInv, TypeOK, BuildInv, BuildOK, NoCycle, Calls,
       Begun, Broken, Live
<1>6. ASSUME NEW r \in Resource, SuspendOnDeps(r) PROVE NoCycle'
  BY <1>6, FetchFacts DEF SuspendOnDeps, IndInv, TypeOK, BuildInv, BuildOK, NoCycle, Calls,
       Begun, Broken, Live
<1>7. ASSUME NEW r \in Resource, DepsFail(r) PROVE NoCycle'
  BY <1>7, FetchFacts DEF DepsFail, IndInv, TypeOK, BuildInv, BuildOK, NoCycle, Calls,
       Begun, Broken, Live
<1>8. ASSUME NEW r \in Resource, CallFactory(r) PROVE NoCycle'
  BY <1>8, FetchFacts DEF CallFactory, IndInv, TypeOK, BuildInv, BuildOK, NoCycle, Calls,
       Begun, Broken, Live
<1>9. ASSUME NEW r \in Resource, FactoryResolves(r) PROVE NoCycle'
  BY <1>9, FetchFacts DEF FactoryResolves, IndInv, TypeOK, BuildInv, BuildOK, NoCycle,
       Calls, Begun, Broken, Live
<1>10. ASSUME NEW r \in Resource, FactoryRejects(r) PROVE NoCycle'
  BY <1>10, FetchFacts DEF FactoryRejects, IndInv, TypeOK, BuildInv, BuildOK, NoCycle,
       Calls, Begun, Broken, Live
<1>11. ASSUME NEW r \in Resource, Store(r) PROVE NoCycle'
  <2>1. UNCHANGED builder
    BY <1>11 DEF Store
  <2> QED  BY <2>1 DEF IndInv, NoCycle, Begun
<1>12. ASSUME NEW r \in Resource, StoreInterrupted(r) PROVE NoCycle'
  <2>1. UNCHANGED builder
    BY <1>12 DEF StoreInterrupted
  <2> QED  BY <2>1 DEF IndInv, NoCycle, Begun
<1>13. ASSUME NEW r \in Resource, Rethrow(r) PROVE NoCycle'
  <2>1. UNCHANGED builder
    BY <1>13 DEF Rethrow
  <2> QED  BY <2>1 DEF IndInv, NoCycle, Begun
<1>14. CASE UNCHANGED vars
  BY <1>14 DEF vars, IndInv, TypeOK, BuildInv, BuildOK, NoCycle, Calls, Begun, Broken, Live
<1> QED  BY <1>1, <1>2, <1>3, <1>4, <1>5, <1>6, <1>7, <1>8, <1>9, <1>10, <1>11, <1>12,
     <1>13, <1>14, NextCases

\* Nothing is begun at first.
LEMMA Initially == Init => IndInv
<1> SUFFICES ASSUME Init PROVE IndInv
  OBVIOUS
<1>1. TypeOK
  BY DEF Init, TypeOK, MaxInvoked
<1>2. \A r \in Resource : ~Begun(r) /\ phase[r] = "idle" /\ invoked[r] = 0
  BY DEF Init, Begun
<1>3. BuildInv
  BY <1>2 DEF Init, BuildInv, BuildOK, Live
<1>4. FetchInv /\ TagInv /\ StackInv
  BY DEF Init, FetchInv, FetchOK, TagInv, TagOK, StackInv
<1>5. NoCycle
  BY <1>2 DEF NoCycle
<1> QED  BY <1>1, <1>3, <1>4, <1>5 DEF IndInv

\* The inductive invariant holds of every execution, whatever the types depend
\* on: create_and_get, the factories' invokers and the scheduler interleave.
THEOREM Invariance == Spec => []IndInv
<1>1. IndInv /\ [Next]_vars => IndInv'
  BY TypeStep, BuildStep, FetchStep, TagStep, StackStep, CycleStep DEF IndInv
<1> QED  BY <1>1, Initially, PTL DEF Spec

\* create_and_get calls a type's factory at most once, whoever fetches the type
\* while it is being built and whatever fails.
THEOREM FactoriesAreCalledOnce == Spec => []ConstructedOnce
<1>1. IndInv => ConstructedOnce
  BY DEF IndInv, BuildInv, BuildOK, ConstructedOnce
<1> QED  BY <1>1, Invariance, PTL

\* A factory runs, and a resource is stored, only after everything in its
\* dependencies_t is stored, so that unsafe_get finds it.
THEOREM FactoriesFindDependencies == Spec => []DependenciesComeFirst
<1>1. IndInv => DependenciesComeFirst
  BY DEF IndInv, BuildInv, BuildOK, DependenciesComeFirst
<1> QED  BY <1>1, Invariance, PTL

\* Once every outside fetch has returned without an exception, no construction
\* is under way: each would be under way on behalf of another one, and NoCycle
\* has no such set of constructions.
LEMMA NothingUnderWay ==
  ASSUME IndInv, \A f \in [by : Request, of : Resource] : fetch[f] \in {"none", "done"}
  PROVE  \A r \in Resource : Begun(r) => fetch[builder[r]] = "done"
<1> DEFINE S == {r \in Resource : Begun(r) /\ fetch[builder[r]] # "done"}
<1> SUFFICES ASSUME S # {} PROVE FALSE
  OBVIOUS
<1>1. PICK r \in S : builder[r].by \notin S
  BY DEF IndInv, NoCycle
<1> DEFINE b == builder[r]
<1>2. /\ r \in Resource /\ Begun(r) /\ b \in Fetch
      /\ fetch[b] \in {"building", "failed"}
  <2>1. r \in Resource /\ Begun(r) /\ fetch[b] # "done"
    OBVIOUS
  <2>2. BuildOK(r) /\ builder[r] \in Fetch \cup {None}
    BY <2>1 DEF IndInv, BuildInv, TypeOK
  <2> QED  BY <2>1, <2>2 DEF BuildOK, Begun
<1>3. CASE b.by \in Request
  <2>1. b \in [by : Request, of : Resource]
    BY <1>2, <1>3 DEF Fetch
  <2> QED  BY <1>2, <2>1
<1>4. CASE b.by \in Resource
  <2>1. Begun(b.by) /\ (phase[b.by] \in {"deps", "threw"} \/ Broken(b.by))
    BY <1>2, <1>4 DEF IndInv, FetchInv, FetchOK
  <2>2. fetch[builder[b.by]] # "done"
    BY <1>4, <2>1 DEF IndInv, BuildInv, BuildOK, Live, Broken
  <2> QED  BY <1>1, <1>4, <2>1, <2>2
<1> QED  BY <1>2, <1>3, <1>4, FetchFacts

\* When every outside fetch has returned, none of them with an exception, no
\* type is tagged, no construction is on the stack and no fetch is under way.
THEOREM SettledContextsAreAtRest == Spec => []AtRestWhenSettled
<1>1. ASSUME IndInv, \A f \in [by : Request, of : Resource] : fetch[f] \in {"none", "done"}
      PROVE  construction = {} /\ stack = <<>> /\ \A f \in Fetch : fetch[f] = "none" \/ Settled(f)
  <2>1. \A r \in Resource : ~Live(r) /\ ~Broken(r)
    BY <1>1, NothingUnderWay DEF IndInv, BuildInv, BuildOK, Broken
  <2>2. ASSUME NEW f \in Fetch PROVE fetch[f] \in {"none", "done"}
    <3>1. CASE f.by \in Request
      <4>1. f \in [by : Request, of : Resource]
        BY <2>2, <3>1 DEF Fetch
      <4> QED  BY <1>1, <4>1
    <3>2. CASE f.by \in Resource
      BY <1>1, <2>1, <3>2 DEF IndInv, FetchInv, FetchOK, Live
    <3> QED  BY <3>1, <3>2, FetchFacts
  <2>3. construction = {}
    <3> SUFFICES ASSUME NEW e \in construction PROVE FALSE
      OBVIOUS
    <3>1. PICK r \in Resource, x \in Fetch \cup {None} : e = <<r, x>>
      BY <1>1 DEF IndInv, TypeOK
    <3>2. Reason(r)
      BY <1>1, <3>1 DEF IndInv, TagInv, TagOK
    <3> QED  BY <2>1, <2>2, <3>1, <3>2 DEF Reason
  <2>4. stack = <<>>
    <3> SUFFICES ASSUME stack # <<>> PROVE FALSE
      OBVIOUS
    <3>1. stack \in Seq(Resource) /\ Len(stack) \in Nat \ {0} /\ stack[1] \in Resource
      BY <1>1 DEF IndInv, TypeOK
    <3>2. phase[stack[1]] \in {"deps", "made", "threw"}
      BY <1>1, <3>1 DEF IndInv, StackInv
    <3> QED  BY <2>1, <3>1, <3>2 DEF Live
  <2> QED  BY <2>2, <2>3, <2>4 DEF Settled
<1>2. IndInv => AtRestWhenSettled
  BY <1>1 DEF AtRestWhenSettled
<1> QED  BY <1>2, Invariance, PTL

=============================================================================
