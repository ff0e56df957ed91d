-------------------------- MODULE SchedulerProofs --------------------------
(***************************************************************************)
(* The safety properties of Scheduler, for any number of coroutines and    *)
(* descriptors and any sizes of the queue and of the event buffer.         *)
(*                                                                         *)
(* The inductive invariant is cut along the state it speaks of: EpollPart  *)
(* about the registrations and events, CoroPart about where coroutines are *)
(* suspended, LoopPart about the loop's control and its counters.          *)
(***************************************************************************)
EXTENDS Scheduler, SequenceTheorems, TLAPS

\* What In and Distinct become when a sequence grows or shrinks.
LEMMA AppendFacts ==
  \A S : \A s \in Seq(S), e \in S :
    /\ Append(s, e) \in Seq(S)
    /\ Len(Append(s, e)) = Len(s) + 1
    /\ \A x : In(x, Append(s, e)) <=> In(x, s) \/ x = e
    /\ Distinct(s) /\ ~In(e, s) => Distinct(Append(s, e))
<1> SUFFICES ASSUME NEW S, NEW s \in Seq(S), NEW e \in S
             PROVE  /\ Append(s, e) \in Seq(S)
                    /\ Len(Append(s, e)) = Len(s) + 1
                    /\ \A x : In(x, Append(s, e)) <=> In(x, s) \/ x = e
                    /\ Distinct(s) /\ ~In(e, s) => Distinct(Append(s, e))
  OBVIOUS
<1> DEFINE t == Append(s, e)
<1>1. /\ t \in Seq(S) /\ Len(s) \in Nat /\ Len(t) = Len(s) + 1
      /\ t[Len(s) + 1] = e
      /\ \A i \in 1 .. Len(s) : t[i] = s[i]
  OBVIOUS
<1> HIDE DEF t
<1>2. \A i \in 1 .. Len(t) : i \in 1 .. Len(s) \/ i = Len(s) + 1
  BY <1>1
<1>3. \A i \in 1 .. Len(s) : i \in 1 .. Len(t)
  BY <1>1
<1>4. Len(s) + 1 \in 1 .. Len(t)
  BY <1>1
<1>5. \A x : In(x, t) <=> In(x, s) \/ x = e
  BY <1>1, <1>2, <1>3, <1>4 DEF In
<1>6. Distinct(s) /\ ~In(e, s) => Distinct(t)
  BY <1>1, <1>2 DEF In, Distinct
<1> QED  BY <1>1, <1>5, <1>6 DEF t

LEMMA TailFacts ==
  \A S : \A s \in Seq(S) : s # <<>> =>
    /\ Head(s) \in S
    /\ Tail(s) \in Seq(S)
    /\ Len(s) \in Nat \ {0}
    /\ Len(Tail(s)) = Len(s) - 1
    /\ \A x : In(x, s) <=> In(x, Tail(s)) \/ x = Head(s)
    /\ Distinct(s) => Distinct(Tail(s)) /\ ~In(Head(s), Tail(s))
<1> SUFFICES ASSUME NEW S, NEW s \in Seq(S), s # <<>>
             PROVE  /\ Head(s) \in S
                    /\ Tail(s) \in Seq(S)
                    /\ Len(s) \in Nat \ {0}
                    /\ Len(Tail(s)) = Len(s) - 1
                    /\ \A x : In(x, s) <=> In(x, Tail(s)) \/ x = Head(s)
                    /\ Distinct(s) => Distinct(Tail(s)) /\ ~In(Head(s), Tail(s))
  OBVIOUS
<1> DEFINE t == Tail(s)
<1>1. /\ t \in Seq(S) /\ Len(s) \in Nat \ {0} /\ Len(t) = Len(s) - 1
      /\ Head(s) = s[1] /\ Head(s) \in S
      /\ \A i \in 1 .. Len(t) : t[i] = s[i + 1]
  BY HeadTailProperties
<1> HIDE DEF t
<1>2. 1 \in 1 .. Len(s)
  BY <1>1
<1>3. \A i \in 1 .. Len(t) : i + 1 \in 1 .. Len(s) /\ i + 1 # 1
  BY <1>1
<1>4. \A i \in 1 .. Len(s) : i = 1 \/ (i - 1 \in 1 .. Len(t) /\ s[i] = t[i - 1])
  BY <1>1
<1>5. \A x : In(x, s) <=> In(x, t) \/ x = Head(s)
  <2> TAKE x
  <2>1. In(x, s) => In(x, t) \/ x = Head(s)
    BY <1>1, <1>4 DEF In
  <2>2. In(x, t) => In(x, s)
    BY <1>1, <1>3 DEF In
  <2>3. x = Head(s) => In(x, s)
    BY <1>1, <1>2 DEF In
  <2> QED  BY <2>1, <2>2, <2>3
<1>6. Distinct(s) => ~In(Head(s), t)
  BY <1>1, <1>2, <1>3 DEF In, Distinct
<1>7. Distinct(s) => Distinct(t)
  <2> SUFFICES ASSUME Distinct(s),
                      NEW i \in 1 .. Len(t), NEW j \in 1 .. Len(t), t[i] = t[j]
               PROVE  i = j
    BY DEF Distinct
  <2>1. i + 1 = j + 1
    BY <1>1, <1>3 DEF Distinct
  <2> QED  BY <2>1
<1> QED  BY <1>1, <1>5, <1>6, <1>7 DEF t

LEMMA EmptyFacts == (\A x : ~In(x, <<>>)) /\ Distinct(<<>>)
  BY DEF In, Distinct

-----------------------------------------------------------------------------

CallbacksType ==
  /\ callbacks \in [Handle -> Coro \cup {"drain", None}]
  /\ callbacks[EventFd] \notin Coro
  /\ \A f \in Fd : callbacks[f] # "drain"

EpollPart ==
  /\ CallbacksType
  /\ armed \subseteq interest
  /\ readyList \in Seq(Handle)
  /\ batch \in Seq(Handle) /\ Len(batch) <= EventBufferSize
  /\ signalled \in BOOLEAN
  /\ fdReady \subseteq Fd
  /\ MapMatchesKernel
  /\ EventsHaveCallbacks
  /\ WakeupIsScheduled
  /\ \A f \in Fd : Registered(f) /\ f \in fdReady => OnItsWay(f)
  /\ OneShotInv

CoroPart ==
  /\ CallbacksType
  /\ queue \in Seq(Coro) /\ Len(queue) <= QueueSize
  /\ running \in Coro \cup {None}
  /\ coroState \in [Coro -> CoroStates]
  /\ \A c \in Coro : coroState[c] = "running" <=> running = c
  /\ ResumesOnlySuspended
  /\ SuspendedInv

LoopPart ==
  /\ pc \in {"idle", "check", "wait", "dispatch", "drain"}
  /\ continuePolling \in BOOLEAN
  /\ todo \in Nat
  /\ Len(queue) > todo => Registered(EventFd)
  /\ pc \in {"idle", "check", "wait"} => running = None
  /\ pc \in {"idle", "check"} => batch = <<>>
  /\ todo > 0 => pc = "drain"
  /\ todo <= Len(queue)

LEMMA Parts == IndInv <=> EpollPart /\ CoroPart /\ LoopPart
<1>1. MapMatchesKernel => interest \subseteq Handle
  BY DEF MapMatchesKernel
<1> QED  BY <1>1 DEF IndInv, EpollPart, CoroPart, LoopPart, CallbacksType, TypeOK,
                  NoLostWakeup, ControlInv

USE HandlesAssumption DEF Handle

\* The initial state.
LEMMA InitParts == Init => EpollPart /\ CoroPart /\ LoopPart
<1> SUFFICES ASSUME Init PROVE EpollPart /\ CoroPart /\ LoopPart
  OBVIOUS
<1> USE DEF Init
<1>1. \A h \in Handle : ~Registered(h)
  BY DEF Registered
<1>2. CallbacksType
  BY DEF CallbacksType
<1>3. EpollPart
  <2>1. MapMatchesKernel
    BY <1>1 DEF MapMatchesKernel
  <2>2. EventsHaveCallbacks /\ OneShotInv
    BY <1>1, EmptyFacts DEF EventsHaveCallbacks, OneShotInv
  <2>3. WakeupIsScheduled /\ \A f \in Fd : ~Registered(f)
    BY <1>1 DEF WakeupIsScheduled
  <2>4. batch \in Seq(Handle) /\ Len(batch) <= EventBufferSize
    BY EventBufferSizeAssumption
  <2>5. readyList \in Seq(Handle) /\ fdReady \subseteq Fd /\ armed \subseteq interest
    OBVIOUS
  <2>6. signalled \in BOOLEAN
    OBVIOUS
  <2> QED  BY <1>2, <2>1, <2>2, <2>3, <2>4, <2>5, <2>6 DEF EpollPart
<1>4. CoroPart
  <2>1. ResumesOnlySuspended
    BY <1>1, EmptyFacts DEF ResumesOnlySuspended
  <2>2. SuspendedInv
    BY DEF SuspendedInv
  <2> QED  BY <1>2, <2>1, <2>2, QueueSizeAssumption DEF CoroPart, CoroStates
<1>5. LoopPart
  BY DEF LoopPart
<1> QED  BY <1>3, <1>4, <1>5

-----------------------------------------------------------------------------
(* The registrations. *)

\* Registering the drain and pinging the eventfd: the drain is registered, and
\* its event is listed unless it is in the event buffer.
LEMMA DrainEffect ==
  ASSUME EpollPart, ScheduleQueueDrain
  PROVE  /\ callbacks' = [callbacks EXCEPT ![EventFd] = "drain"]
         /\ interest' = interest \cup {EventFd}
         /\ signalled' = TRUE
         /\ armed' = IF In(EventFd, batch) THEN armed ELSE armed \cup {EventFd}
         /\ readyList' \in Seq(Handle)
         /\ Distinct(readyList')
         /\ \A h \in Handle : In(h, readyList')
                <=> In(h, readyList) \/ (h = EventFd /\ ~In(EventFd, batch))
<1>1. signalled' = TRUE /\ readyList' = Listed(EventFd, armed')
  BY DEF ScheduleQueueDrain
<1>2. /\ callbacks' = [callbacks EXCEPT ![EventFd] = "drain"]
      /\ interest' = interest \cup {EventFd}
      /\ armed' = IF In(EventFd, batch) THEN armed ELSE armed \cup {EventFd}
  <2>1. CASE Registered(EventFd)
    <3>1. callbacks[EventFd] = "drain" /\ EventFd \in interest
      BY <2>1 DEF EpollPart, CallbacksType, MapMatchesKernel, Registered
    <3>2. callbacks' = callbacks /\ interest' = interest /\ armed' = armed
      BY <2>1 DEF ScheduleQueueDrain
    <3>3. callbacks = [callbacks EXCEPT ![EventFd] = "drain"]
      BY <3>1 DEF EpollPart, CallbacksType
    <3>4. In(EventFd, batch) \/ EventFd \in armed
      BY <2>1 DEF EpollPart, OneShotInv
    <3> QED  BY <3>1, <3>2, <3>3, <3>4
  <2>2. CASE ~Registered(EventFd)
    <3>1. ~In(EventFd, batch)
      BY <2>2 DEF EpollPart, EventsHaveCallbacks
    <3> QED  BY <2>2, <3>1 DEF ScheduleQueueDrain, Add
  <2> QED  BY <2>1, <2>2
<1>3. EventFd \in armed' <=> ~In(EventFd, batch)
  BY <1>2 DEF EpollPart, OneShotInv
<1>4. readyList \in Seq(Handle) /\ Distinct(readyList) /\ EventFd \in Handle
  BY DEF EpollPart, OneShotInv
<1>5. CASE EventFd \in armed' /\ ~In(EventFd, readyList)
  <2>1. readyList' = Append(readyList, EventFd)
    BY <1>1, <1>5 DEF Listed
  <2>2. /\ readyList' \in Seq(Handle) /\ Distinct(readyList')
        /\ \A x : In(x, readyList') <=> In(x, readyList) \/ x = EventFd
    BY <1>4, <1>5, <2>1, AppendFacts
  <2>3. ~In(EventFd, batch)
    BY <1>3, <1>5
  <2> QED  BY <1>1, <1>2, <2>2, <2>3
<1>6. CASE ~(EventFd \in armed' /\ ~In(EventFd, readyList))
  <2>1. readyList' = readyList
    BY <1>1, <1>6 DEF Listed
  <2>2. In(EventFd, readyList) => EventFd \in armed
    BY DEF EpollPart, OneShotInv
  <2>3. \A h \in Handle : In(h, readyList')
            <=> In(h, readyList) \/ (h = EventFd /\ ~In(EventFd, batch))
    BY <1>3, <1>6, <2>1, <2>2
  <2> QED  BY <1>1, <1>2, <1>4, <2>1, <2>3
<1> QED  BY <1>5, <1>6

\* ... and the registrations stay consistent.
LEMMA DrainKeepsEpoll ==
  ASSUME EpollPart, ScheduleQueueDrain, batch' = batch, fdReady' = fdReady
  PROVE  /\ EpollPart'
         /\ Registered(EventFd)'
         /\ CallbacksType'
         /\ \A f \in Fd : callbacks'[f] = callbacks[f]
<1>1. CallbacksType' /\ \A f \in Fd : callbacks'[f] = callbacks[f]
  BY DrainEffect DEF EpollPart, CallbacksType
<1>2. /\ callbacks'[EventFd] = "drain"
      /\ Registered(EventFd)'
      /\ \A h \in Handle : Registered(h)' <=> Registered(h) \/ h = EventFd
  BY DrainEffect DEF EpollPart, CallbacksType, Registered
<1>3. armed' \subseteq interest'
  BY DrainEffect DEF EpollPart
<1>4. MapMatchesKernel'
  BY <1>2, DrainEffect DEF EpollPart, MapMatchesKernel
<1>5. EventsHaveCallbacks'
  BY <1>2, DrainEffect DEF EpollPart, EventsHaveCallbacks
<1>6. WakeupIsScheduled'
  <2>1. In(EventFd, readyList') \/ In(EventFd, batch')
    BY DrainEffect
  <2> QED  BY <2>1, DrainEffect DEF WakeupIsScheduled, OnItsWay
<1>7. \A f \in Fd : Registered(f)' /\ f \in fdReady' => OnItsWay(f)'
  BY <1>2, DrainEffect DEF EpollPart, OnItsWay
<1>8. OneShotInv'
  BY <1>2, DrainEffect DEF EpollPart, OneShotInv
<1> QED  BY <1>1, <1>2, <1>3, <1>4, <1>5, <1>6, <1>7, <1>8, DrainEffect DEF EpollPart

\* Registering a coroutine's descriptor.
LEMMA AwaitFdKeepsEpoll ==
  ASSUME EpollPart, NEW c \in Coro, NEW f \in Fd, AwaitFd(c, f)
  PROVE  EpollPart'
<1>1. /\ ~Registered(f)
      /\ callbacks' = [callbacks EXCEPT ![f] = c]
      /\ interest' = interest \cup {f}
      /\ armed' = armed \cup {f}
      /\ readyList' = IF f \in fdReady THEN Listed(f, armed') ELSE readyList
      /\ UNCHANGED <<signalled, batch, fdReady>>
  BY DEF AwaitFd, Add
<1>2. f # EventFd /\ f \in Handle
  OBVIOUS
<1>3. ~In(f, readyList) /\ ~In(f, batch)
  <2>1. f \notin interest
    BY <1>1 DEF EpollPart, MapMatchesKernel
  <2> QED  BY <1>1, <1>2, <2>1 DEF EpollPart, OneShotInv, EventsHaveCallbacks
<1>4. /\ readyList' \in Seq(Handle) /\ Distinct(readyList')
      /\ \A h \in Handle : In(h, readyList')
             <=> In(h, readyList) \/ (h = f /\ f \in fdReady)
  <2>1. readyList' = IF f \in fdReady THEN Append(readyList, f) ELSE readyList
    BY <1>1, <1>3 DEF Listed
  <2>2. readyList \in Seq(Handle) /\ Distinct(readyList)
    BY DEF EpollPart, OneShotInv
  <2> QED  BY <1>2, <1>3, <2>1, <2>2, AppendFacts
<1>5. CallbacksType'
  BY <1>1, <1>2 DEF EpollPart, CallbacksType
<1>6. \A h \in Handle : Registered(h)' <=> Registered(h) \/ h = f
  BY <1>1, <1>2 DEF EpollPart, CallbacksType, Registered
<1>7. armed' \subseteq interest' /\ MapMatchesKernel'
  BY <1>1, <1>6 DEF EpollPart, MapMatchesKernel
<1>8. EventsHaveCallbacks'
  BY <1>1, <1>6 DEF EpollPart, EventsHaveCallbacks
<1>9. WakeupIsScheduled'
  BY <1>1, <1>2, <1>4, <1>6 DEF EpollPart, WakeupIsScheduled, OnItsWay
<1>10. \A g \in Fd : Registered(g)' /\ g \in fdReady' => OnItsWay(g)'
  BY <1>1, <1>4, <1>6 DEF EpollPart, OnItsWay
<1>11. OneShotInv'
  BY <1>1, <1>3, <1>4, <1>6 DEF EpollPart, OneShotInv
<1> QED  BY <1>1, <1>4, <1>5, <1>7, <1>8, <1>9, <1>10, <1>11 DEF EpollPart

\* A descriptor becomes ready.
LEMMA FdReadyKeepsEpoll ==
  ASSUME EpollPart, NEW f \in Fd, FdBecomesReady(f)
  PROVE  EpollPart'
<1>1. /\ fdReady' = fdReady \cup {f}
      /\ readyList' = Listed(f, armed)
      /\ UNCHANGED <<callbacks, interest, armed, signalled, batch>>
  BY DEF FdBecomesReady
<1>2. /\ readyList' \in Seq(Handle) /\ Distinct(readyList')
      /\ \A h \in Handle : In(h, readyList')
             <=> In(h, readyList) \/ (h = f /\ f \in armed)
  <2>1. /\ readyList \in Seq(Handle) /\ Distinct(readyList)
        /\ In(f, readyList) => f \in armed
    BY DEF EpollPart, OneShotInv
  <2>2. readyList' = IF f \in armed /\ ~In(f, readyList)
                     THEN Append(readyList, f) ELSE readyList
    BY <1>1 DEF Listed
  <2> QED  BY <2>1, <2>2, AppendFacts
<1>3. \A h : Registered(h)' <=> Registered(h)
  BY <1>1 DEF Registered
<1>4. CallbacksType' /\ armed' \subseteq interest' /\ MapMatchesKernel'
  BY <1>1, <1>3 DEF EpollPart, CallbacksType, MapMatchesKernel
<1>5. EventsHaveCallbacks'
  BY <1>1, <1>3 DEF EpollPart, EventsHaveCallbacks
<1>6. WakeupIsScheduled'
  BY <1>1, <1>2, <1>3 DEF EpollPart, WakeupIsScheduled, OnItsWay
<1>7. \A g \in Fd : Registered(g)' /\ g \in fdReady' => OnItsWay(g)'
  BY <1>1, <1>2, <1>3 DEF EpollPart, OnItsWay, OneShotInv
<1>8. OneShotInv'
  BY <1>1, <1>2, <1>3 DEF EpollPart, OneShotInv
<1> QED  BY <1>1, <1>2, <1>4, <1>5, <1>6, <1>7, <1>8 DEF EpollPart

\* epoll_wait moves an event from the kernel's list to the buffer.
LEMMA CollectKeepsEpoll ==
  ASSUME EpollPart, CollectEvent
  PROVE  EpollPart'
<1> DEFINE h == Head(readyList)
<1>1. /\ Len(batch) < EventBufferSize
      /\ readyList # <<>>
      /\ readyList' = Tail(readyList)
      /\ batch' = IF IsReady(h) THEN Append(batch, h) ELSE batch
      /\ armed' = IF IsReady(h) THEN armed \ {h} ELSE armed
      /\ UNCHANGED <<callbacks, interest, signalled, fdReady>>
  BY DEF CollectEvent
<1>2. /\ readyList \in Seq(Handle) /\ Distinct(readyList)
      /\ batch \in Seq(Handle) /\ Distinct(batch)
  BY DEF EpollPart, OneShotInv
<1>3. /\ h \in Handle
      /\ readyList' \in Seq(Handle) /\ Distinct(readyList') /\ ~In(h, readyList')
      /\ \A x : In(x, readyList) <=> In(x, readyList') \/ x = h
  BY <1>1, <1>2, TailFacts
<1> HIDE DEF h
<1>4. h \in armed /\ ~In(h, batch) /\ Registered(h)
  <2>1. h \in armed
    BY <1>3 DEF EpollPart, OneShotInv
  <2> QED  BY <1>3, <2>1 DEF EpollPart, OneShotInv, MapMatchesKernel
<1>5. /\ batch' \in Seq(Handle) /\ Distinct(batch') /\ Len(batch') <= EventBufferSize
      /\ \A x : In(x, batch') <=> In(x, batch) \/ (x = h /\ IsReady(h))
  <2>1. CASE IsReady(h)
    <3>1. Len(batch) \in Nat /\ Len(batch') = Len(batch) + 1
      BY <1>1, <1>2, <1>3, <2>1, AppendFacts
    <3>2. Len(batch') <= EventBufferSize
      BY <1>1, <3>1, EventBufferSizeAssumption
    <3> QED  BY <1>1, <1>2, <1>3, <1>4, <2>1, <3>2, AppendFacts
  <2>2. CASE ~IsReady(h)
    BY <1>1, <1>2, <2>2 DEF EpollPart
  <2> QED  BY <2>1, <2>2
<1>6. \A x : Registered(x)' <=> Registered(x)
  BY <1>1 DEF Registered
<1>7. CallbacksType' /\ armed' \subseteq interest' /\ MapMatchesKernel'
  BY <1>1, <1>6 DEF EpollPart, CallbacksType, MapMatchesKernel
<1>8. EventsHaveCallbacks'
  BY <1>1, <1>4, <1>5, <1>6 DEF EpollPart, EventsHaveCallbacks, IsReady
<1>9. WakeupIsScheduled'
  <2>1. h = EventFd /\ Registered(EventFd) => IsReady(h)
    BY DEF EpollPart, WakeupIsScheduled, IsReady
  <2> QED  BY <1>1, <1>3, <1>5, <1>6, <2>1 DEF EpollPart, WakeupIsScheduled, OnItsWay
<1>10. \A f \in Fd : Registered(f)' /\ f \in fdReady' => OnItsWay(f)'
  <2>1. \A f \in Fd : h = f /\ f \in fdReady => IsReady(h)
    BY DEF IsReady
  <2> QED  BY <1>1, <1>3, <1>5, <1>6, <2>1 DEF EpollPart, OnItsWay
<1>11. OneShotInv'
  <2>1. \A x \in Handle : In(x, readyList') => x \in armed'
    BY <1>1, <1>3 DEF EpollPart, OneShotInv
  <2>2. \A x \in Handle : In(x, batch') => x \notin armed'
    BY <1>1, <1>5 DEF EpollPart, OneShotInv
  <2>3. \A x \in Handle : Registered(x)' => x \in armed' \/ In(x, batch')
    BY <1>1, <1>5, <1>6 DEF EpollPart, OneShotInv
  <2> QED  BY <1>3, <1>5, <2>1, <2>2, <2>3 DEF OneShotInv
<1> QED  BY <1>1, <1>3, <1>5, <1>7, <1>8, <1>9, <1>10, <1>11 DEF EpollPart

\* An event is taken from the buffer and its registration removed.
LEMMA RemoveKeepsEpoll ==
  ASSUME EpollPart, batch # <<>>, Remove(Head(batch)), batch' = Tail(batch),
         UNCHANGED <<readyList, fdReady>>,
         signalled' = signalled \/ (signalled' = FALSE /\ Head(batch) = EventFd)
  PROVE  /\ EpollPart'
         /\ Head(batch) \in Handle
         /\ Registered(Head(batch))
         /\ Head(batch) = EventFd => signalled
<1> DEFINE h == Head(batch)
<1>1. batch \in Seq(Handle) /\ Distinct(batch) /\ Len(batch) <= EventBufferSize
  BY DEF EpollPart, OneShotInv
<1>2. /\ h \in Handle
      /\ batch' \in Seq(Handle) /\ Distinct(batch') /\ ~In(h, batch')
      /\ Len(batch) \in Nat /\ Len(batch') = Len(batch) - 1
      /\ \A x : In(x, batch) <=> In(x, batch') \/ x = h
  BY <1>1, TailFacts
<1>3. /\ callbacks' = [callbacks EXCEPT ![h] = None]
      /\ interest' = interest \ {h}
      /\ armed' = armed \ {h}
  BY DEF Remove
<1> HIDE DEF h
<1>4. Registered(h) /\ h \notin armed /\ ~In(h, readyList) /\ (h = EventFd => signalled)
  BY <1>2 DEF EpollPart, EventsHaveCallbacks, OneShotInv
<1>5. CallbacksType'
  BY <1>2, <1>3 DEF EpollPart, CallbacksType
<1>6. \A x \in Handle : Registered(x)' <=> Registered(x) /\ x # h
  BY <1>2, <1>3 DEF EpollPart, CallbacksType, Registered
<1>7. armed' \subseteq interest' /\ MapMatchesKernel'
  BY <1>3, <1>6 DEF EpollPart, MapMatchesKernel
<1>8. Len(batch') <= EventBufferSize /\ signalled' \in BOOLEAN
  <2>1. Len(batch') <= EventBufferSize
    BY <1>1, <1>2, EventBufferSizeAssumption
  <2>2. signalled' \in BOOLEAN
    <3>1. signalled \in BOOLEAN
      BY DEF EpollPart
    <3>2. CASE signalled' = signalled
      BY <3>1, <3>2
    <3>3. CASE signalled' = FALSE
      BY <3>3
    <3> QED  BY <3>2, <3>3
  <2> QED  BY <2>1, <2>2
<1>9. h # EventFd => signalled' = signalled
  BY DEF EpollPart, h
<1>10. EventsHaveCallbacks'
  BY <1>2, <1>6, <1>9 DEF EpollPart, EventsHaveCallbacks
<1>11. WakeupIsScheduled'
  BY <1>2, <1>6, <1>9 DEF EpollPart, WakeupIsScheduled, OnItsWay
<1>12. \A f \in Fd : Registered(f)' /\ f \in fdReady' => OnItsWay(f)'
  BY <1>2, <1>6 DEF EpollPart, OnItsWay
<1>13. OneShotInv'
  <2>1. \A x \in Handle : In(x, readyList') => x \in armed'
    BY <1>3, <1>4 DEF EpollPart, OneShotInv
  <2>2. \A x \in Handle : In(x, batch') => x \notin armed'
    BY <1>2, <1>3 DEF EpollPart, OneShotInv
  <2>3. \A x \in Handle : Registered(x)' => x \in armed' \/ In(x, batch')
    BY <1>2, <1>3, <1>6 DEF EpollPart, OneShotInv
  <2>4. Distinct(readyList')
    BY DEF EpollPart, OneShotInv
  <2> QED  BY <1>2, <2>1, <2>2, <2>3, <2>4 DEF OneShotInv
<1>14. EpollPart'
  BY <1>2, <1>5, <1>7, <1>8, <1>10, <1>11, <1>12, <1>13 DEF EpollPart
<1> QED  BY <1>2, <1>4, <1>14 DEF h

\* Steps that touch no registration, no event and no descriptor.
LEMMA EpollUnchanged ==
  ASSUME EpollPart, UNCHANGED <<epollVars, batch, fdReady>>
  PROVE  EpollPart'
<1>1. UNCHANGED <<callbacks, interest, armed, readyList, signalled, batch, fdReady>>
  BY DEF epollVars
<1>2. \A h : Registered(h)' <=> Registered(h)
  BY <1>1 DEF Registered
<1>3. /\ CallbacksType' /\ MapMatchesKernel' /\ EventsHaveCallbacks'
      /\ WakeupIsScheduled' /\ OneShotInv'
  BY <1>1, <1>2 DEF EpollPart, CallbacksType, MapMatchesKernel, EventsHaveCallbacks,
                   WakeupIsScheduled, OnItsWay, OneShotInv
<1> QED  BY <1>1, <1>2, <1>3 DEF EpollPart, OnItsWay

\* A descriptor stops being ready.
LEMMA ReadFdKeepsEpoll ==
  ASSUME EpollPart, NEW f \in Fd, ReadFd(f)
  PROVE  EpollPart'
<1>1. /\ UNCHANGED <<callbacks, interest, armed, readyList, signalled, batch>>
      /\ fdReady' = fdReady \ {f}
  BY DEF ReadFd, epollVars
<1>2. \A h : Registered(h)' <=> Registered(h)
  BY <1>1 DEF Registered
<1>3. /\ CallbacksType' /\ MapMatchesKernel' /\ EventsHaveCallbacks'
      /\ WakeupIsScheduled' /\ OneShotInv'
  BY <1>1, <1>2 DEF EpollPart, CallbacksType, MapMatchesKernel, EventsHaveCallbacks,
                   WakeupIsScheduled, OnItsWay, OneShotInv
<1> QED  BY <1>1, <1>2, <1>3 DEF EpollPart, OnItsWay

-----------------------------------------------------------------------------
(* Where the coroutines are. *)

\* A coroutine that is neither queued nor waiting joins the end of the queue.
LEMMA EnqueueKeepsCoro ==
  ASSUME CoroPart, CallbacksType', \A f \in Fd : callbacks'[f] = callbacks[f],
         NEW c \in Coro, coroState[c] \notin {"queued", "fdwait"},
         Len(queue) < QueueSize, queue' = Append(queue, c),
         coroState' = [coroState EXCEPT ![c] = "queued"],
         running' = IF running = c THEN None ELSE running
  PROVE  CoroPart'
<1>1. /\ queue \in Seq(Coro) /\ Distinct(queue) /\ coroState \in [Coro -> CoroStates]
      /\ ~In(c, queue)
  BY DEF CoroPart, ResumesOnlySuspended
<1>2. /\ queue' \in Seq(Coro) /\ Distinct(queue') /\ Len(queue') = Len(queue) + 1
      /\ Len(queue) \in Nat
      /\ \A x : In(x, queue') <=> In(x, queue) \/ x = c
  BY <1>1, AppendFacts
<1>3. Len(queue') <= QueueSize
  BY <1>2, QueueSizeAssumption
<1>4. coroState' \in [Coro -> CoroStates]
  BY <1>1 DEF CoroStates
<1>5. coroState'[c] = "queued" /\ \A d \in Coro : d # c => coroState'[d] = coroState[d]
  BY <1>1
<1>6. \A d \in Coro : coroState'[d] = "running" <=> running' = d
  BY <1>5 DEF CoroPart
<1>7. \A f \in Fd : /\ Registered(f)' <=> Registered(f)
                    /\ Registered(f) => callbacks[f] \in Coro /\ callbacks[f] # c
  BY DEF Registered, CoroPart, CallbacksType, ResumesOnlySuspended
<1>8. ResumesOnlySuspended'
  <2>1. \A d \in Coro : In(d, queue') => coroState'[d] = "queued"
    BY <1>2, <1>5 DEF CoroPart, ResumesOnlySuspended
  <2>2. \A f \in Fd : Registered(f)' => coroState'[callbacks'[f]] = "fdwait"
    BY <1>5, <1>7 DEF CoroPart, ResumesOnlySuspended
  <2>3. \A f, g \in Fd : Registered(f)' /\ callbacks'[f] = callbacks'[g] => f = g
    BY <1>7 DEF CoroPart, ResumesOnlySuspended
  <2> QED  BY <1>2, <2>1, <2>2, <2>3 DEF ResumesOnlySuspended
<1>9. SuspendedInv'
  <2>1. \A d \in Coro : coroState'[d] = "queued" => In(d, queue')
    BY <1>2, <1>5 DEF CoroPart, SuspendedInv
  <2>2. \A d \in Coro : coroState'[d] = "fdwait" => \E f \in Fd : callbacks'[f] = d
    BY <1>5 DEF CoroPart, SuspendedInv
  <2> QED  BY <2>1, <2>2 DEF SuspendedInv
<1>10. running' \in Coro \cup {None}
  BY DEF CoroPart
<1> QED  BY <1>2, <1>3, <1>4, <1>6, <1>8, <1>9, <1>10 DEF CoroPart

\* The running coroutine waits on a descriptor that nobody waits on.
LEMMA AwaitFdKeepsCoro ==
  ASSUME CoroPart, NEW c \in Coro, NEW f \in Fd, AwaitFd(c, f)
  PROVE  CoroPart'
<1>1. /\ ~Registered(f) /\ running = c /\ running' = None
      /\ coroState' = [coroState EXCEPT ![c] = "fdwait"]
      /\ callbacks' = [callbacks EXCEPT ![f] = c]
      /\ queue' = queue
  BY DEF AwaitFd, Suspends, Add
<1>2. /\ coroState \in [Coro -> CoroStates] /\ coroState[c] = "running"
      /\ ~In(c, queue)
  BY <1>1 DEF CoroPart, ResumesOnlySuspended
<1>3. coroState'[c] = "fdwait" /\ \A d \in Coro : d # c => coroState'[d] = coroState[d]
  BY <1>1, <1>2
<1>4. /\ callbacks'[f] = c
      /\ \A g \in Fd : g # f => callbacks'[g] = callbacks[g]
      /\ CallbacksType'
  BY <1>1 DEF CoroPart, CallbacksType
<1>5. \A g \in Fd : g # f =>
        /\ Registered(g)' <=> Registered(g)
        /\ Registered(g) => callbacks[g] \in Coro /\ callbacks[g] # c
  BY <1>2, <1>4 DEF Registered, CoroPart, CallbacksType, ResumesOnlySuspended
<1>6. coroState' \in [Coro -> CoroStates]
  BY <1>1, <1>2 DEF CoroStates
<1>7. \A d \in Coro : coroState'[d] = "running" <=> running' = d
  BY <1>1, <1>3 DEF CoroPart
<1>8. ResumesOnlySuspended'
  <2>1. Distinct(queue') /\ \A d \in Coro : In(d, queue') => coroState'[d] = "queued"
    BY <1>1, <1>2, <1>3 DEF CoroPart, ResumesOnlySuspended
  <2>2. \A g \in Fd : Registered(g)' => coroState'[callbacks'[g]] = "fdwait"
    <3> SUFFICES ASSUME NEW g \in Fd, Registered(g)'
                 PROVE  coroState'[callbacks'[g]] = "fdwait"
      OBVIOUS
    <3>1. CASE g = f
      BY <1>3, <1>4, <3>1
    <3>2. CASE g # f
      <4>1. Registered(g) /\ callbacks'[g] = callbacks[g]
        BY <1>4, <1>5, <3>2
      <4>2. callbacks[g] \in Coro /\ callbacks[g] # c
        BY <1>5, <3>2, <4>1
      <4>3. coroState[callbacks[g]] = "fdwait"
        BY <4>1 DEF CoroPart, ResumesOnlySuspended
      <4> QED  BY <1>3, <4>1, <4>2, <4>3
    <3> QED  BY <3>1, <3>2
  <2>3. \A g, h \in Fd : Registered(g)' /\ callbacks'[g] = callbacks'[h] => g = h
    <3> SUFFICES ASSUME NEW g \in Fd, NEW h \in Fd,
                        Registered(g)', callbacks'[g] = callbacks'[h]
                 PROVE  g = h
      OBVIOUS
    <3>1. Registered(h)'
      BY DEF Registered
    <3>2. \A k \in Fd : k # f /\ Registered(k)' => Registered(k) /\ callbacks'[k] # c
      BY <1>4, <1>5
    <3>3. CASE g = f \/ h = f
      BY <1>4, <3>1, <3>2, <3>3
    <3>4. CASE g # f /\ h # f
      BY <1>4, <3>1, <3>2, <3>4 DEF CoroPart, ResumesOnlySuspended
    <3> QED  BY <3>3, <3>4
  <2> QED  BY <2>1, <2>2, <2>3 DEF ResumesOnlySuspended
<1>9. SuspendedInv'
  <2>1. \A d \in Coro : coroState'[d] = "queued" => In(d, queue')
    BY <1>1, <1>3 DEF CoroPart, SuspendedInv
  <2>2. \A d \in Coro : coroState'[d] = "fdwait" => \E g \in Fd : callbacks'[g] = d
    <3> SUFFICES ASSUME NEW d \in Coro, coroState'[d] = "fdwait"
                 PROVE  \E g \in Fd : callbacks'[g] = d
      OBVIOUS
    <3>1. CASE d = c
      BY <1>4, <3>1
    <3>2. CASE d # c
      <4>1. PICK g \in Fd : callbacks[g] = d
        BY <1>3, <3>2 DEF CoroPart, SuspendedInv
      <4>2. g # f
        BY <1>1, <4>1 DEF Registered
      <4> QED  BY <1>4, <4>1, <4>2
    <3> QED  BY <3>1, <3>2
  <2> QED  BY <2>1, <2>2 DEF SuspendedInv
<1> QED  BY <1>1, <1>4, <1>6, <1>7, <1>8, <1>9 DEF CoroPart

\* The running coroutine parks or ends.
LEMMA LeaveKeepsCoro ==
  ASSUME CoroPart, NEW c \in Coro, NEW s \in {"parked", "done"}, Suspends(c, s),
         UNCHANGED <<callbacks, queue>>
  PROVE  CoroPart'
<1>1. /\ running = c /\ running' = None
      /\ coroState' = [coroState EXCEPT ![c] = s]
  BY DEF Suspends
<1>2. coroState \in [Coro -> CoroStates] /\ coroState[c] = "running" /\ ~In(c, queue)
  BY <1>1 DEF CoroPart, ResumesOnlySuspended
<1>3. coroState'[c] = s /\ \A d \in Coro : d # c => coroState'[d] = coroState[d]
  BY <1>1, <1>2
<1>4. CallbacksType' /\ coroState' \in [Coro -> CoroStates]
  BY <1>1, <1>2 DEF CoroStates, CoroPart, CallbacksType
<1>5. \A d \in Coro : coroState'[d] = "running" <=> running' = d
  BY <1>1, <1>3 DEF CoroPart
<1>6. \A g \in Fd : /\ Registered(g)' <=> Registered(g)
                    /\ Registered(g) => callbacks[g] \in Coro /\ callbacks[g] # c
  BY <1>2 DEF Registered, CoroPart, CallbacksType, ResumesOnlySuspended
<1>7. ResumesOnlySuspended'
  BY <1>2, <1>3, <1>6 DEF CoroPart, ResumesOnlySuspended
<1>8. SuspendedInv'
  BY <1>3 DEF CoroPart, SuspendedInv
<1> QED  BY <1>1, <1>4, <1>5, <1>7, <1>8 DEF CoroPart

\* The coroutine at the front of the queue is resumed.
LEMMA DrainResumeKeepsCoro ==
  ASSUME CoroPart, DrainResume
  PROVE  CoroPart' /\ Len(queue') = Len(queue) - 1 /\ Len(queue) \in Nat \ {0}
<1> DEFINE c == Head(queue)
<1>1. /\ running = None /\ queue # <<>> /\ queue' = Tail(queue) /\ running' = c
      /\ coroState' = [coroState EXCEPT ![c] = "running"]
      /\ callbacks' = callbacks
  BY DEF DrainResume, DrainMore, Resume, epollVars
<1>2. queue \in Seq(Coro) /\ Distinct(queue) /\ coroState \in [Coro -> CoroStates]
  BY DEF CoroPart, ResumesOnlySuspended
<1>3. /\ c \in Coro /\ queue' \in Seq(Coro) /\ Distinct(queue') /\ ~In(c, queue')
      /\ Len(queue) \in Nat \ {0} /\ Len(queue') = Len(queue) - 1
      /\ \A x : In(x, queue) <=> In(x, queue') \/ x = c
  BY <1>1, <1>2, TailFacts
<1> HIDE DEF c
<1>4. coroState[c] = "queued"
  BY <1>3 DEF CoroPart, ResumesOnlySuspended
<1>5. coroState'[c] = "running" /\ \A d \in Coro : d # c => coroState'[d] = coroState[d]
  BY <1>1, <1>2, <1>3
<1>6. CallbacksType' /\ coroState' \in [Coro -> CoroStates]
  BY <1>1, <1>2 DEF CoroStates, CoroPart, CallbacksType
<1>7. Len(queue') <= QueueSize
  <2>1. Len(queue) <= QueueSize
    BY DEF CoroPart
  <2> QED  BY <1>3, <2>1, QueueSizeAssumption
<1>8. \A d \in Coro : coroState'[d] = "running" <=> running' = d
  BY <1>1, <1>3, <1>5 DEF CoroPart
<1>9. \A g \in Fd : /\ Registered(g)' <=> Registered(g)
                    /\ Registered(g) => callbacks[g] \in Coro /\ callbacks[g] # c
  BY <1>1, <1>4 DEF Registered, CoroPart, CallbacksType, ResumesOnlySuspended
<1>10. ResumesOnlySuspended'
  BY <1>1, <1>3, <1>5, <1>9 DEF CoroPart, ResumesOnlySuspended
<1>11. SuspendedInv'
  BY <1>1, <1>3, <1>5 DEF CoroPart, SuspendedInv
<1> QED  BY <1>1, <1>3, <1>6, <1>7, <1>8, <1>10, <1>11 DEF CoroPart

\* The coroutine that waits on the descriptor of an event is resumed.
LEMMA DispatchKeepsCoro ==
  ASSUME CoroPart, DispatchCoroutine, Head(batch) \in Handle
  PROVE  CoroPart'
<1> DEFINE h == Head(batch)
           c == callbacks[h]
<1>1. /\ running = None /\ running' = c /\ c \in Coro
      /\ coroState' = [coroState EXCEPT ![c] = "running"]
      /\ callbacks' = [callbacks EXCEPT ![h] = None]
      /\ queue' = queue /\ h \in Handle
  BY DEF DispatchCoroutine, Dispatching, Resume, Remove
<1>2. h \in Fd /\ Registered(h)
  BY <1>1 DEF CoroPart, CallbacksType, Registered
<1>3. coroState \in [Coro -> CoroStates] /\ coroState[c] = "fdwait" /\ ~In(c, queue)
  BY <1>1, <1>2 DEF CoroPart, ResumesOnlySuspended
<1>a. callbacks[h] = c
  OBVIOUS
<1> HIDE DEF c, h
<1>4. coroState'[c] = "running" /\ \A d \in Coro : d # c => coroState'[d] = coroState[d]
  BY <1>1, <1>3
<1>5. /\ callbacks'[h] = None
      /\ \A g \in Fd : g # h => callbacks'[g] = callbacks[g]
      /\ CallbacksType'
  BY <1>1, <1>2 DEF CoroPart, CallbacksType
<1>6. \A g \in Fd : Registered(g)' =>
        /\ g # h /\ Registered(g) /\ callbacks'[g] = callbacks[g]
        /\ callbacks[g] \in Coro /\ callbacks[g] # c
  <2> SUFFICES ASSUME NEW g \in Fd, Registered(g)'
               PROVE  /\ g # h /\ Registered(g) /\ callbacks'[g] = callbacks[g]
                      /\ callbacks[g] \in Coro /\ callbacks[g] # c
    OBVIOUS
  <2>1. g # h /\ callbacks'[g] = callbacks[g]
    BY <1>5 DEF Registered
  <2>2. Registered(g)
    BY <2>1 DEF Registered
  <2>3. callbacks[g] \in Coro
    BY <2>2 DEF Registered, CoroPart, CallbacksType
  <2>4. callbacks[g] # c
    BY <1>2, <1>a, <2>1, <2>2 DEF CoroPart, ResumesOnlySuspended
  <2> QED  BY <2>1, <2>2, <2>3, <2>4
<1>7. coroState' \in [Coro -> CoroStates]
  BY <1>1, <1>3 DEF CoroStates
<1>8. \A d \in Coro : coroState'[d] = "running" <=> running' = d
  BY <1>1, <1>4 DEF CoroPart
<1>9. ResumesOnlySuspended'
  <2>1. Distinct(queue') /\ \A d \in Coro : In(d, queue') => coroState'[d] = "queued"
    BY <1>1, <1>3, <1>4 DEF CoroPart, ResumesOnlySuspended
  <2>2. \A g \in Fd : Registered(g)' => coroState'[callbacks'[g]] = "fdwait"
    <3> SUFFICES ASSUME NEW g \in Fd, Registered(g)'
                 PROVE  coroState'[callbacks'[g]] = "fdwait"
      OBVIOUS
    <3>1. coroState[callbacks[g]] = "fdwait"
      BY <1>6 DEF CoroPart, ResumesOnlySuspended
    <3> QED  BY <1>4, <1>6, <3>1
  <2>3. \A g, k \in Fd : Registered(g)' /\ callbacks'[g] = callbacks'[k] => g = k
    <3> SUFFICES ASSUME NEW g \in Fd, NEW k \in Fd,
                        Registered(g)', callbacks'[g] = callbacks'[k]
                 PROVE  g = k
      OBVIOUS
    <3>1. Registered(k)'
      BY DEF Registered
    <3>2. Registered(g) /\ callbacks[g] = callbacks[k]
      BY <1>6, <3>1
    <3> QED  BY <3>2 DEF CoroPart, ResumesOnlySuspended
  <2> QED  BY <2>1, <2>2, <2>3 DEF ResumesOnlySuspended
<1>10. SuspendedInv'
  <2>1. \A d \in Coro : coroState'[d] = "queued" => In(d, queue')
    BY <1>1, <1>4 DEF CoroPart, SuspendedInv
  <2>2. \A d \in Coro : coroState'[d] = "fdwait" => \E g \in Fd : callbacks'[g] = d
    <3> SUFFICES ASSUME NEW d \in Coro, coroState'[d] = "fdwait"
                 PROVE  \E g \in Fd : callbacks'[g] = d
      OBVIOUS
    <3>1. d # c
      BY <1>4
    <3>2. PICK g \in Fd : callbacks[g] = d
      BY <1>4, <3>1 DEF CoroPart, SuspendedInv
    <3>3. g # h
      BY <1>a, <3>1, <3>2
    <3> QED  BY <1>5, <3>2, <3>3
  <2> QED  BY <2>1, <2>2 DEF SuspendedInv
<1> QED  BY <1>1, <1>5, <1>7, <1>8, <1>9, <1>10 DEF CoroPart

\* Steps that move no coroutine.
LEMMA CoroUnchanged ==
  ASSUME CoroPart, CallbacksType', \A f \in Fd : callbacks'[f] = callbacks[f],
         UNCHANGED <<queue, running, coroState>>
  PROVE  CoroPart'
<1>1. \A f \in Fd : Registered(f)' <=> Registered(f)
  BY DEF Registered
<1>2. ResumesOnlySuspended'
  BY <1>1 DEF CoroPart, ResumesOnlySuspended
<1>3. SuspendedInv'
  BY DEF CoroPart, SuspendedInv
<1> QED  BY <1>2, <1>3 DEF CoroPart

-----------------------------------------------------------------------------
(* Every step. *)

\* Scheduling a drain from user code never hurts the loop's own bookkeeping.
LEMMA DrainKeepsLoop ==
  ASSUME LoopPart, Registered(EventFd)', UNCHANGED <<pc, todo, batch>>,
         continuePolling' \in BOOLEAN, Len(queue) \in Nat,
         Len(queue') \in Nat, Len(queue') >= Len(queue),
         pc \in {"idle", "check", "wait"} => running' = None
  PROVE  LoopPart'
  BY DEF LoopPart

LEMMA UserStep ==
  ASSUME EpollPart, CoroPart, LoopPart, User
  PROVE  EpollPart' /\ CoroPart' /\ LoopPart'
<1>q. queue \in Seq(Coro) /\ Len(queue) \in Nat /\ CallbacksType
  BY DEF CoroPart
<1>1. CASE Run
  <2>1. UNCHANGED <<epollVars, queue, batch, fdReady, running, coroState, todo>>
    BY <1>1 DEF Run
  <2>2. UNCHANGED callbacks
    BY <2>1 DEF epollVars
  <2>3. CallbacksType' /\ (Registered(EventFd)' <=> Registered(EventFd))
    BY <1>q, <2>2 DEF CallbacksType, Registered
  <2>4. LoopPart'
    <3>1. continuePolling' \in BOOLEAN
      BY <1>1 DEF Run
    <3> QED  BY <1>1, <2>1, <2>3, <3>1 DEF Run, LoopPart
  <2> QED  BY <2>1, <2>2, <2>3, <2>4, EpollUnchanged, CoroUnchanged
<1>2. CASE Stop
  <2>1. /\ ScheduleQueueDrain /\ continuePolling' = FALSE
        /\ UNCHANGED <<pc, todo, queue, batch, fdReady, running, coroState>>
    BY <1>2 DEF Stop
  <2>2. /\ EpollPart' /\ Registered(EventFd)' /\ CallbacksType'
        /\ \A f \in Fd : callbacks'[f] = callbacks[f]
    BY <2>1, DrainKeepsEpoll
  <2>3. CoroPart'
    BY <2>1, <2>2, CoroUnchanged
  <2>4. LoopPart'
    <3>1. pc \in {"idle", "check", "wait"} => running' = None
      BY <2>1 DEF LoopPart
    <3>2. continuePolling' \in BOOLEAN
      BY <2>1
    <3> QED  BY <1>q, <2>1, <2>2, <3>1, <3>2, DrainKeepsLoop
  <2> QED  BY <2>2, <2>3, <2>4
<1>3. ASSUME NEW c \in Coro, Schedule(c)
      PROVE  EpollPart' /\ CoroPart' /\ LoopPart'
  <2>1. /\ ScheduleQueueDrain /\ coroState[c] \in {"new", "parked"}
        /\ Len(queue) < QueueSize /\ queue' = Append(queue, c)
        /\ coroState' = [coroState EXCEPT ![c] = "queued"]
        /\ UNCHANGED <<pc, continuePolling, todo, batch, fdReady, running>>
    BY <1>3 DEF Schedule, AddToQueue, loopVars
  <2>2. /\ EpollPart' /\ Registered(EventFd)' /\ CallbacksType'
        /\ \A f \in Fd : callbacks'[f] = callbacks[f]
    BY <2>1, DrainKeepsEpoll
  <2>3. running # c
    BY <2>1 DEF CoroPart
  <2>4. CoroPart'
    BY <2>1, <2>2, <2>3, EnqueueKeepsCoro
  <2>5. LoopPart'
    <3>1. pc \in {"idle", "check", "wait"} => running' = None
      BY <2>1 DEF LoopPart
    <3>2. Len(queue') = Len(queue) + 1
      BY <1>q, <2>1, AppendFacts
    <3>3. Len(queue') \in Nat /\ Len(queue') >= Len(queue)
      BY <1>q, <3>2
    <3>4. continuePolling' \in BOOLEAN
      BY <2>1 DEF LoopPart
    <3> QED  BY <1>q, <2>1, <2>2, <3>1, <3>3, <3>4, DrainKeepsLoop
  <2> QED  BY <2>2, <2>4, <2>5
<1>4. ASSUME NEW f \in Fd, ReadFd(f)
      PROVE  EpollPart' /\ CoroPart' /\ LoopPart'
  <2>1. UNCHANGED <<pc, continuePolling, todo, callbacks, queue, batch, running, coroState>>
    BY <1>4 DEF ReadFd, loopVars, epollVars
  <2>2. CallbacksType' /\ (Registered(EventFd)' <=> Registered(EventFd))
    BY <1>q, <2>1 DEF CallbacksType, Registered
  <2>3. CoroPart'
    BY <2>1, <2>2, CoroUnchanged
  <2>4. LoopPart'
    BY <2>1, <2>2 DEF LoopPart
  <2> QED  BY <1>4, <2>3, <2>4, ReadFdKeepsEpoll
<1> QED  BY <1>1, <1>2, <1>3, <1>4 DEF User

LEMMA CoroutineStep ==
  ASSUME EpollPart, CoroPart, LoopPart, CoroutineSuspends
  PROVE  EpollPart' /\ CoroPart' /\ LoopPart'
<1>q. queue \in Seq(Coro) /\ Len(queue) \in Nat /\ CallbacksType
  BY DEF CoroPart
<1>1. ASSUME NEW c \in Coro, NextTick(c)
      PROVE  EpollPart' /\ CoroPart' /\ LoopPart'
  <2>1. /\ ScheduleQueueDrain /\ running = c /\ running' = None
        /\ Len(queue) < QueueSize /\ queue' = Append(queue, c)
        /\ coroState' = [coroState EXCEPT ![c] = "queued"]
        /\ UNCHANGED <<pc, continuePolling, todo, batch, fdReady>>
    BY <1>1 DEF NextTick, Suspends, AddToQueue, loopVars
  <2>2. /\ EpollPart' /\ Registered(EventFd)' /\ CallbacksType'
        /\ \A f \in Fd : callbacks'[f] = callbacks[f]
    BY <2>1, DrainKeepsEpoll
  <2>3. coroState[c] = "running"
    BY <2>1 DEF CoroPart
  <2>4. CoroPart'
    BY <2>1, <2>2, <2>3, EnqueueKeepsCoro
  <2>5. LoopPart'
    <3>1. Len(queue') = Len(queue) + 1
      BY <1>q, <2>1, AppendFacts
    <3>2. Len(queue') \in Nat /\ Len(queue') >= Len(queue)
      BY <1>q, <3>1
    <3>3. continuePolling' \in BOOLEAN
      BY <2>1 DEF LoopPart
    <3> QED  BY <1>q, <2>1, <2>2, <3>2, <3>3, DrainKeepsLoop
  <2> QED  BY <2>2, <2>4, <2>5
<1>2. ASSUME NEW c \in Coro, NEW f \in Fd, AwaitFd(c, f)
      PROVE  EpollPart' /\ CoroPart' /\ LoopPart'
  <2>1. /\ UNCHANGED <<pc, continuePolling, todo, queue, batch>>
        /\ running' = None /\ callbacks' = [callbacks EXCEPT ![f] = c]
    BY <1>2 DEF AwaitFd, Suspends, Add, loopVars
  <2>2. Registered(EventFd)' <=> Registered(EventFd)
    BY <1>q, <2>1 DEF Registered, CallbacksType
  <2>3. LoopPart'
    BY <2>1, <2>2 DEF LoopPart
  <2> QED  BY <1>2, <2>3, AwaitFdKeepsEpoll, AwaitFdKeepsCoro
<1>3. ASSUME NEW c \in Coro, Park(c) \/ Finish(c)
      PROVE  EpollPart' /\ CoroPart' /\ LoopPart'
  <2>1. /\ UNCHANGED <<pc, continuePolling, todo, epollVars, queue, batch, fdReady>>
        /\ running' = None /\ (Suspends(c, "parked") \/ Suspends(c, "done"))
    BY <1>3 DEF Park, Finish, Suspends, loopVars
  <2>2. UNCHANGED callbacks
    BY <2>1 DEF epollVars
  <2>3. Registered(EventFd)' <=> Registered(EventFd)
    BY <2>2 DEF Registered
  <2>4. LoopPart'
    BY <2>1, <2>3 DEF LoopPart
  <2>5. CoroPart'
    BY <2>1, <2>2, LeaveKeepsCoro
  <2> QED  BY <2>1, <2>4, <2>5, EpollUnchanged
<1> QED  BY <1>1, <1>2, <1>3 DEF CoroutineSuspends

LEMMA LoopStep ==
  ASSUME EpollPart, CoroPart, LoopPart, Loop
  PROVE  EpollPart' /\ CoroPart' /\ LoopPart'
<1>q. queue \in Seq(Coro) /\ Len(queue) \in Nat /\ CallbacksType /\ todo \in Nat
  BY DEF CoroPart, LoopPart
<1>1. CASE RunReturns \/ EnterWait \/ WaitReturns \/ WaitDone
  <2>1. /\ UNCHANGED <<continuePolling, todo, epollVars, queue, batch, fdReady, running,
                       coroState>>
        /\ \/ pc = "check" /\ pc' \in {"idle", "wait"}
           \/ pc = "wait" /\ pc' = "dispatch"
           \/ pc = "dispatch" /\ running = None /\ batch = <<>> /\ pc' = "check"
    BY <1>1 DEF RunReturns, EnterWait, WaitReturns, WaitDone
  <2>2. UNCHANGED callbacks
    BY <2>1 DEF epollVars
  <2>3. CallbacksType' /\ (Registered(EventFd)' <=> Registered(EventFd))
    BY <1>q, <2>2 DEF CallbacksType, Registered
  <2>4. LoopPart'
    BY <2>1, <2>3 DEF LoopPart
  <2> QED  BY <2>1, <2>2, <2>3, <2>4, EpollUnchanged, CoroUnchanged
<1>2. CASE CollectEvent
  <2>1. /\ UNCHANGED <<pc, continuePolling, todo, callbacks, queue, running, coroState>>
        /\ pc = "wait"
    BY <1>2 DEF CollectEvent, loopVars
  <2>2. CallbacksType' /\ (Registered(EventFd)' <=> Registered(EventFd))
    BY <1>q, <2>1 DEF CallbacksType, Registered
  <2>3. LoopPart'
    BY <2>1, <2>2 DEF LoopPart
  <2> QED  BY <1>2, <2>1, <2>2, <2>3, CollectKeepsEpoll, CoroUnchanged
<1>3. CASE DispatchCoroutine
  <2>1. /\ pc = "dispatch" /\ batch # <<>> /\ callbacks[Head(batch)] \in Coro
        /\ Remove(Head(batch)) /\ batch' = Tail(batch)
        /\ UNCHANGED <<pc, continuePolling, todo, readyList, signalled, queue, fdReady>>
    BY <1>3 DEF DispatchCoroutine, Dispatching, loopVars
  <2>2. EpollPart' /\ Head(batch) \in Handle
    BY <2>1, RemoveKeepsEpoll
  <2>3. CoroPart'
    BY <1>3, <2>2, DispatchKeepsCoro
  <2>4. Head(batch) # EventFd
    BY <1>q, <2>1 DEF CallbacksType
  <2>5. Registered(EventFd)' <=> Registered(EventFd)
    BY <1>q, <2>1, <2>2, <2>4 DEF Remove, Registered, CallbacksType
  <2>6. LoopPart'
    BY <2>1, <2>5 DEF LoopPart
  <2> QED  BY <2>2, <2>3, <2>6
<1>4. CASE DispatchDrain
  <2>1. /\ pc = "dispatch" /\ batch # <<>> /\ Head(batch) = EventFd
        /\ Remove(EventFd) /\ batch' = Tail(batch) /\ signalled' = FALSE
        /\ todo' = Len(queue) /\ pc' = "drain"
        /\ UNCHANGED <<continuePolling, readyList, queue, fdReady, running, coroState>>
    BY <1>4 DEF DispatchDrain, Dispatching
  <2>2. EpollPart'
    BY <2>1, RemoveKeepsEpoll
  <2>3. CallbacksType' /\ \A f \in Fd : callbacks'[f] = callbacks[f]
    BY <1>q, <2>1 DEF CallbacksType, Remove
  <2>4. CoroPart'
    BY <2>1, <2>3, CoroUnchanged
  <2>5. LoopPart'
    BY <1>q, <2>1 DEF LoopPart
  <2> QED  BY <2>2, <2>4, <2>5
<1>5. CASE DrainResume
  <2>1. /\ pc = "drain" /\ todo > 0 /\ todo' = todo - 1
        /\ UNCHANGED <<pc, continuePolling, epollVars, batch, fdReady>>
    BY <1>5 DEF DrainResume, DrainMore
  <2>2. CoroPart' /\ Len(queue') = Len(queue) - 1 /\ Len(queue) \in Nat \ {0}
    BY <1>5, DrainResumeKeepsCoro
  <2>3. Registered(EventFd)' <=> Registered(EventFd)
    BY <2>1 DEF epollVars, Registered
  <2>4. LoopPart'
    BY <1>q, <2>1, <2>2, <2>3 DEF LoopPart
  <2> QED  BY <2>1, <2>2, <2>4, EpollUnchanged
<1>6. CASE DrainDone
  <2>1. /\ pc = "drain" /\ pc' = "dispatch" /\ todo' = 0
        /\ (todo = 0 \/ queue = <<>>)
        /\ UNCHANGED <<continuePolling, epollVars, queue, batch, fdReady, running,
                       coroState>>
    BY <1>q, <1>6 DEF DrainDone, DrainMore
  <2>2. UNCHANGED callbacks
    BY <2>1 DEF epollVars
  <2>3. CallbacksType' /\ (Registered(EventFd)' <=> Registered(EventFd))
    BY <1>q, <2>2 DEF CallbacksType, Registered
  <2>4. todo = 0
    BY <1>q, <2>1 DEF LoopPart
  <2>5. LoopPart'
    BY <1>q, <2>1, <2>3, <2>4 DEF LoopPart
  <2> QED  BY <2>1, <2>2, <2>3, <2>5, EpollUnchanged, CoroUnchanged
<1> QED  BY <1>1, <1>2, <1>3, <1>4, <1>5, <1>6 DEF Loop

LEMMA NextStep == IndInv /\ [Next]_vars => IndInv'
<1> SUFFICES ASSUME EpollPart, CoroPart, LoopPart, [Next]_vars
             PROVE  EpollPart' /\ CoroPart' /\ LoopPart'
  BY Parts, PTL
<1>1. ASSUME NEW f \in Fd, FdBecomesReady(f)
      PROVE  EpollPart' /\ CoroPart' /\ LoopPart'
  <2>1. UNCHANGED <<pc, continuePolling, todo, callbacks, queue, batch, running, coroState>>
    BY <1>1 DEF FdBecomesReady, loopVars
  <2>2. CallbacksType' /\ (Registered(EventFd)' <=> Registered(EventFd))
    BY <2>1 DEF CoroPart, CallbacksType, Registered
  <2>3. CoroPart'
    BY <2>1, <2>2, CoroUnchanged
  <2>4. LoopPart'
    BY <2>1, <2>2 DEF LoopPart
  <2> QED  BY <1>1, <2>3, <2>4, FdReadyKeepsEpoll
<1>2. CASE UNCHANGED vars
  <2>1. UNCHANGED <<pc, continuePolling, todo, epollVars, queue, batch, fdReady, running,
                    coroState>>
    BY <1>2 DEF vars, loopVars
  <2>2. UNCHANGED callbacks
    BY <2>1 DEF epollVars
  <2>3. CallbacksType' /\ (Registered(EventFd)' <=> Registered(EventFd))
    BY <2>2 DEF CoroPart, CallbacksType, Registered
  <2>4. LoopPart'
    BY <2>1, <2>3 DEF LoopPart
  <2> QED  BY <2>1, <2>2, <2>3, <2>4, EpollUnchanged, CoroUnchanged
<1> QED  BY <1>1, <1>2, UserStep, CoroutineStep, LoopStep DEF Next

\* The invariant holds in every state the event loop reaches.
THEOREM Invariance == Spec => []IndInv
<1>1. Init => IndInv
  BY InitParts, Parts
<1> QED  BY <1>1, NextStep, PTL DEF Spec

\* Type correctness of Scheduler::run, EPoll::_wait and their callers.
THEOREM TypeCorrect == Spec => []TypeOK
  BY Invariance, PTL DEF IndInv

\* The loop never throws "Received event trigger for handle not in callbacks
\* map", and the map and the kernel agree.
THEOREM EventsAreHandled == Spec => [](EventsHaveCallbacks /\ MapMatchesKernel)
  BY Invariance, PTL DEF IndInv

\* No coroutine is resumed twice for one suspension.
THEOREM ResumesAreSafe == Spec => []ResumesOnlySuspended
  BY Invariance, PTL DEF IndInv

\* No wakeup is lost, neither the queue's nor a descriptor's.
THEOREM WakeupsAreKept == Spec => [](NoLostWakeup /\ WakeupIsScheduled)
  BY Invariance, PTL DEF IndInv

\* run returns only when it was stopped or nothing is left to run.
THEOREM RunReturnsCorrectly == Spec => RunReturnsWhenDone
<1>1. ASSUME IndInv, [Next]_vars, pc = "check", pc' = "idle"
      PROVE  \/ ~continuePolling
             \/ \A c \in Coro : coroState[c] \notin {"queued", "fdwait"}
  <2>1. EpollPart /\ CoroPart /\ LoopPart
    BY <1>1, Parts
  <2>2. running = None
    BY <1>1, <2>1 DEF LoopPart
  <2>3. ~User /\ ~CoroutineSuspends /\ ~(UNCHANGED vars)
    BY <1>1, <2>2 DEF User, Run, Stop, Schedule, ReadFd, UserCode, CoroutineSuspends,
         NextTick, AwaitFd, Park, Finish, Suspends, vars, loopVars
  <2>4. \A f \in Fd : ~FdBecomesReady(f)
    BY <1>1 DEF FdBecomesReady, loopVars
  <2>5. Loop
    BY <1>1, <2>3, <2>4 DEF Next
  <2>6. RunReturns
    BY <1>1, <2>5 DEF Loop, EnterWait, CollectEvent, WaitReturns, DispatchCoroutine,
         DispatchDrain, WaitDone, DrainResume, DrainDone, Dispatching, loopVars
  <2>7. CASE ~HasPendingItems
    <3>1. \A h \in Handle : ~Registered(h)
      BY <2>7 DEF HasPendingItems
    <3>2. queue \in Seq(Coro) /\ todo \in Nat /\ todo = 0 /\ ~(Len(queue) > todo)
      BY <1>1, <2>1, <3>1 DEF LoopPart, CoroPart
    <3>3. queue = <<>>
      BY <3>2
    <3>4. \A c \in Coro : ~In(c, queue)
      BY <3>3, EmptyFacts
    <3>5. \A c \in Coro, f \in Fd : callbacks[f] # c
      BY <3>1 DEF Registered
    <3> QED  BY <2>1, <3>4, <3>5 DEF CoroPart, SuspendedInv
  <2> QED  BY <2>6, <2>7 DEF RunReturns
<1>2. IndInv /\ [Next]_vars =>
        [pc = "check" /\ pc' = "idle" =>
           \/ ~continuePolling
           \/ \A c \in Coro : coroState[c] \notin {"queued", "fdwait"}]_vars
  BY <1>1
<1> QED  BY Invariance, <1>2, PTL DEF Spec, RunReturnsWhenDone
=============================================================================
