---------------------------- MODULE QueueProofs ----------------------------
(***************************************************************************)
(* Theorems about jar::concurrency::queue for any finite set of threads,   *)
(* any items and any number of calls.                                      *)
(***************************************************************************)
EXTENDS Queue, FiniteSetTheorems, SequenceTheorems, TLAPS

USE QueueAssumption DEF QueueAssumption

\* The threads that serve the queue are finitely many.
LEMMA ServingFinite ==
  /\ IsFiniteSet(Serving)
  /\ Cardinality(Serving) \in Nat
BY FS_Subset, FS_CardinalityType DEF Serving

LEMMA ServingFinitePrime ==
  /\ IsFiniteSet(Serving')
  /\ Cardinality(Serving') \in Nat
BY FS_Subset, FS_CardinalityType DEF Serving

\* Adding to a finite set never makes it smaller.
LEMMA CardinalityMonotone ==
  ASSUME NEW S, NEW T, IsFiniteSet(T), S \subseteq T
  PROVE  IsFiniteSet(S) /\ Cardinality(S) <= Cardinality(T)
BY FS_Subset

\* Exchanging one member for another keeps the size.
LEMMA CardinalityExchange ==
  ASSUME NEW S, IsFiniteSet(S), NEW a \in S, NEW b, b \notin S
  PROVE  Cardinality((S \ {a}) \cup {b}) = Cardinality(S)
<1>1. IsFiniteSet(S \ {a}) /\ Cardinality(S \ {a}) = Cardinality(S) - 1
  BY FS_RemoveElement
<1>2. Cardinality((S \ {a}) \cup {b}) = Cardinality(S \ {a}) + 1
  BY <1>1, FS_AddElement
<1> QED
  BY <1>1, <1>2, FS_CardinalityType

---------------------------------------------------------------------------
(* Type correctness *)

LEMMA InitInv == Init => QueueInv
<1> SUFFICES ASSUME Init PROVE QueueInv
  OBVIOUS
<1>1. TypeOK
  <2>1. m_container \in Seq(Items)
    BY DEF Init
  <2>2. calls \in [Threads -> 0..MaxCalls]
    BY DEF Init
  <2>3. pc \in [Threads -> Labels]
    BY DEF Init, Labels
  <2> QED
    BY <2>1, <2>2, <2>3 DEF Init, TypeOK
<1>2. MutexProtects /\ NoPopOnEmpty /\ NoLostWakeup /\ ItemHeld
  BY DEF Init, MutexProtects, CriticalLabels, NoPopOnEmpty, NoLostWakeup,
         ItemHeld
<1> QED
  BY <1>1, <1>2 DEF QueueInv

LEMMA TypeStep ==
  ASSUME QueueInv, NEW t \in Threads,
         Call(t) \/ Step(t) \/ SpuriousWakeup(t)
  PROVE  TypeOK'
<1> USE DEF QueueInv, TypeOK, Goto, data
<1>1. CASE Call(t)
  <2>1. calls[t] < MaxCalls => [calls EXCEPT ![t] = @ + 1]
                                  \in [Threads -> 0..MaxCalls]
    OBVIOUS
  <2>2. ASSUME NEW label \in {"pop_lock", "try_pop_lock", "clear_lock"},
               Invoke(t, label)
        PROVE  TypeOK'
    BY <2>1, <2>2 DEF Invoke, Labels, PopLabels
  <2>3. ASSUME NEW i \in Items, NEW label \in {"push_lock", "try_push_lock"},
               InvokeWith(t, label, i)
        PROVE  TypeOK'
    BY <2>1, <2>3 DEF InvokeWith, Labels
  <2> QED
    BY <1>1, <2>2, <2>3 DEF Call
<1>2. CASE PopLock(t) \/ PopReacquire(t) \/ TryPopLock(t) \/ PushLock(t)
        \/ TryPushLock(t) \/ ClearLock(t)
  BY <1>2 DEF PopLock, PopReacquire, TryPopLock, PushLock, TryPushLock,
              ClearLock, Lock, Labels, PopLabels
<1>3. CASE PopCheck(t) \/ TryPopFailed(t) \/ TryPushFailed(t) \/ Return(t)
  BY <1>3 DEF PopCheck, TryPopFailed, TryPushFailed, Return, Labels, PopLabels
<1>7. CASE PopBlock(t)
  BY <1>7 DEF PopBlock, Labels, PopLabels
<1>8. CASE SpuriousWakeup(t)
  BY <1>8 DEF SpuriousWakeup
<1>9. CASE ClearBody(t)
  <2>1. m_container' \in Seq(Items)
    BY <1>9 DEF ClearBody
  <2> QED
    BY <1>9, <2>1 DEF ClearBody, Labels
<1>10. CASE ClearNotify(t) \/ PushNotify(t)
  BY <1>10 DEF ClearNotify, PushNotify, NotifyOne, Labels
<1>4. CASE PopTake(t)
  <2>1. CASE m_is_cancelled
    BY <1>4, <2>1 DEF PopTake, Labels
  <2>2. CASE ~m_is_cancelled
    <3>1. m_container # <<>>
      BY <1>4, <2>2 DEF PopTake, NoPopOnEmpty, PopPredicate
    <3>2. Head(m_container) \in Items /\ Tail(m_container) \in Seq(Items)
      BY <3>1, HeadTailProperties
    <3> QED
      BY <1>4, <2>2, <3>2 DEF PopTake, Labels
  <2> QED
    BY <2>1, <2>2
<1>5. CASE TryPopBody(t)
  <2>1. CASE m_container = <<>>
    BY <1>5, <2>1 DEF TryPopBody, Labels
  <2>2. CASE m_container # <<>>
    <3>1. Head(m_container) \in Items /\ Tail(m_container) \in Seq(Items)
      BY <2>2, HeadTailProperties
    <3> QED
      BY <1>5, <2>2, <3>1 DEF TryPopBody, Labels
  <2> QED
    BY <2>1, <2>2
<1>6. CASE PushAppend(t)
  <2>1. item[t] \in Items
    BY <1>6 DEF PushAppend, ItemHeld
  <2>2. Append(m_container, item[t]) \in Seq(Items)
    BY <2>1, AppendProperties
  <2> QED
    BY <1>6, <2>1, <2>2 DEF PushAppend, Labels
<1> QED
  BY <1>1, <1>2, <1>3, <1>4, <1>5, <1>6, <1>7, <1>8, <1>9, <1>10 DEF Step

---------------------------------------------------------------------------
(* Mutual exclusion, and what is known where the mutex is held *)

\* A thread that does not move keeps its label.
LEMMA OthersStay ==
  ASSUME TypeOK, NEW t \in Threads,
         Call(t) \/ Step(t) \/ SpuriousWakeup(t)
  PROVE  \A u \in Threads \ {t} : pc'[u] = pc[u]
<1> USE DEF TypeOK, Goto
<1>1. CASE Call(t)
  BY <1>1 DEF Call, Invoke, InvokeWith
<1>2. CASE Step(t)
  BY <1>2 DEF Step, PopLock, PopCheck, PopBlock, PopReacquire, PopTake,
              TryPopLock, TryPopFailed, TryPopBody, PushLock, TryPushLock,
              TryPushFailed, PushAppend, PushNotify, ClearLock, ClearBody,
              ClearNotify, Return, Lock
<1>3. CASE SpuriousWakeup(t)
  BY <1>3 DEF SpuriousWakeup
<1> QED
  BY <1>1, <1>2, <1>3

LEMMA MutexStep ==
  ASSUME QueueInv, NEW t \in Threads,
         Call(t) \/ Step(t) \/ SpuriousWakeup(t)
  PROVE  MutexProtects'
<1> USE DEF QueueInv, TypeOK, MutexProtects, CriticalLabels, Goto, data
<1>1. CASE Call(t)
  BY <1>1 DEF Call, Invoke, InvokeWith
<1>2. CASE PopLock(t) \/ TryPopLock(t) \/ PushLock(t) \/ TryPushLock(t)
        \/ ClearLock(t)
  BY <1>2 DEF PopLock, TryPopLock, PushLock, TryPushLock, ClearLock, Lock
<1>3. CASE PopReacquire(t)
  BY <1>3 DEF PopReacquire, Lock
<1>4. CASE PopCheck(t) \/ TryPopFailed(t) \/ TryPushFailed(t) \/ Return(t)
        \/ SpuriousWakeup(t)
  BY <1>4 DEF PopCheck, TryPopFailed, TryPushFailed, Return, SpuriousWakeup
<1>5. CASE PopBlock(t)
  BY <1>5 DEF PopBlock
<1>6. CASE PopTake(t) \/ TryPopBody(t) \/ PushAppend(t) \/ ClearBody(t)
  BY <1>6 DEF PopTake, TryPopBody, PushAppend, ClearBody
<1>7. CASE PushNotify(t) \/ ClearNotify(t)
  BY <1>7 DEF PushNotify, NotifyOne, ClearNotify
<1> QED
  BY <1>1, <1>2, <1>3, <1>4, <1>5, <1>6, <1>7 DEF Step

\* Only the holder of the mutex changes the container and the flag, so what
\* another thread found out while it held the mutex is not undone.
LEMMA DataOfHolder ==
  ASSUME QueueInv, NEW t \in Threads,
         Call(t) \/ Step(t) \/ SpuriousWakeup(t),
         m_mutex # t
  PROVE  UNCHANGED data
<1> USE DEF QueueInv, TypeOK, MutexProtects, CriticalLabels, data
<1>1. CASE Call(t) \/ SpuriousWakeup(t)
  BY <1>1 DEF Call, Invoke, InvokeWith, SpuriousWakeup
<1>2. ~PopTake(t) /\ ~TryPopBody(t) /\ ~PushAppend(t) /\ ~ClearBody(t)
  BY DEF PopTake, TryPopBody, PushAppend, ClearBody
<1>3. CASE Step(t)
  BY <1>2, <1>3 DEF Step, PopLock, PopCheck, PopBlock, PopReacquire,
              TryPopLock, TryPopFailed, PushLock, TryPushLock, TryPushFailed,
              PushNotify, ClearLock, ClearNotify, Return, Lock
<1> QED
  BY <1>1, <1>3

LEMMA PopStep ==
  ASSUME QueueInv, NEW t \in Threads,
         Call(t) \/ Step(t) \/ SpuriousWakeup(t)
  PROVE  NoPopOnEmpty'
<1> USE DEF QueueInv, TypeOK
<1> SUFFICES ASSUME NEW u \in Threads
             PROVE  /\ pc'[u] = "pop_take" => PopPredicate'
                    /\ pc'[u] = "pop_block" => ~PopPredicate'
  BY DEF NoPopOnEmpty
<1>1. CASE u # t
  <2>1. pc'[u] = pc[u]
    BY <1>1, OthersStay
  <2>2. CASE pc[u] \in {"pop_take", "pop_block"}
    <3>1. m_mutex = u
      BY <2>2 DEF MutexProtects, CriticalLabels
    <3>2. UNCHANGED data
      BY <1>1, <3>1, DataOfHolder
    <3> QED
      BY <2>1, <3>2 DEF NoPopOnEmpty, PopPredicate, data
  <2> QED
    BY <2>1, <2>2
<1>2. CASE u = t
  <2>1. CASE PopCheck(t)
    BY <1>2, <2>1 DEF PopCheck, PopPredicate, data, Goto
  <2>2. CASE ~PopCheck(t) /\ ~SpuriousWakeup(t)
    BY <1>2, <2>2 DEF Call, Step, Invoke, InvokeWith, Goto, PopLock, PopBlock,
         PopReacquire, PopTake, TryPopLock, TryPopFailed, TryPopBody, PushLock,
         TryPushLock, TryPushFailed, PushAppend, PushNotify, ClearLock,
         ClearBody, ClearNotify, Return, Lock
  <2>3. CASE SpuriousWakeup(t)
    BY <1>2, <2>3 DEF SpuriousWakeup, NoPopOnEmpty, PopPredicate, data
  <2> QED
    BY <2>1, <2>2, <2>3
<1> QED
  BY <1>1, <1>2

LEMMA ItemStep ==
  ASSUME QueueInv, NEW t \in Threads,
         Call(t) \/ Step(t) \/ SpuriousWakeup(t)
  PROVE  ItemHeld'
<1> USE DEF QueueInv, TypeOK, ItemHeld, Goto
<1>1. CASE Call(t)
  BY <1>1 DEF Call, Invoke, InvokeWith
<1>2. CASE Step(t)
  BY <1>2 DEF Step, PopLock, PopCheck, PopBlock, PopReacquire, PopTake,
              TryPopLock, TryPopFailed, TryPopBody, PushLock, TryPushLock,
              TryPushFailed, PushAppend, PushNotify, ClearLock, ClearBody,
              ClearNotify, Return, Lock
<1>3. CASE SpuriousWakeup(t)
  BY <1>3 DEF SpuriousWakeup
<1> QED
  BY <1>1, <1>2, <1>3

---------------------------------------------------------------------------
(* No wake-up is lost *)

\* A step that takes nobody out of service, queues nothing, puts nobody to
\* sleep and leaves the flag and the pending notify_all alone.
LEMMA QuietStep ==
  ASSUME QueueInv, TypeOK',
         Serving \subseteq Serving',
         Len(m_container') <= Len(m_container),
         m_condition' \subseteq m_condition,
         m_is_cancelled' = m_is_cancelled,
         \A u \in Threads : pc[u] = "clear_notify" => pc'[u] = "clear_notify"
  PROVE  NoLostWakeup'
<1>1. Cardinality(Serving) <= Cardinality(Serving')
  BY ServingFinitePrime, CardinalityMonotone
<1>2. Len(m_container) \in Nat /\ Len(m_container') \in Nat
  BY LenProperties DEF QueueInv, TypeOK
<1>3. Len(m_container) <= Cardinality(Serving)
        => Len(m_container') <= Cardinality(Serving')
  BY <1>1, <1>2, ServingFinite, ServingFinitePrime
<1> QED
  BY <1>3 DEF QueueInv, NoLostWakeup

LEMMA WakeStep ==
  ASSUME QueueInv, NEW t \in Threads,
         Call(t) \/ Step(t) \/ SpuriousWakeup(t)
  PROVE  NoLostWakeup'
<1> USE DEF QueueInv, TypeOK, Goto, data
<1>t. TypeOK'
  BY TypeStep
<1>l. Len(m_container) \in Nat /\ Len(m_container') \in Nat
  BY <1>t, LenProperties
<1>1. CASE Call(t)
  <2>1. Serving \subseteq Serving'
    BY <1>1 DEF Call, Invoke, InvokeWith, Serving
  <2> QED
    BY <1>1, <1>t, <1>l, <2>1, QuietStep DEF Call, Invoke, InvokeWith
<1>2. CASE PopLock(t) \/ PopReacquire(t) \/ TryPopLock(t) \/ PushLock(t)
        \/ TryPushLock(t) \/ ClearLock(t)
  <2>1. Serving \subseteq Serving'
    BY <1>2 DEF PopLock, PopReacquire, TryPopLock, PushLock, TryPushLock,
                ClearLock, Lock, Serving
  <2> QED
    BY <1>2, <1>t, <1>l, <2>1, QuietStep DEF PopLock, PopReacquire,
       TryPopLock, PushLock, TryPushLock, ClearLock, Lock
<1>3. CASE TryPopFailed(t) \/ TryPushFailed(t) \/ Return(t)
        \/ SpuriousWakeup(t)
  <2>1. Serving \subseteq Serving'
    BY <1>3 DEF TryPopFailed, TryPushFailed, Return, SpuriousWakeup, Serving
  <2> QED
    BY <1>3, <1>t, <1>l, <2>1, QuietStep
    DEF TryPopFailed, TryPushFailed, Return, SpuriousWakeup
<1>4. CASE TryPopBody(t)
  <2>1. Serving \subseteq Serving'
    BY <1>4 DEF TryPopBody, Serving
  <2>2. Len(m_container') <= Len(m_container)
    <3>1. CASE m_container = <<>>
      BY <1>4, <1>l, <3>1 DEF TryPopBody
    <3>2. CASE m_container # <<>>
      BY <1>4, <1>l, <3>2, HeadTailProperties DEF TryPopBody
    <3> QED
      BY <3>1, <3>2
  <2> QED
    BY <1>4, <1>t, <2>1, <2>2, QuietStep DEF TryPopBody
<1>5. CASE PopCheck(t)
  <2>1. CASE PopPredicate
    <3>1. Serving \subseteq Serving'
      BY <1>5, <2>1 DEF PopCheck, Serving
    <3> QED
      BY <1>5, <1>t, <1>l, <2>1, <3>1, QuietStep DEF PopCheck
  <2>2. CASE ~PopPredicate
    <3>1. m_container' = <<>> /\ ~m_is_cancelled'
      BY <1>5, <2>2 DEF PopCheck, PopPredicate
    <3>2. Len(m_container') = 0
      BY <3>1
    <3> QED
      BY <3>1, <3>2, ServingFinitePrime DEF NoLostWakeup
  <2> QED
    BY <2>1, <2>2
<1>6. CASE PopBlock(t)
  <2>1. m_container' = <<>> /\ ~m_is_cancelled'
    BY <1>6 DEF PopBlock, NoPopOnEmpty, PopPredicate
  <2>2. Len(m_container') = 0
    BY <2>1
  <2> QED
    BY <2>1, <2>2, ServingFinitePrime DEF NoLostWakeup
<1>7. CASE PopTake(t)
  <2>1. CASE m_is_cancelled
    BY <1>7, <2>1 DEF PopTake, NoLostWakeup
  <2>2. CASE ~m_is_cancelled
    <3>1. m_container # <<>>
      BY <1>7, <2>2 DEF PopTake, NoPopOnEmpty, PopPredicate
    <3>2. Len(m_container') = Len(m_container) - 1
      BY <1>7, <2>2, <3>1, HeadTailProperties DEF PopTake
    <3>3. Serving' = Serving \ {t} /\ t \in Serving
      BY <1>7 DEF PopTake, Serving
    <3>4. Cardinality(Serving') = Cardinality(Serving) - 1
      BY <3>3, ServingFinite, FS_RemoveElement
    <3>5. m_condition' = m_condition /\ m_is_cancelled' = m_is_cancelled
      BY <1>7 DEF PopTake
    <3>6. Len(m_container) <= Cardinality(Serving)
            => Len(m_container') <= Cardinality(Serving')
      BY <1>l, <3>2, <3>4, ServingFinite
    <3> QED
      BY <2>2, <3>5, <3>6 DEF NoLostWakeup
  <2> QED
    BY <2>1, <2>2
<1>8. CASE PushAppend(t)
  <2>1. CASE m_is_cancelled
    BY <1>8, <2>1 DEF PushAppend, NoLostWakeup
  <2>2. CASE ~m_is_cancelled
    <3>1. item[t] \in Items
      BY <1>8 DEF PushAppend, ItemHeld
    <3>2. Len(m_container') = Len(m_container) + 1
      BY <1>8, <3>1, AppendProperties DEF PushAppend
    <3>3. Serving' = Serving \cup {t} /\ t \notin Serving
      BY <1>8 DEF PushAppend, Serving
    <3>4. Cardinality(Serving') = Cardinality(Serving) + 1
      BY <3>3, ServingFinite, FS_AddElement
    <3>5. m_condition' = m_condition /\ m_is_cancelled' = m_is_cancelled
      BY <1>8 DEF PushAppend
    <3>6. Len(m_container) <= Cardinality(Serving)
            => Len(m_container') <= Cardinality(Serving')
      BY <1>l, <3>2, <3>4, ServingFinite
    <3> QED
      BY <2>2, <3>5, <3>6 DEF NoLostWakeup
  <2> QED
    BY <2>1, <2>2
<1>9. CASE PushNotify(t)
  <2>1. CASE m_condition = {}
    BY <1>9, <2>1 DEF PushNotify, NotifyOne, NoLostWakeup
  <2>2. CASE m_condition # {}
    <3>1. PICK w \in m_condition : m_condition' = m_condition \ {w}
      BY <1>9, <2>2 DEF PushNotify, NotifyOne
    <3>2. pc[w] = "pop_wait" /\ w # t /\ w \in Threads
      BY <1>9 DEF PushNotify, MutexProtects
    <3>3. t \in Serving /\ w \notin Serving
      BY <1>9, <3>2 DEF PushNotify, Serving
    <3>4. Serving' = (Serving \ {t}) \cup {w}
      BY <1>9, <3>1, <3>2 DEF PushNotify, Serving
    <3>5. Cardinality(Serving') = Cardinality(Serving)
      BY <3>3, <3>4, ServingFinite, CardinalityExchange
    <3>6. /\ m_is_cancelled' = m_is_cancelled
          /\ m_container' = m_container
          /\ \A u \in Threads : pc[u] = "clear_notify"
                                  => pc'[u] = "clear_notify"
      BY <1>9 DEF PushNotify
    <3> QED
      BY <2>2, <3>5, <3>6 DEF NoLostWakeup
  <2> QED
    BY <2>1, <2>2
<1>10. CASE ClearBody(t)
  BY <1>10 DEF ClearBody, NoLostWakeup
<1>11. CASE ClearNotify(t)
  BY <1>11 DEF ClearNotify, NoLostWakeup
<1> QED
  BY <1>1, <1>2, <1>3, <1>4, <1>5, <1>6, <1>7, <1>8, <1>9, <1>10, <1>11
  DEF Step

---------------------------------------------------------------------------
(* The theorems *)

LEMMA StutterInv ==
  ASSUME QueueInv, UNCHANGED vars
  PROVE  QueueInv'
BY DEF QueueInv, TypeOK, MutexProtects, NoPopOnEmpty, PopPredicate,
       NoLostWakeup, Serving, ItemHeld, vars

LEMMA NextInv == QueueInv /\ [Next]_vars => QueueInv'
<1> SUFFICES ASSUME QueueInv, [Next]_vars PROVE QueueInv'
  OBVIOUS
<1>1. CASE UNCHANGED vars
  BY <1>1, StutterInv
<1>2. CASE Next
  <2>1. PICK t \in Threads : Call(t) \/ Step(t) \/ SpuriousWakeup(t)
    BY <1>2 DEF Next
  <2> QED
    BY <2>1, TypeStep, MutexStep, PopStep, WakeStep, ItemStep DEF QueueInv
<1> QED
  BY <1>1, <1>2

\* The inductive invariant holds in every state of queue.hpp's calls.
THEOREM QueueInvariant == Spec => []QueueInv
BY InitInv, NextInv, PTL DEF Spec

\* The container never holds anything but pushed items, for every number of
\* threads, items and calls.
THEOREM TypeCorrect == Spec => []TypeOK
<1>1. QueueInv => TypeOK
  BY DEF QueueInv
<1> QED
  BY <1>1, QueueInvariant, PTL

\* Accesses to the deque are mutually exclusive.
THEOREM MutualExclusion == Spec => []MutexProtects
<1>1. QueueInv => MutexProtects
  BY DEF QueueInv
<1> QED
  BY <1>1, QueueInvariant, PTL

\* pop() never moves out of an empty deque.
THEOREM PopSafe == Spec => []NoPopOnEmpty
<1>1. QueueInv => NoPopOnEmpty
  BY DEF QueueInv
<1> QED
  BY <1>1, QueueInvariant, PTL

\* Notifying after the unlock loses no wake-up, for every number of threads.
THEOREM WakeupsKept == Spec => []NoLostWakeup
<1>1. QueueInv => NoLostWakeup
  BY DEF QueueInv
<1> QED
  BY <1>1, QueueInvariant, PTL

---------------------------------------------------------------------------
(* The queue implements the abstract FIFO *)

\* The phase of each label, and that a thread inside a critical section is
\* inside a call.
LEMMA Phases ==
  /\ \A l \in PopLabels : Phase(l) = "pop"
  /\ \A l \in {"try_pop_lock", "try_pop_body"} : Phase(l) = "try_pop"
  /\ \A l \in {"push_lock", "push_append"} : Phase(l) = "push"
  /\ \A l \in {"try_push_lock", "try_push_append"} : Phase(l) = "try_push"
  /\ \A l \in {"clear_lock", "clear_body"} : Phase(l) = "clear"
  /\ \A l \in {"push_notify", "clear_notify", "return"} : Phase(l) = "done"
  /\ Phase("idle") = "idle"
  /\ \A l \in CriticalLabels : Phase(l) # "idle"
BY DEF Phase, PopLabels, CriticalLabels

LEMMA AbstractInit == Init => Abstract!AInit
BY Phases DEF Init, Abstract!AInit, EmptyQueue, Abstract!EmptyQueue

\* How a step of t shows in the abstract phases.
LEMMA PhaseStep ==
  ASSUME TypeOK, NEW t \in Threads, NEW label \in Labels, Goto(t, label)
  PROVE  [u \in Threads |-> Phase(pc[u])]'
           = [[u \in Threads |-> Phase(pc[u])] EXCEPT ![t] = Phase(label)]
BY DEF TypeOK, Goto

\* When the mutex is taken, somebody else's call is in progress.
LEMMA HolderContends ==
  ASSUME QueueInv, NEW t \in Threads,
         m_mutex # NoThread, pc[t] \notin CriticalLabels
  PROVE  Abstract!Contended(t)
<1>1. m_mutex \in Threads /\ pc[m_mutex] \in CriticalLabels
  BY DEF QueueInv, TypeOK, MutexProtects
<1>2. m_mutex \in Threads \ {t} /\ Phase(pc[m_mutex]) # "idle"
  BY <1>1, Phases
<1> QED
  BY <1>1, <1>2 DEF Abstract!Contended

\* Every step of a call is a step of the abstract queue or changes nothing
\* the abstract queue can see.
LEMMA AbstractStep ==
  ASSUME QueueInv, NEW t \in Threads,
         Call(t) \/ Step(t) \/ SpuriousWakeup(t)
  PROVE  [Abstract!ANext]_(Abstract!avars)
<1> USE DEF QueueInv, TypeOK
<1> DEFINE ph == [u \in Threads |-> Phase(pc[u])]
           qq == [items |-> m_container, cancelled |-> m_is_cancelled]
<1>a. ASSUME NEW label \in Labels, Goto(t, label)
      PROVE  ph' = [ph EXCEPT ![t] = Phase(label)]
  BY <1>a, PhaseStep
<1>b. ph[t] = Phase(pc[t])
  OBVIOUS
<1>1. CASE Call(t)
  <2>1. ASSUME NEW label \in {"pop_lock", "try_pop_lock", "clear_lock"},
               Invoke(t, label)
        PROVE  Abstract!AInvoke(t)
    <3>1. ph' = [ph EXCEPT ![t] = Phase(label)] /\ ph[t] = "idle"
      BY <2>1, <1>a, <1>b, Phases DEF Invoke, Labels, PopLabels
    <3>2. Phase(label) \in Abstract!Operations
      BY Phases DEF PopLabels, Abstract!Operations
    <3> QED
      BY <2>1, <3>1, <3>2 DEF Invoke, data, Abstract!AInvoke
  <2>2. ASSUME NEW i \in Items, NEW label \in {"push_lock", "try_push_lock"},
               InvokeWith(t, label, i)
        PROVE  Abstract!AInvoke(t)
    <3>1. ph' = [ph EXCEPT ![t] = Phase(label)] /\ ph[t] = "idle"
      BY <2>2, <1>a, <1>b, Phases DEF InvokeWith, Labels
    <3>2. Phase(label) \in Abstract!Operations
      BY Phases DEF Abstract!Operations
    <3> QED
      BY <2>2, <3>1, <3>2 DEF InvokeWith, data, Abstract!AInvoke
  <2> QED
    BY <1>1, <2>1, <2>2 DEF Call, Abstract!ANext
<1>2. ASSUME NEW label \in Labels, Goto(t, label), Phase(label) = Phase(pc[t]),
             UNCHANGED <<data, item, ret>>
      PROVE  UNCHANGED Abstract!avars
  <2>1. ph' = ph
    BY <1>2, <1>a
  <2> QED
    BY <1>2, <2>1 DEF data, Abstract!avars
<1>3. CASE PopLock(t) \/ PopReacquire(t) \/ TryPopLock(t) \/ PushLock(t)
        \/ TryPushLock(t) \/ ClearLock(t)
  BY <1>2, <1>3, Phases DEF PopLock, PopReacquire, TryPopLock, PushLock,
     TryPushLock, ClearLock, Lock, Labels, PopLabels
<1>4. CASE PopCheck(t) \/ PopBlock(t)
  BY <1>2, <1>4, Phases DEF PopCheck, PopBlock, Labels, PopLabels, data
<1>5. CASE PushNotify(t) \/ ClearNotify(t)
  BY <1>2, <1>5, Phases DEF PushNotify, ClearNotify, Labels, data
<1>6. CASE SpuriousWakeup(t)
  BY <1>6 DEF SpuriousWakeup, data, Abstract!avars
<1>7. CASE Return(t)
  <2>1. ph' = [ph EXCEPT ![t] = "idle"]
    <3>1. "idle" \in Labels /\ Goto(t, "idle")
      BY <1>7 DEF Return, Labels
    <3>2. ph' = [ph EXCEPT ![t] = Phase("idle")]
      BY <3>1, <1>a
    <3> QED
      BY <3>2, Phases
  <2>2. ph[t] = "done"
    BY <1>7, <1>b, Phases DEF Return
  <2>3. Abstract!AReturn(t)
    BY <1>7, <2>1, <2>2 DEF Return, data, Abstract!AReturn
  <2> QED
    BY <2>3 DEF Abstract!ANext
<1>8. ASSUME NEW r, NEW q2, qq' = q2, ret' = [ret EXCEPT ![t] = r],
             Goto(t, "return") \/ Goto(t, "push_notify")
               \/ Goto(t, "clear_notify"),
             item' = item
      PROVE  Abstract!Effect(t, q2, r)
  <2>1. PICK label \in {"return", "push_notify", "clear_notify"} :
          Goto(t, label)
    BY <1>8
  <2>2. ph' = [ph EXCEPT ![t] = Phase(label)]
    BY <2>1, <1>a DEF Labels
  <2>3. Phase(label) = "done"
    BY Phases
  <2> QED
    BY <1>8, <2>2, <2>3 DEF Abstract!Effect
<1>9. CASE PopTake(t)
  <2>1. ph[t] = "pop"
    BY <1>9, <1>b, Phases DEF PopTake, PopLabels
  <2>2. CASE m_is_cancelled
    <3>1. Abstract!Effect(t, qq, NoItem)
      BY <1>8, <1>9, <2>2 DEF PopTake
    <3>2. Abstract!APop(t)
      BY <2>1, <2>2, <3>1 DEF Abstract!APop
    <3> QED
      BY <3>2 DEF Abstract!ANext
  <2>3. CASE ~m_is_cancelled
    <3>1. m_container # <<>>
      BY <1>9, <2>3 DEF PopTake, NoPopOnEmpty, PopPredicate
    <3>2. qq' = Abstract!PoppedFront(qq)
      BY <1>9, <2>3 DEF PopTake, Abstract!PoppedFront
    <3>3. Abstract!Effect(t, Abstract!PoppedFront(qq), Head(m_container))
      BY <1>8, <1>9, <2>3, <3>2 DEF PopTake
    <3>4. Abstract!APop(t)
      BY <2>1, <2>3, <3>1, <3>3 DEF Abstract!APop
    <3> QED
      BY <3>4 DEF Abstract!ANext
  <2> QED
    BY <2>2, <2>3
<1>10. CASE TryPopBody(t)
  <2>1. ph[t] = "try_pop"
    BY <1>10, <1>b, Phases DEF TryPopBody
  <2>2. CASE m_container = <<>>
    <3>1. Abstract!Effect(t, qq, NoItem)
      BY <1>8, <1>10, <2>2 DEF TryPopBody
    <3>2. Abstract!ATryPop(t)
      BY <2>1, <2>2, <3>1 DEF Abstract!ATryPop
    <3> QED
      BY <3>2 DEF Abstract!ANext
  <2>3. CASE m_container # <<>>
    <3>2. qq' = Abstract!PoppedFront(qq)
      BY <1>10, <2>3 DEF TryPopBody, Abstract!PoppedFront
    <3>3. Abstract!Effect(t, Abstract!PoppedFront(qq), Head(m_container))
      BY <1>8, <1>10, <2>3, <3>2 DEF TryPopBody
    <3>4. Abstract!ATryPop(t)
      BY <2>1, <2>3, <3>3 DEF Abstract!ATryPop
    <3> QED
      BY <3>4 DEF Abstract!ANext
  <2> QED
    BY <2>2, <2>3
<1>11. CASE TryPopFailed(t)
  <2>1. ph[t] = "try_pop"
    BY <1>11, <1>b, Phases DEF TryPopFailed
  <2>2. Abstract!Contended(t)
    BY <1>11, HolderContends DEF TryPopFailed, CriticalLabels
  <2>3. Abstract!Effect(t, qq, NoItem)
    BY <1>8, <1>11 DEF TryPopFailed, data
  <2>4. Abstract!ATryPop(t)
    BY <2>1, <2>2, <2>3 DEF Abstract!ATryPop
  <2> QED
    BY <2>4 DEF Abstract!ANext
<1>12. CASE TryPushFailed(t)
  <2>1. ph[t] = "try_push"
    BY <1>12, <1>b, Phases DEF TryPushFailed
  <2>2. Abstract!Contended(t)
    BY <1>12, HolderContends DEF TryPushFailed, CriticalLabels
  <2>3. Abstract!Effect(t, qq, NoItem)
    BY <1>8, <1>12 DEF TryPushFailed, data
  <2>4. Abstract!ATryPushRefused(t)
    BY <2>1, <2>2, <2>3 DEF Abstract!ATryPushRefused
  <2> QED
    BY <2>4 DEF Abstract!ANext
<1>13. CASE PushAppend(t)
  <2>1. ph[t] \in {"push", "try_push"}
    BY <1>13, <1>b, Phases DEF PushAppend
  <2>2. qq' = Abstract!Pushed(qq, item[t])
    BY <1>13 DEF PushAppend, Abstract!Pushed
  <2>3. Abstract!Effect(t, Abstract!Pushed(qq, item[t]), item[t])
    BY <1>8, <1>13, <2>2 DEF PushAppend
  <2>4. Abstract!APush(t)
    BY <2>1, <2>3 DEF Abstract!APush
  <2> QED
    BY <2>4 DEF Abstract!ANext
<1>14. CASE ClearBody(t)
  <2>1. ph[t] = "clear"
    BY <1>14, <1>b, Phases DEF ClearBody
  <2>2. qq' = Abstract!Cleared(qq)
    BY <1>14 DEF ClearBody, Abstract!Cleared
  <2>3. Abstract!Effect(t, Abstract!Cleared(qq), NoItem)
    BY <1>8, <1>14, <2>2 DEF ClearBody
  <2>4. Abstract!AClear(t)
    BY <2>1, <2>3 DEF Abstract!AClear
  <2> QED
    BY <2>4 DEF Abstract!ANext
<1> QED
  BY <1>1, <1>3, <1>4, <1>5, <1>6, <1>7, <1>9, <1>10, <1>11, <1>12, <1>13,
     <1>14 DEF Step

\* Every behaviour of queue.hpp is a behaviour of the abstract FIFO queue,
\* for every number of threads, items and calls.
THEOREM QueueRefinesFifo == Spec => ImplementsFifo
<1>1. QueueInv /\ [Next]_vars => [Abstract!ANext]_(Abstract!avars)
  <2> SUFFICES ASSUME QueueInv, [Next]_vars
               PROVE  [Abstract!ANext]_(Abstract!avars)
    OBVIOUS
  <2>1. CASE UNCHANGED vars
    BY <2>1 DEF vars, Abstract!avars
  <2>2. CASE Next
    BY <2>2, AbstractStep DEF Next
  <2> QED
    BY <2>1, <2>2
<1> QED
  BY <1>1, AbstractInit, QueueInvariant, PTL
  DEF Spec, ImplementsFifo, Abstract!ASpec
===========================================================================
