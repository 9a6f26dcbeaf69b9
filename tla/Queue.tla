------------------------------- MODULE Queue -------------------------------
(***************************************************************************)
(* jar::concurrency::queue (lib_shared/inc/jar/concurrency/queue.hpp): a   *)
(* deque guarded by one mutex and one condition variable, used by any      *)
(* number of threads.                                                      *)
(*                                                                         *)
(* A thread runs one call at a time; pc[t] is where it is.  Every          *)
(* synchronisation point of the code is a step of its own: taking the      *)
(* mutex, testing the wait predicate, going to sleep (which releases the   *)
(* mutex), taking the mutex again after a wake-up, and notifying, which    *)
(* the code does after it has released the mutex.                          *)
(***************************************************************************)
EXTENDS Naturals, FiniteSets, QueueState

CONSTANTS
  Threads,   \* the callers
  Items,     \* the items; each is pushed at most once
  NoItem,    \* std::nullopt, or no argument
  NoThread,  \* the mutex is free
  MaxCalls   \* bound: calls a thread makes

ASSUME QueueAssumption ==
  /\ IsFiniteSet(Threads)
  /\ NoThread \notin Threads
  /\ NoItem \notin Items
  /\ MaxCalls \in Nat

VARIABLES
  m_is_cancelled,
  m_container,
  m_mutex,       \* the holder, or NoThread
  m_condition,   \* the threads asleep on the condition variable
  pc,
  item,          \* per thread: the parameter of push or try_push
  ret,           \* per thread: the item the call took or stored, else NoItem
  used,          \* the items handed to push or try_push so far
  calls          \* per thread: calls made so far

data == <<m_is_cancelled, m_container>>
vars == <<m_is_cancelled, m_container, m_mutex, m_condition,
          pc, item, ret, used, calls>>

PopLabels == {"pop_lock", "pop_check", "pop_block", "pop_wait", "pop_take"}
Labels ==
  PopLabels \cup
  {"idle", "try_pop_lock", "try_pop_body", "push_lock", "try_push_lock",
   "push_append", "try_push_append", "push_notify", "clear_lock", "clear_body",
   "clear_notify", "return"}

\* Where the code holds m_mutex.
CriticalLabels ==
  {"pop_check", "pop_block", "pop_take", "try_pop_body", "push_append",
   "try_push_append", "clear_body"}

Goto(t, label) == pc' = [pc EXCEPT ![t] = label]

Init ==
  /\ m_is_cancelled = FALSE
  /\ m_container = <<>>
  /\ m_mutex = NoThread
  /\ m_condition = {}
  /\ pc = [t \in Threads |-> "idle"]
  /\ item = [t \in Threads |-> NoItem]
  /\ ret = [t \in Threads |-> NoItem]
  /\ used = {}
  /\ calls = [t \in Threads |-> 0]

---------------------------------------------------------------------------
(* Calls *)

\* A caller enters pop(), try_pop() or clear().
Invoke(t, label) ==
  /\ pc[t] = "idle" /\ calls[t] < MaxCalls
  /\ Goto(t, label)
  /\ calls' = [calls EXCEPT ![t] = @ + 1]
  /\ item' = [item EXCEPT ![t] = NoItem]
  /\ ret' = [ret EXCEPT ![t] = NoItem]
  /\ UNCHANGED <<data, m_mutex, m_condition, used>>

\* A caller enters push(i) or try_push(i).
InvokeWith(t, label, i) ==
  /\ pc[t] = "idle" /\ calls[t] < MaxCalls
  /\ i \notin used
  /\ Goto(t, label)
  /\ calls' = [calls EXCEPT ![t] = @ + 1]
  /\ item' = [item EXCEPT ![t] = i]
  /\ ret' = [ret EXCEPT ![t] = NoItem]
  /\ used' = used \cup {i}
  /\ UNCHANGED <<data, m_mutex, m_condition>>

Call(t) ==
  \/ \E label \in {"pop_lock", "try_pop_lock", "clear_lock"} :
       Invoke(t, label)
  \/ \E i \in Items, label \in {"push_lock", "try_push_lock"} :
       InvokeWith(t, label, i)

Return(t) ==
  /\ pc[t] = "return"
  /\ Goto(t, "idle")
  /\ UNCHANGED <<data, m_mutex, m_condition, item, ret, used, calls>>

---------------------------------------------------------------------------
(* The mutex and the condition variable (the C++ library) *)

\* A thread at `from` takes the free mutex and goes on at `to`.
Lock(t, from, to) ==
  /\ pc[t] = from
  /\ m_mutex = NoThread
  /\ m_mutex' = t
  /\ Goto(t, to)
  /\ UNCHANGED <<data, m_condition, item, ret, used, calls>>

\* notify_one(): one sleeper, if there is any, has to take the mutex again.
NotifyOne ==
  \/ m_condition = {} /\ UNCHANGED m_condition
  \/ \E w \in m_condition : m_condition' = m_condition \ {w}

\* condition_variable::wait may return without a notification.
SpuriousWakeup(t) ==
  /\ t \in m_condition
  /\ m_condition' = m_condition \ {t}
  /\ UNCHANGED <<data, m_mutex, pc, item, ret, used, calls>>

---------------------------------------------------------------------------
(* pop() *)

PopLock(t) == Lock(t, "pop_lock", "pop_check")

PopPredicate == m_container # <<>> \/ m_is_cancelled

\* Line 39 skips the wait only when the predicate holds as well, so both
\* ways into the rest of pop() have it true.
PopCheck(t) ==
  /\ pc[t] = "pop_check"
  /\ Goto(t, IF PopPredicate THEN "pop_take" ELSE "pop_block")
  /\ UNCHANGED <<data, m_mutex, m_condition, item, ret, used, calls>>

\* Going to sleep releases the mutex in the same step.
PopBlock(t) ==
  /\ pc[t] = "pop_block"
  /\ m_condition' = m_condition \cup {t}
  /\ m_mutex' = NoThread
  /\ Goto(t, "pop_wait")
  /\ UNCHANGED <<data, item, ret, used, calls>>

\* A mutant: wait(lock) without a predicate, which trusts every wake-up.
PopReacquireNoLoop(t) ==
  t \notin m_condition /\ Lock(t, "pop_wait", "pop_take")

PopReacquire(t) ==
  t \notin m_condition /\ Lock(t, "pop_wait", "pop_check")

\* A mutant: pop() hands out the newest item.
PopTakeNewest(t) ==
  /\ pc[t] = "pop_take"
  /\ IF m_is_cancelled
     THEN ret' = [ret EXCEPT ![t] = NoItem] /\ UNCHANGED m_container
     ELSE /\ ret' = [ret EXCEPT ![t] = m_container[Len(m_container)]]
          /\ m_container' = SubSeq(m_container, 1, Len(m_container) - 1)
  /\ m_mutex' = NoThread
  /\ Goto(t, "return")
  /\ UNCHANGED <<m_is_cancelled, m_condition, item, used, calls>>

PopTake(t) ==
  /\ pc[t] = "pop_take"
  /\ IF m_is_cancelled
     THEN ret' = [ret EXCEPT ![t] = NoItem] /\ UNCHANGED m_container
     ELSE /\ ret' = [ret EXCEPT ![t] = Head(m_container)]
          /\ m_container' = Tail(m_container)
  /\ m_mutex' = NoThread
  /\ Goto(t, "return")
  /\ UNCHANGED <<m_is_cancelled, m_condition, item, used, calls>>

---------------------------------------------------------------------------
(* try_pop() *)

TryPopLock(t) == Lock(t, "try_pop_lock", "try_pop_body")

\* A mutant: the test of the lock is dropped and an item taken without it.
TryPopFailedIgnored(t) ==
  /\ pc[t] = "try_pop_lock"
  /\ m_mutex # NoThread
  /\ Goto(t, IF m_container = <<>> THEN "return" ELSE "try_pop_body")
  /\ UNCHANGED <<data, m_mutex, m_condition, item, ret, used, calls>>

\* The mutex is taken.  The code still reads m_container.empty() before it
\* looks at the lock: a data race, but both outcomes of that read give
\* nullopt, because the lock is tested next.
TryPopFailed(t) ==
  /\ pc[t] = "try_pop_lock"
  /\ m_mutex # NoThread
  /\ ret' = [ret EXCEPT ![t] = NoItem]
  /\ Goto(t, "return")
  /\ UNCHANGED <<data, m_mutex, m_condition, item, used, calls>>

\* m_is_cancelled is not consulted.
TryPopBody(t) ==
  /\ pc[t] = "try_pop_body"
  /\ IF m_container = <<>>
     THEN ret' = [ret EXCEPT ![t] = NoItem] /\ UNCHANGED m_container
     ELSE /\ ret' = [ret EXCEPT ![t] = Head(m_container)]
          /\ m_container' = Tail(m_container)
  /\ m_mutex' = NoThread
  /\ Goto(t, "return")
  /\ UNCHANGED <<m_is_cancelled, m_condition, item, used, calls>>

---------------------------------------------------------------------------
(* push(item) and try_push(item) *)

PushLock(t) == Lock(t, "push_lock", "push_append")

TryPushLock(t) == Lock(t, "try_push_lock", "try_push_append")

TryPushFailed(t) ==
  /\ pc[t] = "try_push_lock"
  /\ m_mutex # NoThread
  /\ ret' = [ret EXCEPT ![t] = NoItem]
  /\ Goto(t, "return")
  /\ UNCHANGED <<data, m_mutex, m_condition, item, used, calls>>

\* A mutant: the parameter has been moved from before it is stored.
PushAppendMovedFrom(t) ==
  /\ pc[t] \in {"push_append", "try_push_append"}
  /\ m_container' = Append(m_container, NoItem)
  /\ ret' = [ret EXCEPT ![t] = item[t]]
  /\ m_mutex' = NoThread
  /\ Goto(t, "push_notify")
  /\ UNCHANGED <<m_is_cancelled, m_condition, item, used, calls>>

\* A mutant: only the push that ends emptiness notifies.
PushAppendNotifyFirst(t) ==
  /\ pc[t] \in {"push_append", "try_push_append"}
  /\ m_container' = Append(m_container, item[t])
  /\ ret' = [ret EXCEPT ![t] = item[t]]
  /\ m_mutex' = NoThread
  /\ Goto(t, IF m_container = <<>> THEN "push_notify" ELSE "return")
  /\ UNCHANGED <<m_is_cancelled, m_condition, item, used, calls>>

\* The end of the inner block releases the mutex.
PushAppend(t) ==
  /\ pc[t] \in {"push_append", "try_push_append"}
  /\ m_container' = Append(m_container, item[t])
  /\ ret' = [ret EXCEPT ![t] = item[t]]
  /\ m_mutex' = NoThread
  /\ Goto(t, "push_notify")
  /\ UNCHANGED <<m_is_cancelled, m_condition, item, used, calls>>

PushNotify(t) ==
  /\ pc[t] = "push_notify"
  /\ NotifyOne
  /\ Goto(t, "return")
  /\ UNCHANGED <<data, m_mutex, item, ret, used, calls>>

---------------------------------------------------------------------------
(* clear() *)

ClearLock(t) == Lock(t, "clear_lock", "clear_body")

\* A mutant: the mutex is not released before the notification.
ClearBodyLocked(t) ==
  /\ pc[t] = "clear_body"
  /\ m_is_cancelled' = TRUE
  /\ m_container' = <<>>
  /\ Goto(t, "clear_notify")
  /\ UNCHANGED <<m_mutex, m_condition, item, ret, used, calls>>

ClearBody(t) ==
  /\ pc[t] = "clear_body"
  /\ m_is_cancelled' = TRUE
  /\ m_container' = <<>>
  /\ ret' = [ret EXCEPT ![t] = NoItem]
  /\ m_mutex' = NoThread
  /\ Goto(t, "clear_notify")
  /\ UNCHANGED <<m_condition, item, used, calls>>

\* A mutant: clear() wakes one sleeper where all have to leave.
ClearNotifyOne(t) ==
  /\ pc[t] = "clear_notify"
  /\ NotifyOne
  /\ Goto(t, "return")
  /\ UNCHANGED <<data, m_mutex, item, ret, used, calls>>

ClearNotify(t) ==
  /\ pc[t] = "clear_notify"
  /\ m_condition' = {}
  /\ Goto(t, "return")
  /\ UNCHANGED <<data, m_mutex, item, ret, used, calls>>

---------------------------------------------------------------------------
(* The specification *)

\* A step the code of the call takes once the call has been made.
Step(t) ==
  \/ PopLock(t) \/ PopCheck(t) \/ PopBlock(t) \/ PopReacquire(t) \/ PopTake(t)
  \/ TryPopLock(t) \/ TryPopFailed(t) \/ TryPopBody(t)
  \/ PushLock(t) \/ TryPushLock(t) \/ TryPushFailed(t)
  \/ PushAppend(t) \/ PushNotify(t)
  \/ ClearLock(t) \/ ClearBody(t) \/ ClearNotify(t)
  \/ Return(t)

Next == \E t \in Threads : Call(t) \/ Step(t) \/ SpuriousWakeup(t)

Spec == Init /\ [][Next]_vars

\* Every thread is eventually scheduled and spurious wake-ups do not go on
\* for ever.  Nothing is assumed of callers, and the mutex need not be fair.
FairSpec ==
  /\ Spec
  /\ \A t \in Threads : WF_vars(Step(t))
  /\ <>[][\A t \in Threads : ~SpuriousWakeup(t)]_vars

---------------------------------------------------------------------------
(* Properties *)

\* Type invariant: the container only ever holds items that were pushed.
TypeOK ==
  /\ m_is_cancelled \in BOOLEAN
  /\ m_container \in Seq(Items)
  /\ m_mutex \in Threads \cup {NoThread}
  /\ m_condition \subseteq Threads
  /\ pc \in [Threads -> Labels]
  /\ item \in [Threads -> Items \cup {NoItem}]
  /\ ret \in [Threads -> Items \cup {NoItem}]
  /\ used \subseteq Items
  /\ calls \in [Threads -> 0..MaxCalls]

\* Every access to m_container and m_is_cancelled that has an effect is made
\* by the one thread that holds m_mutex, sleepers hold nothing, and the
\* mutex is never left locked by a call that has gone on.
MutexProtects ==
  /\ \A t \in Threads : pc[t] \in CriticalLabels <=> m_mutex = t
  /\ \A t \in m_condition : pc[t] = "pop_wait"

\* pop_front() is never reached by pop() with nothing to move out: after any
\* number of wake-ups that other poppers overtook, the predicate holds again.
NoPopOnEmpty ==
  \A t \in Threads :
    /\ pc[t] = "pop_take" => PopPredicate
    /\ pc[t] = "pop_block" => ~PopPredicate

\* The threads that will still look at m_container, or make a sleeper do so:
\* a push that has not notified yet and the poppers that are awake.
Serving ==
  {t \in Threads :
     \/ pc[t] \in {"push_notify", "pop_check", "pop_take"}
     \/ pc[t] = "pop_wait" /\ t \notin m_condition}

\* No wake-up is lost although the notification follows the unlock: while a
\* popper sleeps, every queued item has a thread that is about to serve it.
\* Once the queue is cancelled, nobody sleeps unless clear() is still to
\* notify.
NoLostWakeup ==
  m_condition # {} =>
    IF m_is_cancelled
    THEN \E t \in Threads : pc[t] = "clear_notify"
    ELSE Len(m_container) <= Cardinality(Serving)

\* What push and try_push still have to store is an item.
ItemHeld ==
  \A t \in Threads :
    pc[t] \in {"push_lock", "push_append", "try_push_lock", "try_push_append"}
      => item[t] \in Items

\* The inductive invariant behind the theorems of QueueProofs.
QueueInv ==
  TypeOK /\ MutexProtects /\ NoPopOnEmpty /\ NoLostWakeup /\ ItemHeld

\* The phase of the call, as the abstract queue sees it: "done" from the
\* critical section that gave the call its effect.
Phase(label) ==
  CASE label \in PopLabels -> "pop"
    [] label \in {"try_pop_lock", "try_pop_body"} -> "try_pop"
    [] label \in {"push_lock", "push_append"} -> "push"
    [] label \in {"try_push_lock", "try_push_append"} -> "try_push"
    [] label \in {"clear_lock", "clear_body"} -> "clear"
    [] label \in {"push_notify", "clear_notify", "return"} -> "done"
    [] label = "idle" -> "idle"

Abstract ==
  INSTANCE AbstractQueue
    WITH q <- [items |-> m_container, cancelled |-> m_is_cancelled],
         phase <- [t \in Threads |-> Phase(pc[t])]

\* Every behaviour is one of the abstract FIFO queue: items come out in the
\* order they went in, once each, and pop() gives nullopt only after clear().
ImplementsFifo == Abstract!ASpec

\* No popper is left behind: when all activity has ceased, a pop() that has
\* not returned faces an empty queue that was never cancelled.
PoppersServed ==
  <>[](\A t \in Threads : pc[t] \in PopLabels => ~PopPredicate)

\* Every call other than the blocking pop() returns.
OthersReturn ==
  \A t \in Threads :
    (pc[t] \notin PopLabels \cup {"idle"}) ~> (pc[t] = "idle")
===========================================================================
