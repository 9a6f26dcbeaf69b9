--------------------------- MODULE AbstractQueue ---------------------------
(***************************************************************************)
(* What jar::concurrency::queue promises to its callers: every call takes  *)
(* effect in one step between its invocation and its return, on a FIFO     *)
(* sequence that clear() empties and cancels for good.                     *)
(*   - push appends; pop takes the oldest item, waits while there is none, *)
(*     and gives nullopt exactly when the queue has been cancelled;        *)
(*   - try_push and try_pop never wait; they may give up, but only while   *)
(*     another call is in progress, or (try_pop) when nothing is queued.   *)
(***************************************************************************)
EXTENDS QueueState

CONSTANTS Threads, Items, NoItem

VARIABLES
  q,         \* the queue, a QueueState record
  phase,     \* per thread: "idle", the operation in progress, or "done"
  item,      \* per thread: the item the call was given
  ret        \* per thread: the item the call took or stored, else NoItem

avars == <<q, phase, item, ret>>

Operations == {"pop", "try_pop", "push", "try_push", "clear"}

\* Another call has been invoked and has not returned.
Contended(t) == \E u \in Threads \ {t} : phase[u] # "idle"

AInit ==
  /\ q = EmptyQueue
  /\ phase = [t \in Threads |-> "idle"]
  /\ item = [t \in Threads |-> NoItem]
  /\ ret = [t \in Threads |-> NoItem]

AInvoke(t) ==
  /\ phase[t] = "idle"
  /\ \E op \in Operations : phase' = [phase EXCEPT ![t] = op]
  /\ \E i \in Items \cup {NoItem} : item' = [item EXCEPT ![t] = i]
  /\ ret' = [ret EXCEPT ![t] = NoItem]
  /\ UNCHANGED q

\* The call has its effect q2 and its outcome r.
Effect(t, q2, r) ==
  /\ q' = q2
  /\ ret' = [ret EXCEPT ![t] = r]
  /\ phase' = [phase EXCEPT ![t] = "done"]
  /\ UNCHANGED item

APop(t) ==
  /\ phase[t] = "pop"
  /\ \/ q.cancelled /\ Effect(t, q, NoItem)
     \/ /\ ~q.cancelled /\ q.items # <<>>
        /\ Effect(t, PoppedFront(q), Head(q.items))

ATryPop(t) ==
  /\ phase[t] = "try_pop"
  /\ \/ q.items # <<>> /\ Effect(t, PoppedFront(q), Head(q.items))
     \/ (q.items = <<>> \/ Contended(t)) /\ Effect(t, q, NoItem)

APush(t) ==
  /\ phase[t] \in {"push", "try_push"}
  /\ Effect(t, Pushed(q, item[t]), item[t])

ATryPushRefused(t) ==
  /\ phase[t] = "try_push"
  /\ Contended(t)
  /\ Effect(t, q, NoItem)

AClear(t) ==
  /\ phase[t] = "clear"
  /\ Effect(t, Cleared(q), NoItem)

AReturn(t) ==
  /\ phase[t] = "done"
  /\ phase' = [phase EXCEPT ![t] = "idle"]
  /\ UNCHANGED <<q, item, ret>>

ANext ==
  \E t \in Threads :
    \/ AInvoke(t) \/ APop(t) \/ ATryPop(t) \/ APush(t)
    \/ ATryPushRefused(t) \/ AClear(t) \/ AReturn(t)

ASpec == AInit /\ [][ANext]_avars
===========================================================================
