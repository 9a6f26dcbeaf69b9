---------------------------- MODULE QueueState ----------------------------
(***************************************************************************)
(* The data a jar::concurrency::queue keeps (lib_shared/inc/jar/           *)
(* concurrency/queue.hpp, members m_container and m_is_cancelled) and what *)
(* one critical section does to it.  A queue is a record                   *)
(*     [items |-> sequence of items, cancelled |-> BOOLEAN].               *)
(* The operators are shared by the abstract queue and by the thread pool,  *)
(* which both treat a critical section as one step.                        *)
(***************************************************************************)
EXTENDS Sequences

QueueStates(Items) == [items : Seq(Items), cancelled : BOOLEAN]

\* queue(): empty and not cancelled.
EmptyQueue == [items |-> <<>>, cancelled |-> FALSE]

\* push and try_push append, whether or not the queue was cancelled.
Pushed(q, i) == [items |-> Append(q.items, i), cancelled |-> q.cancelled]

\* pop_front(): defined only for a queue that holds something.
PoppedFront(q) == [items |-> Tail(q.items), cancelled |-> q.cancelled]

\* clear() cancels for good and drops what is queued.
Cleared(q) == [items |-> <<>>, cancelled |-> TRUE]

\* The predicate the blocking pop waits for.
PopReady(q) == q.items # <<>> \/ q.cancelled
===========================================================================
