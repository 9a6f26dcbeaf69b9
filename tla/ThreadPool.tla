----------------------------- MODULE ThreadPool -----------------------------
(***************************************************************************)
(* thread_pool<rr_scheduler> (lib_shared/inc/jar/concurrency/              *)
(* thread_pool.hpp, lib_shared/src/jar/concurrency/rr_scheduler.cpp): one  *)
(* queue per worker thread, producers that deal tasks round robin, workers *)
(* that look into every queue and then sleep on their own, and an owner    *)
(* that constructs and destroys the pool.                                  *)
(*                                                                         *)
(* A call on one of the queues is one step, as module Queue justifies: it  *)
(* implements the abstract queue, whose try_push and try_pop may give up   *)
(* only while another call on the same queue is in progress.               *)
(*                                                                         *)
(* A task may schedule another one (Spawns), so worker threads are callers *)
(* of schedule() too, also while the pool is being destroyed.  Tasks are   *)
(* finite and do not throw; clients do not use the pool while, or after,   *)
(* it is destroyed.                                                        *)
(***************************************************************************)
EXTENDS Naturals, FiniteSets, QueueState

CONSTANTS
  ThreadCount,   \* the constructor's argument
  Clients,       \* threads outside the pool that schedule tasks
  Tasks,         \* each is given to schedule() at most once
  Spawns,        \* the task a task schedules, or NoTask
  NoTask,
  IndexModulus,  \* unsigned counts modulo this number
  MayFail        \* creating a thread may throw

m_thread_count == IF ThreadCount = 0 THEN 1 ELSE ThreadCount
Workers == 0..(m_thread_count - 1)
Callers == Clients \cup Workers

ASSUME PoolAssumption ==
  /\ ThreadCount \in Nat
  /\ IsFiniteSet(Clients) /\ Clients \cap Nat = {}
  /\ NoTask \notin Tasks
  /\ IsFiniteSet(Tasks)
  /\ Spawns \in [Tasks -> Tasks \cup {NoTask}]
  /\ \A t, u \in Tasks : t # u /\ Spawns[t] = Spawns[u] => Spawns[t] = NoTask
  /\ IndexModulus \in Nat /\ IndexModulus >= 2 * m_thread_count
  /\ MayFail \in BOOLEAN

VARIABLES
  m_task_queue,   \* per worker slot, a QueueState record
  m_push_index,
  m_pop_index,
  owner,          \* where the owner's constructor or destructor is
  slot,           \* the slot of m_threads or m_task_queue it has come to
  wpc,            \* per worker: where run() is
  thread_index,   \* per worker: its thread_local index
  scan,           \* per worker: the loop variable of scheduled()
  task,           \* per worker: the task it has taken
  call,           \* per caller: the schedule() call it is in
  submitted,      \* history: tasks given to schedule()
  executed,       \* history: per task, how often it has been run
  dropped         \* history: tasks thrown away by clear() or destruction

poolState == <<owner, slot>>
workerState == <<wpc, thread_index, scan, task>>
vars == <<m_task_queue, m_push_index, m_pop_index, poolState, workerState,
          call, submitted, executed, dropped>>

\* Not inside schedule().
NoCall == [task |-> NoTask, index |-> 0, n |-> 0]
TryNTimes == m_thread_count * 4

Init ==
  /\ m_task_queue = [i \in Workers |-> EmptyQueue]
  /\ m_push_index = 0 /\ m_pop_index = 0
  /\ owner = "create" /\ slot = 0
  /\ wpc = [w \in Workers |-> "none"]
  /\ thread_index = [w \in Workers |-> 0]
  /\ scan = [w \in Workers |-> 0]
  /\ task = [w \in Workers |-> NoTask]
  /\ call = [c \in Callers |-> NoCall]
  /\ submitted = {}
  /\ executed = [t \in Tasks |-> 0]
  /\ dropped = {}

---------------------------------------------------------------------------
(* rr_scheduler *)

\* Unsigned addition wraps before the remainder is taken.
QueueAt(index, n) == ((index + n) % IndexModulus) % m_thread_count

\* The queue a thread is about to use, or is blocked on.
Uses(c, i) ==
  \/ /\ c \in Callers /\ call[c] # NoCall
     /\ i = QueueAt(call[c].index, call[c].n % TryNTimes)
  \/ /\ c \in Workers
     /\ \/ wpc[c] = "scan" /\ i = QueueAt(thread_index[c], scan[c])
        \/ wpc[c] = "pop" /\ i = QueueAt(thread_index[c], 0)

\* try_push and try_pop can find the mutex of queue i taken.
Contended(c, i) ==
  \/ \E d \in Callers \ {c} : Uses(d, i)
  \/ owner = "clear" /\ i = slot

\* schedule(): the index is taken once, whatever happens later.
Schedule(c, t) ==
  /\ call[c] = NoCall
  /\ t \notin submitted
  /\ submitted' = submitted \cup {t}
  /\ call' = [call EXCEPT ![c] = [task |-> t, index |-> m_push_index, n |-> 0]]
  /\ m_push_index' = (m_push_index + 1) % IndexModulus

\* A mutant: the loop goes on after a successful try_push.
TryPushNoReturn(c) ==
  /\ call[c] # NoCall /\ call[c].n < TryNTimes
  /\ LET i == QueueAt(call[c].index, call[c].n) IN
     \/ /\ m_task_queue' =
             [m_task_queue EXCEPT ![i] = Pushed(@, call[c].task)]
        /\ call' = [call EXCEPT ![c].n = TryNTimes]
     \/ /\ Contended(c, i)
        /\ call' = [call EXCEPT ![c].n = @ + 1]
        /\ UNCHANGED m_task_queue
  /\ UNCHANGED <<m_push_index, m_pop_index, poolState, workerState, submitted,
                 executed, dropped>>

\* One turn of the loop: the task is stored, or the next queue is tried.
TryPush(c) ==
  /\ call[c] # NoCall /\ call[c].n < TryNTimes
  /\ LET i == QueueAt(call[c].index, call[c].n) IN
     \/ /\ m_task_queue' =
             [m_task_queue EXCEPT ![i] = Pushed(@, call[c].task)]
        /\ call' = [call EXCEPT ![c] = NoCall]
     \/ /\ Contended(c, i)
        /\ call' = [call EXCEPT ![c].n = @ + 1]
        /\ UNCHANGED m_task_queue
  /\ UNCHANGED <<m_push_index, m_pop_index, poolState, workerState, submitted,
                 executed, dropped>>

\* Every attempt has failed: push() waits for the mutex.
BlockingPush(c) ==
  /\ call[c] # NoCall /\ call[c].n = TryNTimes
  /\ m_task_queue' =
       [m_task_queue EXCEPT ![QueueAt(call[c].index, 0)] =
          Pushed(@, call[c].task)]
  /\ call' = [call EXCEPT ![c] = NoCall]
  /\ UNCHANGED <<m_push_index, m_pop_index, poolState, workerState, submitted,
                 executed, dropped>>

\* A mutant: the index is read and written back, not fetched and added.
TakeIndexStale(w) ==
  /\ wpc[w] = "start"
  /\ thread_index' = [thread_index EXCEPT ![w] = m_pop_index]
  /\ m_pop_index' = IF \E v \in Workers \ {w} : wpc[v] = "start"
                    THEN m_pop_index ELSE (m_pop_index + 1) % IndexModulus
  /\ wpc' = [wpc EXCEPT ![w] = "scan"]
  /\ UNCHANGED <<m_task_queue, m_push_index, poolState, scan, task, call,
                 submitted, executed, dropped>>

\* A mutant: the index after the increment is used.
TakeIndexAfter(w) ==
  /\ wpc[w] = "start"
  /\ thread_index' = [thread_index EXCEPT ![w] = m_pop_index + 1]
  /\ m_pop_index' = (m_pop_index + 1) % IndexModulus
  /\ wpc' = [wpc EXCEPT ![w] = "scan"]
  /\ UNCHANGED <<m_task_queue, m_push_index, poolState, scan, task, call,
                 submitted, executed, dropped>>

\* The first scheduled() of a thread takes its index.
TakeIndex(w) ==
  /\ wpc[w] = "start"
  /\ thread_index' = [thread_index EXCEPT ![w] = m_pop_index]
  /\ m_pop_index' = (m_pop_index + 1) % IndexModulus
  /\ wpc' = [wpc EXCEPT ![w] = "scan"]
  /\ UNCHANGED <<m_task_queue, m_push_index, poolState, scan, task, call,
                 submitted, executed, dropped>>

\* The worker takes the oldest task of queue i.
Take(w, i) ==
  /\ m_task_queue[i].items # <<>>
  /\ task' = [task EXCEPT ![w] = Head(m_task_queue[i].items)]
  /\ m_task_queue' = [m_task_queue EXCEPT ![i] = PoppedFront(@)]
  /\ wpc' = [wpc EXCEPT ![w] = "run"]
  /\ scan' = [scan EXCEPT ![w] = 0]

\* A mutant: scheduled() gives nullopt when every try_pop has failed.
TryPopGivesUp(w) ==
  /\ wpc[w] = "scan"
  /\ LET i == QueueAt(thread_index[w], scan[w]) IN
     \/ Take(w, i)
     \/ /\ m_task_queue[i].items = <<>> \/ Contended(w, i)
        /\ IF scan[w] + 1 = m_thread_count
           THEN /\ wpc' = [wpc EXCEPT ![w] = "exited"]
                /\ scan' = [scan EXCEPT ![w] = 0]
           ELSE scan' = [scan EXCEPT ![w] = @ + 1] /\ UNCHANGED wpc
        /\ UNCHANGED <<m_task_queue, task>>
  /\ UNCHANGED <<m_push_index, m_pop_index, poolState, thread_index, call,
                 submitted, executed, dropped>>

\* One turn of the loop in scheduled(): try_pop, which heeds no
\* cancellation; after the last queue the thread blocks on its own.
TryPop(w) ==
  /\ wpc[w] = "scan"
  /\ LET i == QueueAt(thread_index[w], scan[w]) IN
     \/ Take(w, i)
     \/ /\ m_task_queue[i].items = <<>> \/ Contended(w, i)
        /\ IF scan[w] + 1 = m_thread_count
           THEN /\ wpc' = [wpc EXCEPT ![w] = "pop"]
                /\ scan' = [scan EXCEPT ![w] = 0]
           ELSE scan' = [scan EXCEPT ![w] = @ + 1] /\ UNCHANGED wpc
        /\ UNCHANGED <<m_task_queue, task>>
  /\ UNCHANGED <<m_push_index, m_pop_index, poolState, thread_index, call,
                 submitted, executed, dropped>>

\* A mutant: every thread blocks on the first queue.
PopFirstQueue(w) ==
  /\ wpc[w] = "pop"
  /\ PopReady(m_task_queue[0])
  /\ IF m_task_queue[0].cancelled
     THEN /\ wpc' = [wpc EXCEPT ![w] = "exited"]
          /\ UNCHANGED <<m_task_queue, task, scan>>
     ELSE Take(w, 0)
  /\ UNCHANGED <<m_push_index, m_pop_index, poolState, thread_index, call,
                 submitted, executed, dropped>>

\* The blocking pop() on the thread's own queue: a task, or nullopt, which
\* ends run(), when the queue has been cancelled.
Pop(w) ==
  /\ wpc[w] = "pop"
  /\ LET i == QueueAt(thread_index[w], 0) IN
     /\ PopReady(m_task_queue[i])
     /\ IF m_task_queue[i].cancelled
        THEN /\ wpc' = [wpc EXCEPT ![w] = "exited"]
             /\ UNCHANGED <<m_task_queue, task, scan>>
        ELSE Take(w, i)
  /\ UNCHANGED <<m_push_index, m_pop_index, poolState, thread_index, call,
                 submitted, executed, dropped>>

---------------------------------------------------------------------------
(* thread_pool::run *)

\* The running task calls schedule() itself.
RunSpawn(w) ==
  /\ wpc[w] = "run"
  /\ Spawns[task[w]] # NoTask
  /\ Schedule(w, Spawns[task[w]])
  /\ wpc' = [wpc EXCEPT ![w] = "spawned"]
  /\ UNCHANGED <<m_task_queue, m_pop_index, poolState, thread_index, scan,
                 task, executed, dropped>>

\* The task is over; run() asks for the next one.
RunEnd(w) ==
  /\ \/ wpc[w] = "run" /\ Spawns[task[w]] = NoTask
     \/ wpc[w] = "spawned" /\ call[w] = NoCall
  /\ executed' = [executed EXCEPT ![task[w]] = @ + 1]
  /\ task' = [task EXCEPT ![w] = NoTask]
  /\ wpc' = [wpc EXCEPT ![w] = "scan"]
  /\ UNCHANGED <<m_task_queue, m_push_index, m_pop_index, poolState,
                 thread_index, scan, call, submitted, dropped>>

---------------------------------------------------------------------------
(* The owner: constructor, destructor, join *)

TasksIn(q) == {q.items[k] : k \in DOMAIN q.items}

CreateThread ==
  /\ owner = "create"
  /\ wpc' = [wpc EXCEPT ![slot] = "start"]
  /\ IF slot + 1 = m_thread_count
     THEN owner' = "up" /\ slot' = 0
     ELSE slot' = slot + 1 /\ UNCHANGED owner
  /\ UNCHANGED <<m_task_queue, m_push_index, m_pop_index, thread_index, scan,
                 task, call, submitted, executed, dropped>>

\* A mutant: the exception leaves the constructor without join().
CreateFailsNoJoin ==
  /\ MayFail
  /\ owner = "create"
  /\ owner' = "gone" /\ slot' = 0
  /\ UNCHANGED <<m_task_queue, m_push_index, m_pop_index, workerState, call,
                 submitted, executed, dropped>>

\* std::thread's constructor throws: the threads created so far are joined.
CreateFails ==
  /\ MayFail
  /\ owner = "create"
  /\ owner' = "clear" /\ slot' = 0
  /\ UNCHANGED <<m_task_queue, m_push_index, m_pop_index, workerState, call,
                 submitted, executed, dropped>>

\* ~thread_pool(): clients are done with the pool.
Destroy ==
  /\ owner = "up"
  /\ \A c \in Clients : call[c] = NoCall
  /\ owner' = "clear" /\ slot' = 0
  /\ UNCHANGED <<m_task_queue, m_push_index, m_pop_index, workerState, call,
                 submitted, executed, dropped>>

\* A mutant: rr_scheduler::clear() stops one queue short.
ClearQueueShort ==
  /\ owner = "clear"
  /\ m_task_queue' = [m_task_queue EXCEPT ![slot] = Cleared(@)]
  /\ dropped' = dropped \cup TasksIn(m_task_queue[slot])
  /\ IF slot + 2 >= m_thread_count
     THEN owner' = "join" /\ slot' = 0
     ELSE slot' = slot + 1 /\ UNCHANGED owner
  /\ UNCHANGED <<m_push_index, m_pop_index, workerState, call, submitted,
                 executed>>

\* rr_scheduler::clear(), one queue after the other.
ClearQueue ==
  /\ owner = "clear"
  /\ m_task_queue' = [m_task_queue EXCEPT ![slot] = Cleared(@)]
  /\ dropped' = dropped \cup TasksIn(m_task_queue[slot])
  /\ IF slot + 1 = m_thread_count
     THEN owner' = "join" /\ slot' = 0
     ELSE slot' = slot + 1 /\ UNCHANGED owner
  /\ UNCHANGED <<m_push_index, m_pop_index, workerState, call, submitted,
                 executed>>

\* A thread that was never created is not joinable; another one is awaited.
JoinThread ==
  /\ owner = "join"
  /\ wpc[slot] \in {"none", "exited"}
  /\ IF slot + 1 = m_thread_count
     THEN owner' = "release" /\ slot' = 0
     ELSE slot' = slot + 1 /\ UNCHANGED owner
  /\ UNCHANGED <<m_task_queue, m_push_index, m_pop_index, workerState, call,
                 submitted, executed, dropped>>

\* The members are destroyed, with the tasks that were pushed after clear().
Release ==
  /\ owner = "release"
  /\ owner' = "gone"
  /\ dropped' = dropped \cup UNION {TasksIn(m_task_queue[i]) : i \in Workers}
  /\ m_task_queue' = [i \in Workers |-> Cleared(m_task_queue[i])]
  /\ UNCHANGED <<m_push_index, m_pop_index, slot, workerState, call,
                 submitted, executed>>

---------------------------------------------------------------------------
(* The specification *)

\* A client schedules a task no other task spawns.
ClientSchedules(c) ==
  /\ owner = "up"
  /\ \E t \in Tasks \ {Spawns[u] : u \in Tasks} : Schedule(c, t)
  /\ UNCHANGED <<m_task_queue, m_pop_index, poolState, workerState, executed,
                 dropped>>

ScheduleStep(c) == TryPush(c) \/ BlockingPush(c)

WorkerStep(w) ==
  TakeIndex(w) \/ TryPop(w) \/ Pop(w) \/ RunSpawn(w) \/ RunEnd(w)

OwnerStep == CreateThread \/ ClearQueue \/ JoinThread \/ Release

Next ==
  \/ \E c \in Clients : ClientSchedules(c)
  \/ \E c \in Callers : ScheduleStep(c)
  \/ \E w \in Workers : WorkerStep(w)
  \/ OwnerStep \/ CreateFails \/ Destroy

Spec == Init /\ [][Next]_vars

\* Every thread is eventually scheduled by the system and tasks end.  The
\* owner need not ever destroy the pool, nor clients use it.
FairSpec ==
  /\ Spec
  /\ \A c \in Callers : WF_vars(ScheduleStep(c))
  /\ \A w \in Workers : WF_vars(WorkerStep(w))
  /\ WF_vars(OwnerStep)

---------------------------------------------------------------------------
(* Properties *)

\* Type invariant: the round robin never leaves the vector of queues.
TypeOK ==
  /\ m_task_queue \in [Workers -> QueueStates(Tasks)]
  /\ m_push_index \in 0..(IndexModulus - 1)
  /\ m_pop_index \in 0..m_thread_count
  /\ owner \in {"create", "up", "clear", "join", "release", "gone"}
  /\ slot \in Workers
  /\ wpc \in [Workers ->
       {"none", "start", "scan", "pop", "run", "spawned", "exited"}]
  /\ thread_index \in [Workers -> Workers]
  /\ scan \in [Workers -> Workers]
  /\ task \in [Workers -> Tasks \cup {NoTask}]
  /\ call \in [Callers -> [task : Tasks \cup {NoTask},
                           index : 0..(IndexModulus - 1), n : 0..TryNTimes]]
  /\ submitted \subseteq Tasks
  /\ executed \in [Tasks -> Nat]
  /\ dropped \subseteq Tasks

\* The positions of task t in the queues.
QueuedAt(t) ==
  UNION {{<<i, k>> : k \in {k \in DOMAIN m_task_queue[i].items :
                              m_task_queue[i].items[k] = t}} : i \in Workers}

\* How often task t exists: with a caller of schedule(), in a queue, with a
\* worker, run or thrown away.
Copies(t) ==
  Cardinality({c \in Callers : call[c].task = t})
    + Cardinality(QueuedAt(t))
    + Cardinality({w \in Workers : task[w] = t})
    + executed[t]
    + (IF t \in dropped THEN 1 ELSE 0)

\* No task is lost, run twice, or run and thrown away, however schedule(),
\* the workers' scans and the destruction of the pool interleave.
ExactlyOnce ==
  \A t \in Tasks : Copies(t) = IF t \in submitted THEN 1 ELSE 0

\* No two workers share an index, so every queue has a worker of its own
\* that will sleep on it.
HomesDistinct ==
  \A v, w \in Workers :
    /\ v # w
    /\ wpc[v] \notin {"none", "start"} /\ wpc[w] \notin {"none", "start"}
    => thread_index[v] # thread_index[w]

\* While the pool is up no worker leaves: nullopt reaches run() only after
\* the worker's own queue was cancelled by join().
NoWorkerLeaves ==
  \A w \in Workers :
    wpc[w] = "exited" =>
      /\ owner \notin {"create", "up"}
      /\ m_task_queue[QueueAt(thread_index[w], 0)].cancelled

\* Every queue is attended to: it has a worker of its own, which does not
\* leave before the queue is cancelled.
QueuesAttended == HomesDistinct /\ NoWorkerLeaves

\* Nothing outlives the pool, after a normal life or after a constructor
\* that failed half way: when the members are destroyed no thread is left
\* that uses them, and every task has been run or thrown away.
NothingOutlives ==
  owner \in {"release", "gone"} =>
    /\ \A w \in Workers : wpc[w] \in {"none", "exited"}
    /\ \A c \in Callers : call[c] = NoCall
    /\ owner = "gone" =>
         \A t \in submitted : executed[t] = 1 \/ t \in dropped

\* Every task given to schedule() is run, unless the pool is destroyed: an
\* attempt that failed, an idle worker asleep elsewhere or a scan that
\* overlooked it do not strand it.
TasksServed ==
  \A t \in Tasks :
    (t \in submitted) ~> (executed[t] = 1 \/ owner # "up")

\* join() returns: every worker, asleep, scanning or running a task that
\* schedules another one, sees its own queue cancelled and leaves.
JoinReturns == (owner = "clear") ~> (owner = "gone")
===========================================================================
