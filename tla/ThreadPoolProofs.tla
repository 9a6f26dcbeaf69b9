-------------------------- MODULE ThreadPoolProofs --------------------------
(***************************************************************************)
(* Theorems about the pool for any number of threads, clients and tasks,   *)
(* any width of the indices and whether or not creating a thread may fail. *)
(***************************************************************************)
EXTENDS ThreadPool, FiniteSetTheorems, TLAPS

---------------------------------------------------------------------------
(* The inductive invariant *)

\* The workers that have taken an index.
Started == {w \in Workers : wpc[w] \notin {"none", "start"}}

\* m_pop_index counts the workers that took an index, so it never gets past
\* the number of queues, and a home is below it.
IndicesTaken ==
  /\ m_pop_index = Cardinality(Started)
  /\ \A w \in Started : thread_index[w] < m_pop_index

\* How far the constructor, join() and the destructor have come.
LifeCycle ==
  /\ owner = "create" => \A w \in Workers : wpc[w] = "none" <=> w >= slot
  /\ owner \in {"create", "up"} =>
       \A i \in Workers : ~m_task_queue[i].cancelled
  /\ owner = "clear" => \A i \in Workers : i < slot => m_task_queue[i].cancelled
  /\ owner \in {"join", "release", "gone"} =>
       \A i \in Workers : m_task_queue[i].cancelled
  /\ owner = "join" =>
       \A w \in Workers : w < slot => wpc[w] \in {"none", "exited"}
  /\ owner \in {"release", "gone"} =>
       \A w \in Workers : wpc[w] \in {"none", "exited"}
  /\ owner = "gone" => \A i \in Workers : m_task_queue[i].items = <<>>

\* A worker holds a task only while it runs it, is inside schedule() only
\* for the task that runs, and clients only while the pool is up.
InUse ==
  /\ \A w \in Workers : task[w] # NoTask <=> wpc[w] \in {"run", "spawned"}
  /\ \A w \in Workers : call[w] # NoCall => wpc[w] = "spawned"
  /\ \A c \in Clients : call[c] # NoCall => owner = "up"
  /\ \A c \in Callers : call[c].task = NoTask => call[c] = NoCall

\* Where a task can be.
Positions(i) == 1..Len(m_task_queue[i].items)
AtCaller(c, t) == call[c].task = t
AtQueue(i, k, t) == m_task_queue[i].items[k] = t
AtWorker(w, t) == task[w] = t

WithCaller(t) == \E c \in Callers : AtCaller(c, t)
InQueue(t) == \E i \in Workers : \E k \in Positions(i) : AtQueue(i, k, t)
WithWorker(t) == \E w \in Workers : AtWorker(w, t)

\* A task is at most once with the callers, in the queues, with the workers.
NoTwins ==
  \A t \in Tasks :
    /\ \A c, d \in Callers : AtCaller(c, t) /\ AtCaller(d, t) => c = d
    /\ \A i, j \in Workers : \A k \in Positions(i), l \in Positions(j) :
         AtQueue(i, k, t) /\ AtQueue(j, l, t) => i = j /\ k = l
    /\ \A v, w \in Workers : AtWorker(v, t) /\ AtWorker(w, t) => v = w
    /\ executed[t] \in {0, 1}

\* It is in one of these places only.
Apart ==
  \A t \in Tasks :
    /\ WithCaller(t) => ~InQueue(t)
    /\ WithCaller(t) \/ InQueue(t) => ~WithWorker(t)
    /\ WithCaller(t) \/ InQueue(t) \/ WithWorker(t) => executed[t] = 0
    /\ WithCaller(t) \/ InQueue(t) \/ WithWorker(t) \/ executed[t] = 1 =>
         t \notin dropped

\* It is in one of them once it was given to schedule(), and not before.
Accounted ==
  \A t \in Tasks :
    t \in submitted <=> WithCaller(t) \/ InQueue(t) \/ WithWorker(t)
                          \/ executed[t] = 1 \/ t \in dropped

PoolInv ==
  /\ TypeOK /\ IndicesTaken /\ HomesDistinct /\ LifeCycle /\ NoWorkerLeaves
  /\ InUse /\ NoTwins /\ Apart /\ Accounted

---------------------------------------------------------------------------
(* The operators of the model *)

USE PoolAssumption DEF PoolAssumption

LEMMA CountPositive ==
  /\ m_thread_count \in Nat \ {0}
  /\ IndexModulus \in Nat \ {0} /\ m_thread_count < IndexModulus
  BY DEF m_thread_count

LEMMA WorkersNat == Workers \subseteq Nat
  BY CountPositive DEF Workers

LEMMA NextPosition ==
  ASSUME NEW n \in Nat PROVE 1..(n + 1) = 1..n \cup {n + 1} /\ n + 1 \notin 1..n
  OBVIOUS

LEMMA Remainder ==
  ASSUME NEW a \in Nat, NEW m \in Nat \ {0}
  PROVE  a % m \in 0..(m - 1) /\ (a < m => a % m = a)
  OBVIOUS

\* Whatever the indices have wrapped to, a queue of the vector is used.
LEMMA QueueAtInside ==
  ASSUME NEW index \in Nat, NEW n \in Nat
  PROVE  QueueAt(index, n) \in Workers
<1>1. (index + n) % IndexModulus \in Nat
  BY CountPositive, Remainder
<1>2. ((index + n) % IndexModulus) % m_thread_count \in 0..(m_thread_count - 1)
  BY <1>1, CountPositive, Remainder
<1> QED
  BY <1>2 DEF QueueAt, Workers

LEMMA HomeInside ==
  ASSUME TypeOK PROVE \A w \in Workers : QueueAt(thread_index[w], 0) \in Workers
<1>1. \A w \in Workers : thread_index[w] \in Nat
  BY WorkersNat DEF TypeOK
<1> QED
  BY <1>1, QueueAtInside

LEMMA WorkersCounted ==
  IsFiniteSet(Workers) /\ Cardinality(Workers) = m_thread_count
<1>1. 0 \in Int /\ m_thread_count - 1 \in Int /\ m_thread_count > 0
  BY CountPositive
<1> QED
  BY <1>1, CountPositive, FS_Interval DEF Workers

\* What the critical sections of a queue do to its items.
LEMMA PushedItems ==
  ASSUME NEW q \in QueueStates(Tasks), NEW t \in Tasks
  PROVE  /\ Pushed(q, t) \in QueueStates(Tasks)
         /\ Pushed(q, t).cancelled = q.cancelled
         /\ Len(Pushed(q, t).items) = Len(q.items) + 1
         /\ Pushed(q, t).items[Len(q.items) + 1] = t
         /\ \A k \in 1..Len(q.items) : Pushed(q, t).items[k] = q.items[k]
  BY DEF QueueStates, Pushed

LEMMA PoppedItems ==
  ASSUME NEW q \in QueueStates(Tasks), q.items # <<>>
  PROVE  /\ PoppedFront(q) \in QueueStates(Tasks)
         /\ PoppedFront(q).cancelled = q.cancelled
         /\ Len(q.items) \in Nat \ {0}
         /\ Len(PoppedFront(q).items) = Len(q.items) - 1
         /\ Head(q.items) = q.items[1] /\ Head(q.items) \in Tasks
         /\ \A k \in 1..(Len(q.items) - 1) :
              PoppedFront(q).items[k] = q.items[k + 1]
  BY DEF QueueStates, PoppedFront

LEMMA ClearedItems ==
  ASSUME NEW q \in QueueStates(Tasks)
  PROVE  /\ Cleared(q) \in QueueStates(Tasks)
         /\ Cleared(q).cancelled /\ Cleared(q).items = <<>>
         /\ Len(Cleared(q).items) = 0
         /\ Len(q.items) \in Nat
         /\ TasksIn(q) \subseteq Tasks
         /\ \A t : t \in TasksIn(q) <=> \E k \in 1..Len(q.items) : q.items[k] = t
  BY DEF QueueStates, Cleared, TasksIn

---------------------------------------------------------------------------
(* Parts that a step leaves alone *)

\* A step that leaves the indices alone and lets no thread begin.
LEMMA HomesKept ==
  ASSUME TypeOK, IndicesTaken, HomesDistinct,
         UNCHANGED <<m_pop_index, thread_index>>,
         \A w \in Workers :
           wpc'[w] \in {"none", "start"} <=> wpc[w] \in {"none", "start"}
  PROVE  IndicesTaken' /\ HomesDistinct'
<1>1. Started' = Started
  BY DEF Started
<1>2. IndicesTaken'
  BY <1>1 DEF IndicesTaken
<1>3. HomesDistinct'
  BY DEF HomesDistinct
<1> QED
  BY <1>2, <1>3

\* A step that moves no task.
LEMMA PlacesKept ==
  ASSUME NoTwins, Apart, Accounted,
         UNCHANGED <<m_task_queue, task, submitted, executed, dropped>>,
         \A c \in Callers : call'[c].task = call[c].task
  PROVE  NoTwins' /\ Apart' /\ Accounted'
<1> USE DEF Positions, AtCaller, AtQueue, AtWorker
<1>1. \A t \in Tasks : /\ WithCaller(t)' <=> WithCaller(t)
                       /\ InQueue(t)' <=> InQueue(t)
                       /\ WithWorker(t)' <=> WithWorker(t)
  BY DEF WithCaller, InQueue, WithWorker
<1>2. NoTwins'
  BY DEF NoTwins
<1>3. Apart' /\ Accounted'
  BY <1>1 DEF Apart, Accounted
<1> QED
  BY <1>2, <1>3

---------------------------------------------------------------------------
(* Every action keeps every part *)

LEMMA InitInv == Init => PoolInv
<1> SUFFICES ASSUME Init PROVE PoolInv
  OBVIOUS
<1> USE DEF Init
<1>0. 0 \in Workers /\ m_thread_count - 1 >= 0
  BY CountPositive DEF Workers
<1>1. TypeOK
  <2>1. EmptyQueue \in QueueStates(Tasks)
    BY DEF EmptyQueue, QueueStates
  <2>2. TryNTimes \in Nat
    BY CountPositive DEF TryNTimes
  <2>3. 0 \in 0..TryNTimes /\ 0 \in 0..(IndexModulus - 1) /\ 0 \in 0..m_thread_count
    BY <2>2, CountPositive
  <2> QED
    BY <1>0, <2>1, <2>3 DEF TypeOK, NoCall
<1>2. IndicesTaken /\ HomesDistinct
  <2>1. Started = {}
    BY DEF Started
  <2> QED
    BY <2>1, FS_EmptySet DEF IndicesTaken, HomesDistinct
<1>3. LifeCycle
  BY DEF LifeCycle, EmptyQueue, Workers
<1>4. NoWorkerLeaves /\ InUse
  BY DEF NoWorkerLeaves, InUse, Callers, NoCall
<1>5. \A t \in Tasks : ~WithCaller(t) /\ ~InQueue(t) /\ ~WithWorker(t)
  BY DEF WithCaller, AtCaller, NoCall, InQueue, AtQueue, Positions,
         EmptyQueue, WithWorker, AtWorker
<1>6. NoTwins
  BY <1>5 DEF NoTwins, WithCaller, InQueue, WithWorker
<1>7. Apart /\ Accounted
  BY <1>5 DEF Apart, Accounted
<1> QED
  BY <1>1, <1>2, <1>3, <1>4, <1>6, <1>7 DEF PoolInv

\* A caller enters schedule(): the task is with it, and nowhere else.
LEMMA SchedulePlaces ==
  ASSUME PoolInv, NEW c \in Callers, NEW x \in Tasks, Schedule(c, x),
         UNCHANGED <<m_task_queue, task, executed, dropped>>
  PROVE  NoTwins' /\ Apart' /\ Accounted'
<1> USE DEF PoolInv, TypeOK, Schedule
<1>1. \A d \in Callers : call'[d].task = IF d = c THEN x ELSE call[d].task
  OBVIOUS
<1>2. call[c].task \notin Tasks
  BY DEF NoCall
<1>3. \A t \in Tasks : /\ WithCaller(t)' <=> WithCaller(t) \/ t = x
                       /\ InQueue(t)' <=> InQueue(t)
                       /\ WithWorker(t)' <=> WithWorker(t)
  BY <1>1, <1>2 DEF WithCaller, AtCaller, InQueue, AtQueue, Positions,
                    WithWorker, AtWorker
<1>4. ~WithCaller(x) /\ ~InQueue(x) /\ ~WithWorker(x) /\ executed[x] # 1
        /\ x \notin dropped
  BY DEF Accounted
<1>5. NoTwins'
  <2>1. \A d \in Callers : call[d].task # x
    BY <1>4 DEF WithCaller, AtCaller
  <2> QED
    BY <1>1, <2>1 DEF NoTwins, AtCaller, AtQueue, Positions, AtWorker
<1>6. Apart' /\ Accounted'
  <2>1. executed[x] = 0
    BY <1>4 DEF NoTwins
  <2> QED
    BY <1>3, <1>4, <2>1 DEF Apart, Accounted
<1> QED
  BY <1>5, <1>6

\* The type of what schedule() changes.
LEMMA ScheduleTypes ==
  ASSUME PoolInv, NEW c \in Callers, NEW x \in Tasks, Schedule(c, x)
  PROVE  /\ m_push_index' \in 0..(IndexModulus - 1)
         /\ call' \in [Callers -> [task : Tasks \cup {NoTask},
                          index : 0..(IndexModulus - 1), n : 0..TryNTimes]]
         /\ submitted' \subseteq Tasks
<1> USE DEF PoolInv, TypeOK, Schedule
<1>1. m_push_index + 1 \in Nat
  OBVIOUS
<1>2. (m_push_index + 1) % IndexModulus \in 0..(IndexModulus - 1)
  BY <1>1, CountPositive, Remainder
<1>3. TryNTimes \in Nat /\ 0 \in 0..TryNTimes
  BY CountPositive DEF TryNTimes
<1> QED
  BY <1>2, <1>3

\* A client schedules a task while the pool is up.
LEMMA ClientSchedulesInv ==
  ASSUME PoolInv, NEW c \in Clients, ClientSchedules(c) PROVE PoolInv'
<1>1. PICK x \in Tasks : Schedule(c, x)
  BY DEF ClientSchedules
<1> USE DEF PoolInv, ClientSchedules, poolState, workerState
<1>2. c \in Callers /\ c \notin Workers
  BY CountPositive DEF Callers, Workers
<1>3. TypeOK'
  BY <1>1, <1>2, ScheduleTypes DEF TypeOK
<1>4. IndicesTaken' /\ HomesDistinct'
  BY HomesKept
<1>5. LifeCycle' /\ NoWorkerLeaves'
  BY DEF LifeCycle, NoWorkerLeaves, QueueAt
<1>6. InUse'
  <2>1. \A d \in Callers : d # c => call'[d] = call[d]
    BY <1>1 DEF Schedule, TypeOK
  <2>2. call'[c].task # NoTask
    BY <1>1, <1>2 DEF Schedule, TypeOK
  <2> QED
    BY <1>2, <2>1, <2>2 DEF InUse, Callers
<1>7. NoTwins' /\ Apart' /\ Accounted'
  BY <1>1, <1>2, SchedulePlaces
<1> QED
  BY <1>3, <1>4, <1>5, <1>6, <1>7

\* The task that a worker runs calls schedule() on that worker's thread.
LEMMA RunSpawnInv == ASSUME PoolInv, NEW w \in Workers, RunSpawn(w) PROVE PoolInv'
<1> DEFINE x == Spawns[task[w]]
<1> USE DEF PoolInv, RunSpawn, poolState
<1>1. w \in Callers /\ w \notin Clients
  BY CountPositive DEF Callers, Workers
<1>2. x \in Tasks /\ Schedule(w, x)
  BY DEF InUse, TypeOK
<1>3. TypeOK'
  BY <1>1, <1>2, ScheduleTypes DEF TypeOK
<1>4. \A v \in Workers : wpc'[v] = IF v = w THEN "spawned" ELSE wpc[v]
  BY DEF TypeOK
<1>5. IndicesTaken' /\ HomesDistinct'
  BY <1>4, HomesKept
<1>6. LifeCycle'
  BY <1>4 DEF LifeCycle
<1>7. NoWorkerLeaves'
  BY <1>4 DEF NoWorkerLeaves, QueueAt
<1>8. InUse'
  <2>1. \A d \in Callers : d # w => call'[d] = call[d]
    BY <1>2 DEF Schedule, TypeOK
  <2>2. call'[w].task # NoTask
    BY <1>1, <1>2 DEF Schedule, TypeOK
  <2> QED
    BY <1>1, <1>4, <2>1, <2>2 DEF InUse, Callers
<1>9. NoTwins' /\ Apart' /\ Accounted'
  BY <1>1, <1>2, SchedulePlaces
<1> QED
  BY <1>3, <1>5, <1>6, <1>7, <1>8, <1>9

\* A task moves from its caller to the end of a queue.
LEMMA PushPlaces ==
  ASSUME PoolInv, NEW c \in Callers, NEW i \in Workers, call[c] # NoCall,
         m_task_queue' = [m_task_queue EXCEPT ![i] = Pushed(@, call[c].task)],
         call' = [call EXCEPT ![c] = NoCall],
         UNCHANGED <<task, submitted, executed, dropped>>
  PROVE  NoTwins' /\ Apart' /\ Accounted'
<1> USE DEF PoolInv, TypeOK
<1>1. PICK x \in Tasks : x = call[c].task
  BY DEF InUse
<1>2. \A d \in Callers : call'[d].task = IF d = c THEN NoTask ELSE call[d].task
  BY DEF NoCall
<1>3. PICK q \in QueueStates(Tasks) : q = m_task_queue[i]
  OBVIOUS
<1>4. /\ m_task_queue'[i] = Pushed(q, x)
      /\ \A j \in Workers : j # i => m_task_queue'[j] = m_task_queue[j]
  BY <1>1, <1>3
<1>5. PICK n \in Nat : n = Len(q.items)
  BY DEF QueueStates
<1>6. /\ Positions(i) = 1..n
      /\ Positions(i)' = Positions(i) \cup {n + 1}
      /\ \A j \in Workers : j # i => Positions(j)' = Positions(j)
  <2>1. Positions(i) = 1..n /\ Positions(i)' = 1..(n + 1)
    BY <1>3, <1>4, <1>5, PushedItems DEF Positions
  <2>2. \A j \in Workers : j # i => Positions(j)' = Positions(j)
    BY <1>4 DEF Positions
  <2> QED
    BY <2>1, <2>2, NextPosition
<1>7. \A t : AtQueue(i, n + 1, t)' <=> t = x
  BY <1>4, <1>5, PushedItems DEF AtQueue
<1>8. \A j \in Workers : \A k \in Positions(j), t \in Tasks :
        AtQueue(j, k, t)' <=> AtQueue(j, k, t)
  <2>1. \A k \in 1..n : m_task_queue'[i].items[k] = m_task_queue[i].items[k]
    BY <1>3, <1>4, <1>5, PushedItems
  <2> QED
    BY <1>4, <1>6, <2>1 DEF AtQueue
<1>9. \A t \in Tasks : InQueue(t)' <=> InQueue(t) \/ t = x
  <2> HIDE DEF PoolInv, TypeOK
  <2>1. ASSUME NEW t \in Tasks, InQueue(t)' PROVE InQueue(t) \/ t = x
    BY <1>6, <1>7, <1>8, <2>1 DEF InQueue
  <2>2. ASSUME NEW t \in Tasks, InQueue(t) PROVE InQueue(t)'
    BY <1>6, <1>8, <2>2 DEF InQueue
  <2>3. InQueue(x)'
    BY <1>6, <1>7 DEF InQueue
  <2> QED
    BY <2>1, <2>2, <2>3
<1>10. \A t \in Tasks : WithCaller(t)' <=> WithCaller(t) /\ t # x
  BY <1>1, <1>2 DEF WithCaller, AtCaller, NoTwins
<1>11. \A t \in Tasks : WithWorker(t)' <=> WithWorker(t)
  BY DEF WithWorker, AtWorker
<1>12. WithCaller(x)
  BY <1>1 DEF WithCaller, AtCaller
<1>13. NoTwins'
  <2>1. ASSUME NEW t \in Tasks, NEW a \in Callers, NEW b \in Callers,
               AtCaller(a, t)', AtCaller(b, t)'
        PROVE  a = b
    BY <1>2, <2>1 DEF AtCaller, NoTwins
  <2>2. ASSUME NEW t \in Tasks, NEW j \in Workers, NEW h \in Workers,
               NEW k \in Positions(j)', NEW l \in Positions(h)',
               AtQueue(j, k, t)', AtQueue(h, l, t)'
        PROVE  j = h /\ k = l
    <3> HIDE DEF PoolInv, TypeOK
    <3>1. /\ k \in Positions(j) \/ (j = i /\ k = n + 1)
          /\ l \in Positions(h) \/ (h = i /\ l = n + 1)
      BY <1>6
    <3>2. ~InQueue(x)
      BY <1>12 DEF PoolInv, Apart
    <3>3. CASE k \in Positions(j) /\ l \in Positions(h)
      <4>1. AtQueue(j, k, t) /\ AtQueue(h, l, t)
        BY <1>8, <2>2, <3>3
      <4> QED
        BY <3>3, <4>1 DEF PoolInv, NoTwins
    <3>4. CASE k \in Positions(j) /\ h = i /\ l = n + 1
      BY <1>7, <1>8, <2>2, <3>2, <3>4 DEF InQueue
    <3>5. CASE l \in Positions(h) /\ j = i /\ k = n + 1
      BY <1>7, <1>8, <2>2, <3>2, <3>5 DEF InQueue
    <3> QED
      BY <3>1, <3>3, <3>4, <3>5
  <2>3. \A t \in Tasks : /\ executed'[t] \in {0, 1}
                         /\ \A v, w \in Workers :
                              AtWorker(v, t)' /\ AtWorker(w, t)' => v = w
    BY DEF AtWorker, NoTwins
  <2> QED
    BY <2>1, <2>2, <2>3 DEF NoTwins
<1>14. Apart' /\ Accounted'
  BY <1>9, <1>10, <1>11, <1>12 DEF Apart, Accounted
<1> QED
  BY <1>13, <1>14

\* A push by a caller of schedule(), whichever queue took it.
LEMMA PushInv ==
  ASSUME PoolInv, NEW c \in Callers, NEW i \in Workers, call[c] # NoCall,
         m_task_queue' = [m_task_queue EXCEPT ![i] = Pushed(@, call[c].task)],
         call' = [call EXCEPT ![c] = NoCall],
         UNCHANGED <<m_push_index, m_pop_index, poolState, workerState,
                     submitted, executed, dropped>>
  PROVE  PoolInv'
<1> USE DEF PoolInv, poolState, workerState
<1>1. call[c].task \in Tasks
  BY DEF InUse, TypeOK
<1>2. \A j \in Workers : /\ m_task_queue'[j] \in QueueStates(Tasks)
                         /\ m_task_queue'[j].cancelled = m_task_queue[j].cancelled
  BY <1>1, PushedItems DEF TypeOK
<1>3. TypeOK'
  <2>1. NoCall \in [task : Tasks \cup {NoTask}, index : 0..(IndexModulus - 1),
                    n : 0..TryNTimes]
    BY CountPositive DEF NoCall, TryNTimes
  <2> QED
    BY <1>2, <2>1 DEF TypeOK
<1>4. IndicesTaken' /\ HomesDistinct'
  BY HomesKept
<1>5. LifeCycle'
  <2>1. owner # "gone"
    BY DEF LifeCycle, InUse, Callers
  <2> QED
    BY <1>2, <2>1 DEF LifeCycle
<1>6. NoWorkerLeaves'
  BY <1>2, HomeInside DEF NoWorkerLeaves, QueueAt
<1>7. InUse'
  BY DEF InUse, Callers, TypeOK, NoCall
<1>8. NoTwins' /\ Apart' /\ Accounted'
  BY PushPlaces
<1> QED
  BY <1>3, <1>4, <1>5, <1>6, <1>7, <1>8

\* One turn of the loop in schedule().
LEMMA TryPushInv == ASSUME PoolInv, NEW c \in Callers, TryPush(c) PROVE PoolInv'
<1> DEFINE i == QueueAt(call[c].index, call[c].n)
<1>0. TryNTimes \in Nat
  BY CountPositive DEF TryNTimes
<1>1. call[c].index \in Nat /\ call[c].n \in Nat
  BY <1>0, CountPositive DEF PoolInv, TypeOK
<1>2. i \in Workers
  BY <1>1, QueueAtInside
<1>3. CASE /\ m_task_queue' = [m_task_queue EXCEPT ![i] = Pushed(@, call[c].task)]
           /\ call' = [call EXCEPT ![c] = NoCall]
  BY <1>2, <1>3, PushInv DEF TryPush
<1>4. CASE call' = [call EXCEPT ![c].n = @ + 1] /\ UNCHANGED m_task_queue
  <2> USE DEF PoolInv, poolState, workerState, TryPush
  <2>1. \A d \in Callers : call'[d].task = call[d].task
                           /\ (d # c => call'[d] = call[d])
    BY <1>4 DEF TypeOK
  <2>2. TypeOK'
    <3>1. call[c].n + 1 \in 0..TryNTimes
      BY <1>0, <1>1
    <3> QED
      BY <1>4, <3>1 DEF TypeOK
  <2>3. IndicesTaken' /\ HomesDistinct'
    BY HomesKept
  <2>4. LifeCycle' /\ NoWorkerLeaves'
    BY <1>4 DEF LifeCycle, NoWorkerLeaves, QueueAt
  <2>5. InUse'
    <3>1. call[c].task # NoTask
      BY DEF InUse
    <3> QED
      BY <1>4, <2>1, <3>1 DEF InUse, Callers
  <2>6. NoTwins' /\ Apart' /\ Accounted'
    BY <1>4, <2>1, PlacesKept
  <2> QED
    BY <2>2, <2>3, <2>4, <2>5, <2>6
<1> QED
  BY <1>3, <1>4 DEF TryPush

LEMMA BlockingPushInv ==
  ASSUME PoolInv, NEW c \in Callers, BlockingPush(c) PROVE PoolInv'
<1>1. QueueAt(call[c].index, 0) \in Workers
  BY QueueAtInside, CountPositive DEF PoolInv, TypeOK
<1> QED
  BY <1>1, PushInv DEF BlockingPush

\* A worker takes its index: a new one, below the number of queues.
LEMMA TakeIndexInv == ASSUME PoolInv, NEW w \in Workers, TakeIndex(w) PROVE PoolInv'
<1> USE DEF PoolInv, TakeIndex, poolState
<1>1. /\ IsFiniteSet(Started) /\ w \notin Started
      /\ Started' = Started \cup {w}
      /\ Started \cup {w} \subseteq Workers
  <2>1. Started \subseteq Workers /\ w \notin Started
    BY DEF Started
  <2>2. Started' = Started \cup {w}
    BY DEF Started, TypeOK
  <2> QED
    BY <2>1, <2>2, WorkersCounted, FS_Subset
<1>2. Cardinality(Started \cup {w}) = m_pop_index + 1
  BY <1>1, FS_AddElement DEF IndicesTaken
<1>3. Cardinality(Started \cup {w}) <= m_thread_count
  BY <1>1, WorkersCounted, FS_Subset
<1>4. m_pop_index \in Nat /\ m_pop_index < m_thread_count
  BY <1>2, <1>3, CountPositive DEF TypeOK
<1>5. m_pop_index' = m_pop_index + 1
  <2>1. m_pop_index + 1 < IndexModulus
    BY <1>4, CountPositive
  <2> QED
    BY <1>4, <2>1, CountPositive, Remainder
<1>6. \A v \in Workers :
        /\ wpc'[v] = IF v = w THEN "scan" ELSE wpc[v]
        /\ thread_index'[v] = IF v = w THEN m_pop_index ELSE thread_index[v]
  BY DEF TypeOK
<1>7. TypeOK'
  <2>1. m_pop_index \in Workers
    BY <1>4, CountPositive DEF Workers
  <2>2. m_pop_index + 1 \in 0..m_thread_count
    BY <1>4, CountPositive
  <2> QED
    BY <1>5, <2>1, <2>2 DEF TypeOK
<1>8. IndicesTaken'
  <2>1. m_pop_index' = Cardinality(Started')
    BY <1>1, <1>2, <1>5
  <2>2. \A v \in Started' : thread_index'[v] < m_pop_index'
    <3>1. \A v \in Started : thread_index[v] < m_pop_index /\ thread_index[v] \in Nat
                             /\ v \in Workers
      BY CountPositive DEF IndicesTaken, TypeOK, Workers, Started
    <3> QED
      BY <1>1, <1>4, <1>5, <1>6, <3>1
  <2> QED
    BY <2>1, <2>2 DEF IndicesTaken
<1>9. HomesDistinct'
  <2>1. \A v \in Workers : wpc[v] \notin {"none", "start"} =>
          thread_index[v] < m_pop_index /\ thread_index[v] \in Nat
    BY CountPositive DEF IndicesTaken, TypeOK, Workers, Started
  <2> QED
    BY <1>4, <1>6, <2>1 DEF HomesDistinct
<1>10. LifeCycle'
  BY <1>6 DEF LifeCycle
<1>11. NoWorkerLeaves'
  BY <1>6 DEF NoWorkerLeaves, QueueAt
<1>12. InUse'
  BY <1>6 DEF InUse
<1>13. NoTwins' /\ Apart' /\ Accounted'
  BY PlacesKept
<1> QED
  BY <1>7, <1>8, <1>9, <1>10, <1>11, <1>12, <1>13

\* The oldest task of a queue moves to a worker that has none.
LEMMA TakePlaces ==
  ASSUME PoolInv, NEW w \in Workers, wpc[w] \in {"scan", "pop"},
         NEW i \in Workers, Take(w, i),
         UNCHANGED <<call, submitted, executed, dropped>>
  PROVE  NoTwins' /\ Apart' /\ Accounted'
<1>1. PICK q \in QueueStates(Tasks) : q = m_task_queue[i] /\ q.items # <<>>
  BY DEF PoolInv, TypeOK, Take
<1>2. PICK n \in Nat : n + 1 = Len(q.items)
  <2>1. Len(q.items) - 1 \in Nat
    BY <1>1, PoppedItems
  <2> QED
    BY <1>1, <2>1, PoppedItems
<1>3. PICK x \in Tasks : x = q.items[1] /\ x = Head(q.items)
  BY <1>1, PoppedItems
<1>4. /\ m_task_queue'[i] = PoppedFront(q)
      /\ \A j \in Workers : j # i => m_task_queue'[j] = m_task_queue[j]
  BY <1>1 DEF PoolInv, TypeOK, Take
<1>5. /\ \A k \in Positions(i)' :
           k + 1 \in Positions(i) /\ \A t : AtQueue(i, k, t)' <=> AtQueue(i, k + 1, t)
      /\ \A k \in Positions(i) :
           k # 1 => k - 1 \in Positions(i)' /\ (k - 1) + 1 = k
      /\ 1 \in Positions(i) /\ AtQueue(i, 1, x)
      /\ \A k \in Positions(i)' : k \in Int
  <2>1. Positions(i)' = 1..n /\ Positions(i) = 1..(n + 1)
    BY <1>1, <1>2, <1>4, PoppedItems DEF Positions
  <2>2. \A k \in 1..n : m_task_queue'[i].items[k] = m_task_queue[i].items[k + 1]
    <3>1. Len(q.items) - 1 = n
      BY <1>2
    <3>2. \A k \in 1..(Len(q.items) - 1) : PoppedFront(q).items[k] = q.items[k + 1]
      BY <1>1, PoppedItems
    <3> QED
      BY <1>1, <1>4, <3>1, <3>2
  <2> QED
    BY <1>1, <1>3, <2>1, <2>2 DEF AtQueue
<1>6. \A j \in Workers : j # i =>
        /\ Positions(j)' = Positions(j)
        /\ \A k, t : AtQueue(j, k, t)' <=> AtQueue(j, k, t)
  BY <1>4 DEF Positions, AtQueue
<1>7. /\ \A v \in Workers : task'[v] = IF v = w THEN x ELSE task[v]
      /\ task[w] \notin Tasks
  BY <1>1, <1>3 DEF PoolInv, TypeOK, Take, InUse
<1>8. InQueue(x) /\ ~WithWorker(x)
  <2>1. InQueue(x)
    BY <1>5 DEF InQueue
  <2> QED
    BY <2>1 DEF PoolInv, Apart
<1>9. \A t \in Tasks : InQueue(t)' <=> InQueue(t) /\ t # x
  <2>1. ASSUME NEW t \in Tasks, InQueue(t)' PROVE InQueue(t)
    BY <1>5, <1>6, <2>1 DEF InQueue
  <2>2. ASSUME NEW t \in Tasks, InQueue(t), t # x PROVE InQueue(t)'
    <3>1. PICK j \in Workers : \E k \in Positions(j) : AtQueue(j, k, t)
      BY <2>2 DEF InQueue
    <3>2. CASE j # i
      BY <1>6, <3>1, <3>2 DEF InQueue
    <3>3. CASE j = i
      <4>1. PICK k \in Positions(i) : AtQueue(i, k, t)
        BY <3>1, <3>3
      <4>2. k # 1
        BY <1>5, <2>2, <4>1 DEF AtQueue
      <4> QED
        BY <1>5, <4>1, <4>2 DEF InQueue
    <3> QED
      BY <3>2, <3>3
  <2>3. ~InQueue(x)'
    <3>1. SUFFICES ASSUME NEW j \in Workers, NEW k \in Positions(j)',
                          AtQueue(j, k, x)'
                   PROVE  FALSE
      BY DEF InQueue
    <3>2. CASE j # i
      BY <1>5, <1>6, <3>1, <3>2 DEF PoolInv, NoTwins
    <3>3. CASE j = i
      <4>1. k + 1 \in Positions(i) /\ AtQueue(i, k + 1, x) /\ k \in Int
        BY <1>5, <3>1, <3>3
      <4>2. k + 1 = 1
        BY <1>5, <4>1 DEF PoolInv, NoTwins
      <4> QED
        BY <3>1, <3>3, <4>1, <4>2 DEF Positions
    <3> QED
      BY <3>2, <3>3
  <2> QED
    BY <2>1, <2>2, <2>3
<1>10. \A t \in Tasks : /\ WithWorker(t)' <=> WithWorker(t) \/ t = x
                        /\ WithCaller(t)' <=> WithCaller(t)
  BY <1>7 DEF WithWorker, AtWorker, WithCaller, AtCaller
<1>11. NoTwins'
  <2>1. ASSUME NEW t \in Tasks, NEW j \in Workers, NEW h \in Workers,
               NEW k \in Positions(j)', NEW l \in Positions(h)',
               AtQueue(j, k, t)', AtQueue(h, l, t)'
        PROVE  j = h /\ k = l
    <3>1. CASE j = i /\ h = i
      <4>1. /\ k + 1 \in Positions(i) /\ l + 1 \in Positions(i)
            /\ AtQueue(i, k + 1, t) /\ AtQueue(i, l + 1, t)
            /\ k \in Int /\ l \in Int
        BY <1>5, <2>1, <3>1
      <4>2. k + 1 = l + 1
        BY <4>1 DEF PoolInv, NoTwins
      <4> QED
        BY <3>1, <4>1, <4>2
    <3>2. CASE j # i /\ h = i
      BY <1>5, <1>6, <2>1, <3>2 DEF PoolInv, NoTwins
    <3>3. CASE j = i /\ h # i
      BY <1>5, <1>6, <2>1, <3>3 DEF PoolInv, NoTwins
    <3>4. CASE j # i /\ h # i
      BY <1>6, <2>1, <3>4 DEF PoolInv, NoTwins
    <3> QED
      BY <3>1, <3>2, <3>3, <3>4
  <2>2. \A t \in Tasks : \A u, v \in Workers :
          AtWorker(u, t)' /\ AtWorker(v, t)' => u = v
    BY <1>7, <1>8 DEF AtWorker, WithWorker, PoolInv, NoTwins
  <2>3. \A t \in Tasks : /\ executed'[t] \in {0, 1}
                         /\ \A c, d \in Callers :
                              AtCaller(c, t)' /\ AtCaller(d, t)' => c = d
    BY DEF AtCaller, PoolInv, NoTwins
  <2> QED
    BY <2>1, <2>2, <2>3 DEF NoTwins
<1>12. Apart' /\ Accounted'
  BY <1>8, <1>9, <1>10 DEF PoolInv, Apart, Accounted
<1> QED
  BY <1>11, <1>12

\* A worker finds a task, scanning or blocked on its own queue.
LEMMA TakeInv ==
  ASSUME PoolInv, NEW w \in Workers, wpc[w] \in {"scan", "pop"},
         NEW i \in Workers, Take(w, i),
         UNCHANGED <<m_push_index, m_pop_index, poolState, thread_index, call,
                     submitted, executed, dropped>>
  PROVE  PoolInv'
<1> USE DEF PoolInv, poolState
<1>1. /\ m_task_queue[i] \in QueueStates(Tasks) /\ m_task_queue[i].items # <<>>
      /\ Head(m_task_queue[i].items) \in Tasks
  BY PoppedItems DEF TypeOK, Take
<1>2. \A v \in Workers :
        /\ wpc'[v] = IF v = w THEN "run" ELSE wpc[v]
        /\ v # w => task'[v] = task[v]
        /\ task'[w] \in Tasks
  BY <1>1 DEF TypeOK, Take
<1>3. \A j \in Workers : /\ m_task_queue'[j] \in QueueStates(Tasks)
                         /\ m_task_queue'[j].cancelled = m_task_queue[j].cancelled
  BY <1>1, PoppedItems DEF TypeOK, Take
<1>4. TypeOK'
  <2>1. 0 \in Workers
    BY CountPositive DEF Workers
  <2> QED
    BY <1>1, <1>3, <2>1 DEF TypeOK, Take
<1>5. IndicesTaken' /\ HomesDistinct'
  BY <1>2, HomesKept
<1>6. LifeCycle'
  <2>1. owner # "gone"
    BY DEF LifeCycle
  <2> QED
    BY <1>2, <1>3, <2>1 DEF LifeCycle
<1>7. NoWorkerLeaves'
  BY <1>2, <1>3, HomeInside DEF NoWorkerLeaves, QueueAt
<1>8. InUse'
  BY <1>2 DEF InUse
<1>9. NoTwins' /\ Apart' /\ Accounted'
  BY TakePlaces
<1> QED
  BY <1>4, <1>5, <1>6, <1>7, <1>8, <1>9

\* A worker that goes on, or leaves a queue that was cancelled, without a
\* task.
LEMMA WorkerMovesInv ==
  ASSUME PoolInv, NEW w \in Workers, wpc[w] \in {"scan", "pop"},
         NEW label \in {"scan", "pop", "exited"}, NEW s \in Workers,
         wpc' = [wpc EXCEPT ![w] = label], scan' = [scan EXCEPT ![w] = s],
         label = "exited" => m_task_queue[QueueAt(thread_index[w], 0)].cancelled,
         UNCHANGED <<m_task_queue, m_push_index, m_pop_index, poolState,
                     thread_index, task, call, submitted, executed, dropped>>
  PROVE  PoolInv'
<1> USE DEF PoolInv, poolState
<1>1. TypeOK'
  BY DEF TypeOK
<1>2. \A v \in Workers : wpc'[v] = IF v = w THEN label ELSE wpc[v]
  BY DEF TypeOK
<1>3. IndicesTaken' /\ HomesDistinct'
  BY <1>2, HomesKept
<1>4. LifeCycle'
  BY <1>2 DEF LifeCycle
<1>5. NoWorkerLeaves'
  BY <1>2, HomeInside DEF NoWorkerLeaves, LifeCycle, QueueAt
<1>6. InUse'
  BY <1>2 DEF InUse
<1>7. NoTwins' /\ Apart' /\ Accounted'
  BY PlacesKept
<1> QED
  BY <1>1, <1>3, <1>4, <1>5, <1>6, <1>7

\* One turn of the loop in scheduled().
LEMMA TryPopInv == ASSUME PoolInv, NEW w \in Workers, TryPop(w) PROVE PoolInv'
<1> DEFINE i == QueueAt(thread_index[w], scan[w])
<1>1. i \in Workers
  <2>1. thread_index[w] \in Nat /\ scan[w] \in Nat
    BY WorkersNat DEF PoolInv, TypeOK
  <2> QED
    BY <2>1, QueueAtInside
<1> HIDE DEF i
<1>2. CASE Take(w, i)
  BY <1>1, <1>2, TakeInv DEF TryPop
<1>3. CASE /\ scan[w] + 1 = m_thread_count
           /\ wpc' = [wpc EXCEPT ![w] = "pop"]
           /\ scan' = [scan EXCEPT ![w] = 0]
           /\ UNCHANGED <<m_task_queue, task>>
  <2>1. 0 \in Workers
    BY CountPositive DEF Workers
  <2> QED
    BY <1>3, <2>1, WorkerMovesInv DEF TryPop
<1>4. CASE /\ scan[w] + 1 # m_thread_count
           /\ scan' = [scan EXCEPT ![w] = @ + 1]
           /\ UNCHANGED <<m_task_queue, task, wpc>>
  <2>1. scan[w] \in Workers
    BY DEF PoolInv, TypeOK
  <2>2. scan[w] + 1 \in Workers
    BY <1>4, <2>1, CountPositive DEF Workers
  <2>3. /\ scan' = [scan EXCEPT ![w] = scan[w] + 1]
        /\ wpc' = [wpc EXCEPT ![w] = "scan"]
    BY <1>4 DEF TryPop, PoolInv, TypeOK
  <2> QED
    BY <1>4, <2>2, <2>3, WorkerMovesInv DEF TryPop
<1> QED
  BY <1>2, <1>3, <1>4 DEF TryPop, i

\* The blocking pop() on the worker's own queue.
LEMMA PopInv == ASSUME PoolInv, NEW w \in Workers, Pop(w) PROVE PoolInv'
<1> DEFINE i == QueueAt(thread_index[w], 0)
<1>1. i \in Workers
  BY HomeInside DEF PoolInv
<1>2. CASE m_task_queue[i].cancelled
  <2>1. /\ wpc' = [wpc EXCEPT ![w] = "exited"]
        /\ scan' = [scan EXCEPT ![w] = scan[w]]
        /\ scan[w] \in Workers
        /\ UNCHANGED <<m_task_queue, task>>
    BY <1>2 DEF Pop, PoolInv, TypeOK
  <2> QED
    BY <1>2, <2>1, WorkerMovesInv DEF Pop
<1>3. CASE ~m_task_queue[i].cancelled
  BY <1>1, <1>3, TakeInv DEF Pop
<1> QED
  BY <1>2, <1>3

\* The task has been run, by the one worker that held it.
LEMMA RunEndInv == ASSUME PoolInv, NEW w \in Workers, RunEnd(w) PROVE PoolInv'
<1> USE DEF PoolInv, RunEnd, poolState
<1>1. PICK x \in Tasks : x = task[w]
  BY DEF InUse, TypeOK
<1>2. \A v \in Workers :
        /\ wpc'[v] = IF v = w THEN "scan" ELSE wpc[v]
        /\ task'[v] = IF v = w THEN NoTask ELSE task[v]
  BY DEF TypeOK
<1>3. TypeOK'
  <2>1. executed' = [executed EXCEPT ![x] = executed[x] + 1]
    BY <1>1
  <2>2. executed' \in [Tasks -> Nat]
    BY <2>1 DEF TypeOK
  <2> QED
    BY <2>2 DEF TypeOK
<1>4. IndicesTaken' /\ HomesDistinct'
  BY <1>2, HomesKept
<1>5. LifeCycle'
  BY <1>2 DEF LifeCycle
<1>6. NoWorkerLeaves'
  BY <1>2, HomeInside DEF NoWorkerLeaves, QueueAt
<1>7. InUse'
  BY <1>2 DEF InUse
<1>8. WithWorker(x)
  BY <1>1 DEF WithWorker, AtWorker
<1>9. /\ executed[x] = 0 /\ executed'[x] = 1
      /\ \A t \in Tasks : t # x => executed'[t] = executed[t]
  <2>1. executed[x] = 0
    BY <1>8 DEF Apart
  <2> QED
    BY <1>1, <2>1 DEF TypeOK
<1>10. \A t \in Tasks : /\ WithWorker(t)' <=> WithWorker(t) /\ t # x
                        /\ WithCaller(t)' <=> WithCaller(t)
                        /\ InQueue(t)' <=> InQueue(t)
  BY <1>1, <1>2 DEF WithWorker, AtWorker, WithCaller, AtCaller, InQueue,
                    AtQueue, Positions, NoTwins
<1>11. NoTwins'
  BY <1>2, <1>9 DEF NoTwins, AtWorker, AtCaller, AtQueue, Positions
<1>12. Apart' /\ Accounted'
  <2> HIDE DEF RunEnd, PoolInv
  <2> QED
    BY <1>8, <1>9, <1>10 DEF PoolInv, Apart, Accounted, RunEnd
<1> QED
  BY <1>3, <1>4, <1>5, <1>6, <1>7, <1>11, <1>12

---------------------------------------------------------------------------
(* The owner's steps *)

\* A thread is created in the next slot.
LEMMA CreateThreadInv == ASSUME PoolInv, CreateThread PROVE PoolInv'
<1> USE DEF PoolInv, CreateThread
<1>1. slot \in Workers /\ wpc[slot] = "none"
  BY WorkersNat DEF TypeOK, LifeCycle
<1>2. \A v \in Workers : wpc'[v] = IF v = slot THEN "start" ELSE wpc[v]
  BY DEF TypeOK
<1>3. TypeOK'
  <2>1. 0 \in Workers
    BY CountPositive DEF Workers
  <2>2. slot + 1 # m_thread_count => slot + 1 \in Workers
    BY <1>1, CountPositive DEF Workers
  <2> QED
    BY <1>1, <2>1, <2>2 DEF TypeOK
<1>4. IndicesTaken' /\ HomesDistinct'
  BY <1>1, <1>2, HomesKept
<1>5. LifeCycle'
  <2>1. CASE slot + 1 = m_thread_count
    BY <2>1 DEF LifeCycle
  <2>2. CASE slot + 1 # m_thread_count
    <3>1. owner' = "create" /\ slot' = slot + 1
      BY <2>2
    <3>2. \A w \in Workers : wpc'[w] = "none" <=> w >= slot + 1
      <4>1. \A w \in Workers : wpc[w] = "none" <=> w >= slot
        BY DEF LifeCycle
      <4>2. \A w \in Workers : w >= slot + 1 <=> w >= slot /\ w # slot
        BY <1>1, WorkersNat
      <4> QED
        BY <1>2, <4>1, <4>2
    <3> QED
      BY <3>1, <3>2 DEF LifeCycle
  <2> QED
    BY <2>1, <2>2
<1>6. NoWorkerLeaves'
  BY <1>1, <1>2 DEF NoWorkerLeaves, QueueAt
<1>7. InUse'
  BY <1>1, <1>2 DEF InUse
<1>8. NoTwins' /\ Apart' /\ Accounted'
  BY PlacesKept
<1> QED
  BY <1>3, <1>4, <1>5, <1>6, <1>7, <1>8

\* join() begins, after a constructor that failed or in the destructor.
LEMMA JoinBeginsInv == ASSUME PoolInv, CreateFails \/ Destroy PROVE PoolInv'
<1> USE DEF PoolInv, CreateFails, Destroy, workerState
<1>1. TypeOK'
  <2>1. 0 \in Workers
    BY CountPositive DEF Workers
  <2> QED
    BY <2>1 DEF TypeOK
<1>2. IndicesTaken' /\ HomesDistinct'
  BY HomesKept
<1>3. LifeCycle'
  BY WorkersNat DEF LifeCycle
<1>4. NoWorkerLeaves' /\ InUse'
  BY DEF NoWorkerLeaves, InUse, QueueAt
<1>5. NoTwins' /\ Apart' /\ Accounted'
  BY PlacesKept
<1> QED
  BY <1>1, <1>2, <1>3, <1>4, <1>5

\* A queue is cancelled and what it held is thrown away.
LEMMA ClearQueueInv == ASSUME PoolInv, ClearQueue PROVE PoolInv'
<1> USE DEF PoolInv, ClearQueue, workerState
<1>1. PICK s \in Workers : s = slot
  BY DEF TypeOK
<1>2. PICK q \in QueueStates(Tasks) : q = m_task_queue[s]
  BY <1>1 DEF TypeOK
<1>3. /\ m_task_queue'[s] = Cleared(q)
      /\ \A j \in Workers : j # s => m_task_queue'[j] = m_task_queue[j]
      /\ dropped' = dropped \cup TasksIn(q)
  BY <1>1, <1>2 DEF TypeOK
<1>4. TypeOK'
  <2>1. 0 \in Workers
    BY CountPositive DEF Workers
  <2>2. slot + 1 # m_thread_count => slot + 1 \in Workers
    BY <1>1, CountPositive DEF Workers
  <2>3. Cleared(q) \in QueueStates(Tasks) /\ dropped' \subseteq Tasks
    BY <1>3, ClearedItems DEF TypeOK
  <2> QED
    BY <1>1, <1>2, <2>1, <2>2, <2>3 DEF TypeOK
<1>5. IndicesTaken' /\ HomesDistinct'
  BY HomesKept
<1>6. \A j \in Workers : m_task_queue'[j].cancelled <=>
                           m_task_queue[j].cancelled \/ j = s
  BY <1>3, ClearedItems
<1>7. LifeCycle'
  <2>1. CASE slot + 1 = m_thread_count
    <3>1. \A j \in Workers : j < slot \/ j = slot
      BY <1>1, <2>1, CountPositive DEF Workers
    <3>2. owner' = "join" /\ slot' = 0
      BY <2>1
    <3> QED
      BY <1>1, <1>6, <3>1, <3>2, WorkersNat DEF LifeCycle
  <2>2. CASE slot + 1 # m_thread_count
    <3>1. \A j \in Workers : j < slot + 1 => j < slot \/ j = slot
      BY <1>1, WorkersNat
    <3>2. owner' = "clear" /\ slot' = slot + 1
      BY <2>2
    <3> QED
      BY <1>1, <1>6, <3>1, <3>2 DEF LifeCycle
  <2> QED
    BY <2>1, <2>2
<1>8. NoWorkerLeaves'
  BY <1>6, HomeInside DEF NoWorkerLeaves, QueueAt
<1>9. InUse'
  BY DEF InUse
<1>10. /\ Positions(s)' = {}
       /\ \A j \in Workers : j # s => /\ Positions(j)' = Positions(j)
                                      /\ \A k, t : AtQueue(j, k, t)' <=> AtQueue(j, k, t)
       /\ \A t : t \in TasksIn(q) <=> \E k \in Positions(s) : AtQueue(s, k, t)
  <2>1. Positions(s)' = {}
    BY <1>3, ClearedItems DEF Positions
  <2>2. \A j \in Workers : j # s => /\ Positions(j)' = Positions(j)
                                    /\ \A k, t : AtQueue(j, k, t)' <=> AtQueue(j, k, t)
    BY <1>3 DEF Positions, AtQueue
  <2>3. \A t : t \in TasksIn(q) <=> \E k \in Positions(s) : AtQueue(s, k, t)
    BY <1>2, ClearedItems DEF Positions, AtQueue
  <2> QED
    BY <2>1, <2>2, <2>3
<1>11. \A t \in Tasks : /\ InQueue(t)' => InQueue(t) /\ t \notin TasksIn(q)
                        /\ InQueue(t) => InQueue(t)' \/ t \in TasksIn(q)
                        /\ t \in TasksIn(q) => InQueue(t)
  <2>1. ASSUME NEW t \in Tasks, InQueue(t)' PROVE InQueue(t) /\ t \notin TasksIn(q)
    <3>0. PICK j \in Workers : \E k \in Positions(j)' : AtQueue(j, k, t)'
      BY <2>1 DEF InQueue
    <3>1. PICK k \in Positions(j)' : AtQueue(j, k, t)'
      BY <3>0
    <3>2. j # s /\ k \in Positions(j) /\ AtQueue(j, k, t)
      BY <1>10, <3>1
    <3> QED
      BY <1>10, <3>2 DEF InQueue, NoTwins
  <2>2. ASSUME NEW t \in Tasks, InQueue(t) PROVE InQueue(t)' \/ t \in TasksIn(q)
    BY <1>10, <2>2 DEF InQueue
  <2>3. \A t \in Tasks : t \in TasksIn(q) => InQueue(t)
    BY <1>10 DEF InQueue
  <2> QED
    BY <2>1, <2>2, <2>3
<1>12. \A t \in Tasks : /\ WithCaller(t)' <=> WithCaller(t)
                        /\ WithWorker(t)' <=> WithWorker(t)
  BY DEF WithCaller, AtCaller, WithWorker, AtWorker
<1>13. NoTwins'
  <2>1. ASSUME NEW t \in Tasks, NEW j \in Workers, NEW h \in Workers,
               NEW k \in Positions(j)', NEW l \in Positions(h)',
               AtQueue(j, k, t)', AtQueue(h, l, t)'
        PROVE  j = h /\ k = l
    BY <1>10, <2>1 DEF NoTwins
  <2>2. \A t \in Tasks :
          /\ executed'[t] \in {0, 1}
          /\ \A c, d \in Callers : AtCaller(c, t)' /\ AtCaller(d, t)' => c = d
          /\ \A v, w \in Workers : AtWorker(v, t)' /\ AtWorker(w, t)' => v = w
    BY DEF NoTwins, AtCaller, AtWorker
  <2> QED
    BY <2>1, <2>2 DEF NoTwins
<1>14. Apart' /\ Accounted'
  BY <1>3, <1>11, <1>12 DEF Apart, Accounted
<1> QED
  BY <1>4, <1>5, <1>7, <1>8, <1>9, <1>13, <1>14

\* A thread has been joined, or there was none in the slot.
LEMMA JoinThreadInv == ASSUME PoolInv, JoinThread PROVE PoolInv'
<1> USE DEF PoolInv, JoinThread, workerState
<1>1. slot \in Workers
  BY DEF TypeOK
<1>2. TypeOK'
  <2>1. 0 \in Workers
    BY CountPositive DEF Workers
  <2>2. slot + 1 # m_thread_count => slot + 1 \in Workers
    BY <1>1, CountPositive DEF Workers
  <2> QED
    BY <2>1, <2>2 DEF TypeOK
<1>3. IndicesTaken' /\ HomesDistinct'
  BY HomesKept
<1>4. LifeCycle'
  <2>1. CASE slot + 1 = m_thread_count
    <3>1. \A j \in Workers : j < slot \/ j = slot
      BY <1>1, <2>1, CountPositive DEF Workers
    <3> QED
      BY <2>1, <3>1 DEF LifeCycle
  <2>2. CASE slot + 1 # m_thread_count
    <3>1. \A j \in Workers : j < slot + 1 => j < slot \/ j = slot
      BY <1>1, WorkersNat
    <3>2. owner' = "join" /\ slot' = slot + 1
      BY <2>2
    <3> QED
      BY <3>1, <3>2 DEF LifeCycle
  <2> QED
    BY <2>1, <2>2
<1>5. NoWorkerLeaves' /\ InUse'
  BY DEF NoWorkerLeaves, InUse, QueueAt
<1>6. NoTwins' /\ Apart' /\ Accounted'
  BY PlacesKept
<1> QED
  BY <1>2, <1>3, <1>4, <1>5, <1>6

\* The members go, and with them the tasks pushed after clear().
LEMMA ReleaseInv == ASSUME PoolInv, Release PROVE PoolInv'
<1> DEFINE left == UNION {TasksIn(m_task_queue[i]) : i \in Workers}
<1> USE DEF PoolInv, Release, workerState
<1>1. \A i \in Workers : /\ m_task_queue[i] \in QueueStates(Tasks)
                         /\ m_task_queue'[i] = Cleared(m_task_queue[i])
  BY DEF TypeOK
<1>2. \A t : t \in left <=> InQueue(t)
  <2>1. \A t : t \in left <=> \E i \in Workers : t \in TasksIn(m_task_queue[i])
    OBVIOUS
  <2>2. \A i \in Workers : \A t :
          t \in TasksIn(m_task_queue[i]) <=> \E k \in Positions(i) : AtQueue(i, k, t)
    BY <1>1, ClearedItems DEF Positions, AtQueue
  <2> QED
    BY <2>1, <2>2 DEF InQueue
<1>3. left \subseteq Tasks
  <2>1. \A i \in Workers : TasksIn(m_task_queue[i]) \subseteq Tasks
    BY <1>1, ClearedItems
  <2> QED
    BY <2>1
<1>4. dropped' = dropped \cup left
  OBVIOUS
<1> HIDE DEF left
<1>5. TypeOK'
  BY <1>1, <1>3, <1>4, ClearedItems DEF TypeOK
<1>6. IndicesTaken' /\ HomesDistinct'
  BY HomesKept
<1>7. LifeCycle'
  BY <1>1, ClearedItems DEF LifeCycle
<1>8. NoWorkerLeaves'
  BY <1>1, ClearedItems, HomeInside DEF NoWorkerLeaves, QueueAt
<1>9. InUse'
  BY DEF InUse
<1>10. \A i \in Workers : Positions(i)' = {}
  BY <1>1, ClearedItems DEF Positions
<1>11. \A t \in Tasks : /\ ~InQueue(t)'
                        /\ WithCaller(t)' <=> WithCaller(t)
                        /\ WithWorker(t)' <=> WithWorker(t)
  <2>1. \A t \in Tasks : ~InQueue(t)'
    BY <1>10 DEF InQueue
  <2> QED
    BY <2>1 DEF WithCaller, AtCaller, WithWorker, AtWorker
<1>12. NoTwins'
  BY <1>10 DEF NoTwins, AtCaller, AtWorker
<1>13. Apart' /\ Accounted'
  BY <1>2, <1>4, <1>11 DEF Apart, Accounted
<1> QED
  BY <1>5, <1>6, <1>7, <1>8, <1>9, <1>12, <1>13

---------------------------------------------------------------------------
(* The theorems *)

LEMMA NextInv == PoolInv /\ [Next]_vars => PoolInv'
<1> SUFFICES ASSUME PoolInv, [Next]_vars PROVE PoolInv'
  OBVIOUS
<1>1. CASE UNCHANGED vars
  <2> USE <1>1 DEF vars, poolState, workerState, PoolInv
  <2>1. TypeOK' /\ LifeCycle'
    BY DEF TypeOK, LifeCycle
  <2>2. NoWorkerLeaves' /\ InUse'
    BY DEF NoWorkerLeaves, InUse, QueueAt
  <2>3. IndicesTaken' /\ HomesDistinct'
    BY HomesKept
  <2>4. NoTwins' /\ Apart' /\ Accounted'
    BY PlacesKept
  <2> QED
    BY <2>1, <2>2, <2>3, <2>4
<1>2. ASSUME NEW c \in Callers, ScheduleStep(c) PROVE PoolInv'
  BY <1>2, TryPushInv, BlockingPushInv DEF ScheduleStep
<1>3. ASSUME NEW w \in Workers, WorkerStep(w) PROVE PoolInv'
  BY <1>3, TakeIndexInv, TryPopInv, PopInv, RunSpawnInv, RunEndInv DEF WorkerStep
<1>4. CASE OwnerStep
  BY <1>4, CreateThreadInv, ClearQueueInv, JoinThreadInv, ReleaseInv DEF OwnerStep
<1> QED
  BY <1>1, <1>2, <1>3, <1>4, ClientSchedulesInv, JoinBeginsInv DEF Next

\* The inductive invariant holds in every reachable state of a pool of any
\* size.
THEOREM PoolInvariant == Spec => []PoolInv
  BY InitInv, NextInv, PTL DEF Spec

\* Every variable keeps its type: schedule() and scheduled() of rr_scheduler
\* never leave the vector of queues, although the indices wrap around.
THEOREM TypeCorrect == Spec => []TypeOK
<1>1. PoolInv => TypeOK
  BY DEF PoolInv
<1> QED
  BY PoolInvariant, <1>1, PTL

\* The set of places of one kind is empty or a singleton.
LEMMA CountPlaces ==
  ASSUME PoolInv, NEW t \in Tasks
  PROVE  /\ Cardinality({c \in Callers : call[c].task = t}) =
              IF WithCaller(t) THEN 1 ELSE 0
         /\ Cardinality(QueuedAt(t)) = IF InQueue(t) THEN 1 ELSE 0
         /\ Cardinality({w \in Workers : task[w] = t}) =
              IF WithWorker(t) THEN 1 ELSE 0
<1> USE DEF PoolInv
<1>1. Cardinality({c \in Callers : call[c].task = t}) =
        IF WithCaller(t) THEN 1 ELSE 0
  <2>1. CASE ~WithCaller(t)
    <3>1. {c \in Callers : call[c].task = t} = {}
      BY <2>1 DEF WithCaller, AtCaller
    <3> QED
      BY <2>1, <3>1, FS_EmptySet
  <2>2. CASE WithCaller(t)
    <3>1. PICK c \in Callers : call[c].task = t
      BY <2>2 DEF WithCaller, AtCaller
    <3>2. {d \in Callers : call[d].task = t} = {c}
      BY <3>1 DEF NoTwins, AtCaller
    <3> QED
      BY <2>2, <3>2, FS_Singleton
  <2> QED
    BY <2>1, <2>2
<1>2. Cardinality(QueuedAt(t)) = IF InQueue(t) THEN 1 ELSE 0
  <2>0. \A i \in Workers : DOMAIN m_task_queue[i].items = Positions(i)
    BY DEF TypeOK, QueueStates, Positions
  <2>1. \A p : p \in QueuedAt(t) <=>
          \E i \in Workers : \E k \in Positions(i) : AtQueue(i, k, t) /\ p = <<i, k>>
    BY <2>0 DEF QueuedAt, AtQueue
  <2>2. CASE ~InQueue(t)
    <3>1. QueuedAt(t) = {}
      BY <2>1, <2>2 DEF InQueue
    <3> QED
      BY <2>2, <3>1, FS_EmptySet
  <2>3. CASE InQueue(t)
    <3>1. PICK i \in Workers : \E k \in Positions(i) : AtQueue(i, k, t)
      BY <2>3 DEF InQueue
    <3>2. PICK k \in Positions(i) : AtQueue(i, k, t)
      BY <3>1
    <3>3. QueuedAt(t) = {<<i, k>>}
      BY <2>1, <3>2 DEF NoTwins
    <3> QED
      BY <2>3, <3>3, FS_Singleton
  <2> QED
    BY <2>2, <2>3
<1>3. Cardinality({w \in Workers : task[w] = t}) =
        IF WithWorker(t) THEN 1 ELSE 0
  <2>1. CASE ~WithWorker(t)
    <3>1. {w \in Workers : task[w] = t} = {}
      BY <2>1 DEF WithWorker, AtWorker
    <3> QED
      BY <2>1, <3>1, FS_EmptySet
  <2>2. CASE WithWorker(t)
    <3>1. PICK w \in Workers : task[w] = t
      BY <2>2 DEF WithWorker, AtWorker
    <3>2. {v \in Workers : task[v] = t} = {w}
      BY <3>1 DEF NoTwins, AtWorker
    <3> QED
      BY <2>2, <3>2, FS_Singleton
  <2> QED
    BY <2>1, <2>2
<1> QED
  BY <1>1, <1>2, <1>3

\* A task given to schedule() is never lost, run twice, or both run and
\* thrown away: it is counted once between the callers of schedule(), the
\* queues, the workers, the tasks that were run and those that were dropped.
THEOREM TaskExactlyOnce == Spec => []ExactlyOnce
<1>1. PoolInv => ExactlyOnce
  <2> SUFFICES ASSUME PoolInv, NEW t \in Tasks
               PROVE  Copies(t) = IF t \in submitted THEN 1 ELSE 0
    BY DEF ExactlyOnce
  <2>1. Copies(t) = (IF WithCaller(t) THEN 1 ELSE 0) + (IF InQueue(t) THEN 1 ELSE 0)
                      + (IF WithWorker(t) THEN 1 ELSE 0) + executed[t]
                      + (IF t \in dropped THEN 1 ELSE 0)
    BY CountPlaces DEF Copies
  <2>2. executed[t] \in {0, 1}
    BY DEF PoolInv, NoTwins
  <2> QED
    BY <2>1, <2>2 DEF PoolInv, Apart, Accounted
<1> QED
  BY PoolInvariant, <1>1, PTL

\* Every queue has one worker of its own, and that worker does not leave
\* run() before join() has cancelled the queue.
THEOREM EveryQueueAttended == Spec => []QueuesAttended
<1>1. PoolInv => QueuesAttended
  BY DEF PoolInv, QueuesAttended
<1> QED
  BY PoolInvariant, <1>1, PTL

\* When the members of the pool are destroyed no thread uses them any more,
\* and afterwards every task has been run or thrown away; also when the
\* constructor failed half way.
THEOREM NothingIsLeft == Spec => []NothingOutlives
<1>1. PoolInv => NothingOutlives
  <2> SUFFICES ASSUME PoolInv, owner \in {"release", "gone"}
               PROVE  /\ \A w \in Workers : wpc[w] \in {"none", "exited"}
                      /\ \A c \in Callers : call[c] = NoCall
                      /\ owner = "gone" =>
                           \A t \in submitted : executed[t] = 1 \/ t \in dropped
    BY DEF NothingOutlives
  <2>1. \A w \in Workers : wpc[w] \in {"none", "exited"}
    BY DEF PoolInv, LifeCycle
  <2>2. \A c \in Callers : call[c] = NoCall
    BY <2>1 DEF PoolInv, InUse, Callers
  <2>3. ASSUME owner = "gone", NEW t \in submitted
        PROVE  executed[t] = 1 \/ t \in dropped
    <3>1. t \in Tasks
      BY DEF PoolInv, TypeOK
    <3>2. ~WithCaller(t)
      BY <2>2, <3>1 DEF WithCaller, AtCaller, NoCall
    <3>3. ~InQueue(t)
      <4>1. \A i \in Workers : Positions(i) = {}
        BY <2>3 DEF PoolInv, LifeCycle, Positions
      <4> QED
        BY <4>1 DEF InQueue
    <3>4. ~WithWorker(t)
      BY <2>1, <3>1 DEF WithWorker, AtWorker, PoolInv, InUse
    <3> QED
      BY <3>1, <3>2, <3>3, <3>4 DEF PoolInv, Accounted
  <2> QED
    BY <2>1, <2>2, <2>3
<1> QED
  BY PoolInvariant, <1>1, PTL

---------------------------------------------------------------------------
(* Tasks that schedule tasks *)

\* A task that another one schedules was given to schedule() by that one,
\* which has been run or is still inside.
SpawnedBySpawner ==
  \A u \in Tasks :
    Spawns[u] \in submitted =>
      executed[u] = 1 \/ \E w \in Workers : task[w] = u /\ wpc[w] = "spawned"

\* The guard of Schedule that gives a task away at most once excludes no
\* call the pool would take: a running task always can schedule the task it
\* spawns.
SpawnAllowed ==
  \A w \in Workers :
    wpc[w] = "run" /\ Spawns[task[w]] # NoTask =>
      Spawns[task[w]] \notin submitted /\ call[w] = NoCall

LEMMA SpawnedStep ==
  ASSUME PoolInv, SpawnedBySpawner, [Next]_vars PROVE SpawnedBySpawner'
<1> USE DEF PoolInv, poolState, workerState
<1>1. ASSUME UNCHANGED <<submitted, executed>>,
             \A w \in Workers : wpc[w] = "spawned" =>
               task'[w] = task[w] /\ wpc'[w] = "spawned"
      PROVE  SpawnedBySpawner'
  BY <1>1 DEF SpawnedBySpawner
<1>2. CASE UNCHANGED vars
  BY <1>1, <1>2 DEF vars
<1>3. ASSUME NEW c \in Clients, ClientSchedules(c) PROVE SpawnedBySpawner'
  BY <1>3 DEF ClientSchedules, Schedule, SpawnedBySpawner
<1>4. ASSUME NEW c \in Callers, ScheduleStep(c) PROVE SpawnedBySpawner'
  BY <1>1, <1>4 DEF ScheduleStep, TryPush, BlockingPush
<1>5. ASSUME NEW w \in Workers, TakeIndex(w) \/ TryPop(w) \/ Pop(w)
      PROVE  SpawnedBySpawner'
  <2>1. wpc[w] # "spawned" /\ UNCHANGED <<submitted, executed>>
    BY <1>5 DEF TakeIndex, TryPop, Pop
  <2>2. \A v \in Workers : v # w => task'[v] = task[v] /\ wpc'[v] = wpc[v]
    BY <1>5 DEF TakeIndex, TryPop, Pop, Take, TypeOK
  <2> QED
    BY <1>1, <2>1, <2>2
<1>6. ASSUME NEW w \in Workers, RunSpawn(w) PROVE SpawnedBySpawner'
  <2>1. /\ submitted' = submitted \cup {Spawns[task[w]]}
        /\ task' = task /\ executed' = executed
        /\ \A v \in Workers : wpc'[v] = IF v = w THEN "spawned" ELSE wpc[v]
        /\ Spawns[task[w]] # NoTask /\ task[w] \in Tasks
    BY <1>6 DEF RunSpawn, Schedule, TypeOK, InUse
  <2>2. \A u \in Tasks : Spawns[u] = Spawns[task[w]] => u = task[w]
    BY <2>1
  <2> QED
    BY <2>1, <2>2 DEF SpawnedBySpawner
<1>7. ASSUME NEW w \in Workers, RunEnd(w) PROVE SpawnedBySpawner'
  <2>1. /\ submitted' = submitted
        /\ \A v \in Workers : v # w => task'[v] = task[v] /\ wpc'[v] = wpc[v]
    BY <1>7 DEF RunEnd, TypeOK
  <2>2. task[w] \in Tasks
    BY <1>7 DEF RunEnd, TypeOK, InUse
  <2>3. executed[task[w]] = 0
    BY <2>2 DEF Apart, WithWorker, AtWorker
  <2>4. /\ executed'[task[w]] = 1
        /\ \A u \in Tasks : u # task[w] => executed'[u] = executed[u]
    BY <1>7, <2>2, <2>3 DEF RunEnd, TypeOK
  <2> QED
    BY <2>1, <2>4 DEF SpawnedBySpawner
<1>8. CASE OwnerStep \/ CreateFails \/ Destroy
  <2>1. UNCHANGED <<submitted, executed, task>>
    BY <1>8 DEF OwnerStep, CreateFails, Destroy, CreateThread, ClearQueue,
                JoinThread, Release
  <2>2. \A w \in Workers : wpc[w] = "spawned" => wpc'[w] = "spawned"
    <3>1. CASE CreateThread
      <4>1. wpc[slot] = "none" /\ slot \in Workers
        BY <3>1, WorkersNat DEF CreateThread, TypeOK, LifeCycle
      <4> QED
        BY <3>1, <4>1 DEF CreateThread, TypeOK
    <3>2. CASE ~CreateThread
      BY <1>8, <3>2 DEF OwnerStep, CreateFails, Destroy, ClearQueue,
                        JoinThread, Release
    <3> QED
      BY <3>1, <3>2
  <2> QED
    BY <1>1, <2>1, <2>2
<1> QED
  BY <1>2, <1>3, <1>4, <1>5, <1>6, <1>7, <1>8 DEF Next, WorkerStep

\* A task is never kept from scheduling the task it spawns.
THEOREM SpawnNeverRefused == Spec => []SpawnAllowed
<1>1. Init => SpawnedBySpawner
  BY DEF Init, SpawnedBySpawner
<1>2. PoolInv /\ SpawnedBySpawner /\ [Next]_vars => SpawnedBySpawner'
  BY SpawnedStep
<1>3. PoolInv /\ SpawnedBySpawner => SpawnAllowed
  <2> SUFFICES ASSUME PoolInv, SpawnedBySpawner, NEW w \in Workers,
                      wpc[w] = "run", Spawns[task[w]] # NoTask
               PROVE  Spawns[task[w]] \notin submitted /\ call[w] = NoCall
    BY DEF SpawnAllowed
  <2>1. task[w] \in Tasks /\ call[w] = NoCall
    BY DEF PoolInv, TypeOK, InUse
  <2>2. executed[task[w]] = 0
    BY <2>1 DEF PoolInv, Apart, WithWorker, AtWorker
  <2>3. \A v \in Workers : task[v] = task[w] => v = w
    BY <2>1 DEF PoolInv, NoTwins, AtWorker
  <2> QED
    BY <2>1, <2>2, <2>3 DEF SpawnedBySpawner
<1> QED
  BY PoolInvariant, <1>1, <1>2, <1>3, PTL DEF Spec
===========================================================================
