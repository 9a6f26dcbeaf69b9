------------------------- MODULE SenderChainProofs -------------------------
(***************************************************************************)
(* Theorems about chains of senders for any number of chains of either     *)
(* kind of receiver, any length and any set of steps that may throw.       *)
(***************************************************************************)
EXTENDS SenderChain, TLAPS

USE ChainAssumption DEF ChainAssumption

---------------------------------------------------------------------------
(* The inductive invariant *)

\* Who holds the receiver follows from where the caller and the task are:
\* the frame of wait() keeps a copy of a value_receiver until it returns, a
\* callback_receiver only until it starts; the closure until it is gone.
Holding ==
  \A c \in Chains :
    /\ closure[c] = "none" <=> caller[c] \in {"idle", "connected"}
    /\ "task" \in holders[c] <=>
         closure[c] \in {"queued", "running", "failing", "ending"}
    /\ "frame" \in holders[c] <=>
         caller[c] = "connected" \/ (caller[c] = "started" /\ c \notin Callbacks)

\* What the task has run: nothing before it began, and the step that threw
\* is the last one reached.
Progress ==
  \A c \in Chains :
    /\ closure[c] \in {"none", "queued", "dropped"} => next[c] = 1
    /\ closure[c] \in {"none", "queued", "dropped", "running"} => threw[c] = 0
    /\ closure[c] = "failing" => threw[c] = next[c]
    /\ threw[c] # 0 => threw[c] = next[c]

\* No handler is entered before the outcome is elected, and a task that a
\* worker has run leaves its promise with an outcome: only a task thrown
\* away can leave that to the destructor.
Decided ==
  \A c \in Chains :
    /\ outcome[c] = "init" => called[c] = {}
    /\ closure[c] \in {"ending", "done"} /\ c \notin Callbacks =>
         outcome[c] # "init"

\* The early cancellation is the outcome, and the closure sees it.
EarlyIsCanceled ==
  /\ \A c \in early : outcome[c] = "canceled"
  /\ \A c \in early \ Direct : closure[c] \notin {"running", "failing"}

ChainInv ==
  /\ TypeOK /\ Holding /\ Progress /\ Decided /\ EarlyIsCanceled
  /\ EarlyCancelStops /\ OutcomeFaithful /\ NoOrphan /\ HandlerOnce

---------------------------------------------------------------------------
(* The proof: every action keeps every part *)

LEMMA InitInv == Init => ChainInv
<1> SUFFICES ASSUME Init PROVE ChainInv
  OBVIOUS
<1>1. TypeOK
  BY DEF Init, TypeOK, States
<1>2. Holding /\ Progress /\ Decided /\ EarlyIsCanceled
  BY DEF Init, Holding, Progress, Decided, EarlyIsCanceled
<1>3. EarlyCancelStops /\ OutcomeFaithful /\ NoOrphan /\ HandlerOnce
  BY DEF Init, EarlyCancelStops, OutcomeFaithful, NoOrphan, HandlerOnce
<1> QED
  BY <1>1, <1>2, <1>3 DEF ChainInv

\* The receiver is built and connected; the frame is its first holder.
LEMMA ConnectInv == ASSUME ChainInv, NEW c \in Chains, Connect(c) PROVE ChainInv'
<1> USE DEF ChainInv, TypeOK, Connect
<1>1. Holding'
  BY DEF Holding
<1>2. NoOrphan'
  BY DEF NoOrphan, Holding
<1>3. TypeOK' /\ Progress' /\ Decided' /\ EarlyIsCanceled'
       /\ EarlyCancelStops' /\ OutcomeFaithful' /\ HandlerOnce'
  BY DEF Progress, Decided, EarlyIsCanceled, EarlyCancelStops,
         OutcomeFaithful, HandlerOnce
<1> QED
  BY <1>1, <1>2, <1>3

\* The closure gets a copy, or the receiver itself, before anybody lets go.
LEMMA StartInv == ASSUME ChainInv, NEW c \in Chains, Start(c) PROVE ChainInv'
<1> USE DEF ChainInv, TypeOK, Start, PassedOn
<1>1. Holding'
  BY DEF Holding
<1>2. Progress'
  BY DEF Progress, Holding
<1>3. Decided'
  BY DEF Decided
<1>4. EarlyIsCanceled'
  BY DEF EarlyIsCanceled
<1>5. OutcomeFaithful'
  BY DEF OutcomeFaithful, Holding
<1>6. NoOrphan'
  BY DEF NoOrphan, Holding
<1>7. TypeOK' /\ EarlyCancelStops' /\ HandlerOnce'
  BY DEF EarlyCancelStops, HandlerOnce
<1> QED
  BY <1>1, <1>2, <1>3, <1>4, <1>5, <1>6, <1>7

\* When the frame is the last holder the task is over, and it was thrown
\* away if no outcome is there: only then the promise is broken here.
LEMMA FrameEndsInv == ASSUME ChainInv, NEW c \in Chains, FrameEnds(c) PROVE ChainInv'
<1> USE DEF ChainInv, TypeOK, FrameEnds, Release, Elect
<1>1. TypeOK'
  BY DEF States
<1>2. Holding'
  BY DEF Holding
<1>3. Decided'
  BY DEF Decided
<1>4. EarlyIsCanceled'
  BY DEF EarlyIsCanceled
<1>5. OutcomeFaithful'
  BY DEF OutcomeFaithful, Holding, Progress, Decided
<1>6. NoOrphan'
  BY DEF NoOrphan, Holding
<1>7. HandlerOnce'
  BY DEF HandlerOnce, Decided
<1>8. Progress' /\ EarlyCancelStops'
  BY DEF Progress, EarlyCancelStops
<1> QED
  BY <1>1, <1>2, <1>3, <1>4, <1>5, <1>6, <1>7, <1>8

\* The owner cancels; before the task looked, no step has been run.
LEMMA CancelInv == ASSUME ChainInv, NEW c \in Chains, Cancel(c) PROVE ChainInv'
<1> USE DEF ChainInv, TypeOK, Cancel, cancel, Elect
<1>1. TypeOK'
  BY DEF States
<1>2. Decided'
  BY DEF Decided
<1>3. EarlyIsCanceled'
  BY DEF EarlyIsCanceled
<1>4. EarlyCancelStops'
  BY DEF EarlyCancelStops, Progress
<1>5. OutcomeFaithful'
  BY DEF OutcomeFaithful
<1>6. NoOrphan'
  BY DEF NoOrphan
<1>7. HandlerOnce'
  BY DEF HandlerOnce, Decided
<1>8. Holding' /\ Progress'
  BY DEF Holding, Progress
<1> QED
  BY <1>1, <1>2, <1>3, <1>4, <1>5, <1>6, <1>7, <1>8

\* The one look at is_canceled: a chain canceled early takes the exit.
LEMMA TaskBeginsInv == ASSUME ChainInv, NEW c \in Chains, TaskBegins(c) PROVE ChainInv'
<1> USE DEF ChainInv, TypeOK, TaskBegins, is_canceled
<1>1. Holding'
  BY DEF Holding
<1>2. Progress'
  BY DEF Progress
<1>3. Decided'
  BY DEF Decided
<1>4. EarlyIsCanceled'
  BY DEF EarlyIsCanceled
<1>5. OutcomeFaithful'
  BY DEF OutcomeFaithful
<1>6. NoOrphan'
  BY DEF NoOrphan
<1>7. TypeOK' /\ EarlyCancelStops' /\ HandlerOnce'
  BY DEF EarlyCancelStops, HandlerOnce
<1> QED
  BY <1>1, <1>2, <1>3, <1>4, <1>5, <1>6, <1>7

\* A chain whose steps run is not an early one, and has no value yet.
LEMMA StepReturnsInv == ASSUME ChainInv, NEW c \in Chains, StepReturns(c) PROVE ChainInv'
<1> USE DEF ChainInv, TypeOK, StepReturns
<1>1. TypeOK'
  OBVIOUS
<1>2. Progress'
  BY DEF Progress
<1>3. EarlyCancelStops'
  BY DEF EarlyCancelStops, EarlyIsCanceled
<1>4. OutcomeFaithful'
  BY DEF OutcomeFaithful, Progress
<1>5. Holding' /\ Decided' /\ EarlyIsCanceled'
       /\ NoOrphan' /\ HandlerOnce'
  BY DEF Holding, Decided, EarlyIsCanceled, NoOrphan, HandlerOnce
<1> QED
  BY <1>1, <1>2, <1>3, <1>4, <1>5

\* The step that throws is the last one reached.
LEMMA StepThrowsInv == ASSUME ChainInv, NEW c \in Chains, StepThrows(c) PROVE ChainInv'
<1> USE DEF ChainInv, TypeOK, StepThrows
<1>1. Holding'
  BY DEF Holding
<1>2. Progress'
  BY DEF Progress
<1>3. Decided'
  BY DEF Decided
<1>4. EarlyIsCanceled'
  BY DEF EarlyIsCanceled
<1>5. EarlyCancelStops'
  BY DEF EarlyCancelStops, EarlyIsCanceled
<1>6. OutcomeFaithful'
  BY DEF OutcomeFaithful, Progress
<1>7. NoOrphan'
  BY DEF NoOrphan
<1>8. TypeOK' /\ HandlerOnce'
  BY DEF HandlerOnce
<1> QED
  BY <1>1, <1>2, <1>3, <1>4, <1>5, <1>6, <1>7, <1>8

\* Every step has returned: the value is told, unless another outcome was
\* there first.
LEMMA CompleteInv == ASSUME ChainInv, NEW c \in Chains, Complete(c) PROVE ChainInv'
<1> USE DEF ChainInv, TypeOK, Complete, complete, Elect
<1>1. TypeOK'
  BY DEF States
<1>2. Holding'
  BY DEF Holding
<1>3. Progress'
  BY DEF Progress
<1>4. Decided'
  BY DEF Decided
<1>5. EarlyIsCanceled'
  BY DEF EarlyIsCanceled
<1>6. EarlyCancelStops'
  BY DEF EarlyCancelStops, EarlyIsCanceled
<1>7. OutcomeFaithful'
  BY DEF OutcomeFaithful, Progress
<1>8. NoOrphan'
  BY DEF NoOrphan
<1>9. HandlerOnce'
  BY DEF HandlerOnce, Decided
<1> QED
  BY <1>1, <1>2, <1>3, <1>4, <1>5, <1>6, <1>7, <1>8, <1>9

\* The exception is told, unless another outcome was there first.
LEMMA FailInv == ASSUME ChainInv, NEW c \in Chains, Fail(c) PROVE ChainInv'
<1> USE DEF ChainInv, TypeOK, Fail, fail, Elect
<1>1. TypeOK'
  BY DEF States
<1>2. Holding'
  BY DEF Holding
<1>3. Progress'
  BY DEF Progress
<1>4. Decided'
  BY DEF Decided
<1>5. EarlyIsCanceled'
  BY DEF EarlyIsCanceled
<1>6. OutcomeFaithful'
  BY DEF OutcomeFaithful, Progress
<1>7. NoOrphan'
  BY DEF NoOrphan
<1>8. HandlerOnce'
  BY DEF HandlerOnce, Decided
<1>9. EarlyCancelStops'
  BY DEF EarlyCancelStops
<1> QED
  BY <1>1, <1>2, <1>3, <1>4, <1>5, <1>6, <1>7, <1>8, <1>9

\* The closure goes after it was run: its promise has an outcome already.
LEMMA TaskEndsInv == ASSUME ChainInv, NEW c \in Chains, TaskEnds(c) PROVE ChainInv'
<1> USE DEF ChainInv, TypeOK, TaskEnds, Release, Elect
<1>1. TypeOK'
  BY DEF States
<1>2. Holding'
  BY DEF Holding
<1>3. Progress'
  BY DEF Progress
<1>4. Decided'
  BY DEF Decided
<1>5. EarlyIsCanceled'
  BY DEF EarlyIsCanceled
<1>6. OutcomeFaithful'
  BY DEF OutcomeFaithful, Decided
<1>7. NoOrphan'
  BY DEF NoOrphan, Holding
<1>8. HandlerOnce'
  BY DEF HandlerOnce, Decided
<1>9. EarlyCancelStops'
  BY DEF EarlyCancelStops
<1> QED
  BY <1>1, <1>2, <1>3, <1>4, <1>5, <1>6, <1>7, <1>8, <1>9

\* The pool throws the closure away: nobody has run a step.
LEMMA TaskDroppedInv == ASSUME ChainInv, NEW c \in Chains, TaskDropped(c) PROVE ChainInv'
<1> USE DEF ChainInv, TypeOK, TaskDropped, Release, Elect
<1>1. TypeOK'
  BY DEF States
<1>2. Holding'
  BY DEF Holding
<1>3. Progress'
  BY DEF Progress
<1>4. Decided'
  BY DEF Decided
<1>5. EarlyIsCanceled'
  BY DEF EarlyIsCanceled
<1>6. OutcomeFaithful'
  BY DEF OutcomeFaithful, Holding, Progress
<1>7. NoOrphan'
  BY DEF NoOrphan, Holding
<1>8. HandlerOnce'
  BY DEF HandlerOnce, Decided
<1>9. EarlyCancelStops'
  BY DEF EarlyCancelStops
<1> QED
  BY <1>1, <1>2, <1>3, <1>4, <1>5, <1>6, <1>7, <1>8, <1>9

\* The inductive invariant holds in every reachable state of any number of
\* chains.
THEOREM ChainInvariant == Spec => []ChainInv
<1>1. ChainInv /\ [Next]_vars => ChainInv'
  <2> SUFFICES ASSUME ChainInv, [Next]_vars PROVE ChainInv'
    OBVIOUS
  <2>1. CASE UNCHANGED vars
    BY <2>1 DEF vars, ChainInv, TypeOK, Holding, Progress, Decided,
       EarlyIsCanceled, EarlyCancelStops, OutcomeFaithful, NoOrphan,
       HandlerOnce
  <2>2. ASSUME NEW c \in Chains, CallerStep(c) PROVE ChainInv'
    BY <2>2, StartInv, FrameEndsInv DEF CallerStep
  <2>3. ASSUME NEW c \in Chains, TaskStep(c) PROVE ChainInv'
    BY <2>3, TaskBeginsInv, StepReturnsInv, StepThrowsInv, CompleteInv,
       FailInv, TaskEndsInv, TaskDroppedInv DEF TaskStep
  <2> QED
    BY <2>1, <2>2, <2>3, ConnectInv, CancelInv DEF Next
<1> QED
  BY InitInv, <1>1, PTL DEF Spec

\* Every variable of the chains keeps its type: no step is run past the last
\* one, and only the frame and the task ever hold a receiver.
THEOREM TypeCorrect == Spec => []TypeOK
<1>1. ChainInv => TypeOK
  BY DEF ChainInv
<1> QED
  BY ChainInvariant, <1>1, PTL

\* future::cancel before the closure looked at is_canceled: no step of the
\* chain is ever run, for chains of any length on any scheduler.
THEOREM CanceledEarlyStops == Spec => []EarlyCancelStops
<1>1. ChainInv => EarlyCancelStops
  BY DEF ChainInv
<1> QED
  BY ChainInvariant, <1>1, PTL

\* The receiver is told the truth: a value only if every invocable returned,
\* an error only from the last one reached, a broken promise only for a task
\* the scheduler threw away.
THEOREM ToldWhatHappened == Spec => []OutcomeFaithful
<1>1. ChainInv => OutcomeFaithful
  BY DEF ChainInv
<1> QED
  BY ChainInvariant, <1>1, PTL

\* The shared promise lives while the task can still complete it, and its
\* last holder leaves an outcome behind.
THEOREM NeverOrphaned == Spec => []NoOrphan
<1>1. ChainInv => NoOrphan
  BY DEF ChainInv
<1> QED
  BY ChainInvariant, <1>1, PTL

\* One handler of a callback_receiver at most, the one m_state names, and one
\* outcome of a promise.
THEOREM OneHandler == Spec => []HandlerOnce
<1>1. ChainInv => HandlerOnce
  BY DEF ChainInv
<1> QED
  BY ChainInvariant, <1>1, PTL
===========================================================================
