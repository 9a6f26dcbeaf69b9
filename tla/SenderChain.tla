---------------------------- MODULE SenderChain ----------------------------
(***************************************************************************)
(* wait(then(... then(schedule(pool), f1) ..., fk)) and start(...): the    *)
(* senders of lib_shared/inc/jar/concurrency (schedule.hpp, then.hpp,      *)
(* details/sender_adapter.hpp) connected to a value_receiver, run as one   *)
(* task of the pool.  The chains in Callbacks are connected to a           *)
(* details/callback_receiver instead and run by some other scheduler, as   *)
(* the pool copies its tasks and that receiver cannot be copied.           *)
(*                                                                         *)
(* Every copy of the value_receiver shares the promise; the last copy to   *)
(* go breaks it.  Copies live in the frame of wait() or start() and in the *)
(* closure given to the scheduler.  The promise's outcome is one step      *)
(* here, as module Future justifies (StateFinal); the pool runs the task   *)
(* once or throws it away, as module ThreadPool justifies (ExactlyOnce).   *)
(***************************************************************************)
EXTENDS Naturals, FiniteSets

CONSTANTS
  Chains,    \* independent chains, each with its receiver
  Callbacks, \* the chains with a callback_receiver
  Direct,    \* those of a sender that completes without asking is_canceled
  Length,    \* how many `then` steps a chain has
  MayThrow   \* the steps that may throw; Length + 1 is the complete handler

ASSUME ChainAssumption ==
  /\ Length \in Nat \ {0}
  /\ MayThrow \subseteq 1..(Length + 1)
  /\ Direct \subseteq Callbacks /\ Callbacks \subseteq Chains

VARIABLES
  caller,    \* per chain: where wait() or start() is
  closure,   \* per chain: where the scheduled task is
  next,      \* per chain: the step to run next, and so what has been run
  threw,     \* per chain: the step that threw, 0 for none
  holders,   \* per chain: who holds the receiver or copies of it
  outcome,   \* per chain: m_state of the promise or of the callback_receiver
  called,    \* history, per chain: the handlers entered, for a promise the
             \* outcomes it took
  early      \* history: canceled before the task looked

vars == <<caller, closure, next, threw, holders, outcome, called, early>>

States == {"init", "value", "error", "canceled", "broken"}

Init ==
  /\ caller = [c \in Chains |-> "idle"]
  /\ closure = [c \in Chains |-> "none"]
  /\ next = [c \in Chains |-> 1]
  /\ threw = [c \in Chains |-> 0]
  /\ holders = [c \in Chains |-> {}]
  /\ outcome = [c \in Chains |-> "init"]
  /\ called = [c \in Chains |-> {}]
  /\ early = {}

\* The compare_exchange of set_value, set_exception, cancel and broken: the
\* first one decides.  The callback_receiver then enters that handler.
Elect(c, state) ==
  IF outcome[c] = "init"
  THEN /\ outcome' = [outcome EXCEPT ![c] = state]
       /\ called' = [called EXCEPT ![c] = @ \cup {state}]
  ELSE UNCHANGED <<outcome, called>>

\* The receiver, of either kind.
complete(c) == Elect(c, "value")
fail(c) == Elect(c, "error")
cancel(c) == Elect(c, "canceled")

\* A callback_receiver takes every state but failed for canceled.
is_canceled(c) ==
  IF c \in Callbacks THEN outcome[c] # "error" ELSE outcome[c] = "canceled"

\* A mutant: the promise goes without breaking the shared state.
ReleaseSilently(c, h) ==
  /\ holders' = [holders EXCEPT ![c] = @ \ {h}]
  /\ UNCHANGED <<outcome, called>>

\* A copy of the value_receiver goes; with the last one ~promise() runs.  A
\* callback_receiver goes silently.
Release(c, h) ==
  /\ holders' = [holders EXCEPT ![c] = @ \ {h}]
  /\ IF holders[c] \subseteq {h} /\ c \notin Callbacks
     THEN Elect(c, "broken")
     ELSE UNCHANGED <<outcome, called>>

---------------------------------------------------------------------------
(* The caller: wait(sender) or start(sender) *)

\* A mutant: a receiver that is moved starts anew.
ConnectResets(c) ==
  /\ caller[c] = "idle"
  /\ caller' = [caller EXCEPT ![c] = "connected"]
  /\ holders' = [holders EXCEPT ![c] = {"frame"}]
  /\ outcome' = [outcome EXCEPT ![c] = "init"]
  /\ UNCHANGED <<closure, next, threw, called, early>>

\* value_receiver, get_future and connect: the adapters are nested, and a
\* callback_receiver is moved into them with its state.
Connect(c) ==
  /\ caller[c] = "idle"
  /\ caller' = [caller EXCEPT ![c] = "connected"]
  /\ holders' = [holders EXCEPT ![c] = {"frame"}]
  /\ UNCHANGED <<closure, next, threw, outcome, called, early>>

\* The receiver passes on to the task: value_receiver has no move, so the
\* frame keeps its copy; callback_receiver has no copy.
PassedOn(c) == IF c \in Callbacks THEN {"task"} ELSE holders[c] \cup {"task"}

\* A mutant: the closure refers to the receiver in the frame.
StartByReference(c) ==
  /\ caller[c] = "connected"
  /\ caller' = [caller EXCEPT ![c] = "started"]
  /\ closure' = [closure EXCEPT ![c] = "queued"]
  /\ UNCHANGED <<next, threw, holders, outcome, called, early>>

\* state.start(): the closure gets the receiver and is scheduled.
Start(c) ==
  /\ caller[c] = "connected"
  /\ caller' = [caller EXCEPT ![c] = "started"]
  /\ closure' = [closure EXCEPT ![c] = "queued"]
  /\ holders' = [holders EXCEPT ![c] = PassedOn(c)]
  /\ UNCHANGED <<next, threw, outcome, called, early>>

\* wait() or start() returns; its copies go.
FrameEnds(c) ==
  /\ caller[c] = "started"
  /\ caller' = [caller EXCEPT ![c] = "returned"]
  /\ Release(c, "frame")
  /\ UNCHANGED <<closure, next, threw, early>>

\* The owner of the future cancels, at any time after get_future(); the
\* owner of a callback_receiver as long as it has not moved it away.
Cancel(c) ==
  /\ (c \in Callbacks) <=> (caller[c] = "idle")
  /\ outcome[c] = "init"
  /\ cancel(c)
  /\ early' = IF closure[c] \in {"none", "queued"} THEN early \cup {c} ELSE early
  /\ UNCHANGED <<caller, closure, next, threw, holders>>

---------------------------------------------------------------------------
(* The task on the pool *)

\* A mutant: the task does not ask for cancellation.
TaskBeginsBlindly(c) ==
  /\ closure[c] = "queued"
  /\ closure' = [closure EXCEPT ![c] = "running"]
  /\ UNCHANGED <<caller, next, threw, holders, outcome, called, early>>

\* The closure looks for cancellation, once.
TaskBegins(c) ==
  /\ closure[c] = "queued"
  /\ closure' = [closure EXCEPT ![c] =
                   IF is_canceled(c) /\ c \notin Direct THEN "ending"
                   ELSE "running"]
  /\ UNCHANGED <<caller, next, threw, holders, outcome, called, early>>

\* A mutant: a step is run again after the last one.
StepReturnsPastEnd(c) ==
  /\ closure[c] = "running" /\ next[c] <= Length + 1
  /\ next' = [next EXCEPT ![c] = @ + 1]
  /\ UNCHANGED <<caller, closure, threw, holders, outcome, called, early>>

\* receiver_adapter::complete: the invocable of the next step returns.
StepReturns(c) ==
  /\ closure[c] = "running" /\ next[c] <= Length
  /\ next' = [next EXCEPT ![c] = @ + 1]
  /\ UNCHANGED <<caller, closure, threw, holders, outcome, called, early>>

\* A mutant: the exception of a step is not passed on.
StepThrowsUncaught(c) ==
  /\ closure[c] = "running" /\ next[c] \in MayThrow /\ next[c] <= Length
  /\ threw' = [threw EXCEPT ![c] = next[c]]
  /\ closure' = [closure EXCEPT ![c] = "ending"]
  /\ UNCHANGED <<caller, next, holders, outcome, called, early>>

\* ... or throws, which unwinds the nested adapters to schedule_state.
StepThrows(c) ==
  /\ closure[c] = "running" /\ next[c] \in MayThrow /\ next[c] <= Length
  /\ threw' = [threw EXCEPT ![c] = next[c]]
  /\ closure' = [closure EXCEPT ![c] = "failing"]
  /\ UNCHANGED <<caller, next, holders, outcome, called, early>>

\* The last adapter completes the receiver: set_value, or the complete
\* handler, which may throw if it is entered.
Complete(c) ==
  /\ closure[c] = "running" /\ next[c] = Length + 1
  /\ complete(c)
  /\ \/ closure' = [closure EXCEPT ![c] = "ending"] /\ UNCHANGED threw
     \/ /\ c \in Callbacks /\ outcome[c] = "init" /\ Length + 1 \in MayThrow
        /\ closure' = [closure EXCEPT ![c] = "failing"]
        /\ threw' = [threw EXCEPT ![c] = Length + 1]
  /\ UNCHANGED <<caller, next, holders, early>>

\* The catch clause: fail(current_exception()), set_exception.
Fail(c) ==
  /\ closure[c] = "failing"
  /\ fail(c)
  /\ closure' = [closure EXCEPT ![c] = "ending"]
  /\ UNCHANGED <<caller, next, threw, holders, early>>

\* The worker destroys the closure.
TaskEnds(c) ==
  /\ closure[c] = "ending"
  /\ closure' = [closure EXCEPT ![c] = "done"]
  /\ Release(c, "task")
  /\ UNCHANGED <<caller, next, threw, early>>

\* The pool goes and throws the queued closure away.
TaskDropped(c) ==
  /\ closure[c] = "queued"
  /\ closure' = [closure EXCEPT ![c] = "dropped"]
  /\ Release(c, "task")
  /\ UNCHANGED <<caller, next, threw, early>>

---------------------------------------------------------------------------
(* The specification *)

TaskStep(c) ==
  TaskBegins(c) \/ StepReturns(c) \/ StepThrows(c) \/ Complete(c) \/ Fail(c)
    \/ TaskEnds(c) \/ TaskDropped(c)

CallerStep(c) == Start(c) \/ FrameEnds(c)

Next == \E c \in Chains : Connect(c) \/ CallerStep(c) \/ Cancel(c) \/ TaskStep(c)

Spec == Init /\ [][Next]_vars

\* A caller inside wait() goes on, and the pool runs or drops every task
\* (TasksServed and JoinReturns of ThreadPool).  Nobody has to cancel.
FairSpec ==
  Spec /\ \A c \in Chains : WF_vars(TaskStep(c)) /\ WF_vars(CallerStep(c))

---------------------------------------------------------------------------
(* Properties *)

\* Type invariant.
TypeOK ==
  /\ caller \in [Chains -> {"idle", "connected", "started", "returned"}]
  /\ closure \in [Chains -> {"none", "queued", "running", "failing", "ending",
                             "done", "dropped"}]
  /\ next \in [Chains -> 1..(Length + 1)]
  /\ threw \in [Chains -> 0..(Length + 1)]
  /\ holders \in [Chains -> SUBSET {"frame", "task"}]
  /\ outcome \in [Chains -> States]
  /\ called \in [Chains -> SUBSET States]
  /\ early \subseteq Chains

\* A chain canceled before its task looked runs none of its steps.
EarlyCancelStops == \A c \in early \ Direct : next[c] = 1 /\ threw[c] = 0

\* The receiver is told what happened: a value only when every step
\* returned, an error only from a step that threw, and then no later step
\* ran, a broken promise only when the pool threw the task away before any
\* step.
OutcomeFaithful ==
  \A c \in Chains :
    /\ outcome[c] = "value" => next[c] = Length + 1 /\ threw[c] \notin 1..Length
    /\ outcome[c] = "error" => threw[c] = next[c]
    /\ outcome[c] = "broken" => closure[c] = "dropped" /\ next[c] = 1

\* The promise stays alive as long as anybody can still complete it, and no
\* longer: once nobody holds a receiver, an outcome is there.
NoOrphan ==
  \A c \in Chains :
    /\ closure[c] \in {"queued", "running", "failing", "ending"} =>
         "task" \in holders[c]
    /\ c \notin Callbacks /\ caller[c] # "idle" /\ holders[c] = {} =>
         outcome[c] # "init"

\* At most one handler of a callback_receiver is ever entered, and a promise
\* takes one outcome, the one the state names: not the complete handler of a
\* chain canceled before it was connected, not the error handler when the
\* complete handler throws.
HandlerOnce == \A c \in Chains : called[c] \subseteq {outcome[c]}

\* A chain whose task was run has called one of the three handlers.
HandlerCalled ==
  \A c \in Callbacks : closure[c] = "done" => called[c] # {}

\* The future of every started chain becomes ready, whether its task is run,
\* throws, is canceled or is dropped with the pool.
FutureReady ==
  \A c \in Chains \ Callbacks :
    (caller[c] = "started") ~> (outcome[c] # "init")
===========================================================================
