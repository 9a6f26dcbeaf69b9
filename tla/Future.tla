------------------------------- MODULE Future -------------------------------
(***************************************************************************)
(* promise, future and the shared_state between them (lib_shared/inc/jar/  *)
(* concurrency/future.hpp).                                                *)
(*                                                                         *)
(* Producers use the promise: set_value, set_exception, cancel, and, once  *)
(* none of them is inside a call, its destructor.  Every consumer owns a   *)
(* future of that promise (get_future may be called repeatedly) and calls  *)
(* wait, get and cancel on it.  All of them meet in one shared_state: an   *)
(* atomic m_state, whose compare_exchange elects the one outcome, m_data,  *)
(* which the elected call writes AFTER it has published m_state, and a     *)
(* condition variable it notifies without taking m_mutex.                  *)
(*                                                                         *)
(* Moving a Value is taken not to throw.                                   *)
(***************************************************************************)
EXTENDS Naturals, FiniteSets

CONSTANTS
  Producers, Consumers,
  Values, Errors,  \* what set_value and set_exception are given
  Monostate,       \* m_data before anything was stored
  Nullopt,         \* future_result(nullopt): canceled
  MovedFrom,       \* a value that a get() has moved out
  NoThread,
  MaxCalls         \* bound: calls a thread makes

Threads == Producers \cup Consumers

ASSUME FutureAssumption ==
  /\ Producers \cap Consumers = {}
  /\ NoThread \notin Threads
  /\ Values \cap Errors = {}
  /\ {Monostate, Nullopt, MovedFrom} \cap (Values \cup Errors) = {}
  /\ Monostate # Nullopt /\ Monostate # MovedFrom /\ Nullopt # MovedFrom
  /\ {"none", "broken_promise", "bad_variant_access"}
       \cap (Values \cup Errors \cup {Nullopt, MovedFrom}) = {}
  /\ MaxCalls \in Nat

VARIABLES
  m_state,
  m_data,
  m_mutex,
  m_condition,  \* the consumers asleep on the condition variable
  pc,
  want,         \* per thread: the outcome its call tries to set
  getting,      \* per thread: the call is get(), not wait()
  got,          \* per consumer: what its last get() gave
  alive,        \* the promise has not been destroyed
  decided,      \* history: the outcome the compare_exchange elected
  late,         \* history: consumers that fell asleep with m_state set
  calls

data == <<m_state, m_data>>
vars == <<m_state, m_data, m_mutex, m_condition, pc, want, getting, got,
          alive, decided, late, calls>>

States == {"init", "value", "error", "canceled", "broken"}

\* The outcomes a call can try to set: the state, and what goes in m_data.
Outcomes ==
  {<<"value", v>> : v \in Values} \cup {<<"error", e>> : e \in Errors}
    \cup {<<"canceled", Nullopt>>, <<"broken", Monostate>>}
NoOutcome == <<"init", Monostate>>

\* What get() gives: a future_result, a rethrown or thrown exception.
BrokenPromise == "broken_promise"
BadVariantAccess == "bad_variant_access"
SharedStateBroken == "shared_state_broken"
Results ==
  Values \cup Errors
    \cup {Nullopt, MovedFrom, BrokenPromise, BadVariantAccess, "none"}

WaitLabels ==
  {"wait_fast", "wait_lock", "wait_check", "wait_pred", "wait_block",
   "wait_wait"}
Labels ==
  WaitLabels \cup
  {"idle", "set_cas", "set_data", "set_notify", "get_result", "return"}
CriticalLabels == {"wait_check", "wait_pred", "wait_block"}

Goto(t, label) == pc' = [pc EXCEPT ![t] = label]

Init ==
  /\ m_state = "init" /\ m_data = Monostate
  /\ m_mutex = NoThread /\ m_condition = {}
  /\ pc = [t \in Threads |-> "idle"]
  /\ want = [t \in Threads |-> NoOutcome]
  /\ getting = [t \in Threads |-> FALSE]
  /\ got = [t \in Consumers |-> "none"]
  /\ alive = TRUE
  /\ decided = NoOutcome
  /\ late = {}
  /\ calls = [t \in Threads |-> 0]

---------------------------------------------------------------------------
(* Calls *)

Begin(t) ==
  /\ pc[t] = "idle" /\ calls[t] < MaxCalls
  /\ calls' = [calls EXCEPT ![t] = @ + 1]

\* A call that tries to set outcome o.
CallSet(t, o) ==
  /\ Begin(t)
  /\ want' = [want EXCEPT ![t] = o]
  /\ Goto(t, "set_cas")
  /\ UNCHANGED <<data, m_mutex, m_condition, getting, got, decided, late>>

\* promise::set_value, set_exception and cancel.
PromiseSet(t) ==
  /\ alive
  /\ \E o \in Outcomes \ {<<"broken", Monostate>>} : CallSet(t, o)
  /\ UNCHANGED alive

\* A mutant: the destructor drops the shared state without breaking it.
PromiseDestroySilent(t) ==
  /\ alive /\ \A u \in Producers : pc[u] = "idle"
  /\ Begin(t)
  /\ alive' = FALSE
  /\ UNCHANGED <<data, m_mutex, m_condition, pc, want, getting, got, decided,
                 late>>

\* ~promise(): whoever drops the promise last; no call on it is in progress.
PromiseDestroy(t) ==
  /\ alive /\ \A u \in Producers : pc[u] = "idle"
  /\ CallSet(t, <<"broken", Monostate>>)
  /\ alive' = FALSE

FutureCancel(t) ==
  CallSet(t, <<"canceled", Nullopt>>) /\ UNCHANGED alive

\* future::wait and future::get.
CallWait(t, get) ==
  /\ Begin(t)
  /\ getting' = [getting EXCEPT ![t] = get]
  /\ got' = [got EXCEPT ![t] = "none"]
  /\ Goto(t, "wait_fast")
  /\ UNCHANGED <<data, m_mutex, m_condition, want, alive, decided, late>>

Return(t) ==
  /\ pc[t] = "return"
  /\ Goto(t, "idle")
  /\ UNCHANGED <<data, m_mutex, m_condition, want, getting, got, alive,
                 decided, late, calls>>

---------------------------------------------------------------------------
(* set_value, set_exception, cancel and broken *)

\* A mutant: cancel() stores its state instead of exchanging it.
CompareExchangeCancels(t) ==
  /\ pc[t] = "set_cas"
  /\ IF m_state = "init" \/ want[t][1] = "canceled"
     THEN /\ m_state' = want[t][1]
          /\ decided' = want[t]
          /\ Goto(t, IF want[t][1] = "broken" THEN "set_notify" ELSE "set_data")
     ELSE Goto(t, "return") /\ UNCHANGED <<m_state, decided>>
  /\ UNCHANGED <<m_data, m_mutex, m_condition, want, getting, got, alive,
                 late, calls>>

\* compare_exchange_strong(init, ...): the first caller is elected, every
\* later call has no effect.  broken() stores no data.
CompareExchange(t) ==
  /\ pc[t] = "set_cas"
  /\ IF m_state = "init"
     THEN /\ m_state' = want[t][1]
          /\ decided' = want[t]
          /\ Goto(t, IF want[t][1] = "broken" THEN "set_notify" ELSE "set_data")
     ELSE Goto(t, "return") /\ UNCHANGED <<m_state, decided>>
  /\ UNCHANGED <<m_data, m_mutex, m_condition, want, getting, got, alive,
                 late, calls>>

\* A mutant: the error path forgets the notification.
SetDataQuietError(t) ==
  /\ pc[t] = "set_data"
  /\ m_data' = want[t][2]
  /\ Goto(t, IF m_state = "error" THEN "return" ELSE "set_notify")
  /\ UNCHANGED <<m_state, m_mutex, m_condition, want, getting, got, alive,
                 decided, late, calls>>

\* m_data is written when m_state is already visible to readers.
SetData(t) ==
  /\ pc[t] = "set_data"
  /\ m_data' = want[t][2]
  /\ Goto(t, "set_notify")
  /\ UNCHANGED <<m_state, m_mutex, m_condition, want, getting, got, alive,
                 decided, late, calls>>

\* notify_one(), without m_mutex.
SetNotify(t) ==
  /\ pc[t] = "set_notify"
  /\ \/ m_condition = {} /\ UNCHANGED m_condition
     \/ \E w \in m_condition : m_condition' = m_condition \ {w}
  /\ Goto(t, "return")
  /\ UNCHANGED <<data, m_mutex, want, getting, got, alive, decided, late,
                 calls>>

---------------------------------------------------------------------------
(* wait *)

is_ready == m_state # "init"

\* Where wait() returns to.
AfterWait(t) == IF getting[t] THEN "get_result" ELSE "return"

\* A mutant: the result of the first test decides the wrong way.
WaitFastInverted(t) ==
  /\ pc[t] = "wait_fast"
  /\ Goto(t, IF is_ready THEN "wait_lock" ELSE AfterWait(t))
  /\ UNCHANGED <<data, m_mutex, m_condition, want, getting, got, alive,
                 decided, late, calls>>

\* The test before the lock.
WaitFast(t) ==
  /\ pc[t] = "wait_fast"
  /\ Goto(t, IF is_ready THEN AfterWait(t) ELSE "wait_lock")
  /\ UNCHANGED <<data, m_mutex, m_condition, want, getting, got, alive,
                 decided, late, calls>>

WaitLock(t) ==
  /\ pc[t] = "wait_lock" \/ (pc[t] = "wait_wait" /\ t \notin m_condition)
  /\ m_mutex = NoThread
  /\ m_mutex' = t
  /\ Goto(t, IF pc[t] = "wait_lock" THEN "wait_check" ELSE "wait_pred")
  /\ UNCHANGED <<data, m_condition, want, getting, got, alive, decided, late,
                 calls>>

\* The test under the lock, and the predicate of the wait.
WaitTest(t) ==
  /\ pc[t] \in {"wait_check", "wait_pred"}
  /\ IF is_ready
     THEN Goto(t, AfterWait(t)) /\ m_mutex' = NoThread
     ELSE /\ Goto(t, IF pc[t] = "wait_check" THEN "wait_pred" ELSE "wait_block")
          /\ UNCHANGED m_mutex
  /\ UNCHANGED <<data, m_condition, want, getting, got, alive, decided, late,
                 calls>>

\* Going to sleep releases the mutex.  By then m_state may be set.
WaitBlock(t) ==
  /\ pc[t] = "wait_block"
  /\ m_condition' = m_condition \cup {t}
  /\ m_mutex' = NoThread
  /\ late' = IF is_ready THEN late \cup {t} ELSE late
  /\ Goto(t, "wait_wait")
  /\ UNCHANGED <<data, want, getting, got, alive, decided, calls>>

\* condition_variable::wait may return without a notification.
SpuriousWakeup(t) ==
  /\ t \in m_condition
  /\ m_condition' = m_condition \ {t}
  /\ UNCHANGED <<data, m_mutex, pc, want, getting, got, alive, decided, late,
                 calls>>

---------------------------------------------------------------------------
(* get *)

\* What the switch on m_state makes of m_data; std::get throws when m_data
\* does not hold the alternative.
ResultOf(state, d) ==
  CASE state \in {"value", "canceled"} ->
         IF d \in Values \cup {Nullopt, MovedFrom} THEN d ELSE BadVariantAccess
    [] state = "error" -> IF d \in Errors THEN d ELSE BadVariantAccess
    [] state = "broken" -> BrokenPromise
    [] OTHER -> SharedStateBroken

\* A mutant: an exception is moved out as well.
GetResultMovesError(t) ==
  /\ pc[t] = "get_result"
  /\ got' = [got EXCEPT ![t] = ResultOf(m_state, m_data)]
  /\ m_data' = IF m_data \in Values \cup Errors THEN MovedFrom ELSE m_data
  /\ Goto(t, "return")
  /\ UNCHANGED <<m_state, m_mutex, m_condition, want, getting, alive, decided,
                 late, calls>>

\* The result is moved out: a value is left moved-from.
GetResult(t) ==
  /\ pc[t] = "get_result"
  /\ got' = [got EXCEPT ![t] = ResultOf(m_state, m_data)]
  /\ m_data' = IF m_state = "value" /\ m_data \in Values
               THEN MovedFrom ELSE m_data
  /\ Goto(t, "return")
  /\ UNCHANGED <<m_state, m_mutex, m_condition, want, getting, alive, decided,
                 late, calls>>

---------------------------------------------------------------------------
(* The specification *)

Call ==
  \/ \E t \in Producers : PromiseSet(t) \/ PromiseDestroy(t)
  \/ \E t \in Consumers :
       FutureCancel(t) \/ \E get \in BOOLEAN : CallWait(t, get)

Step(t) ==
  \/ CompareExchange(t) \/ SetData(t) \/ SetNotify(t)
  \/ WaitFast(t) \/ WaitLock(t) \/ WaitTest(t) \/ WaitBlock(t)
  \/ GetResult(t) \/ Return(t)

Next == Call \/ \E t \in Threads : Step(t) \/ SpuriousWakeup(t)

Spec == Init /\ [][Next]_vars

\* Every thread is eventually scheduled and spurious wake-ups do not go on
\* for ever; nothing is assumed of callers.
FairSpec ==
  /\ Spec
  /\ \A t \in Threads : WF_vars(Step(t))
  /\ <>[][\A t \in Threads : ~SpuriousWakeup(t)]_vars

---------------------------------------------------------------------------
(* Properties *)

\* Type invariant: in particular "shared_state_broken" is never a result.
TypeOK ==
  /\ m_state \in States
  /\ m_data \in Values \cup Errors \cup {Monostate, Nullopt, MovedFrom}
  /\ m_mutex \in Threads \cup {NoThread}
  /\ m_condition \subseteq Threads
  /\ pc \in [Threads -> Labels]
  /\ want \in [Threads -> Outcomes \cup {NoOutcome}]
  /\ getting \in [Threads -> BOOLEAN]
  /\ got \in [Consumers -> Results]
  /\ alive \in BOOLEAN
  /\ decided \in Outcomes \cup {NoOutcome}
  /\ late \subseteq Threads
  /\ calls \in [Threads -> 0..MaxCalls]

\* The elected call is the only one that will still write m_data or notify.
SoleWriter ==
  /\ \A t, u \in Threads :
       pc[t] \in {"set_data", "set_notify"}
         /\ pc[u] \in {"set_data", "set_notify"} => t = u
  /\ \A t \in Threads :
       pc[t] \in {"set_data", "set_notify"} => want[t] = decided

\* m_data belongs to the elected outcome: it is what that call was given,
\* or a value some get() has moved out, or has not been stored yet.
DataBelongs ==
  /\ m_state = decided[1]
  /\ m_data = Monostate \/ m_data = decided[2]
       \/ (m_data = MovedFrom /\ m_state = "value")
  /\ m_data = Monostate /\ m_state \notin {"init", "broken"} =>
       \E t \in Threads : pc[t] = "set_data"

\* Whatever set, cancel and destruction race with it, a get() that gives an
\* outcome gives the one elected outcome, so two futures never disagree.
GetAgrees ==
  \A t \in Consumers :
    /\ got[t] \in Values \cup Errors \cup {Nullopt} => got[t] = decided[2]
    /\ got[t] = BrokenPromise => decided[1] = "broken"

\* get() reaches its switch only when the outcome has been elected: no
\* wake-up, spurious or stale, lets it through earlier.
GetAfterReady == \A t \in Threads : pc[t] = "get_result" => is_ready

\* A promise never ends silently: once its destructor has run, some outcome
\* has been elected.
PromiseKept ==
  ~alive /\ (\A t \in Producers : pc[t] = "idle") => is_ready

\* What the calls that still have to set something know.
SettersPending ==
  /\ \A t \in Threads : pc[t] = "set_cas" => want[t] \in Outcomes
  /\ \A t \in Threads :
       pc[t] \in {"set_data", "set_notify"} => is_ready
  /\ \A t \in Threads :
       pc[t] = "set_data" => m_data = Monostate /\ m_state # "broken"
  /\ ~alive /\ ~is_ready => \E t \in Producers : pc[t] = "set_cas"

\* The inductive invariant behind the theorems of FutureProofs.
FutureInv ==
  TypeOK /\ SoleWriter /\ DataBelongs /\ GetAgrees /\ GetAfterReady
    /\ SettersPending

\* The elected outcome is final.
StateFinal == [][is_ready => UNCHANGED <<m_state, decided>>]_vars

\* The unlocked notification misses no single consumer that was asleep when
\* the outcome was elected.
SleeperAnnounced ==
  is_ready /\ (m_condition \ late) # {} =>
    \E t \in Threads : pc[t] \in {"set_data", "set_notify"}

\* A single consumer asleep when the outcome is elected returns.
SleeperReleased ==
  \A t \in Consumers :
    (is_ready /\ t \in m_condition \ late) ~> (pc[t] \in {"return", "idle"})

\* wait() and get() return once an outcome has been elected.
WaitersReleased ==
  \A t \in Consumers :
    (is_ready /\ pc[t] \in WaitLabels) ~> (pc[t] \in {"return", "idle"})

\* get() of the only future gives the value, the exception, the
\* cancellation or the broken promise, not an error of the variant.
GetDelivers == \A t \in Consumers : got[t] # BadVariantAccess
===========================================================================
