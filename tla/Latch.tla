------------------------------- MODULE Latch -------------------------------
(***************************************************************************)
(* jar::concurrency::latch (lib_shared/src/jar/concurrency/latch.cpp): an  *)
(* atomic counter that count_down decrements without taking m_mutex, and   *)
(* a condition variable on which wait sleeps until the counter is zero.    *)
(*                                                                         *)
(* count_down is three steps, the atomic subtraction, a second read of the *)
(* counter and the notification; any step of another thread may come in    *)
(* between, also between a waiter's test of the counter and its sleep.     *)
(***************************************************************************)
EXTENDS Integers, FiniteSets

CONSTANTS
  Threads,
  NoThread,   \* the mutex is free
  Expected,   \* the constructor's argument
  Modulus,    \* size_t counts modulo this number
  Counts,     \* arguments of count_down and arrive_and_wait
  Budget,     \* what all callers together may count down
  MaxCalls    \* bound: calls a thread makes

\* Budget <= Expected is the contract of a latch: nobody counts it down
\* below zero.  The code does not check it.
ASSUME LatchAssumption ==
  /\ NoThread \notin Threads
  /\ Expected \in Nat /\ Modulus \in Nat /\ Expected < Modulus
  /\ Counts \subseteq Nat
  /\ Budget \in Nat /\ Budget <= Expected
  /\ MaxCalls \in Nat

VARIABLES
  m_expected,
  m_mutex,
  m_condition,   \* the threads asleep on the condition variable
  pc,
  stays,         \* per thread: the call is arrive_and_wait, wait() follows
  counted,       \* what has been counted down so far
  late,          \* threads that fell asleep after the counter became zero
  calls

vars == <<m_expected, m_mutex, m_condition, pc, stays, counted, late, calls>>

WaitLabels == {"wait_lock", "wait_check", "wait_pred", "wait_block", "wait_wait"}
Labels ==
  WaitLabels \cup {"idle", "cd_check", "cd_notify", "wait_return", "return"}
CriticalLabels == {"wait_check", "wait_pred", "wait_block"}

Goto(t, label) == pc' = [pc EXCEPT ![t] = label]

\* A call starts.
Begin(t) ==
  /\ pc[t] = "idle" /\ calls[t] < MaxCalls
  /\ calls' = [calls EXCEPT ![t] = @ + 1]

Init ==
  /\ m_expected = Expected
  /\ m_mutex = NoThread
  /\ m_condition = {}
  /\ pc = [t \in Threads |-> "idle"]
  /\ stays = [t \in Threads |-> FALSE]
  /\ counted = 0
  /\ late = {}
  /\ calls = [t \in Threads |-> 0]

---------------------------------------------------------------------------
(* count_down(n), and the first half of arrive_and_wait(n) *)

\* Unsigned subtraction wraps around.
Minus(a, n) == IF n <= a THEN a - n ELSE a + Modulus - n

\* A mutant: a call counts one too many.
SubtractOneMore(t, n, arrive) ==
  /\ Begin(t)
  /\ counted + n <= Budget
  /\ m_expected' = Minus(m_expected, n + 1)
  /\ counted' = counted + n
  /\ stays' = [stays EXCEPT ![t] = arrive]
  /\ Goto(t, "cd_check")
  /\ UNCHANGED <<m_mutex, m_condition, late>>

\* m_expected -= n, one atomic operation and the first of the call.
Subtract(t, n, arrive) ==
  /\ Begin(t)
  /\ counted + n <= Budget
  /\ m_expected' = Minus(m_expected, n)
  /\ counted' = counted + n
  /\ stays' = [stays EXCEPT ![t] = arrive]
  /\ Goto(t, "cd_check")
  /\ UNCHANGED <<m_mutex, m_condition, late>>

\* Where count_down returns to.
AfterCount(t) == IF stays[t] THEN "wait_lock" ELSE "return"

\* A mutant: notifies when the value before the subtraction was one.
CheckZeroOld(t) ==
  /\ pc[t] = "cd_check"
  /\ Goto(t, IF m_expected = 1 THEN "cd_notify" ELSE AfterCount(t))
  /\ UNCHANGED <<m_expected, m_mutex, m_condition, stays, counted, late, calls>>

\* The counter is read again; it may have moved since the subtraction.
CheckZero(t) ==
  /\ pc[t] = "cd_check"
  /\ Goto(t, IF m_expected = 0 THEN "cd_notify" ELSE AfterCount(t))
  /\ UNCHANGED <<m_expected, m_mutex, m_condition, stays, counted, late, calls>>

\* A mutant: notify_one where every waiter has to leave.
NotifyOnlyOne(t) ==
  /\ pc[t] = "cd_notify"
  /\ \/ m_condition = {} /\ UNCHANGED m_condition
     \/ \E w \in m_condition : m_condition' = m_condition \ {w}
  /\ Goto(t, AfterCount(t))
  /\ UNCHANGED <<m_expected, m_mutex, stays, counted, late, calls>>

\* notify_all(), without m_mutex.
NotifyAll(t) ==
  /\ pc[t] = "cd_notify"
  /\ m_condition' = {}
  /\ Goto(t, AfterCount(t))
  /\ UNCHANGED <<m_expected, m_mutex, stays, counted, late, calls>>

---------------------------------------------------------------------------
(* wait(), and the second half of arrive_and_wait(n) *)

CallWait(t) ==
  /\ Begin(t)
  /\ Goto(t, "wait_lock")
  /\ UNCHANGED <<m_expected, m_mutex, m_condition, stays, counted, late>>

WaitLock(t) ==
  /\ pc[t] = "wait_lock" \/ (pc[t] = "wait_wait" /\ t \notin m_condition)
  /\ m_mutex = NoThread
  /\ m_mutex' = t
  /\ Goto(t, IF pc[t] = "wait_lock" THEN "wait_check" ELSE "wait_pred")
  /\ UNCHANGED <<m_expected, m_condition, stays, counted, late, calls>>

\* A mutant: the wait ends one count early.
WaitTestEarly(t) ==
  /\ pc[t] \in {"wait_check", "wait_pred"}
  /\ IF m_expected <= 1
     THEN Goto(t, "wait_return") /\ m_mutex' = NoThread
     ELSE /\ Goto(t, IF pc[t] = "wait_check" THEN "wait_pred" ELSE "wait_block")
          /\ UNCHANGED m_mutex
  /\ UNCHANGED <<m_expected, m_condition, stays, counted, late, calls>>

\* The test before the wait, and the predicate of the wait: both read the
\* counter; zero releases the mutex and returns.
WaitTest(t) ==
  /\ pc[t] \in {"wait_check", "wait_pred"}
  /\ IF m_expected = 0
     THEN Goto(t, "wait_return") /\ m_mutex' = NoThread
     ELSE /\ Goto(t, IF pc[t] = "wait_check" THEN "wait_pred" ELSE "wait_block")
          /\ UNCHANGED m_mutex
  /\ UNCHANGED <<m_expected, m_condition, stays, counted, late, calls>>

\* Going to sleep releases the mutex.  By then the counter may be zero.
WaitBlock(t) ==
  /\ pc[t] = "wait_block"
  /\ m_condition' = m_condition \cup {t}
  /\ m_mutex' = NoThread
  /\ late' = IF m_expected = 0 THEN late \cup {t} ELSE late
  /\ Goto(t, "wait_wait")
  /\ UNCHANGED <<m_expected, stays, counted, calls>>

\* condition_variable::wait may return without a notification.
SpuriousWakeup(t) ==
  /\ t \in m_condition
  /\ m_condition' = m_condition \ {t}
  /\ UNCHANGED <<m_expected, m_mutex, pc, stays, counted, late, calls>>

Return(t) ==
  /\ pc[t] \in {"return", "wait_return"}
  /\ Goto(t, "idle")
  /\ stays' = [stays EXCEPT ![t] = FALSE]
  /\ UNCHANGED <<m_expected, m_mutex, m_condition, counted, late, calls>>

---------------------------------------------------------------------------
(* The specification *)

Call(t) ==
  CallWait(t) \/ \E n \in Counts, arrive \in BOOLEAN : Subtract(t, n, arrive)

Step(t) ==
  CheckZero(t) \/ NotifyAll(t) \/ WaitLock(t) \/ WaitTest(t) \/ WaitBlock(t)
    \/ Return(t)

Next == \E t \in Threads : Call(t) \/ Step(t) \/ SpuriousWakeup(t)

Spec == Init /\ [][Next]_vars

\* Every thread is eventually scheduled and spurious wake-ups do not go on
\* for ever; nothing is assumed of callers.
FairSpec ==
  /\ Spec
  /\ \A t \in Threads : WF_vars(Step(t))
  /\ <>[][\A t \in Threads : ~SpuriousWakeup(t)]_vars

---------------------------------------------------------------------------
(* Properties *)

\* Type invariant: the counter never wraps below zero while the callers keep
\* the contract.
TypeOK ==
  /\ m_expected \in 0..Expected
  /\ m_mutex \in Threads \cup {NoThread}
  /\ m_condition \subseteq Threads
  /\ pc \in [Threads -> Labels]
  /\ stays \in [Threads -> BOOLEAN]
  /\ counted \in 0..Budget
  /\ late \subseteq Threads
  /\ calls \in [Threads -> 0..MaxCalls]

\* try_wait(): what a caller polling the latch is told.
TryWait == m_expected = 0

\* wait() and arrive_and_wait() return only when all Expected counts have
\* been made, whatever wake-ups, spurious ones too, came before.
NoEarlyReturn ==
  \A t \in Threads : pc[t] = "wait_return" => counted = Expected

\* The unlocked notification misses nobody who was asleep when the counter
\* became zero: while such a sleeper is left, some count_down is still to
\* read the zero and to notify.  (The threads in `late` are the exception.)
SleepersAnnounced ==
  m_expected = 0 /\ (m_condition \ late) # {} =>
    \E t \in Threads : pc[t] \in {"cd_check", "cd_notify"}

\* The counter is what is left to count.
Accounted == m_expected = Expected - counted

\* The inductive invariant behind the theorems of LatchProofs.
LatchInv == TypeOK /\ Accounted /\ NoEarlyReturn /\ SleepersAnnounced

\* An open latch stays open: what try_wait() and a returned wait() have told
\* a caller is not taken back by any later call.
StaysOpen == [][TryWait => TryWait']_vars

\* A waiter that was asleep when the counter became zero returns.
SleepersReleased ==
  \A t \in Threads :
    (TryWait /\ t \in m_condition \ late) ~> (pc[t] \in {"wait_return", "idle"})

\* Every call of wait() returns once the counter is zero.
WaitersReleased ==
  \A t \in Threads :
    (TryWait /\ pc[t] \in WaitLabels) ~> (pc[t] \in {"wait_return", "idle"})
===========================================================================
