---------------------------- MODULE LatchProofs ----------------------------
(***************************************************************************)
(* Theorems about jar::concurrency::latch for any threads, any initial     *)
(* count and any number of calls that keep the latch's contract.           *)
(***************************************************************************)
EXTENDS Latch, TLAPS

USE LatchAssumption DEF LatchAssumption

LEMMA InitInv == Init => LatchInv
BY DEF Init, LatchInv, TypeOK, Accounted, NoEarlyReturn, SleepersAnnounced,
       Labels

\* Under the contract the subtraction does not wrap.
LEMMA SubtractNoWrap ==
  ASSUME LatchInv, NEW t \in Threads, NEW n \in Counts, NEW arrive \in BOOLEAN,
         Subtract(t, n, arrive)
  PROVE  /\ m_expected' = m_expected - n
         /\ m_expected' \in 0..Expected
         /\ counted' \in 0..Budget
         /\ Accounted'
<1>1. n \in Nat /\ n <= m_expected
  BY DEF Subtract, LatchInv, TypeOK, Accounted
<1>2. m_expected' = m_expected - n /\ counted' = counted + n
  BY <1>1 DEF Subtract, Minus
<1> QED
  BY <1>1, <1>2 DEF Subtract, LatchInv, TypeOK, Accounted

LEMMA StepInv ==
  ASSUME LatchInv, NEW t \in Threads,
         Call(t) \/ Step(t) \/ SpuriousWakeup(t)
  PROVE  LatchInv'
<1> USE DEF LatchInv
<1>1. ASSUME NEW n \in Counts, NEW arrive \in BOOLEAN, Subtract(t, n, arrive)
      PROVE  LatchInv'
  <2>1. TypeOK'
    <3>1. [calls EXCEPT ![t] = @ + 1] \in [Threads -> 0..MaxCalls]
      BY <1>1 DEF Subtract, Begin, TypeOK
    <3> QED
      BY <1>1, <3>1, SubtractNoWrap
      DEF Subtract, Begin, TypeOK, Goto, Labels
  <2>2. NoEarlyReturn'
    <3>1. \A u \in Threads : pc'[u] = "wait_return" => pc[u] = "wait_return"
      BY <1>1 DEF Subtract, Goto, TypeOK
    <3>2. counted = Expected => counted' = Expected
      BY <1>1 DEF Subtract, TypeOK
    <3> QED
      BY <3>1, <3>2 DEF NoEarlyReturn
  <2>3. SleepersAnnounced'
    BY <1>1 DEF Subtract, SleepersAnnounced, Goto, TypeOK
  <2> QED
    BY <1>1, <2>1, <2>2, <2>3, SubtractNoWrap
<1>2. CASE CallWait(t)
  <2>1. [calls EXCEPT ![t] = @ + 1] \in [Threads -> 0..MaxCalls]
    BY <1>2 DEF CallWait, Begin, TypeOK
  <2>2. TypeOK'
    BY <1>2, <2>1 DEF CallWait, Begin, TypeOK, Goto, Labels, WaitLabels
  <2> QED
    BY <1>2, <2>2 DEF CallWait, Begin, Accounted, NoEarlyReturn,
       SleepersAnnounced, Goto, TypeOK
<1>3. CASE CheckZero(t)
  <2>1. TypeOK'
    BY <1>3 DEF CheckZero, AfterCount, TypeOK, Goto, Labels, WaitLabels
  <2>2. Accounted' /\ NoEarlyReturn'
    BY <1>3 DEF CheckZero, AfterCount, TypeOK, Goto, Accounted, NoEarlyReturn
  <2>3. SleepersAnnounced'
    BY <1>3 DEF CheckZero, SleepersAnnounced, Goto, TypeOK
  <2> QED
    BY <2>1, <2>2, <2>3
<1>4. CASE NotifyAll(t)
  BY <1>4 DEF NotifyAll, AfterCount, TypeOK, Goto, Labels, WaitLabels,
     Accounted, NoEarlyReturn, SleepersAnnounced
<1>5. CASE WaitLock(t)
  BY <1>5 DEF WaitLock, TypeOK, Goto, Labels, WaitLabels, Accounted,
     NoEarlyReturn, SleepersAnnounced
<1>6. CASE WaitTest(t)
  <2>1. TypeOK'
    BY <1>6 DEF WaitTest, TypeOK, Goto, Labels, WaitLabels
  <2>2. NoEarlyReturn'
    <3>1. m_expected = 0 => counted = Expected
      BY DEF Accounted, TypeOK
    <3> QED
      BY <1>6, <3>1 DEF WaitTest, TypeOK, Goto, NoEarlyReturn
  <2>3. Accounted' /\ SleepersAnnounced'
    BY <1>6 DEF WaitTest, TypeOK, Goto, Accounted, SleepersAnnounced
  <2> QED
    BY <2>1, <2>2, <2>3
<1>7. CASE WaitBlock(t)
  BY <1>7 DEF WaitBlock, TypeOK, Goto, Labels, WaitLabels, Accounted,
     NoEarlyReturn, SleepersAnnounced
<1>8. CASE SpuriousWakeup(t)
  BY <1>8 DEF SpuriousWakeup, TypeOK, Accounted, NoEarlyReturn,
     SleepersAnnounced
<1>9. CASE Return(t)
  BY <1>9 DEF Return, TypeOK, Goto, Labels, Accounted, NoEarlyReturn,
     SleepersAnnounced
<1> QED
  BY <1>1, <1>2, <1>3, <1>4, <1>5, <1>6, <1>7, <1>8, <1>9 DEF Call, Step

LEMMA NextInv == LatchInv /\ [Next]_vars => LatchInv'
<1> SUFFICES ASSUME LatchInv, [Next]_vars PROVE LatchInv'
  OBVIOUS
<1>1. CASE UNCHANGED vars
  BY <1>1 DEF vars, LatchInv, TypeOK, Accounted, NoEarlyReturn,
     SleepersAnnounced
<1>2. CASE Next
  BY <1>2, StepInv DEF Next
<1> QED
  BY <1>1, <1>2

\* The inductive invariant holds in every state of the latch.
THEOREM LatchInvariant == Spec => []LatchInv
BY InitInv, NextInv, PTL DEF Spec

\* The counter never wraps below zero, for any count and any callers that
\* keep the contract.
THEOREM TypeCorrect == Spec => []TypeOK
<1>1. LatchInv => TypeOK
  BY DEF LatchInv
<1> QED
  BY <1>1, LatchInvariant, PTL

\* wait() never returns before every count has been made.
THEOREM WaitIsExact == Spec => []NoEarlyReturn
<1>1. LatchInv => NoEarlyReturn
  BY DEF LatchInv
<1> QED
  BY <1>1, LatchInvariant, PTL

\* Nobody asleep at the last count is forgotten by the unlocked notify_all.
THEOREM SleepersKept == Spec => []SleepersAnnounced
<1>1. LatchInv => SleepersAnnounced
  BY DEF LatchInv
<1> QED
  BY <1>1, LatchInvariant, PTL

\* A latch that try_wait() has seen open never closes again.
THEOREM OpenForGood == Spec => StaysOpen
<1>1. LatchInv /\ [Next]_vars => [TryWait => TryWait']_vars
  <2> SUFFICES ASSUME LatchInv, NEW t \in Threads, m_expected = 0,
                      Call(t) \/ Step(t) \/ SpuriousWakeup(t)
               PROVE  m_expected' = 0
    BY DEF Next, TryWait
  <2>1. ASSUME NEW n \in Counts, NEW arrive \in BOOLEAN,
               Subtract(t, n, arrive)
        PROVE  m_expected' = 0
    BY <2>1, SubtractNoWrap DEF LatchInv, TypeOK
  <2>2. CASE CallWait(t) \/ Step(t) \/ SpuriousWakeup(t)
    BY <2>2 DEF CallWait, Step, CheckZero, NotifyAll, WaitLock, WaitTest,
       WaitBlock, Return, SpuriousWakeup
  <2> QED
    BY <2>1, <2>2 DEF Call
<1> QED
  BY <1>1, LatchInvariant, PTL DEF Spec, StaysOpen
===========================================================================
