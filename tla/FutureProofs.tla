---------------------------- MODULE FutureProofs ----------------------------
(***************************************************************************)
(* Theorems about promise, future and shared_state for any number of       *)
(* producers, futures, values, errors and calls.                           *)
(***************************************************************************)
EXTENDS Future, TLAPS

USE FutureAssumption DEF FutureAssumption

\* What an outcome consists of.
LEMMA OutcomeShape ==
  /\ \A o \in Outcomes :
       /\ o[1] \in States \ {"init"}
       /\ o[1] = "value" => o[2] \in Values
       /\ o[1] = "error" => o[2] \in Errors
       /\ o[1] = "canceled" => o[2] = Nullopt
       /\ o[1] = "broken" => o[2] = Monostate
       /\ o[2] \in Values \cup Errors \cup {Monostate, Nullopt}
       /\ o[1] # "broken" => o[2] # Monostate
  /\ NoOutcome[1] = "init" /\ NoOutcome[2] = Monostate
<1>1. \A v \in Values : v # Monostate
  OBVIOUS
<1>2. \A e \in Errors : e # Monostate
  OBVIOUS
<1>3. ASSUME NEW o \in Outcomes
      PROVE  \/ \E v \in Values : o = <<"value", v>>
             \/ \E e \in Errors : o = <<"error", e>>
             \/ o = <<"canceled", Nullopt>>
             \/ o = <<"broken", Monostate>>
  BY DEF Outcomes
<1>4. ASSUME NEW o \in Outcomes
      PROVE  /\ o[1] \in States \ {"init"}
             /\ o[1] = "value" => o[2] \in Values
             /\ o[1] = "error" => o[2] \in Errors
             /\ o[1] = "canceled" => o[2] = Nullopt
             /\ o[1] = "broken" => o[2] = Monostate
             /\ o[2] \in Values \cup Errors \cup {Monostate, Nullopt}
             /\ o[1] # "broken" => o[2] # Monostate
  <2>1. CASE \E v \in Values : o = <<"value", v>>
    <3>1. PICK v \in Values : o = <<"value", v>>
      BY <2>1
    <3>2. o[1] = "value" /\ o[2] = v
      BY <3>1
    <3> QED
      BY <1>1, <3>2 DEF States
  <2>2. CASE \E e \in Errors : o = <<"error", e>>
    <3>1. PICK e \in Errors : o = <<"error", e>>
      BY <2>2
    <3>2. o[1] = "error" /\ o[2] = e
      BY <3>1
    <3> QED
      BY <1>2, <3>2 DEF States
  <2>3. CASE o = <<"canceled", Nullopt>>
    <3>1. o[1] = "canceled" /\ o[2] = Nullopt
      BY <2>3
    <3> QED
      BY <3>1 DEF States
  <2>4. CASE o = <<"broken", Monostate>>
    <3>1. o[1] = "broken" /\ o[2] = Monostate
      BY <2>4
    <3> QED
      BY <3>1 DEF States
  <2> QED
    BY <1>3, <2>1, <2>2, <2>3, <2>4
<1>5. NoOutcome[1] = "init" /\ NoOutcome[2] = Monostate
  BY DEF NoOutcome
<1> QED
  BY <1>4, <1>5

LEMMA InitInv == Init => FutureInv
<1> SUFFICES ASSUME Init PROVE FutureInv
  OBVIOUS
<1>1. TypeOK
  BY DEF Init, TypeOK, States, Labels, Results
<1>2. SoleWriter /\ GetAfterReady /\ SettersPending
  BY DEF Init, SoleWriter, GetAfterReady, SettersPending
<1>3. DataBelongs
  BY OutcomeShape DEF Init, DataBelongs
<1>4. GetAgrees
  BY DEF Init, GetAgrees, BrokenPromise
<1> QED
  BY <1>1, <1>2, <1>3, <1>4 DEF FutureInv

\* A step that changes neither the state, the data, the outcome nor any
\* result, and moves one thread between labels that set nothing.
LEMMA WaitLikeStep ==
  ASSUME FutureInv, TypeOK', NEW t \in Threads, NEW label \in Labels,
         Goto(t, label),
         label \notin {"set_cas", "set_data", "set_notify"},
         pc[t] \notin {"set_cas", "set_data"},
         label = "get_result" => is_ready,
         UNCHANGED <<data, want, got, alive, decided>>
  PROVE  FutureInv'
<1> USE DEF FutureInv, TypeOK, Goto, data
<1>1. \A u \in Threads : pc'[u] = IF u = t THEN label ELSE pc[u]
  OBVIOUS
<1>2. SoleWriter'
  BY <1>1 DEF SoleWriter
<1>3. DataBelongs'
  BY <1>1 DEF DataBelongs
<1>4. GetAgrees'
  BY DEF GetAgrees
<1>5. GetAfterReady'
  BY <1>1 DEF GetAfterReady, is_ready
<1>6. SettersPending'
  <2>1. \A u \in Threads : pc[u] = "set_cas" => pc'[u] = "set_cas"
    BY <1>1
  <2> QED
    BY <1>1, <2>1 DEF SettersPending, is_ready, Threads
<1> QED
  BY <1>2, <1>3, <1>4, <1>5, <1>6

LEMMA BeginCounts ==
  ASSUME calls \in [Threads -> 0..MaxCalls], NEW t \in Threads, Begin(t)
  PROVE  calls' \in [Threads -> 0..MaxCalls]
<1>1. calls[t] \in 0..MaxCalls /\ calls[t] < MaxCalls
  BY DEF Begin
<1>2. calls[t] + 1 \in 0..MaxCalls
  BY <1>1
<1> QED
  BY <1>2 DEF Begin

\* A call of set_value, set_exception, cancel or of the destructor.
LEMMA CallSetInv ==
  ASSUME FutureInv, NEW t \in Threads, NEW o \in Outcomes, CallSet(t, o),
         \/ UNCHANGED alive
         \/ alive' = FALSE /\ t \in Producers
  PROVE  FutureInv'
<1>0. calls' \in [Threads -> 0..MaxCalls]
  BY BeginCounts DEF TypeOK, CallSet, FutureInv
<1> USE DEF FutureInv, TypeOK, CallSet, Begin, Goto, data
<1>t. TypeOK'
  BY <1>0 DEF Labels
<1>1. \A u \in Threads : /\ pc'[u] = IF u = t THEN "set_cas" ELSE pc[u]
                         /\ want'[u] = IF u = t THEN o ELSE want[u]
  OBVIOUS
<1>2. SoleWriter'
  BY <1>1 DEF SoleWriter
<1>3. DataBelongs'
  BY <1>1 DEF DataBelongs
<1>4. GetAgrees' /\ GetAfterReady'
  BY <1>1 DEF GetAgrees, GetAfterReady, is_ready
<1>5. SettersPending'
  BY <1>1 DEF SettersPending, is_ready, Threads
<1> QED
  BY <1>t, <1>2, <1>3, <1>4, <1>5

LEMMA CallWaitInv ==
  ASSUME FutureInv, NEW t \in Consumers, NEW get \in BOOLEAN, CallWait(t, get)
  PROVE  FutureInv'
<1>a. t \in Threads
  BY DEF Threads
<1>0. calls' \in [Threads -> 0..MaxCalls]
  BY <1>a, BeginCounts DEF TypeOK, CallWait, FutureInv
<1> USE DEF FutureInv, TypeOK, CallWait, Begin, Goto, data
<1>t. TypeOK'
  BY <1>0, <1>a DEF Labels, WaitLabels, Results
<1>1. \A u \in Threads : pc'[u] = IF u = t THEN "wait_fast" ELSE pc[u]
  BY <1>a
<1>2. SoleWriter' /\ DataBelongs' /\ GetAfterReady'
  BY <1>1 DEF SoleWriter, DataBelongs, GetAfterReady, is_ready
<1>3. GetAgrees'
  BY DEF GetAgrees, BrokenPromise
<1>4. SettersPending'
  BY <1>1 DEF SettersPending, is_ready, Threads
<1> QED
  BY <1>t, <1>2, <1>3, <1>4

---------------------------------------------------------------------------
(* Electing and storing the outcome *)

LEMMA CompareExchangeInv ==
  ASSUME FutureInv, NEW t \in Threads, CompareExchange(t)
  PROVE  FutureInv'
<1> USE DEF FutureInv, TypeOK, CompareExchange, Goto
<1>o. want[t] \in Outcomes
  BY DEF SettersPending
<1>1. CASE m_state # "init"
  <2>1. TypeOK'
    BY <1>1 DEF Labels
  <2>2. \A u \in Threads : pc'[u] = IF u = t THEN "return" ELSE pc[u]
    BY <1>1
  <2>3. SoleWriter' /\ DataBelongs' /\ GetAgrees' /\ GetAfterReady'
    BY <1>1, <2>2 DEF SoleWriter, DataBelongs, GetAgrees, GetAfterReady,
       is_ready
  <2>4. SettersPending'
    BY <1>1, <2>2 DEF SettersPending, is_ready
  <2> QED
    BY <2>1, <2>3, <2>4
<1>2. CASE m_state = "init"
  <2> DEFINE label == IF want[t][1] = "broken" THEN "set_notify" ELSE "set_data"
  <2>1. m_state' = want[t][1] /\ decided' = want[t] /\ m_data' = m_data
    BY <1>2
  <2>2. m_state' \in States \ {"init"}
    BY <1>o, <2>1, OutcomeShape
  <2>3. TypeOK'
    BY <1>2, <1>o, <2>1, <2>2 DEF Labels
  <2>4. \A u \in Threads : pc'[u] = IF u = t THEN label ELSE pc[u]
    BY <1>2
  <2>5. \A u \in Threads : pc[u] \notin {"set_data", "set_notify"}
    BY <1>2 DEF SettersPending, is_ready
  <2>6. SoleWriter'
    BY <2>1, <2>4, <2>5 DEF SoleWriter
  <2>7. m_data = Monostate
    <3>1. decided = NoOutcome
      BY <1>2, OutcomeShape DEF DataBelongs
    <3> QED
      BY <1>2, <3>1, OutcomeShape DEF DataBelongs
  <2>8. DataBelongs'
    BY <1>o, <2>1, <2>4, <2>7 DEF DataBelongs
  <2>9. GetAgrees'
    <3>1. \A u \in Consumers : /\ got[u] \notin Values \cup Errors \cup {Nullopt}
                               /\ got[u] # BrokenPromise
      BY <1>2, <2>7, OutcomeShape DEF GetAgrees, DataBelongs
    <3> QED
      BY <3>1 DEF GetAgrees
  <2>10. GetAfterReady' /\ SettersPending'
    BY <2>1, <2>2, <2>4, <2>5, <2>7 DEF GetAfterReady, SettersPending, is_ready
  <2> QED
    BY <2>3, <2>6, <2>8, <2>9, <2>10
<1> QED
  BY <1>1, <1>2

LEMMA SetDataInv ==
  ASSUME FutureInv, NEW t \in Threads, SetData(t)
  PROVE  FutureInv'
<1> USE DEF FutureInv, TypeOK, SetData, Goto
<1>1. m_data' = decided[2] /\ m_data = Monostate
  BY DEF SoleWriter, SettersPending
<1>2. decided \in Outcomes /\ decided[1] # "broken" /\ m_state = decided[1]
  BY OutcomeShape DEF SoleWriter, SettersPending, DataBelongs, is_ready
<1>3. decided[2] \in Values \cup Errors \cup {Nullopt} /\ decided[2] # Monostate
  BY <1>2, OutcomeShape
<1>4. TypeOK'
  BY <1>1, <1>3 DEF Labels
<1>5. \A u \in Threads : pc'[u] = IF u = t THEN "set_notify" ELSE pc[u]
  OBVIOUS
<1>6. \A u \in Threads \ {t} : pc[u] \notin {"set_data", "set_notify"}
  BY DEF SoleWriter
<1>7. SoleWriter'
  BY <1>5 DEF SoleWriter
<1>8. DataBelongs'
  BY <1>1, <1>2, <1>3 DEF DataBelongs
<1>9. GetAgrees' /\ GetAfterReady'
  BY <1>5 DEF GetAgrees, GetAfterReady, is_ready
<1>10. SettersPending'
  BY <1>5, <1>6 DEF SettersPending, is_ready
<1> QED
  BY <1>4, <1>7, <1>8, <1>9, <1>10

---------------------------------------------------------------------------
(* Reading the outcome *)

LEMMA GetResultInv ==
  ASSUME FutureInv, NEW t \in Threads, GetResult(t)
  PROVE  FutureInv'
<1> USE DEF FutureInv, TypeOK, GetResult, Goto
<1>r. is_ready /\ m_state \in {"value", "error", "canceled", "broken"}
  BY DEF GetAfterReady, is_ready, States
<1>d. decided \in Outcomes /\ m_state = decided[1]
  BY <1>r, OutcomeShape DEF DataBelongs, is_ready
<1> DEFINE r == ResultOf(m_state, m_data)
<1>1. r \in Results
  BY <1>r DEF ResultOf, Results
<1>2. r \in Values \cup Errors \cup {Nullopt} => r = decided[2]
  BY <1>r, <1>d, OutcomeShape
  DEF ResultOf, DataBelongs, BadVariantAccess, BrokenPromise
<1>3. r = BrokenPromise => decided[1] = "broken"
  BY <1>r, <1>d DEF ResultOf, BadVariantAccess, BrokenPromise
<1>4. TypeOK'
  BY <1>1 DEF Labels
<1>5. \A u \in Threads : pc'[u] = IF u = t THEN "return" ELSE pc[u]
  OBVIOUS
<1>6. SoleWriter' /\ GetAfterReady'
  BY <1>5 DEF SoleWriter, GetAfterReady, is_ready
<1>7. GetAgrees'
  BY <1>2, <1>3 DEF GetAgrees
<1>8. m_data' = m_data \/ (m_data \in Values /\ m_data' = MovedFrom
                            /\ m_state = "value")
  OBVIOUS
<1>9. DataBelongs'
  BY <1>5, <1>8 DEF DataBelongs
<1>10. SettersPending'
  <2>1. ~is_ready' => ~is_ready
    BY DEF is_ready
  <2>2. Monostate \notin Values
    OBVIOUS
  <2> QED
    BY <1>r, <1>5, <1>8, <2>1, <2>2 DEF SettersPending, is_ready
<1> QED
  BY <1>4, <1>6, <1>7, <1>9, <1>10

---------------------------------------------------------------------------
(* Every step *)

LEMMA StepInv ==
  ASSUME FutureInv, NEW t \in Threads, Step(t) \/ SpuriousWakeup(t)
  PROVE  FutureInv'
<1> USE DEF FutureInv
<1>1. CASE SetNotify(t)
  <2>1. TypeOK'
    BY <1>1 DEF SetNotify, TypeOK, Goto, Labels, data
  <2> QED
    BY <1>1, <2>1, WaitLikeStep DEF SetNotify, Labels
<1>2. CASE WaitFast(t)
  <2>1. TypeOK'
    BY <1>2 DEF WaitFast, AfterWait, TypeOK, Goto, Labels, WaitLabels, data
  <2> DEFINE label == IF is_ready THEN AfterWait(t) ELSE "wait_lock"
  <2>2. label \in {"get_result", "return", "wait_lock"}
    BY DEF AfterWait
  <2>3. label = "get_result" => is_ready
    OBVIOUS
  <2> QED
    BY <1>2, <2>1, <2>2, <2>3, WaitLikeStep
    DEF WaitFast, Labels, WaitLabels
<1>3. CASE WaitLock(t)
  <2>1. TypeOK'
    BY <1>3 DEF WaitLock, TypeOK, Goto, Labels, WaitLabels, data
  <2> DEFINE label == IF pc[t] = "wait_lock" THEN "wait_check" ELSE "wait_pred"
  <2> QED
    BY <1>3, <2>1, WaitLikeStep DEF WaitLock, Labels, WaitLabels
<1>4. CASE WaitTest(t)
  <2>1. TypeOK'
    BY <1>4 DEF WaitTest, AfterWait, TypeOK, Goto, Labels, WaitLabels, data
  <2>2. CASE is_ready
    <3>1. AfterWait(t) \in {"get_result", "return"}
      BY DEF AfterWait
    <3> QED
      BY <1>4, <2>1, <2>2, <3>1, WaitLikeStep DEF WaitTest, Labels
  <2>3. CASE ~is_ready
    <3> DEFINE label == IF pc[t] = "wait_check" THEN "wait_pred"
                                                ELSE "wait_block"
    <3> QED
      BY <1>4, <2>1, <2>3, WaitLikeStep DEF WaitTest, Labels, WaitLabels
  <2> QED
    BY <2>2, <2>3
<1>5. CASE WaitBlock(t)
  <2>1. TypeOK'
    BY <1>5 DEF WaitBlock, TypeOK, Goto, Labels, WaitLabels, data
  <2> QED
    BY <1>5, <2>1, WaitLikeStep DEF WaitBlock, Labels, WaitLabels
<1>6. CASE Return(t)
  <2>1. TypeOK'
    BY <1>6 DEF Return, TypeOK, Goto, Labels, data
  <2> QED
    BY <1>6, <2>1, WaitLikeStep DEF Return, Labels
<1>7. CASE SpuriousWakeup(t)
  BY <1>7 DEF SpuriousWakeup, TypeOK, data, SoleWriter, DataBelongs,
     GetAgrees, GetAfterReady, SettersPending, is_ready
<1> QED
  BY <1>1, <1>2, <1>3, <1>4, <1>5, <1>6, <1>7, CompareExchangeInv,
     SetDataInv, GetResultInv DEF Step

LEMMA CallInv ==
  ASSUME FutureInv, Call
  PROVE  FutureInv'
<1>1. ASSUME NEW t \in Producers, PromiseSet(t)
      PROVE  FutureInv'
  <2>1. t \in Threads
    BY DEF Threads
  <2>2. PICK o \in Outcomes : CallSet(t, o)
    BY <1>1 DEF PromiseSet
  <2> QED
    BY <1>1, <2>1, <2>2, CallSetInv DEF PromiseSet
<1>2. ASSUME NEW t \in Producers, PromiseDestroy(t)
      PROVE  FutureInv'
  <2>1. t \in Threads /\ <<"broken", Monostate>> \in Outcomes
    BY DEF Threads, Outcomes
  <2> QED
    BY <1>2, <2>1, CallSetInv DEF PromiseDestroy
<1>3. ASSUME NEW t \in Consumers, FutureCancel(t)
      PROVE  FutureInv'
  <2>1. t \in Threads /\ <<"canceled", Nullopt>> \in Outcomes
    BY DEF Threads, Outcomes
  <2> QED
    BY <1>3, <2>1, CallSetInv DEF FutureCancel
<1> QED
  BY <1>1, <1>2, <1>3, CallWaitInv DEF Call

LEMMA NextInv == FutureInv /\ [Next]_vars => FutureInv'
<1> SUFFICES ASSUME FutureInv, [Next]_vars PROVE FutureInv'
  OBVIOUS
<1>1. CASE UNCHANGED vars
  BY <1>1 DEF vars, FutureInv, TypeOK, SoleWriter, DataBelongs, GetAgrees,
     GetAfterReady, SettersPending, is_ready
<1>2. CASE Next
  BY <1>2, CallInv, StepInv DEF Next
<1> QED
  BY <1>1, <1>2

---------------------------------------------------------------------------
(* The theorems *)

\* The inductive invariant holds in every state of the shared_state.
THEOREM FutureInvariant == Spec => []FutureInv
BY InitInv, NextInv, PTL DEF Spec

\* get() never throws "shared state broken", for any number of threads.
THEOREM TypeCorrect == Spec => []TypeOK
<1>1. FutureInv => TypeOK
  BY DEF FutureInv
<1> QED
  BY <1>1, FutureInvariant, PTL

\* Only the elected call writes m_data.
THEOREM OneWriter == Spec => []SoleWriter
<1>1. FutureInv => SoleWriter
  BY DEF FutureInv
<1> QED
  BY <1>1, FutureInvariant, PTL

\* What any get() gives is the one elected outcome.
THEOREM FuturesAgree == Spec => []GetAgrees
<1>1. FutureInv => GetAgrees
  BY DEF FutureInv
<1> QED
  BY <1>1, FutureInvariant, PTL

\* m_data is what the elected call was given, has been moved out by a get(),
\* or is still to be stored by the elected call.
THEOREM DataIsElected == Spec => []DataBelongs
<1>1. FutureInv => DataBelongs
  BY DEF FutureInv
<1> QED
  BY <1>1, FutureInvariant, PTL

\* A destroyed promise has an outcome.
THEOREM NeverSilent == Spec => []PromiseKept
<1>1. FutureInv => PromiseKept
  BY DEF FutureInv, SettersPending, PromiseKept
<1> QED
  BY <1>1, FutureInvariant, PTL

\* Once elected, the outcome never changes.
THEOREM OutcomeIsFinal == Spec => StateFinal
<1>1. [Next]_vars => [is_ready => UNCHANGED <<m_state, decided>>]_vars
  <2> SUFFICES ASSUME Next, m_state # "init"
               PROVE  UNCHANGED <<m_state, decided>>
    BY DEF is_ready
  <2>1. CASE Call
    BY <2>1 DEF Call, PromiseSet, PromiseDestroy, FutureCancel, CallSet,
       CallWait, data
  <2>2. ASSUME NEW t \in Threads, Step(t) \/ SpuriousWakeup(t)
        PROVE  UNCHANGED <<m_state, decided>>
    BY <2>2 DEF Step, CompareExchange, SetData, SetNotify, WaitFast, WaitLock,
       WaitTest, WaitBlock, GetResult, Return, SpuriousWakeup, data
  <2> QED
    BY <2>1, <2>2 DEF Next
<1> QED
  BY <1>1, PTL DEF Spec, StateFinal

---------------------------------------------------------------------------
(* The sleepers *)

\* Only futures are waited for, and only by their owners.
SleepersWait ==
  /\ m_condition \subseteq Consumers
  /\ \A t \in Threads : pc[t] \in WaitLabels => t \in Consumers

\* With one future, a notification empties the condition variable.
LEMMA SleeperStep ==
  ASSUME NEW c, Consumers = {c}, FutureInv, SleepersWait, SleeperAnnounced,
         [Next]_vars
  PROVE  SleepersWait' /\ SleeperAnnounced'
<1> DEFINE Setting(t) == pc[t] \in {"set_data", "set_notify"}
<1> USE DEF SleepersWait, SleeperAnnounced, is_ready, WaitLabels
<1>1. m_condition \subseteq {c} /\ pc \in [Threads -> Labels]
        /\ \A o \in Outcomes : o[1] # "init"
  BY OutcomeShape DEF FutureInv, TypeOK
<1>2. CASE UNCHANGED vars
  BY <1>2 DEF vars
<1>3. ASSUME NEW t \in Threads, NEW label, pc[t] = "idle", Goto(t, label),
             label = "set_cas" \/ (label = "wait_fast" /\ t \in Consumers),
             UNCHANGED <<m_state, m_condition, late>>
      PROVE  SleepersWait' /\ SleeperAnnounced'
  <2>1. \A u \in Threads : pc'[u] = IF u = t THEN label ELSE pc[u]
    BY <1>1, <1>3 DEF Goto
  <2>2. SleepersWait'
    BY <1>3, <2>1
  <2>3. SleeperAnnounced'
    BY <1>3, <2>1
  <2> QED
    BY <2>2, <2>3
<1>4. CASE Call
  BY <1>3, <1>4 DEF Call, PromiseSet, PromiseDestroy, FutureCancel, CallSet,
     CallWait, Begin, Threads, data
<1>5. ASSUME NEW t \in Threads, CompareExchange(t)
      PROVE  SleepersWait' /\ SleeperAnnounced'
  <2>1. PICK label : /\ label \in {"set_data", "set_notify", "return"}
                     /\ pc' = [pc EXCEPT ![t] = label]
                     /\ label = "return" => UNCHANGED m_state /\ m_state # "init"
    BY <1>5 DEF CompareExchange, Goto
  <2>2. \A u \in Threads : pc'[u] = IF u = t THEN label ELSE pc[u]
    BY <1>1, <2>1
  <2>3. pc[t] = "set_cas" /\ UNCHANGED <<m_condition, late>>
    BY <1>5 DEF CompareExchange
  <2>4. SleepersWait'
    BY <2>1, <2>2, <2>3
  <2>5. SleeperAnnounced'
    BY <2>1, <2>2, <2>3
  <2> QED
    BY <2>4, <2>5
<1>6. ASSUME NEW t \in Threads, SetData(t)
      PROVE  SleepersWait' /\ SleeperAnnounced'
  <2>1. \A u \in Threads : pc'[u] = IF u = t THEN "set_notify" ELSE pc[u]
    BY <1>1, <1>6 DEF SetData, Goto
  <2>2. SleepersWait'
    BY <1>6, <2>1 DEF SetData
  <2>3. SleeperAnnounced'
    BY <1>6, <2>1 DEF SetData
  <2> QED
    BY <2>2, <2>3
<1>7. ASSUME NEW t \in Threads, SetNotify(t)
      PROVE  SleepersWait' /\ SleeperAnnounced'
  <2>1. \A u \in Threads : pc'[u] = IF u = t THEN "return" ELSE pc[u]
    BY <1>1, <1>7 DEF SetNotify, Goto
  <2>2. m_condition' = {}
    BY <1>1, <1>7 DEF SetNotify
  <2>3. SleepersWait'
    BY <2>1, <2>2
  <2> QED
    BY <2>2, <2>3
<1>8. ASSUME NEW t \in Threads, NEW label, Goto(t, label),
             ~Setting(t), label \in WaitLabels => t \in Consumers,
             m_condition' \subseteq m_condition, UNCHANGED <<m_state, late>>
      PROVE  SleepersWait' /\ SleeperAnnounced'
  <2>1. \A u \in Threads : pc'[u] = IF u = t THEN label ELSE pc[u]
    BY <1>1, <1>8 DEF Goto
  <2>2. SleepersWait'
    BY <1>8, <2>1
  <2>3. SleeperAnnounced'
    BY <1>8, <2>1
  <2> QED
    BY <2>2, <2>3
<1>9. ASSUME NEW t \in Threads,
             WaitFast(t) \/ WaitLock(t) \/ WaitTest(t)
      PROVE  SleepersWait' /\ SleeperAnnounced'
  <2>1. t \in Consumers /\ ~Setting(t) /\ UNCHANGED <<m_state, m_condition, late>>
    BY <1>9 DEF WaitFast, WaitLock, WaitTest, data
  <2>2. \E label : Goto(t, label)
    BY <1>9 DEF WaitFast, WaitLock, WaitTest, Goto
  <2> QED
    BY <1>8, <2>1, <2>2
<1>10. ASSUME NEW t \in Threads, GetResult(t) \/ Return(t)
       PROVE  SleepersWait' /\ SleeperAnnounced'
  <2>1. ~Setting(t) /\ UNCHANGED <<m_state, m_condition, late>>
    BY <1>10 DEF GetResult, Return, data
  <2>2. Goto(t, "return") \/ Goto(t, "idle")
    BY <1>10 DEF GetResult, Return
  <2> QED
    BY <1>8, <2>1, <2>2
<1>11. ASSUME NEW t \in Threads, WaitBlock(t)
       PROVE  SleepersWait' /\ SleeperAnnounced'
  <2>1. \A u \in Threads : pc'[u] = IF u = t THEN "wait_wait" ELSE pc[u]
    BY <1>1, <1>11 DEF WaitBlock, Goto
  <2>2. t \in Consumers /\ pc[t] = "wait_block" /\ UNCHANGED m_state
          /\ m_condition' = m_condition \cup {t}
          /\ (is_ready => late' = late \cup {t})
    BY <1>11 DEF WaitBlock, data
  <2>3. SleepersWait'
    BY <2>1, <2>2
  <2>4. SleeperAnnounced'
    BY <2>1, <2>2
  <2> QED
    BY <2>3, <2>4
<1>12. ASSUME NEW t \in Threads, SpuriousWakeup(t)
       PROVE  SleepersWait' /\ SleeperAnnounced'
  BY <1>12 DEF SpuriousWakeup, data
<1> QED
  BY <1>2, <1>4, <1>5, <1>6, <1>7, <1>9, <1>10, <1>11, <1>12 DEF Next, Step

\* The notification without the mutex misses nobody who was asleep when the
\* outcome was elected, as long as the promise has one future; with a second
\* one, notify_one() may wake the wrong sleeper.
THEOREM SleeperIsAnnounced ==
  ASSUME NEW c, Consumers = {c}
  PROVE  Spec => []SleeperAnnounced
<1> DEFINE Inv == FutureInv /\ SleepersWait /\ SleeperAnnounced
<1>1. Init => Inv
  BY InitInv DEF Init, SleepersWait, SleeperAnnounced, is_ready, WaitLabels
<1>2. Inv /\ [Next]_vars => Inv'
  BY NextInv, SleeperStep
<1> QED
  BY <1>1, <1>2, PTL DEF Spec
===========================================================================
