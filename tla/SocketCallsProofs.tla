------------------------- MODULE SocketCallsProofs -------------------------
(***************************************************************************)
(* Theorems about the settings and the calls of one socket for any number  *)
(* of callers, any durations and any capacity of the buffers.              *)
(***************************************************************************)
EXTENDS SocketCalls, TLAPS

USE CallsAssumption DEF CallsAssumption

---------------------------------------------------------------------------
(* The inductive invariant *)

\* The system has what the settings have asked for, cut to microseconds,
\* except for the send timeout between the two system calls of set_timeout();
\* and the flags non_blocking() has read are those it changes.
Settled ==
  /\ owner.at = "idle" => owner = Idle
  /\ asked.mode <=> "O_NONBLOCK" \in flags
  /\ owner.at = "setfl" => owner.flags = flags
  /\ owner.at = "rcvtimeo" => timeo["send"] = microseconds(owner.timeout)
  /\ owner.at # "rcvtimeo" => timeo["send"] = microseconds(asked.timeo["send"])
  /\ timeo["receive"] = microseconds(asked.timeo["receive"])

\* shutdown() has shut down what it was asked for, a peer that is gone both.
Ending == told \subseteq shut /\ (gone => shut = Directions)

\* A call that the settings bound when it began does not wait for ever.
PromisesHeld == \A t \in Callers : call[t].promised => ~call[t].endless

CallsInv == TypeOK /\ Settled /\ Ending /\ PromisesHeld

\* The guards of ReceiveEnds, SendEnds, BrokenPipe and GivesUp: there is a
\* way for the call of t to end now, whatever the peer does.
WayOut(t) ==
  \/ /\ call[t].dir = "receive"
     /\ inbox > 0 \/ "receive" \in shut \/ ~call[t].endless
  \/ /\ call[t].dir = "send"
     /\ outbox < Capacity \/ "send" \in shut \/ ~call[t].endless

\* A call that a timeout or non_blocking(true) bounds, one whose direction
\* shutdown() was asked to end, and one whose peer has closed, always has a
\* way out: only the system's scheduling keeps it from returning.
NeverStuck ==
  \A t \in Callers :
    /\ call[t].dir \in Directions
    /\ call[t].promised \/ call[t].dir \in told \/ gone
    => WayOut(t)

---------------------------------------------------------------------------
(* The operators of the model *)

\* The conversion gives an integer, and what the system accepts fits.
LEMMA MicrosFit ==
  ASSUME NEW d \in Durations \cup {0}
  PROVE  /\ microseconds(d) \in Int
         /\ Accepted(microseconds(d)) =>
              microseconds(d) \in 0 .. MicrosPerSecond - 1
  BY DEF microseconds, Accepted, tv_usec

\* The conversion keeps a microsecond, and none stays none.
LEMMA MicrosKept ==
  /\ microseconds(0) = 0
  /\ \A d \in Durations \cup {0} : d >= TicksPerMicro => microseconds(d) # 0
<1>1. microseconds(0) = 0
  BY DEF microseconds
<1>2. ASSUME NEW d \in Int, d >= TicksPerMicro PROVE microseconds(d) # 0
  BY <1>2 DEF microseconds
<1> QED
  BY <1>1, <1>2

\* non_blocking() changes the one flag and keeps the others.
LEMMA FlagsKept ==
  ASSUME NEW mode \in BOOLEAN,
         NEW old \in {{"O_RDWR"}, {"O_RDWR", "O_NONBLOCK"}}
  PROVE  /\ new_flags(mode, old) \in {{"O_RDWR"}, {"O_RDWR", "O_NONBLOCK"}}
         /\ mode <=> "O_NONBLOCK" \in new_flags(mode, old)
  BY DEF new_flags

\* shutdown_mode stands for the directions the system shuts down.
LEMMA ModesMatch ==
  ASSUME NEW mode \in Directions \cup {"both"}
  PROVE  Ended(to_integral(mode)) = DirectionsOf(mode)
         /\ DirectionsOf(mode) \subseteq Directions
  BY DEF Directions, Ended, to_integral, DirectionsOf

---------------------------------------------------------------------------
(* Every action keeps every part *)

LEMMA InitInv == Init => CallsInv
<1> SUFFICES ASSUME Init PROVE CallsInv
  OBVIOUS
<1>1. TypeOK
  <2>1. 0 \in 0 .. MicrosPerSecond - 1 /\ 0 \in 0..Capacity
    OBVIOUS
  <2>2. /\ timeo \in [Directions -> 0 .. MicrosPerSecond - 1]
        /\ asked \in [mode : BOOLEAN,
                      timeo : [Directions -> Durations \cup {0}]]
    BY <2>1 DEF Init
  <2>3. owner \in [at : {"idle", "rcvtimeo", "setfl"}, mode : BOOLEAN,
                  flags : SUBSET {"O_RDWR", "O_NONBLOCK"},
                  timeout : Durations \cup {0}]
    BY <2>1 DEF Init, Idle
  <2>4. call \in [Callers -> [dir : Directions \cup {"none"}, endless : BOOLEAN,
                             promised : BOOLEAN]]
    BY DEF Init, NoCall
  <2> QED
    BY <2>1, <2>2, <2>3, <2>4 DEF Init, TypeOK
<1>2. Settled /\ Ending /\ PromisesHeld
  BY MicrosKept DEF Init, Settled, Ending, PromisesHeld, Idle, NoCall, Directions
<1> QED
  BY <1>1, <1>2 DEF CallsInv

\* A timeout of one direction is set, or refused and nothing changes.
LEMMA SetOneTimeoutInv ==
  ASSUME CallsInv, NEW dir \in Directions, NEW d \in Durations,
         SetOneTimeout(dir, d)
  PROVE  CallsInv'
<1> USE DEF CallsInv, TypeOK, SetOneTimeout, set_posix_timeout, setsockopt,
            tv_usec
<1>1. TypeOK'
  BY MicrosFit
<1>2. Settled'
  BY MicrosFit DEF Settled, Idle, Directions
<1>3. Ending' /\ PromisesHeld'
  BY DEF Ending, PromisesHeld
<1> QED
  BY <1>1, <1>2, <1>3

\* The first half of set_timeout().
LEMMA SetTimeoutInv ==
  ASSUME CallsInv, NEW d \in Durations, SetTimeout(d) PROVE CallsInv'
<1> USE DEF CallsInv, TypeOK, SetTimeout, set_posix_timeout, setsockopt, history,
            tv_usec
<1>1. TypeOK'
  BY MicrosFit DEF Idle, Directions
<1>2. Settled'
  BY MicrosFit DEF Settled, Idle, Directions
<1>3. Ending' /\ PromisesHeld'
  BY DEF Ending, PromisesHeld
<1> QED
  BY <1>1, <1>2, <1>3

\* The second half: the time is accepted, as it was for sending.
LEMMA SetTimeoutGoesOnInv ==
  ASSUME CallsInv, SetTimeoutGoesOn PROVE CallsInv'
<1> USE DEF CallsInv, TypeOK, SetTimeoutGoesOn, set_posix_timeout, setsockopt,
            tv_usec
<1>1. Accepted(microseconds(owner.timeout))
  BY DEF Accepted, Settled, Directions
<1>2. TypeOK'
  <2>1. timeo' \in [Directions -> 0 .. MicrosPerSecond - 1]
    BY <1>1, MicrosFit
  <2>2. /\ owner' \in [at : {"idle", "rcvtimeo", "setfl"}, mode : BOOLEAN,
                       flags : SUBSET {"O_RDWR", "O_NONBLOCK"},
                       timeout : Durations \cup {0}]
        /\ asked' \in [mode : BOOLEAN, timeo : [Directions -> Durations \cup {0}]]
    BY DEF Idle
  <2> QED
    BY <2>1, <2>2
<1>3. Settled'
  BY <1>1 DEF Settled, Idle, Directions
<1>4. Ending' /\ PromisesHeld'
  BY DEF Ending, PromisesHeld
<1> QED
  BY <1>2, <1>3, <1>4

\* non_blocking() reads the flags.
LEMMA NonBlockingInv ==
  ASSUME CallsInv, NEW mode \in BOOLEAN, NonBlocking(mode) PROVE CallsInv'
<1> USE DEF CallsInv, TypeOK, NonBlocking, get_descriptor_flags, system, history
<1>1. TypeOK'
  BY DEF Idle
<1>2. Settled'
  BY DEF Settled, Idle
<1>3. Ending' /\ PromisesHeld'
  BY DEF Ending, PromisesHeld
<1> QED
  BY <1>1, <1>2, <1>3

\* ... and writes them back with the mode.
LEMMA NonBlockingGoesOnInv ==
  ASSUME CallsInv, NonBlockingGoesOn PROVE CallsInv'
<1> USE DEF CallsInv, TypeOK, NonBlockingGoesOn
<1>1. /\ flags' \in {{"O_RDWR"}, {"O_RDWR", "O_NONBLOCK"}}
      /\ owner.mode <=> "O_NONBLOCK" \in flags'
  BY FlagsKept DEF Settled
<1>2. TypeOK'
  BY <1>1 DEF Idle
<1>3. Settled'
  BY <1>1 DEF Settled, Idle
<1>4. Ending' /\ PromisesHeld'
  BY DEF Ending, PromisesHeld
<1> QED
  BY <1>2, <1>3, <1>4

LEMMA ShutdownInv ==
  ASSUME CallsInv, NEW mode \in Directions \cup {"both"}, Shutdown(mode)
  PROVE  CallsInv'
<1> USE DEF CallsInv, TypeOK, Shutdown
<1>1. TypeOK'
  BY ModesMatch
<1>2. Settled' /\ PromisesHeld'
  BY DEF Settled, PromisesHeld
<1>3. Ending'
  BY ModesMatch DEF Ending
<1> QED
  BY <1>1, <1>2, <1>3

\* A call begins: what the settings promise it, the system gives it.
LEMMA BeginInv ==
  ASSUME CallsInv, NEW t \in Callers, NEW dir \in Directions, Begin(t, dir)
  PROVE  CallsInv'
<1> USE DEF CallsInv, TypeOK, Begin, system, history
<1>1. TypeOK'
  BY DEF Promised
<1>2. Settled' /\ Ending'
  BY DEF Settled, Ending
<1>3. PromisesHeld'
  <2>1. Promised(dir) => is_non_blocking \/ timeo[dir] # 0
    <3> SUFFICES ASSUME Promised(dir), ~is_non_blocking PROVE timeo[dir] # 0
      OBVIOUS
    <3>1. ~asked.mode /\ owner.at = "idle"
      BY DEF Promised, Settled, Idle, is_non_blocking, get_descriptor_flags
    <3>2. timeo[dir] = microseconds(asked.timeo[dir])
      BY <3>1 DEF Settled, Directions
    <3>3. asked.timeo[dir] \in Durations \cup {0} /\ asked.timeo[dir] >= TicksPerMicro
      BY <3>1 DEF Promised
    <3> QED
      BY <3>2, <3>3, MicrosKept
  <2> QED
    BY <2>1 DEF PromisesHeld
<1> QED
  BY <1>1, <1>2, <1>3

LEMMA EndsInv == ASSUME CallsInv, NEW t \in Callers, Ends(t) PROVE CallsInv'
<1> USE DEF CallsInv, TypeOK, Ends, ReceiveEnds, SendEnds, BrokenPipe, GivesUp,
            Returns, history
<1>1. TypeOK'
  <2>1. call' \in [Callers -> [dir : Directions \cup {"none"}, endless : BOOLEAN,
                              promised : BOOLEAN]]
    <3>1. call' = [call EXCEPT ![t] = NoCall]
      OBVIOUS
    <3>2. NoCall \in [dir : Directions \cup {"none"}, endless : BOOLEAN,
                     promised : BOOLEAN]
      BY DEF NoCall
    <3> QED
      BY <3>1, <3>2
  <2>2. inbox' \in 0..Capacity /\ outbox' \in 0..Capacity
    OBVIOUS
  <2> QED
    BY <2>1, <2>2
<1>2. Settled' /\ Ending'
  BY DEF Settled, Ending
<1>3. PromisesHeld'
  BY DEF PromisesHeld, NoCall
<1> QED
  BY <1>1, <1>2, <1>3

LEMMA PeerInv ==
  ASSUME CallsInv, PeerReceives \/ PeerSends \/ PeerCloses PROVE CallsInv'
<1> USE DEF CallsInv, TypeOK, PeerReceives, PeerSends, PeerCloses, history
<1>1. TypeOK'
  <2>1. inbox' \in 0..Capacity /\ outbox' \in 0..Capacity
    OBVIOUS
  <2>2. gone' \in BOOLEAN /\ shut' \subseteq Directions
    OBVIOUS
  <2> QED
    BY <2>1, <2>2
<1>2. Settled' /\ PromisesHeld'
  BY DEF Settled, PromisesHeld
<1>3. Ending'
  BY DEF Ending
<1> QED
  BY <1>1, <1>2, <1>3

---------------------------------------------------------------------------
(* The theorems *)

LEMMA NextInv == CallsInv /\ [Next]_vars => CallsInv'
<1> SUFFICES ASSUME CallsInv, [Next]_vars PROVE CallsInv'
  OBVIOUS
<1>1. CASE UNCHANGED vars
  BY <1>1 DEF vars, system, history, CallsInv, TypeOK, Settled, Ending,
              PromisesHeld
<1>2. CASE Sets
  BY <1>2, SetOneTimeoutInv, SetTimeoutInv, NonBlockingInv, ShutdownInv DEF Sets
<1>3. CASE GoesOn
  BY <1>3, SetTimeoutGoesOnInv, NonBlockingGoesOnInv DEF GoesOn
<1>4. ASSUME NEW t \in Callers, Ends(t) \/ \E dir \in Directions : Begin(t, dir)
      PROVE  CallsInv'
  BY <1>4, EndsInv, BeginInv
<1> QED
  BY <1>1, <1>2, <1>3, <1>4, PeerInv DEF Next

\* The inductive invariant holds in every reachable state.
THEOREM CallsInvariant == Spec => []CallsInv
  BY InitInv, NextInv, PTL DEF Spec

\* Every variable keeps its type: non_blocking() never loses another flag of
\* the descriptor and no timeout leaves the range the system takes.
THEOREM TypeCorrect == Spec => []TypeOK
<1>1. CallsInv => TypeOK
  BY DEF CallsInv
<1> QED
  BY CallsInvariant, <1>1, PTL

\* A call that begins when the settings that have returned asked for a mode
\* or for a microsecond or more is one the system does not let wait without a
\* limit: the cast of set_timeout(), the range of tv_usec and the two system
\* calls of set_timeout() and non_blocking() lose no such request.
THEOREM PromiseIsKept == Spec => []PromisesHeld
<1>1. CallsInv => PromisesHeld
  BY DEF CallsInv
<1> QED
  BY CallsInvariant, <1>1, PTL

\* A bounded call, a call that shutdown() is to release and one whose peer
\* has closed can end in every state: the safety part of BoundedCallsEnd and
\* CallsReleased.
THEOREM AlwaysAWayOut == Spec => []NeverStuck
<1>1. CallsInv => NeverStuck
  BY DEF CallsInv, TypeOK, PromisesHeld, Ending, NeverStuck, WayOut, Directions
<1> QED
  BY CallsInvariant, <1>1, PTL
===========================================================================
