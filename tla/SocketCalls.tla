---------------------------- MODULE SocketCalls ----------------------------
(***************************************************************************)
(* One connected stream socket while its owner sets its mode and timeouts, *)
(* callers send and receive, and the peer reads, writes and closes:        *)
(* com/basic_socket.hpp over system/posix/socket.cpp.                      *)
(*                                                                         *)
(* A setting of the owner is one step where it makes one system call.      *)
(* non_blocking() makes two, to get the flags and to set them;             *)
(* set_timeout() makes two, one for each direction.  A call of a caller    *)
(* begins, when the system reads the mode and the timeout, and ends.       *)
(***************************************************************************)
EXTENDS Integers

CONSTANTS
  Callers,          \* threads that send and receive
  Durations,        \* arguments of the set_timeout family, in clock ticks
  TicksPerMicro,    \* ticks in a microsecond
  MicrosPerSecond,
  Capacity          \* what a buffer holds

ASSUME CallsAssumption ==
  /\ Durations \subseteq Int
  /\ TicksPerMicro \in Nat \ {0} /\ MicrosPerSecond \in Nat \ {0}
  /\ Capacity \in Nat \ {0}

Directions == {"send", "receive"}

VARIABLES
  flags,   \* of the descriptor
  timeo,   \* SO_SNDTIMEO and SO_RCVTIMEO in microseconds; 0 is none
  shut,    \* directions that are shut down, by either side
  inbox,   \* what the socket has not received yet
  outbox,  \* what the peer has not received yet
  gone,    \* the peer has closed its end
  owner,   \* where the owner is, and its locals
  call,    \* per caller: its call
  asked,   \* history: the arguments of the settings that have returned
  told     \* history: directions shutdown() was asked for

system == <<flags, timeo, shut, inbox, outbox, gone>>
history == <<asked, told>>
vars == <<system, owner, call, history>>

Idle == [at |-> "idle", mode |-> FALSE, flags |-> {}, timeout |-> 0]
NoCall == [dir |-> "none", endless |-> FALSE, promised |-> FALSE]

Init ==
  /\ flags = {"O_RDWR"}
  /\ timeo = [d \in Directions |-> 0]
  /\ shut = {} /\ inbox = 0 /\ outbox = 0
  /\ gone = FALSE
  /\ owner = Idle
  /\ call = [t \in Callers |-> NoCall]
  /\ asked = [mode |-> FALSE, timeo |-> timeo]
  /\ told = {}

---------------------------------------------------------------------------
(* Settings *)

\* duration_cast cuts towards zero.
microseconds(d) ==
  IF d >= 0 THEN d \div TicksPerMicro ELSE -((-d) \div TicksPerMicro)

\* A mutant: what is left of the last second.
tv_usec_remainder(micros) == micros % MicrosPerSecond

\* All of the time goes to tv_usec.
tv_usec(micros) == micros

\* The system refuses what is not less than a second.
Accepted(micros) == 0 <= tv_usec(micros) /\ tv_usec(micros) < MicrosPerSecond

\* setsockopt; what it refuses makes no_system_error throw.
setsockopt(dir, micros) ==
  timeo' = IF Accepted(micros) THEN [timeo EXCEPT ![dir] = tv_usec(micros)]
           ELSE timeo

\* A mutant: the option of the other direction.
OppositeTimeout(dir, micros) ==
  setsockopt(IF dir = "send" THEN "receive" ELSE "send", micros)

\* set_send_timeout() and set_receive_timeout() of the posix layer.
set_posix_timeout(dir, micros) == setsockopt(dir, micros)

\* set_send_timeout() and set_receive_timeout() of the class.
SetOneTimeout(dir, d) ==
  /\ owner = Idle
  /\ set_posix_timeout(dir, microseconds(d))
  /\ asked' = IF Accepted(microseconds(d))
              THEN [asked EXCEPT !.timeo[dir] = d] ELSE asked
  /\ UNCHANGED <<flags, shut, inbox, outbox, gone, owner, call, told>>

\* set_timeout() sets the send timeout, which may throw ...
SetTimeout(d) ==
  /\ owner = Idle
  /\ set_posix_timeout("send", microseconds(d))
  /\ owner' = IF Accepted(microseconds(d))
              THEN [Idle EXCEPT !.at = "rcvtimeo", !.timeout = d]
              ELSE Idle
  /\ UNCHANGED <<flags, shut, inbox, outbox, gone, call, history>>

\* A mutant: the send timeout again.
SetTimeoutRepeats ==
  /\ owner.at = "rcvtimeo"
  /\ set_posix_timeout("send", microseconds(owner.timeout))
  /\ owner' = Idle
  /\ asked' = [asked EXCEPT !.timeo = [d \in Directions |-> owner.timeout]]
  /\ UNCHANGED <<flags, shut, inbox, outbox, gone, call, told>>

\* ... and then the receive timeout.
SetTimeoutGoesOn ==
  /\ owner.at = "rcvtimeo"
  /\ set_posix_timeout("receive", microseconds(owner.timeout))
  /\ owner' = Idle
  /\ asked' = [asked EXCEPT !.timeo = [d \in Directions |-> owner.timeout]]
  /\ UNCHANGED <<flags, shut, inbox, outbox, gone, call, told>>

get_descriptor_flags == flags

\* non_blocking() gets the flags ...
NonBlocking(mode) ==
  /\ owner = Idle
  /\ owner' = [Idle EXCEPT !.at = "setfl", !.mode = mode,
                          !.flags = get_descriptor_flags]
  /\ UNCHANGED <<system, call, history>>

\* A mutant: the mode replaces the other flags.
new_flags_replace(mode, old) == IF mode THEN {"O_NONBLOCK"} ELSE {}

new_flags(mode, old) ==
  IF mode THEN old \cup {"O_NONBLOCK"} ELSE old \ {"O_NONBLOCK"}

\* ... and sets them.
NonBlockingGoesOn ==
  /\ owner.at = "setfl"
  /\ flags' = new_flags(owner.mode, owner.flags)
  /\ owner' = Idle
  /\ asked' = [asked EXCEPT !.mode = owner.mode]
  /\ UNCHANGED <<timeo, shut, inbox, outbox, gone, call, told>>

is_non_blocking == "O_NONBLOCK" \in get_descriptor_flags

\* The directions a mode stands for.
DirectionsOf(mode) == IF mode = "both" THEN Directions ELSE {mode}

\* A mutant: the values of shutdown_mode are exchanged.
to_integral_exchanged(mode) ==
  [send |-> "SHUT_RD", receive |-> "SHUT_WR", both |-> "SHUT_RDWR"][mode]

\* The value of a shutdown_mode.
to_integral(mode) ==
  [receive |-> "SHUT_RD", send |-> "SHUT_WR", both |-> "SHUT_RDWR"][mode]

\* What the system shuts down.
Ended(how) ==
  [SHUT_RD |-> {"receive"}, SHUT_WR |-> {"send"},
   SHUT_RDWR |-> Directions][how]

Shutdown(mode) ==
  /\ owner = Idle
  /\ shut' = shut \cup Ended(to_integral(mode))
  /\ told' = told \cup DirectionsOf(mode)
  /\ UNCHANGED <<flags, timeo, inbox, outbox, gone, owner, call, asked>>

---------------------------------------------------------------------------
(* Calls *)

\* What a call of the direction may rely on: the mode, or a timeout the
\* caller of the setting gave in whole microseconds at least.  A shorter one
\* is cut to zero, which the system takes for none.
Promised(dir) ==
  owner = Idle /\ (asked.mode \/ asked.timeo[dir] >= TicksPerMicro)

Begin(t, dir) ==
  /\ call[t] = NoCall
  /\ call' = [call EXCEPT ![t] =
       [dir |-> dir, endless |-> ~is_non_blocking /\ timeo[dir] = 0,
        promised |-> Promised(dir)]]
  /\ UNCHANGED <<system, owner, history>>

Returns(t) ==
  /\ call' = [call EXCEPT ![t] = NoCall]
  /\ UNCHANGED <<flags, timeo, shut, gone, owner, history>>

\* receive() gives what is there, and zero at the end of the stream.
ReceiveEnds(t) ==
  /\ call[t].dir = "receive"
  /\ \/ inbox > 0 /\ inbox' = inbox - 1
     \/ inbox = 0 /\ "receive" \in shut /\ UNCHANGED inbox
  /\ Returns(t)
  /\ UNCHANGED outbox

\* send() takes what the buffer holds.
SendEnds(t) ==
  /\ call[t].dir = "send"
  /\ "send" \notin shut /\ outbox < Capacity
  /\ outbox' = outbox + 1
  /\ Returns(t)
  /\ UNCHANGED inbox

\* A mutant: without MSG_NOSIGNAL a signal ends the process, and no call of
\* it returns.
BrokenPipeSignals(t) ==
  call[t].dir = "send" /\ "send" \in shut /\ UNCHANGED vars

\* send() on a broken connection throws.
BrokenPipe(t) ==
  /\ call[t].dir = "send" /\ "send" \in shut
  /\ Returns(t)
  /\ UNCHANGED <<inbox, outbox>>

\* Nothing to receive, no room to send, and the call does not wait for ever:
\* EAGAIN is thrown, at once or when the time is up.
GivesUp(t) ==
  /\ \/ call[t].dir = "receive" /\ inbox = 0 /\ "receive" \notin shut
     \/ call[t].dir = "send" /\ outbox = Capacity /\ "send" \notin shut
  /\ ~call[t].endless
  /\ Returns(t)
  /\ UNCHANGED <<inbox, outbox>>

---------------------------------------------------------------------------
(* The peer, which need not do anything *)

PeerReceives ==
  /\ ~gone /\ outbox > 0
  /\ outbox' = outbox - 1
  /\ UNCHANGED <<flags, timeo, shut, inbox, gone, owner, call, history>>

PeerSends ==
  /\ ~gone /\ "receive" \notin shut /\ inbox < Capacity
  /\ inbox' = inbox + 1
  /\ UNCHANGED <<flags, timeo, shut, outbox, gone, owner, call, history>>

PeerCloses ==
  /\ ~gone
  /\ gone' = TRUE
  /\ shut' = Directions
  /\ UNCHANGED <<flags, timeo, inbox, outbox, owner, call, history>>

---------------------------------------------------------------------------
(* The specification *)

Sets ==
  \/ \E d \in Durations :
       SetTimeout(d) \/ \E dir \in Directions : SetOneTimeout(dir, d)
  \/ \E mode \in BOOLEAN : NonBlocking(mode)
  \/ \E mode \in Directions \cup {"both"} : Shutdown(mode)

GoesOn == SetTimeoutGoesOn \/ NonBlockingGoesOn

Ends(t) == ReceiveEnds(t) \/ SendEnds(t) \/ BrokenPipe(t) \/ GivesUp(t)

Next ==
  \/ Sets \/ GoesOn
  \/ \E t \in Callers : Ends(t) \/ \E dir \in Directions : Begin(t, dir)
  \/ PeerReceives \/ PeerSends \/ PeerCloses

\* Threads that the system does not hold go on.
Fairness ==
  /\ WF_vars(GoesOn)
  /\ \A t \in Callers : WF_vars(Ends(t))

Spec == Init /\ [][Next]_vars /\ Fairness

---------------------------------------------------------------------------
(* Properties *)

\* Type invariant; non_blocking() keeps the other flags.
TypeOK ==
  /\ flags \in {{"O_RDWR"}, {"O_RDWR", "O_NONBLOCK"}}
  /\ timeo \in [Directions -> 0 .. MicrosPerSecond - 1]
  /\ shut \subseteq Directions /\ told \subseteq Directions
  /\ inbox \in 0..Capacity /\ outbox \in 0..Capacity
  /\ gone \in BOOLEAN
  /\ owner \in [at : {"idle", "rcvtimeo", "setfl"}, mode : BOOLEAN,
                flags : SUBSET {"O_RDWR", "O_NONBLOCK"},
                timeout : Durations \cup {0}]
  /\ call \in [Callers -> [dir : Directions \cup {"none"}, endless : BOOLEAN,
                           promised : BOOLEAN]]
  /\ asked \in [mode : BOOLEAN,
                timeo : [Directions -> Durations \cup {0}]]

\* A call that begins when a setting has returned that asked for a timeout of
\* a microsecond or more in its direction, or for non_blocking(true), ends,
\* although the peer does nothing and whatever the owner sets meanwhile.
\* set_timeout() promises it for both directions.  A timeout of less than a
\* microsecond promises nothing: the cast cuts it to none.
BoundedCallsEnd ==
  \A t \in Callers : call[t].promised ~> ~call[t].promised

\* shutdown() of a direction, and a peer that closes its end, release the
\* calls that wait, which have no timeout perhaps: they return to their
\* callers, and send() does not end the process by a signal.
CallsReleased ==
  \A t \in Callers, d \in Directions :
    (call[t].dir = d /\ (d \in told \/ gone)) ~> call[t].dir # d
=============================================================================
