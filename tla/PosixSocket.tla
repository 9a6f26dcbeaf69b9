----------------------------- MODULE PosixSocket -----------------------------
(***************************************************************************)
(* The posix layer, lib_static/src/jar/system/posix/socket.cpp and         *)
(* ipc_address.hpp, over the operating system: a descriptor table, the     *)
(* sockets behind the descriptors, and the names of the file system.       *)
(*                                                                         *)
(* Each operator is one function of the layer, with its handle, and tells  *)
(* what that does to the system.  Results are parameters.  Sockets are     *)
(* blocking here, so a call that would block is not enabled; SocketCalls   *)
(* has the other modes.                                                    *)
(***************************************************************************)
EXTENDS Naturals, Sequences

CONSTANTS
  Fds,       \* descriptors
  Invalid,   \* invalid_value(), -1
  Names,     \* names of sockets; <<>> is none
  MaxSocks,  \* bound: sockets ever created
  MaxQueue,  \* SOMAXCONN
  Capacity   \* what a receive buffer holds

Socks == 1..MaxSocks

VARIABLES
  fds,        \* the descriptor table: the socket, 0 when closed
  sk,         \* the sockets
  file,       \* the socket a name leads to, 0 for none
  terminated  \* std::terminate has been called

system == <<fds, sk, file, terminated>>

Free == [kind |-> "none", phase |-> "none", name |-> <<>>, backlog |-> 0,
         waiting |-> <<>>, peer |-> 0, shut |-> {}, inbox |-> <<>>]

SystemInit ==
  /\ fds = [f \in Fds |-> 0]
  /\ sk = [s \in Socks |-> Free]
  /\ file = [n \in Names |-> 0]
  /\ terminated = FALSE

\* The socket behind a handle; 0 when the handle is invalid.
Behind(h) == IF h \in Fds THEN fds[h] ELSE 0

IsOpen(s) == s \in Socks /\ sk[s].phase \in {"fresh", "listening", "connected"}

\* The sockets are created in order.
NextSock(s) ==
  sk[s].phase = "none" /\ \A r \in Socks : r < s => sk[r].phase # "none"

\* no_system_error throws, or the call returns zero: nothing has changed.
no_effect == UNCHANGED system

\* A call that changes nothing but the sockets.
Sets(sockets) == sk' = sockets /\ UNCHANGED <<fds, file, terminated>>

NoDescriptor == (\A f \in Fds : fds[f] # 0) /\ no_effect

---------------------------------------------------------------------------
(* Descriptors *)

\* construct() gives descriptor f; with NoDescriptor it fails.
construct(kind, f) ==
  /\ fds[f] = 0
  /\ \E s \in Socks :
       /\ NextSock(s)
       /\ fds' = [fds EXCEPT ![f] = s]
       /\ sk' = [sk EXCEPT ![s].kind = kind, ![s].phase = "fresh"]
  /\ UNCHANGED <<file, terminated>>

\* What close leaves of the sockets.  A listener takes the connections that
\* wait with it; a peer finds its connection ended, or reset when something
\* was left unread.
AfterClose(s) ==
  LET pending == {sk[s].waiting[i] : i \in 1..Len(sk[s].waiting)}
      gone == pending \cup {s}
      Reset(x) == IF x \in pending \/ sk[x].inbox # <<>> THEN {"reset"} ELSE {}
  IN  [x \in Socks |->
         IF x \in gone
         THEN [Free EXCEPT !.phase = "closed"]
         ELSE IF sk[x].peer \in gone
         THEN [sk[x] EXCEPT !.shut = @ \cup {"send", "receive"}
                                       \cup Reset(sk[x].peer)]
         ELSE sk[x]]

\* is_system_error(close(h)): what is not open cannot be closed.
CloseFails(h) == Behind(h) = 0

\* destroy() terminates when close fails.
destroy(h) ==
  /\ UNCHANGED file
  /\ IF CloseFails(h)
     THEN terminated' = TRUE /\ UNCHANGED <<fds, sk>>
     ELSE /\ fds' = [fds EXCEPT ![h] = 0]
          /\ sk' = AfterClose(Behind(h))
          /\ UNCHANGED terminated

---------------------------------------------------------------------------
(* Names and connections *)

\* unlink() removes the name it reads; that it leads nowhere, ENOENT, is
\* ignored.
unlink(n) ==
  /\ file' = [m \in Names |-> IF m = n THEN 0 ELSE file[m]]
  /\ UNCHANGED <<fds, sk, terminated>>

\* no_system_error_other_than(..., ENOENT) throws: nothing was removed.
UnlinkFails == no_effect

\* bind() refuses a name in use and a socket that has one.
CanBind(h, n) ==
  Behind(h) # 0 /\ file[n] = 0 /\ sk[Behind(h)].name = <<>>

bind(h, n) ==
  IF CanBind(h, n)
  THEN /\ sk' = [sk EXCEPT ![Behind(h)].name = n]
       /\ file' = [file EXCEPT ![n] = Behind(h)]
       /\ UNCHANGED <<fds, terminated>>
  ELSE no_effect

\* listen() needs a bound socket.
listen(h, size) ==
  LET s == Behind(h) IN
  IF s # 0 /\ sk[s].name # <<>>
  THEN Sets([sk EXCEPT ![s].phase = "listening", ![s].backlog = size])
  ELSE no_effect

\* accept() fails on what does not listen or has been shut down; otherwise
\* it waits for a connection, for which it needs a descriptor.
AcceptFails(h) ==
  LET s == Behind(h) IN
  /\ \/ s = 0 \/ sk[s].phase # "listening"
     \/ sk[s].waiting = <<>> /\ "receive" \in sk[s].shut
     \/ \A f \in Fds : fds[f] # 0
  /\ no_effect

accept(h, f) ==
  LET s == Behind(h) IN
  /\ s # 0 /\ sk[s].phase = "listening" /\ sk[s].waiting # <<>>
  /\ fds[f] = 0
  /\ fds' = [fds EXCEPT ![f] = Head(sk[s].waiting)]
  /\ sk' = [sk EXCEPT ![s].waiting = Tail(@)]
  /\ UNCHANGED <<file, terminated>>

\* connect() waits while the listener's queue is full.
connect(h, n) ==
  LET s == Behind(h) l == file[n] IN
  IF \/ s = 0 \/ sk[s].phase # "fresh"
     \/ ~IsOpen(l) \/ sk[l].phase # "listening" \/ "receive" \in sk[l].shut
  THEN no_effect
  ELSE \E k \in Socks :
         /\ NextSock(k) /\ Len(sk[l].waiting) <= sk[l].backlog
         /\ Sets([sk EXCEPT
              ![k] = [Free EXCEPT !.kind = "stream", !.phase = "connected",
                                  !.name = n, !.peer = s],
              ![s].phase = "connected", ![s].peer = k,
              ![l].waiting = Append(@, k)])

\* shutdown(): what one side shuts down the other side finds shut down.
shutdown(h, modes) ==
  LET s == Behind(h)
      Opposite(m) == IF m = "send" THEN "receive" ELSE "send"
  IN  IF s = 0
      THEN no_effect
      ELSE Sets([x \in Socks |->
             [sk[x] EXCEPT !.shut = @
               \cup (IF x = s THEN modes ELSE {})
               \cup (IF sk[x].peer = s THEN {Opposite(m) : m \in modes}
                     ELSE {})]])

---------------------------------------------------------------------------
(* Data *)

\* send() waits while the peer's buffer is full.
send(h) ==
  LET s == Behind(h) IN
  IF s = 0 \/ sk[s].phase # "connected" \/ "send" \in sk[s].shut
  THEN no_effect
  ELSE /\ Len(sk[sk[s].peer].inbox) < Capacity
       /\ Sets([sk EXCEPT ![sk[s].peer].inbox = Append(@, <<>>)])

\* receive() gives what is there, zero at the end of the stream, and waits
\* otherwise; a reset is reported once.
receive(h) ==
  LET s == Behind(h) IN
  IF s = 0 \/ sk[s].phase # "connected"
  THEN no_effect
  ELSE \/ sk[s].inbox # <<>> /\ Sets([sk EXCEPT ![s].inbox = Tail(@)])
       \/ /\ sk[s].inbox = <<>> /\ "reset" \in sk[s].shut
          /\ Sets([sk EXCEPT ![s].shut = @ \ {"reset"}])
       \/ /\ sk[s].inbox = <<>> /\ "receive" \in sk[s].shut
          /\ "reset" \notin sk[s].shut
          /\ no_effect

\* send_to() waits while the receiver's buffer is full.
send_to(h, n) ==
  LET s == Behind(h) d == file[n] IN
  IF \/ s = 0 \/ "send" \in sk[s].shut
     \/ ~IsOpen(d) \/ sk[d].kind # "datagram" \/ "receive" \in sk[d].shut
  THEN no_effect
  ELSE /\ Len(sk[d].inbox) < Capacity
       /\ Sets([sk EXCEPT ![d].inbox = Append(@, sk[s].name)])

\* receive_from() takes a datagram; the sender's name is its result.
Received(h) == Behind(h) # 0 /\ sk[Behind(h)].inbox # <<>>

receive_from(h, sender) ==
  /\ Received(h)
  /\ sender = Head(sk[Behind(h)].inbox)
  /\ Sets([sk EXCEPT ![Behind(h)].inbox = Tail(@)])

ReceiveFromEnds(h) ==
  /\ Behind(h) = 0 \/ (~Received(h) /\ "receive" \in sk[Behind(h)].shut)
  /\ no_effect
=============================================================================
