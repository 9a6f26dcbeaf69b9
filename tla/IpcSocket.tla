----------------------------- MODULE IpcSocket -----------------------------
(***************************************************************************)
(* The socket classes (lib_static/inc/jar/com) and the handle they derive  *)
(* from (lib_header/inc/jar/system/basic_handle.hpp), on the posix layer   *)
(* (PosixSocket) and the addresses (IpcAddress).                           *)
(*                                                                         *)
(* An object is a C++ object; m_value is its descriptor, which the system  *)
(* hands out again after it is closed.  A call is one step where it makes  *)
(* one system call.  bind makes two, unlink and bind; accept makes one and *)
(* then runs a handler.  Objects belong to different threads.              *)
(***************************************************************************)
EXTENDS Naturals, Sequences, FiniteSets

CONSTANTS
  Servers, Streams, Datagrams,  \* objects, by class
  NoObject,                     \* no object
  Unborn,                       \* m_value of what is not constructed
  Paths,                        \* arguments of addresses
  BindPaths,                    \* bound: those some socket is bound to
  Size, Nul,                    \* of IpcAddress
  Fds, Invalid, MaxSocks, MaxQueue, Capacity,  \* of PosixSocket
  QueueSizes,                   \* arguments of listen
  Modes                         \* arguments of shutdown

Address == INSTANCE IpcAddress

\* The constructor of an address and not_zero(length()) let a path pass.
Takes(path) ==
  Address!Fits(path) /\ Address!length(Address!construct(path)) # 0

\* The system gets all of the address, sizeof(native_address_type), and
\* takes the name up to its null character.
SystemName(address) == Address!to_string_view(address)

NameOf(path) == SystemName(Address!construct(path))
Names == {NameOf(path) : path \in {p \in Paths : Takes(p)}}

Objects == Servers \cup Streams \cup Datagrams

ASSUME SocketAssumption ==
  /\ Servers \cap Streams = {} /\ Servers \cap Datagrams = {}
  /\ Streams \cap Datagrams = {}
  /\ NoObject \notin Objects
  /\ Size \in Nat \ {0}
  /\ Invalid \notin Fds
  /\ MaxSocks \in Nat /\ MaxQueue \in Nat /\ Capacity \in Nat
  /\ Unborn \notin Fds /\ Invalid # Unborn
  /\ BindPaths \subseteq Paths
  /\ \A path \in Paths : path \in Seq({path[i] : i \in DOMAIN path})
  /\ QueueSizes \subseteq Nat
  /\ Modes \subseteq SUBSET {"send", "receive"}

VARIABLES
  m_value,   \* per object
  remote,    \* per datagram object: the address its receive_from fills in
  binding,   \* per object: the name bind() is between unlink and bind with
  handling,  \* per server: the temporary object accept() has given its handler
  rivals,    \* history: objects in bind() whose name was bound meanwhile
  fds, sk, file, terminated  \* of PosixSocket

objects == <<m_value, remote, binding, handling, rivals>>

Posix == INSTANCE PosixSocket

system == <<fds, sk, file, terminated>>
vars == <<objects, system>>

Init ==
  /\ m_value = [o \in Objects |-> Unborn]
  /\ remote \in [Datagrams -> {Address!construct(p) :
                              p \in {q \in Paths : Address!Fits(q)}}]
  /\ binding = [o \in Objects |-> <<>>]
  /\ handling = [o \in Servers |-> NoObject]
  /\ rivals = {}
  /\ Posix!SystemInit

InHandler(o) == \E a \in Servers : handling[a] = o

\* An object its owner may use.
Usable(o) ==
  /\ m_value[o] # Unborn /\ binding[o] = <<>>
  /\ o \in Servers => handling[o] = NoObject

---------------------------------------------------------------------------
(* basic_handle *)

KindOf(o) == IF o \in Datagrams THEN "datagram" ELSE "stream"

\* A constructor: the system may run out of descriptors.
Construct(o) ==
  /\ m_value[o] = Unborn
  /\ \/ \E f \in Fds :
          /\ Posix!construct(KindOf(o), f)
          /\ m_value' = [m_value EXCEPT ![o] = f]
     \/ Posix!NoDescriptor /\ UNCHANGED m_value
  /\ UNCHANGED <<remote, binding, handling, rivals>>

\* A mutant: the source of a move stays valid.
MoveConstructCopies(o, other) ==
  /\ m_value[o] = Unborn /\ Usable(other)
  /\ m_value' = [m_value EXCEPT ![o] = m_value[other]]
  /\ UNCHANGED <<remote, binding, handling, rivals, system>>

\* The move constructor, within a class.
MoveConstruct(o, other) ==
  /\ m_value[o] = Unborn /\ Usable(other)
  /\ m_value' = [m_value EXCEPT ![o] = m_value[other], ![other] = Invalid]
  /\ UNCHANGED <<remote, binding, handling, rivals, system>>

is_valid(o) == m_value[o] # Invalid

\* The constructor from a native handle.
Adopt(o, f) == m_value' = [m_value EXCEPT ![o] = f]

\* ~basic_handle() closes a valid descriptor.
Destructor(o) ==
  /\ m_value' = [m_value EXCEPT ![o] = Unborn]
  /\ IF is_valid(o) THEN Posix!destroy(m_value[o]) ELSE UNCHANGED system

\* A mutant: the destructor removes the name, too.
DestroyUnlinks(o) ==
  LET s == Posix!Behind(m_value[o]) IN
  /\ Usable(o) /\ ~InHandler(o)
  /\ m_value' = [m_value EXCEPT ![o] = Unborn]
  /\ IF s = 0
     THEN UNCHANGED system
     ELSE /\ fds' = [fds EXCEPT ![m_value[o]] = 0]
          /\ sk' = Posix!AfterClose(s)
          /\ file' = [n \in Names |-> IF sk[s].name = n THEN 0 ELSE file[n]]
          /\ UNCHANGED terminated
  /\ UNCHANGED <<remote, binding, handling, rivals>>

Destroy(o) ==
  /\ Usable(o) /\ ~InHandler(o)
  /\ Destructor(o)
  /\ UNCHANGED <<remote, binding, handling, rivals>>

---------------------------------------------------------------------------
(* The calls *)

\* not_null and not_zero: a null buffer, a zero length or a null handler
\* ends every call that has one before any system call.
BadArgument(o) == Usable(o) /\ UNCHANGED vars

Shutdown(o, modes) ==
  Usable(o) /\ Posix!shutdown(m_value[o], modes) /\ UNCHANGED objects

\* unlink() of an address passes on a string_view into a copy of it that is
\* gone: what is read there is its name, the name of another socket or none.
Unlinks == \E n \in Names \cup {<<>>} : Posix!unlink(n)

\* bind() unlinks first, to free its name, which ends the call on any error but
\* ENOENT ...
BindUnlinks(o, path) ==
  /\ Usable(o) /\ Takes(path)
  /\ \/ /\ Unlinks
        /\ binding' = [binding EXCEPT ![o] = NameOf(path)]
        /\ UNCHANGED <<m_value, remote, handling, rivals>>
     \/ Posix!UnlinkFails /\ UNCHANGED objects

\* ... and binds it then.
BindBinds(o) ==
  LET n == binding[o] IN
  /\ n # <<>>
  /\ Posix!bind(m_value[o], n)
  /\ binding' = [binding EXCEPT ![o] = <<>>]
  /\ rivals' = (IF Posix!CanBind(m_value[o], n)
                THEN rivals \cup {p \in Objects : binding[p] = n}
                ELSE rivals) \ {o}
  /\ UNCHANGED <<m_value, remote, handling>>

max_que == MaxQueue

\* listen() cuts the queue size to max_que().
Listen(o, size) ==
  /\ Usable(o)
  /\ Posix!listen(m_value[o], IF size < max_que THEN size ELSE max_que)
  /\ UNCHANGED objects

\* A mutant: the handler is looked at when the connection has been taken.
AcceptChecksLate(o) ==
  /\ Usable(o)
  /\ \E f \in Fds : Posix!accept(m_value[o], f)
  /\ UNCHANGED objects

\* accept() gives the connection to the handler, in a temporary object.
Accept(o) ==
  /\ Usable(o)
  /\ \/ \E f \in Fds, t \in Streams :
          /\ m_value[t] = Unborn
          /\ Posix!accept(m_value[o], f)
          /\ Adopt(t, f)
          /\ handling' = [handling EXCEPT ![o] = t]
     \/ Posix!AcceptFails(m_value[o]) /\ UNCHANGED <<m_value, handling>>
  /\ UNCHANGED <<remote, binding, rivals>>

\* The handler returns or throws: the temporary object goes either way.
HandlerEnds(o) ==
  /\ handling[o] # NoObject
  /\ handling' = [handling EXCEPT ![o] = NoObject]
  /\ Destructor(handling[o])
  /\ UNCHANGED <<remote, binding, rivals>>

Connect(o, path) ==
  /\ Usable(o) /\ Takes(path)
  /\ Posix!connect(m_value[o], NameOf(path))
  /\ UNCHANGED objects

Send(o) == Usable(o) /\ Posix!send(m_value[o]) /\ UNCHANGED objects

Receive(o) == Usable(o) /\ Posix!receive(m_value[o]) /\ UNCHANGED objects

SendTo(o, path) ==
  /\ Usable(o) /\ Takes(path)
  /\ Posix!send_to(m_value[o], NameOf(path))
  /\ UNCHANGED objects

\* receive_from(): the system fills in the sender's name; of a sender that
\* has none it writes nothing, and remote_address keeps what it held.
ReceiveFrom(o) ==
  /\ Usable(o)
  /\ \/ \E sender \in Names \cup {<<>>} :
          /\ Posix!receive_from(m_value[o], sender)
          /\ remote' = [remote EXCEPT ![o] =
                          IF sender = <<>> THEN @
                          ELSE Address!Filled(@, sender)]
     \/ Posix!ReceiveFromEnds(m_value[o]) /\ UNCHANGED remote
  /\ UNCHANGED <<m_value, binding, handling, rivals>>

---------------------------------------------------------------------------
(* The specification *)

Moves(class) == \E o, other \in class : MoveConstruct(o, other)

Next ==
  \/ \E o \in Objects :
       \/ Construct(o) \/ Destroy(o) \/ BadArgument(o)
       \/ \E modes \in Modes : Shutdown(o, modes)
  \/ Moves(Servers) \/ Moves(Streams) \/ Moves(Datagrams)
  \/ \E o \in Servers \cup Datagrams :
       BindBinds(o) \/ \E path \in BindPaths : BindUnlinks(o, path)
  \/ \E o \in Servers :
       Accept(o) \/ HandlerEnds(o) \/ \E size \in QueueSizes : Listen(o, size)
  \/ \E o \in Streams : \E path \in Paths : Connect(o, path)
  \/ \E o \in Servers \cup Streams : Send(o) \/ Receive(o)
  \/ \E o \in Datagrams : ReceiveFrom(o) \/ \E path \in Paths : SendTo(o, path)

Spec == Init /\ [][Next]_vars

---------------------------------------------------------------------------
(* Properties *)

\* Type invariant; no destructor finds its descriptor closed already.
TypeOK ==
  /\ m_value \in [Objects -> Fds \cup {Invalid, Unborn}]
  /\ \A o \in Datagrams : SystemName(remote[o]) \in Names \cup {<<>>}
  /\ binding \in [Objects -> Names \cup {<<>>}]
  /\ handling \in [Servers -> Streams \cup {NoObject}]
  /\ ~terminated
  /\ rivals \subseteq Objects
  /\ fds \in [Fds -> 0..MaxSocks]
  /\ file \in [Names -> 0..MaxSocks]
  /\ \A s \in Posix!Socks :
       /\ sk[s].kind \in {"none", "stream", "datagram"}
       /\ sk[s].phase \in {"none", "fresh", "listening", "connected", "closed"}
       /\ sk[s].name \in Names \cup {<<>>}
       /\ sk[s].backlog \in 0..MaxQueue
       /\ Len(sk[s].inbox) <= Capacity

\* Every open descriptor has exactly one owner, also while a handler runs
\* and after moves, failures and reuse of the descriptor: none is leaked,
\* none is closed twice.
OwnedOnce ==
  /\ \A f \in Fds :
       fds[f] # 0 => Cardinality({o \in Objects : m_value[o] = f}) = 1
  /\ \A o \in Objects :
       m_value[o] \in Fds => Posix!IsOpen(Posix!Behind(m_value[o]))

\* The socket behind an object does not change under it, whatever other
\* objects are moved and destroyed and descriptors used again.
SocketStays ==
  [][\A o \in Objects :
       m_value[o] \in Fds /\ m_value'[o] = m_value[o] =>
         fds'[m_value[o]] = fds[m_value[o]]]_vars

\* A name that leads to an open socket is taken from it by the unlink() of
\* some bind() only, which takes no other name with it: not by the second
\* half of a bind(), nor by the end of another socket that once had the name.
\* The bind() may be one of another name, as what unlink() reads is gone.
NameTakenByBind ==
  [][\A n \in Names :
       Posix!IsOpen(file[n]) /\ sk'[file[n]].phase # "closed"
         /\ file'[n] # file[n] =>
           /\ \E o \in Objects : binding[o] = <<>> /\ binding'[o] # <<>>
           /\ \A m \in Names \ {n} : file'[m] = file[m]]_vars

\* bind() frees the name first: of a socket that has none it can only fail
\* because another bind() of that name has come in between.
BindFreesName ==
  [][\A o \in Objects :
       LET s == Posix!Behind(m_value[o]) IN
       binding[o] # <<>> /\ binding'[o] = <<>>
         /\ s # 0 /\ sk'[s].name = <<>> =>
           o \in rivals]_vars

\* The address receive_from() fills in compares equal to the address the
\* sender was bound to, whatever longer name it held before.
SenderKnown ==
  [][\A o \in Datagrams :
       LET s == Posix!Behind(m_value[o]) IN
       s # 0 /\ sk[s].inbox # <<>> /\ UNCHANGED m_value
         /\ sk'[s].inbox = Tail(sk[s].inbox) /\ Head(sk[s].inbox) # <<>> =>
           Address!EqualAddresses(remote'[o],
             Address!construct(Head(sk[s].inbox)))]_vars
=============================================================================
