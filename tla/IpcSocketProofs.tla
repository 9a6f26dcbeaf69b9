-------------------------- MODULE IpcSocketProofs --------------------------
(***************************************************************************)
(* Theorems about the socket classes for any number of objects,            *)
(* descriptors, sockets and names of any length.                           *)
(***************************************************************************)
EXTENDS IpcSocket, FiniteSetTheorems, SequenceTheorems, TLAPS

---------------------------------------------------------------------------
(* The inductive invariant *)

\* The sockets, with what a queue of connections and a buffer hold.
SockStates ==
  [kind : {"none", "stream", "datagram"},
   phase : {"none", "fresh", "listening", "connected", "closed"},
   name : Names \cup {<<>>}, backlog : 0..MaxQueue,
   waiting : Seq(Posix!Socks), peer : 0..MaxSocks,
   shut : SUBSET {"send", "receive", "reset"}, inbox : Seq(Names \cup {<<>>})]

SocksTyped ==
  /\ sk \in [Posix!Socks -> SockStates]
  /\ DOMAIN remote = Datagrams

\* Every open descriptor is the m_value of one object.
Owners ==
  /\ \A f \in Fds : fds[f] # 0 <=> \E o \in Objects : m_value[o] = f
  /\ \A o, p \in Objects : m_value[o] \in Fds /\ m_value[o] = m_value[p] => o = p

\* No two descriptors lead to one socket, and none to one that is closed.
Table ==
  /\ \A f \in Fds : fds[f] # 0 => Posix!IsOpen(fds[f])
  /\ \A f, g \in Fds : fds[f] # 0 /\ fds[f] = fds[g] => f = g

\* A connection that waits for accept() is open, has no descriptor yet and
\* waits in one place.
Queued ==
  \A s \in Posix!Socks : \A i \in 1..Len(sk[s].waiting) :
    /\ Posix!IsOpen(sk[s].waiting[i])
    /\ \A f \in Fds : fds[f] # sk[s].waiting[i]
    /\ \A r \in Posix!Socks : \A j \in 1..Len(sk[r].waiting) :
         sk[r].waiting[j] = sk[s].waiting[i] => r = s /\ j = i

\* The temporary of accept() exists as long as its handler runs.
Handlers ==
  /\ \A a \in Servers : handling[a] # NoObject => m_value[handling[a]] # Unborn
  /\ \A a, b \in Servers : handling[a] # NoObject /\ handling[a] = handling[b] =>
       a = b

IpcInv == TypeOK /\ SocksTyped /\ Owners /\ Table /\ Queued /\ Handlers

---------------------------------------------------------------------------
(* Addresses *)

\* Every nonempty set of numbers has a least one.
LEMMA Least ==
  ASSUME NEW T \in SUBSET Nat, T # {} PROVE \E i \in T : \A j \in T : i <= j
<1>1. \E i \in T : \A j \in T : ~(<<j, i>> \in OpToRel(<, Nat))
  BY NatLessThanWellFounded, WFMin
<1>2. ASSUME NEW i \in Nat, NEW j \in Nat, j < i
      PROVE  <<j, i>> \in OpToRel(<, Nat)
  BY <1>2 DEF OpToRel
<1>3. PICK i \in T : \A j \in T : ~(<<j, i>> \in OpToRel(<, Nat))
  BY <1>1
<1>4. \A j \in T : ~(j < i)
  BY <1>2, <1>3
<1> QED
  BY <1>4

USE SocketAssumption DEF SocketAssumption

\* What the system can have taken from an address: it has room for the null
\* character and holds none.
IsName(x) ==
  /\ x \in Seq({x[i] : i \in DOMAIN x})
  /\ Len(x) < Size
  /\ \A i \in 1..Len(x) : x[i] # Nul

\* The name ends before the first null character.
LEMMA ViewEnds ==
  ASSUME NEW S, NEW a \in [1..Size -> S], NEW n \in 0..(Size - 1),
         a[n + 1] = Nul, \A i \in 1..n : a[i] # Nul
  PROVE  /\ Address!to_string_view(a) \in Seq(S)
         /\ Len(Address!to_string_view(a)) = n
         /\ \A i \in 1..n : Address!to_string_view(a)[i] = a[i]
<1> DEFINE ends == {i \in 1..Size : a[i] = Nul}
           first == CHOOSE i \in ends : \A j \in ends : i <= j
<1>1. n + 1 \in ends /\ \A j \in ends : n + 1 <= j
  OBVIOUS
<1>2. first \in ends /\ \A j \in ends : first <= j
  BY <1>1
<1>3. first = n + 1
  BY <1>1, <1>2
<1>4. a \in Seq(S) /\ Len(a) = Size
  OBVIOUS
<1>5. Address!to_string_view(a) = SubSeq(a, 1, n)
  <2>1. Address!to_string_view(a) = SubSeq(a, 1, first - 1)
    BY DEF Address!to_string_view
  <2>2. first - 1 = n
    BY <1>3
  <2> QED
    BY <2>1, <2>2
<1>6. n \in 0..Len(a)
  BY <1>4
<1> QED
  BY <1>4, <1>5, <1>6, SubSeqProperties

\* A name survives the constructor of an address, and what recvfrom writes
\* over any other address names the sender.
LEMMA NameSurvives ==
  ASSUME NEW x, IsName(x), NEW address
  PROVE  /\ Address!to_string_view(Address!construct(x)) = x
         /\ Address!to_string_view(Address!Filled(address, x)) = x
<1> DEFINE n == Len(x)
           S == {x[i] : i \in DOMAIN x}
<1>1. n \in 0..(Size - 1) /\ x \in Seq(S) /\ DOMAIN x = 1..n
  BY DEF IsName
<1>2. ASSUME NEW a, NEW R, a \in [1..Size -> R], a[n + 1] = Nul,
             \A i \in 1..n : a[i] = x[i]
      PROVE  Address!to_string_view(a) = x
  <2>1. \A i \in 1..n : a[i] # Nul
    BY <1>2 DEF IsName
  <2> HIDE DEF n, S
  <2>2. /\ Address!to_string_view(a) \in Seq(R)
        /\ Len(Address!to_string_view(a)) = n
        /\ \A i \in 1..n : Address!to_string_view(a)[i] = a[i]
    BY <1>1, <1>2, <2>1, ViewEnds
  <2> QED
    BY <1>1, <1>2, <2>2, SeqEqual DEF n
<1>3. Address!to_string_view(Address!construct(x)) = x
  <2> DEFINE a == Address!construct(x)
  <2>1. a \in [1..Size -> {a[i] : i \in 1..Size}]
    BY DEF Address!construct
  <2>2. a[n + 1] = Nul /\ \A i \in 1..n : a[i] = x[i]
    BY <1>1 DEF Address!construct
  <2> QED
    BY <1>2, <2>1, <2>2
<1>4. Address!to_string_view(Address!Filled(address, x)) = x
  <2> DEFINE a == Address!Filled(address, x)
  <2>1. a \in [1..Size -> {a[i] : i \in 1..Size}]
    BY DEF Address!Filled
  <2>2. a[n + 1] = Nul /\ \A i \in 1..n : a[i] = x[i]
    BY <1>1 DEF Address!Filled
  <2> QED
    BY <1>2, <2>1, <2>2
<1> QED
  BY <1>3, <1>4

\* What the system takes from the address of a path is a name.
LEMMA PathNames ==
  ASSUME NEW path \in Paths, Address!Fits(path)
  PROVE  /\ IsName(NameOf(path))
         /\ Takes(path) \/ NameOf(path) = <<>>
<1> DEFINE a == Address!construct(path)
           S == {a[i] : i \in 1..Size}
           T == {i \in 1..Size : a[i] = Nul}
<1>1. a \in [1..Size -> S]
  BY DEF Address!construct
<1>2. Len(path) \in Nat /\ Len(path) + 1 \in T
  BY DEF Address!Fits, Address!max_length, Address!construct
<1>3. PICK m \in T : \A j \in T : m <= j
  <2>1. T \in SUBSET Nat /\ T # {}
    BY <1>2
  <2> HIDE DEF T
  <2> QED
    BY <2>1, Least
<1>4. PICK n \in 0..(Size - 1) : n + 1 = m
  BY <1>3
<1>5. a[n + 1] = Nul /\ \A i \in 1..n : a[i] # Nul
  BY <1>3, <1>4
<1> DEFINE v == Address!to_string_view(a)
<1>6. v \in Seq(S) /\ Len(v) = n /\ \A i \in 1..n : v[i] = a[i]
  BY <1>1, <1>5, ViewEnds
<1> HIDE DEF v, a, S, T
<1>7. IsName(v)
  <2>1. v \in Seq({v[i] : i \in DOMAIN v})
    BY <1>6
  <2> QED
    BY <1>5, <1>6, <2>1 DEF IsName
<1>8. v = <<>> \/ Len(v) # 0
  BY <1>6, EmptySeq
<1> QED
  BY <1>7, <1>8 DEF v, a, NameOf, SystemName, Takes, Address!length

LEMMA NamesAreNames ==
  /\ \A path \in Paths : Takes(path) => NameOf(path) \in Names
  /\ \A x \in Names : IsName(x)
<1>1. \A path \in Paths : Takes(path) => IsName(NameOf(path))
  BY PathNames DEF Takes
<1> QED
  BY <1>1 DEF Names

---------------------------------------------------------------------------
(* Parts that a step leaves alone *)

\* What TypeOK says of the sockets is part of SocksTyped, but for the bound.
LEMMA TypeFromParts ==
  ASSUME SocksTyped',
         m_value' \in [Objects -> Fds \cup {Invalid, Unborn}],
         \A o \in Datagrams : SystemName(remote'[o]) \in Names \cup {<<>>},
         binding' \in [Objects -> Names \cup {<<>>}],
         handling' \in [Servers -> Streams \cup {NoObject}],
         ~terminated', rivals' \subseteq Objects,
         fds' \in [Fds -> 0..MaxSocks], file' \in [Names -> 0..MaxSocks],
         \A s \in Posix!Socks : Len(sk'[s].inbox) <= Capacity
  PROVE  TypeOK'
<1>1. \A s \in Posix!Socks :
        /\ sk'[s].kind \in {"none", "stream", "datagram"}
        /\ sk'[s].phase \in {"none", "fresh", "listening", "connected", "closed"}
        /\ sk'[s].name \in Names \cup {<<>>}
        /\ sk'[s].backlog \in 0..MaxQueue
  <2>1. \A s \in Posix!Socks : sk'[s] \in SockStates
    BY DEF SocksTyped
  <2> QED
    BY <2>1 DEF SockStates
<1> QED
  BY <1>1 DEF TypeOK, SystemName

\* A step that leaves descriptors and their owners alone, and neither closes
\* a socket nor touches a queue of connections.
LEMMA OwnersKept ==
  ASSUME IpcInv, UNCHANGED <<fds, m_value, handling>>,
         \A s \in Posix!Socks : /\ sk'[s].waiting = sk[s].waiting
                                /\ Posix!IsOpen(s) => Posix!IsOpen(s)'
  PROVE  Owners' /\ Table' /\ Queued' /\ Handlers'
<1> USE DEF IpcInv
<1>1. Owners' /\ Handlers'
  BY DEF Owners, Handlers
<1>2. \A s : Posix!IsOpen(s) => Posix!IsOpen(s)'
  BY DEF Posix!IsOpen
<1>3. Table'
  BY <1>2 DEF Table
<1>4. Queued'
  <2> SUFFICES ASSUME NEW s \in Posix!Socks, NEW i \in 1..Len(sk[s].waiting)
               PROVE  /\ Posix!IsOpen(sk[s].waiting[i])'
                      /\ \A f \in Fds : fds[f] # sk[s].waiting[i]
                      /\ \A r \in Posix!Socks : \A j \in 1..Len(sk[r].waiting) :
                           sk[r].waiting[j] = sk[s].waiting[i] => r = s /\ j = i
    BY DEF Queued
  <2> QED
    BY <1>2 DEF Queued
<1> QED
  BY <1>1, <1>3, <1>4

LEMMA UnchangedInv == ASSUME IpcInv, UNCHANGED vars PROVE IpcInv'
<1> USE DEF vars, objects, system, IpcInv
<1>1. TypeOK' /\ SocksTyped'
  BY DEF TypeOK, SocksTyped
<1>2. Owners' /\ Table' /\ Queued' /\ Handlers'
  BY DEF Owners, Table, Queued, Handlers, Posix!IsOpen
<1> QED
  BY <1>1, <1>2

\* A call that changes nothing but the data in the sockets.
LEMMA DataInv ==
  ASSUME IpcInv, UNCHANGED <<fds, file, terminated, m_value, binding, handling,
                             rivals>>,
         sk' \in [Posix!Socks -> SockStates],
         \A s \in Posix!Socks : /\ sk'[s].waiting = sk[s].waiting
                                /\ Posix!IsOpen(s) => Posix!IsOpen(s)'
                                /\ Len(sk'[s].inbox) <= Capacity,
         DOMAIN remote' = Datagrams,
         \A o \in Datagrams : SystemName(remote'[o]) \in Names \cup {<<>>}
  PROVE  IpcInv'
<1>1. SocksTyped'
  BY DEF SocksTyped
<1>2. TypeOK'
  BY <1>1, TypeFromParts DEF IpcInv, TypeOK
<1>3. Owners' /\ Table' /\ Queued' /\ Handlers'
  BY OwnersKept
<1> QED
  BY <1>1, <1>2, <1>3 DEF IpcInv

---------------------------------------------------------------------------
(* Calls on an open descriptor *)

\* What the invariant says of one socket.
LEMMA SockFields ==
  ASSUME IpcInv, NEW s \in Posix!Socks
  PROVE  /\ sk[s] \in SockStates
         /\ sk[s].waiting \in Seq(Posix!Socks) /\ Len(sk[s].waiting) \in Nat
         /\ sk[s].inbox \in Seq(Names \cup {<<>>})
         /\ Len(sk[s].inbox) \in Nat /\ Len(sk[s].inbox) <= Capacity
  BY DEF IpcInv, SocksTyped, SockStates, TypeOK

\* A socket with some of its fields set anew.
LEMMA ListenSet ==
  ASSUME NEW r \in SockStates, NEW n \in 0..MaxQueue
  PROVE  [r EXCEPT !.phase = "listening", !.backlog = n] \in SockStates
  BY DEF SockStates

LEMMA ShutSet ==
  ASSUME NEW r \in SockStates, NEW more \in SUBSET {"send", "receive", "reset"}
  PROVE  /\ [r EXCEPT !.shut = @ \cup more] \in SockStates
         /\ [r EXCEPT !.shut = @ \ {"reset"}] \in SockStates
<1>1. r.shut \in SUBSET {"send", "receive", "reset"}
  BY DEF SockStates
<1>2. /\ r.shut \cup more \in SUBSET {"send", "receive", "reset"}
      /\ r.shut \ {"reset"} \in SUBSET {"send", "receive", "reset"}
  BY <1>1
<1> QED
  BY <1>2 DEF SockStates

LEMMA InboxSet ==
  ASSUME NEW r \in SockStates, NEW box \in Seq(Names \cup {<<>>})
  PROVE  [r EXCEPT !.inbox = box] \in SockStates
  BY DEF SockStates

LEMMA NameSet ==
  ASSUME NEW r \in SockStates, NEW x \in Names
  PROVE  [r EXCEPT !.name = x] \in SockStates
  BY DEF SockStates

\* One socket is replaced by one that is as open and has the same queue.
LEMMA OneSockInv ==
  ASSUME IpcInv, NEW s \in Posix!Socks, NEW q \in SockStates,
         sk' = [sk EXCEPT ![s] = q],
         q.waiting = sk[s].waiting, Len(q.inbox) <= Capacity,
         sk[s].phase \in {"fresh", "listening", "connected"} =>
           q.phase \in {"fresh", "listening", "connected"},
         UNCHANGED <<fds, file, terminated, m_value, binding, handling, rivals>>,
         DOMAIN remote' = Datagrams,
         \A o \in Datagrams : SystemName(remote'[o]) \in Names \cup {<<>>}
  PROVE  IpcInv'
<1>1. sk \in [Posix!Socks -> SockStates]
  BY DEF IpcInv, SocksTyped
<1>2. /\ sk' \in [Posix!Socks -> SockStates]
      /\ \A r \in Posix!Socks : sk'[r] = IF r = s THEN q ELSE sk[r]
  BY <1>1
<1>3. \A r \in Posix!Socks : /\ sk'[r].waiting = sk[r].waiting
                             /\ Posix!IsOpen(r) => Posix!IsOpen(r)'
                             /\ Len(sk'[r].inbox) <= Capacity
  BY <1>2, SockFields DEF Posix!IsOpen
<1> QED
  BY <1>2, <1>3, DataInv

LEMMA ListenInv ==
  ASSUME IpcInv, NEW o \in Servers, NEW size \in QueueSizes, Listen(o, size)
  PROVE  IpcInv' /\ \A x \in Posix!Socks : sk'[x].inbox = sk[x].inbox
<1> DEFINE s == Posix!Behind(m_value[o])
           n == IF size < max_que THEN size ELSE max_que
<1>1. CASE s # 0 /\ sk[s].name # <<>>
  <2>1. s \in Posix!Socks
    BY <1>1 DEF IpcInv, TypeOK, Posix!Behind, Posix!Socks
  <2>2. n \in 0..MaxQueue
    BY DEF max_que
  <2>3. /\ sk' = [sk EXCEPT ![s].phase = "listening", ![s].backlog = n]
        /\ UNCHANGED <<fds, file, terminated, objects>>
    BY <1>1 DEF Listen, Posix!listen, Posix!Sets
  <2> HIDE DEF s, n
  <2>4. PICK q : q = [sk[s] EXCEPT !.phase = "listening", !.backlog = n]
    OBVIOUS
  <2>5. sk' = [sk EXCEPT ![s] = q]
    BY <2>1, <2>3, <2>4 DEF IpcInv, SocksTyped
  <2>6. q \in SockStates /\ q.waiting = sk[s].waiting
          /\ q.inbox = sk[s].inbox /\ q.phase = "listening"
    <3>1. sk[s] \in SockStates
      BY <2>1, SockFields
    <3>2. q \in SockStates
      BY <2>2, <2>4, <3>1, ListenSet
    <3> QED
      BY <2>4, <3>1, <3>2 DEF SockStates
  <2>7. Len(q.inbox) <= Capacity
    BY <2>1, <2>6, SockFields
  <2>8. IpcInv'
    BY <2>1, <2>3, <2>5, <2>6, <2>7, OneSockInv DEF objects, IpcInv, SocksTyped, TypeOK
  <2>9. \A x \in Posix!Socks : sk'[x] = IF x = s THEN q ELSE sk[x]
    BY <2>1, <2>5 DEF IpcInv, SocksTyped
  <2> QED
    BY <2>6, <2>8, <2>9
<1>2. CASE ~(s # 0 /\ sk[s].name # <<>>)
  BY <1>2, UnchangedInv DEF Listen, Posix!listen, Posix!no_effect,
     Posix!system, system, vars
<1> QED
  BY <1>1, <1>2

LEMMA ShutdownInv ==
  ASSUME IpcInv, NEW o \in Objects, NEW modes \in Modes, Shutdown(o, modes)
  PROVE  IpcInv' /\ \A x \in Posix!Socks : sk'[x].inbox = sk[x].inbox
<1> DEFINE s == Posix!Behind(m_value[o])
<1>1. CASE s = 0
  BY <1>1, UnchangedInv DEF Shutdown, Posix!shutdown, Posix!no_effect,
     Posix!system, system, vars
<1>2. CASE s # 0
  <2>1. /\ UNCHANGED <<fds, file, terminated, objects>>
        /\ \A x \in Posix!Socks : \E more \in SUBSET {"send", "receive"} :
             sk'[x] = [sk[x] EXCEPT !.shut = @ \cup more]
        /\ sk' = [x \in Posix!Socks |-> sk'[x]]
    <3> DEFINE Opposite(m) == IF m = "send" THEN "receive" ELSE "send"
               more(x) == (IF x = s THEN modes ELSE {})
                            \cup (IF sk[x].peer = s THEN {Opposite(m) : m \in modes}
                                  ELSE {})
    <3>1. /\ UNCHANGED <<fds, file, terminated, objects>>
          /\ sk' = [x \in Posix!Socks |->
                     [sk[x] EXCEPT !.shut = @
                       \cup (IF x = s THEN modes ELSE {})
                       \cup (IF sk[x].peer = s THEN {Opposite(m) : m \in modes}
                             ELSE {})]]
      BY <1>2 DEF Shutdown, Posix!shutdown, Posix!Sets
    <3>2. \A x \in Posix!Socks : more(x) \in SUBSET {"send", "receive"}
      OBVIOUS
    <3>3. \A x \in Posix!Socks : sk'[x] = [sk[x] EXCEPT !.shut = @ \cup more(x)]
      BY <3>1
    <3> HIDE DEF more
    <3> QED
      BY <3>1, <3>2, <3>3
  <2>2. ASSUME NEW r \in Posix!Socks
        PROVE  /\ sk'[r] \in SockStates
               /\ sk'[r].waiting = sk[r].waiting /\ sk'[r].phase = sk[r].phase
               /\ sk'[r].inbox = sk[r].inbox
    <3>1. PICK more \in SUBSET {"send", "receive"} :
            sk'[r] = [sk[r] EXCEPT !.shut = @ \cup more]
      BY <2>1
    <3>2. sk[r] \in SockStates
      BY SockFields
    <3> HIDE DEF SockStates
    <3>3. sk'[r] \in SockStates
      <4>1. more \in SUBSET {"send", "receive", "reset"}
        OBVIOUS
      <4>2. PICK q : q = [sk[r] EXCEPT !.shut = @ \cup more]
        OBVIOUS
      <4>3. q \in SockStates
        BY <3>2, <4>1, <4>2, ShutSet
      <4> QED
        BY <3>1, <4>2, <4>3
    <3> QED
      BY <3>1, <3>2, <3>3 DEF SockStates
  <2>3. /\ sk' \in [Posix!Socks -> SockStates]
        /\ \A r \in Posix!Socks : /\ sk'[r].waiting = sk[r].waiting
                                  /\ Posix!IsOpen(r) => Posix!IsOpen(r)'
                                  /\ Len(sk'[r].inbox) <= Capacity
    BY <2>1, <2>2, SockFields DEF Posix!IsOpen
  <2> QED
    BY <2>1, <2>2, <2>3, DataInv DEF objects, IpcInv, SocksTyped, TypeOK
<1> QED
  BY <1>1, <1>2

\* The name of one message more, or one less, in a buffer.
LEMMA InboxInv ==
  ASSUME IpcInv, NEW s \in Posix!Socks, NEW box \in Seq(Names \cup {<<>>}),
         Len(box) <= Capacity, sk' = [sk EXCEPT ![s].inbox = box],
         UNCHANGED <<fds, file, terminated, m_value, binding, handling, rivals>>,
         DOMAIN remote' = Datagrams,
         \A o \in Datagrams : SystemName(remote'[o]) \in Names \cup {<<>>}
  PROVE  IpcInv'
<1>1. PICK q : q = [sk[s] EXCEPT !.inbox = box]
  OBVIOUS
<1>2. sk[s] \in SockStates
  BY SockFields
<1>3. q \in SockStates
  BY <1>1, <1>2, InboxSet
<1>4. q.waiting = sk[s].waiting /\ q.inbox = box /\ q.phase = sk[s].phase
  BY <1>1, <1>2 DEF SockStates
<1>5. sk' = [sk EXCEPT ![s] = q]
  BY <1>1 DEF IpcInv, SocksTyped
<1> QED
  BY <1>3, <1>4, <1>5, OneSockInv

\* The addresses that receive_from fills in keep their shape.
LEMMA RemoteKept ==
  ASSUME IpcInv, UNCHANGED remote
  PROVE  /\ DOMAIN remote' = Datagrams
         /\ \A o \in Datagrams : SystemName(remote'[o]) \in Names \cup {<<>>}
  BY DEF IpcInv, SocksTyped, TypeOK, SystemName

LEMMA BehindTyped ==
  ASSUME IpcInv, NEW h, Posix!Behind(h) # 0
  PROVE  h \in Fds /\ Posix!Behind(h) = fds[h] /\ fds[h] \in Posix!Socks
  BY DEF IpcInv, TypeOK, Posix!Behind, Posix!Socks

LEMMA SendInv == ASSUME IpcInv, NEW o \in Objects, Send(o) PROVE IpcInv'
<1> USE DEF Send, Posix!send
<1>1. CASE Posix!no_effect
  BY <1>1, UnchangedInv DEF Posix!no_effect, Posix!system, system, vars
<1>2. CASE ~Posix!no_effect
  <2>1. PICK p : p = sk[Posix!Behind(m_value[o])].peer
    OBVIOUS
  <2>2. /\ Len(sk[p].inbox) < Capacity
        /\ sk' = [sk EXCEPT ![p].inbox = Append(@, <<>>)]
        /\ UNCHANGED <<fds, file, terminated, objects>>
    BY <1>2, <2>1 DEF Posix!Sets
  <2>3. CASE p \in Posix!Socks
    <3>1. PICK box : box = Append(sk[p].inbox, <<>>)
      OBVIOUS
    <3>2. sk[p].inbox \in Seq(Names \cup {<<>>})
      BY <2>3, SockFields
    <3>3. box \in Seq(Names \cup {<<>>}) /\ Len(box) <= Capacity
      BY <2>2, <3>1, <3>2
    <3>4. sk' = [sk EXCEPT ![p].inbox = box]
      BY <2>2, <3>1
    <3> QED
      BY <2>2, <2>3, <3>3, <3>4, RemoteKept, InboxInv DEF objects
  <2>4. CASE p \notin Posix!Socks
    <3>1. sk' = sk
      BY <2>2, <2>4 DEF IpcInv, SocksTyped
    <3> QED
      BY <2>2, <3>1, UnchangedInv DEF vars, system
  <2> QED
    BY <2>3, <2>4
<1> QED
  BY <1>1, <1>2

LEMMA ReceiveInv == ASSUME IpcInv, NEW o \in Objects, Receive(o) PROVE IpcInv'
<1> USE DEF Receive, Posix!receive
<1> DEFINE s == Posix!Behind(m_value[o])
<1>1. CASE Posix!no_effect
  BY <1>1, UnchangedInv DEF Posix!no_effect, Posix!system, system, vars
<1>2. CASE sk[s].inbox # <<>> /\ Posix!Sets([sk EXCEPT ![s].inbox = Tail(@)])
           /\ s # 0
  <2>1. s \in Posix!Socks
    BY <1>2, BehindTyped
  <2> HIDE DEF s
  <2>2. PICK box : box = Tail(sk[s].inbox)
    OBVIOUS
  <2>3. sk[s].inbox \in Seq(Names \cup {<<>>}) /\ Len(sk[s].inbox) <= Capacity
    BY <2>1, SockFields
  <2>4. box \in Seq(Names \cup {<<>>}) /\ Len(box) <= Capacity
    BY <1>2, <2>2, <2>3
  <2>5. sk' = [sk EXCEPT ![s].inbox = box] /\ UNCHANGED <<fds, file, terminated>>
    BY <1>2, <2>2 DEF Posix!Sets
  <2> QED
    BY <2>1, <2>4, <2>5, RemoteKept, InboxInv DEF objects
<1>3. CASE Posix!Sets([sk EXCEPT ![s].shut = @ \ {"reset"}]) /\ s # 0
  <2>1. s \in Posix!Socks
    BY <1>3, BehindTyped
  <2> HIDE DEF s
  <2>2. PICK q : q = [sk[s] EXCEPT !.shut = @ \ {"reset"}]
    OBVIOUS
  <2>3. sk[s] \in SockStates /\ Len(sk[s].inbox) <= Capacity
    BY <2>1, SockFields
  <2>4. q \in SockStates
    <3>1. {} \in SUBSET {"send", "receive", "reset"}
      OBVIOUS
    <3> QED
      BY <2>2, <2>3, <3>1, ShutSet
  <2>5. q.waiting = sk[s].waiting /\ q.inbox = sk[s].inbox /\ q.phase = sk[s].phase
    BY <2>2, <2>3 DEF SockStates
  <2>6. sk' = [sk EXCEPT ![s] = q] /\ UNCHANGED <<fds, file, terminated>>
    BY <1>3, <2>1, <2>2 DEF IpcInv, SocksTyped, Posix!Sets
  <2> QED
    BY <2>1, <2>3, <2>4, <2>5, <2>6, RemoteKept, OneSockInv DEF objects
<1> QED
  BY <1>1, <1>2, <1>3

LEMMA SendToInv ==
  ASSUME IpcInv, NEW o \in Objects, NEW path \in Paths, SendTo(o, path)
  PROVE  IpcInv'
<1> USE DEF SendTo, Posix!send_to
<1>1. CASE Posix!no_effect
  BY <1>1, UnchangedInv DEF Posix!no_effect, Posix!system, system, vars
<1>2. CASE ~Posix!no_effect
  <2>1. PICK d : d = file[NameOf(path)]
    OBVIOUS
  <2>2. PICK s : s = Posix!Behind(m_value[o])
    OBVIOUS
  <2>3. /\ Len(sk[d].inbox) < Capacity /\ Posix!IsOpen(d) /\ s # 0
        /\ sk' = [sk EXCEPT ![d].inbox = Append(@, sk[s].name)]
        /\ UNCHANGED <<fds, file, terminated, objects>>
    BY <1>2, <2>1, <2>2 DEF Posix!Sets
  <2>4. d \in Posix!Socks /\ s \in Posix!Socks
    BY <2>2, <2>3, BehindTyped DEF Posix!IsOpen
  <2>5. PICK box : box = Append(sk[d].inbox, sk[s].name)
    OBVIOUS
  <2>6. sk[s].name \in Names \cup {<<>>}
    <3>1. sk[s] \in SockStates
      BY <2>4, SockFields
    <3> QED
      BY <3>1 DEF SockStates
  <2>7. sk[d].inbox \in Seq(Names \cup {<<>>})
    BY <2>4, SockFields
  <2>8. box \in Seq(Names \cup {<<>>}) /\ Len(box) <= Capacity
    BY <2>3, <2>5, <2>6, <2>7
  <2>9. sk' = [sk EXCEPT ![d].inbox = box]
    BY <2>3, <2>5
  <2> QED
    BY <2>3, <2>4, <2>8, <2>9, RemoteKept, InboxInv DEF objects
<1> QED
  BY <1>1, <1>2

\* What receive_from takes, and what it makes of the address.
LEMMA ReceivedFrom ==
  ASSUME IpcInv, NEW o \in Datagrams, NEW sender \in Names \cup {<<>>},
         Posix!receive_from(m_value[o], sender),
         remote' = [remote EXCEPT ![o] =
                      IF sender = <<>> THEN @ ELSE Address!Filled(@, sender)]
  PROVE  /\ DOMAIN remote' = Datagrams
         /\ \A p \in Datagrams : SystemName(remote'[p]) \in Names \cup {<<>>}
         /\ sender # <<>> => SystemName(remote'[o]) = sender
<1>1. DOMAIN remote = Datagrams
  BY DEF IpcInv, SocksTyped
<1>2. \A p \in Datagrams : SystemName(remote[p]) \in Names \cup {<<>>}
  BY DEF IpcInv, TypeOK
<1>3. DOMAIN remote' = Datagrams
  BY <1>1
<1>4. \A p \in Datagrams : p # o => remote'[p] = remote[p]
  BY <1>1
<1>5. CASE sender = <<>>
  <2>1. remote'[o] = remote[o]
    BY <1>1, <1>5
  <2> QED
    BY <1>2, <1>3, <1>4, <1>5, <2>1
<1>6. CASE sender # <<>>
  <2>1. remote'[o] = Address!Filled(remote[o], sender)
    BY <1>1, <1>6
  <2>2. IsName(sender)
    BY <1>6, NamesAreNames
  <2>3. SystemName(Address!Filled(remote[o], sender)) = sender
    BY <2>2, NameSurvives DEF SystemName
  <2> QED
    BY <1>2, <1>3, <1>4, <2>1, <2>3
<1> QED
  BY <1>5, <1>6

LEMMA ReceiveFromInv ==
  ASSUME IpcInv, NEW o \in Datagrams, ReceiveFrom(o) PROVE IpcInv'
<1>1. CASE Posix!ReceiveFromEnds(m_value[o]) /\ UNCHANGED remote
  BY <1>1, UnchangedInv DEF ReceiveFrom, Posix!ReceiveFromEnds, Posix!no_effect,
     Posix!system, system, objects, vars
<1>2. CASE \E sender \in Names \cup {<<>>} :
             /\ Posix!receive_from(m_value[o], sender)
             /\ remote' = [remote EXCEPT ![o] =
                             IF sender = <<>> THEN @
                             ELSE Address!Filled(@, sender)]
  <2>1. PICK sender \in Names \cup {<<>>} :
             /\ Posix!receive_from(m_value[o], sender)
             /\ remote' = [remote EXCEPT ![o] =
                             IF sender = <<>> THEN @
                             ELSE Address!Filled(@, sender)]
    BY <1>2
  <2>2. /\ DOMAIN remote' = Datagrams
        /\ \A p \in Datagrams : SystemName(remote'[p]) \in Names \cup {<<>>}
    BY <2>1, ReceivedFrom
  <2>3. PICK s : s = Posix!Behind(m_value[o])
    OBVIOUS
  <2>4. /\ s # 0 /\ sk[s].inbox # <<>>
        /\ sk' = [sk EXCEPT ![s].inbox = Tail(@)]
        /\ UNCHANGED <<fds, file, terminated>>
    BY <2>1, <2>3 DEF Posix!receive_from, Posix!Received, Posix!Sets
  <2>5. s \in Posix!Socks
    BY <2>3, <2>4, BehindTyped
  <2>6. PICK box : box = Tail(sk[s].inbox)
    OBVIOUS
  <2>7. sk[s].inbox \in Seq(Names \cup {<<>>}) /\ Len(sk[s].inbox) <= Capacity
    BY <2>5, SockFields
  <2>8. box \in Seq(Names \cup {<<>>}) /\ Len(box) <= Capacity
    BY <2>4, <2>6, <2>7
  <2>9. sk' = [sk EXCEPT ![s].inbox = box]
    BY <2>4, <2>6
  <2> QED
    BY <2>2, <2>4, <2>5, <2>8, <2>9, InboxInv DEF ReceiveFrom
<1> QED
  BY <1>1, <1>2 DEF ReceiveFrom

---------------------------------------------------------------------------
(* The names of sockets *)

\* A step that changes names, files and the calls of bind() in progress.
LEMMA NamingInv ==
  ASSUME IpcInv, UNCHANGED <<fds, terminated, m_value, remote, handling>>,
         binding' \in [Objects -> Names \cup {<<>>}], rivals' \subseteq Objects,
         file' \in [Names -> 0..MaxSocks],
         sk' \in [Posix!Socks -> SockStates],
         \A s \in Posix!Socks : /\ sk'[s].waiting = sk[s].waiting
                                /\ sk'[s].phase = sk[s].phase
                                /\ sk'[s].inbox = sk[s].inbox
  PROVE  IpcInv'
<1>1. \A s \in Posix!Socks : /\ Posix!IsOpen(s) => Posix!IsOpen(s)'
                             /\ Len(sk'[s].inbox) <= Capacity
  BY SockFields DEF Posix!IsOpen
<1>2. SocksTyped'
  BY DEF SocksTyped, IpcInv
<1>3. TypeOK'
  <2>1. \A o \in Datagrams : SystemName(remote'[o]) \in Names \cup {<<>>}
    BY RemoteKept
  <2> QED
    BY <1>1, <1>2, <2>1, TypeFromParts DEF IpcInv, TypeOK
<1>4. Owners' /\ Table' /\ Queued' /\ Handlers'
  BY <1>1, OwnersKept
<1> QED
  BY <1>2, <1>3, <1>4 DEF IpcInv

\* unlink() takes one name at most, whichever it reads.
LEMMA UnlinkTypes ==
  ASSUME file \in [Names -> 0..MaxSocks], Unlinks
  PROVE  /\ file' \in [Names -> 0..MaxSocks]
         /\ \A n, m \in Names : file'[n] # file[n] /\ m # n => file'[m] = file[m]
         /\ UNCHANGED <<fds, sk, terminated>>
<1>1. PICK x \in Names \cup {<<>>} : Posix!unlink(x)
  BY DEF Unlinks
<1>2. 0 \in 0..MaxSocks
  BY SocketAssumption DEF SocketAssumption
<1> QED
  BY <1>1, <1>2 DEF Posix!unlink

LEMMA BindUnlinksInv ==
  ASSUME IpcInv, NEW o \in Objects, NEW path \in Paths, BindUnlinks(o, path)
  PROVE  IpcInv'
<1>1. CASE Posix!UnlinkFails /\ UNCHANGED objects
  BY <1>1, UnchangedInv DEF Posix!UnlinkFails, Posix!no_effect, Posix!system,
     system, vars
<1>2. CASE /\ Unlinks
           /\ binding' = [binding EXCEPT ![o] = NameOf(path)]
           /\ UNCHANGED <<m_value, remote, handling, rivals>>
  <2>1. NameOf(path) \in Names
    BY NamesAreNames DEF BindUnlinks
  <2>2. /\ binding' \in [Objects -> Names \cup {<<>>}]
        /\ file' \in [Names -> 0..MaxSocks] /\ rivals' \subseteq Objects
        /\ UNCHANGED <<fds, sk, terminated>>
    BY <1>2, <2>1, UnlinkTypes DEF IpcInv, TypeOK
  <2>3. sk' \in [Posix!Socks -> SockStates]
    BY <2>2 DEF IpcInv, SocksTyped
  <2> QED
    BY <1>2, <2>2, <2>3, NamingInv
<1> QED
  BY <1>1, <1>2 DEF BindUnlinks

LEMMA BindBindsInv ==
  ASSUME IpcInv, NEW o \in Objects, BindBinds(o)
  PROVE  IpcInv' /\ \A x \in Posix!Socks : sk'[x].inbox = sk[x].inbox
<1>1. PICK n : n = binding[o]
  OBVIOUS
<1>2. n \in Names
  BY <1>1 DEF IpcInv, TypeOK, BindBinds
<1>3. /\ UNCHANGED <<fds, terminated, m_value, remote, handling>>
      /\ binding' \in [Objects -> Names \cup {<<>>}] /\ rivals' \subseteq Objects
  BY DEF BindBinds, Posix!bind, Posix!no_effect, Posix!system, IpcInv, TypeOK
<1>4. CASE Posix!CanBind(m_value[o], n)
  <2>1. PICK s : s = Posix!Behind(m_value[o])
    OBVIOUS
  <2>2. s \in Posix!Socks
    BY <1>4, <2>1, BehindTyped DEF Posix!CanBind
  <2>3. sk' = [sk EXCEPT ![s].name = n] /\ file' = [file EXCEPT ![n] = s]
    BY <1>1, <1>4, <2>1 DEF BindBinds, Posix!bind
  <2>4. PICK q : q = [sk[s] EXCEPT !.name = n]
    OBVIOUS
  <2>5. sk[s] \in SockStates
    BY <2>2, SockFields
  <2>6. q \in SockStates
    BY <1>2, <2>4, <2>5, NameSet
  <2>7. q.waiting = sk[s].waiting /\ q.phase = sk[s].phase /\ q.inbox = sk[s].inbox
    BY <2>4, <2>5 DEF SockStates
  <2>8. sk \in [Posix!Socks -> SockStates]
    BY DEF IpcInv, SocksTyped
  <2>9. /\ sk' \in [Posix!Socks -> SockStates]
        /\ \A r \in Posix!Socks : sk'[r] = IF r = s THEN q ELSE sk[r]
    <3>1. sk' = [sk EXCEPT ![s] = q]
      BY <2>2, <2>3, <2>4, <2>8
    <3> QED
      BY <2>6, <2>8, <3>1
  <2>10. file' \in [Names -> 0..MaxSocks]
    BY <1>2, <2>2, <2>3 DEF IpcInv, TypeOK, Posix!Socks
  <2> QED
    BY <1>3, <2>7, <2>9, <2>10, NamingInv
<1>5. CASE ~Posix!CanBind(m_value[o], n)
  <2>1. UNCHANGED <<sk, file>>
    BY <1>1, <1>5 DEF BindBinds, Posix!bind, Posix!no_effect, Posix!system
  <2>2. /\ sk' \in [Posix!Socks -> SockStates]
        /\ file' \in [Names -> 0..MaxSocks]
    BY <2>1 DEF IpcInv, SocksTyped, TypeOK
  <2> QED
    BY <1>3, <2>1, <2>2, NamingInv
<1> QED
  BY <1>4, <1>5

---------------------------------------------------------------------------
(* The owners of descriptors *)

\* An object that did not exist takes a free descriptor and with it an open
\* socket that no other descriptor leads to.
LEMMA GainOwners ==
  ASSUME IpcInv, NEW f \in Fds, fds[f] = 0,
         NEW t \in Objects, m_value[t] = Unborn,
         NEW k \in Posix!Socks, Posix!IsOpen(k)', \A g \in Fds : fds[g] # k,
         \A s \in Posix!Socks : Posix!IsOpen(s) => Posix!IsOpen(s)',
         fds' = [fds EXCEPT ![f] = k], m_value' = [m_value EXCEPT ![t] = f]
  PROVE  Owners' /\ Table'
<1>1. /\ fds \in [Fds -> 0..MaxSocks]
      /\ m_value \in [Objects -> Fds \cup {Invalid, Unborn}]
  BY DEF IpcInv, TypeOK
<1>2. k # 0
  BY DEF Posix!Socks
<1>3. \A g \in Fds : fds'[g] = IF g = f THEN k ELSE fds[g]
  BY <1>1
<1>4. \A o \in Objects : m_value'[o] = IF o = t THEN f ELSE m_value[o]
  BY <1>1
<1>5. \A o \in Objects : m_value[o] # f
  BY DEF IpcInv, Owners
<1>6. Owners'
  <2>1. ASSUME NEW g \in Fds
        PROVE  fds'[g] # 0 <=> \E o \in Objects : m_value'[o] = g
    <3>1. CASE g = f
      BY <1>2, <1>3, <1>4, <3>1
    <3>2. CASE g # f
      <4>1. fds[g] # 0 <=> \E o \in Objects : m_value[o] = g
        BY DEF IpcInv, Owners
      <4> QED
        BY <1>3, <1>4, <3>2, <4>1
    <3> QED
      BY <3>1, <3>2
  <2>2. \A o, p \in Objects : m_value'[o] \in Fds /\ m_value'[o] = m_value'[p] =>
          o = p
    <3>1. \A o, p \in Objects : m_value[o] \in Fds /\ m_value[o] = m_value[p] =>
            o = p
      BY DEF IpcInv, Owners
    <3> QED
      BY <1>4, <1>5, <3>1
  <2> QED
    BY <2>1, <2>2 DEF Owners
<1>7. Table'
  <2>1. \A g \in Fds : fds'[g] # 0 => Posix!IsOpen(fds[g])'
    <3>1. \A g \in Fds : fds[g] # 0 => Posix!IsOpen(fds[g])
      BY DEF IpcInv, Table
    <3>2. \A s : Posix!IsOpen(s) => Posix!IsOpen(s)'
      BY DEF Posix!IsOpen
    <3>3. ASSUME NEW g \in Fds, fds'[g] # 0 PROVE Posix!IsOpen(fds[g])'
      <4>1. PICK s : s = fds'[g]
        OBVIOUS
      <4>2. Posix!IsOpen(s)'
        BY <1>3, <3>1, <3>2, <3>3, <4>1
      <4> QED
        BY <4>1, <4>2 DEF Posix!IsOpen
    <3> QED
      BY <3>3
  <2>2. \A g, h \in Fds : fds'[g] # 0 /\ fds'[g] = fds'[h] => g = h
    <3>1. \A g, h \in Fds : fds[g] # 0 /\ fds[g] = fds[h] => g = h
      BY DEF IpcInv, Table
    <3> QED
      BY <1>3, <3>1
  <2> QED
    BY <2>1, <2>2 DEF Table
<1> QED
  BY <1>6, <1>7

\* A connection waits in one place.
LEMMA WaitsOnce ==
  ASSUME IpcInv, NEW s \in Posix!Socks, NEW i \in 1..Len(sk[s].waiting)
  PROVE  /\ Posix!IsOpen(sk[s].waiting[i])
         /\ \A f \in Fds : fds[f] # sk[s].waiting[i]
         /\ \A r \in Posix!Socks : \A j \in 1..Len(sk[r].waiting) :
              sk[r].waiting[j] = sk[s].waiting[i] => r = s /\ j = i
  BY DEF IpcInv, Queued

\* Queues that lose connections from their front, or all of them.
LEMMA QueuesShrink ==
  ASSUME IpcInv, NEW d \in [Posix!Socks -> Nat],
         \A s \in Posix!Socks : \A i \in 1..Len(sk'[s].waiting) :
           /\ i + d[s] \in 1..Len(sk[s].waiting)
           /\ sk'[s].waiting[i] = sk[s].waiting[i + d[s]]
           /\ Posix!IsOpen(sk[s].waiting[i])'
           /\ \A f \in Fds : fds'[f] # sk'[s].waiting[i]
  PROVE  Queued'
<1> SUFFICES ASSUME NEW s \in Posix!Socks, NEW i \in 1..Len(sk'[s].waiting),
                    NEW r \in Posix!Socks, NEW j \in 1..Len(sk'[r].waiting),
                    sk'[r].waiting[j] = sk'[s].waiting[i]
             PROVE  r = s /\ j = i
  BY DEF Queued
<1>1. /\ i + d[s] \in 1..Len(sk[s].waiting) /\ j + d[r] \in 1..Len(sk[r].waiting)
      /\ sk[s].waiting[i + d[s]] = sk[r].waiting[j + d[r]]
  OBVIOUS
<1>2. r = s /\ j + d[r] = i + d[s]
  <2> HIDE DEF Posix!Socks
  <2>1. PICK a : a = i + d[s]
    OBVIOUS
  <2>2. PICK b : b = j + d[r]
    OBVIOUS
  <2>3. /\ a \in 1..Len(sk[s].waiting) /\ b \in 1..Len(sk[r].waiting)
        /\ sk[r].waiting[b] = sk[s].waiting[a]
    BY <1>1, <2>1, <2>2
  <2>4. r = s /\ b = a
    BY <2>3, WaitsOnce
  <2> QED
    BY <2>1, <2>2, <2>4
<1> QED
  BY <1>2

\* A step between system calls: descriptors change hands, names do not.
LEMMA HandsType ==
  ASSUME IpcInv, UNCHANGED <<remote, binding, rivals, file, terminated>>,
         m_value' \in [Objects -> Fds \cup {Invalid, Unborn}],
         handling' \in [Servers -> Streams \cup {NoObject}],
         fds' \in [Fds -> 0..MaxSocks], sk' \in [Posix!Socks -> SockStates],
         \A s \in Posix!Socks : Len(sk'[s].inbox) <= Capacity
  PROVE  TypeOK' /\ SocksTyped'
<1>1. SocksTyped'
  BY DEF SocksTyped, IpcInv
<1>2. \A o \in Datagrams : SystemName(remote'[o]) \in Names \cup {<<>>}
  BY RemoteKept
<1>3. TypeOK'
  BY <1>1, <1>2, TypeFromParts DEF IpcInv, TypeOK
<1> QED
  BY <1>1, <1>3

\* A socket that has not been created is nobody's.
LEMMA FreshSock ==
  ASSUME IpcInv, NEW s \in Posix!Socks, sk[s].phase \in {"none", "closed"}
  PROVE  /\ \A f \in Fds : fds[f] # s
         /\ \A r \in Posix!Socks : \A i \in 1..Len(sk[r].waiting) :
              sk[r].waiting[i] # s
<1>1. ~Posix!IsOpen(s)
  BY DEF Posix!IsOpen
<1>2. \A f \in Fds : fds[f] # s
  <2>1. s # 0
    BY DEF Posix!Socks
  <2> QED
    BY <1>1, <2>1 DEF IpcInv, Table
<1> QED
  BY <1>1, <1>2, WaitsOnce

LEMMA ConstructInv ==
  ASSUME IpcInv, NEW o \in Objects, Construct(o) PROVE IpcInv'
<1>1. CASE Posix!NoDescriptor /\ UNCHANGED m_value
  BY <1>1, UnchangedInv DEF Construct, Posix!NoDescriptor, Posix!no_effect,
     Posix!system, system, objects, vars
<1>2. CASE \E f \in Fds : /\ Posix!construct(KindOf(o), f)
                          /\ m_value' = [m_value EXCEPT ![o] = f]
  <2>1. PICK f \in Fds : /\ Posix!construct(KindOf(o), f)
                         /\ m_value' = [m_value EXCEPT ![o] = f]
    BY <1>2
  <2>2. PICK c : c = KindOf(o)
    OBVIOUS
  <2>3. PICK s \in Posix!Socks :
          /\ Posix!NextSock(s)
          /\ fds' = [fds EXCEPT ![f] = s]
          /\ sk' = [sk EXCEPT ![s].kind = c, ![s].phase = "fresh"]
    BY <2>1, <2>2 DEF Posix!construct
  <2>4. /\ fds[f] = 0 /\ m_value[o] = Unborn /\ sk[s].phase = "none"
        /\ UNCHANGED <<file, terminated, remote, binding, handling, rivals>>
        /\ c \in {"stream", "datagram"}
    BY <2>1, <2>2, <2>3 DEF Posix!construct, Posix!NextSock, Construct, KindOf
  <2>5. PICK q : q = [sk[s] EXCEPT !.kind = c, !.phase = "fresh"]
    OBVIOUS
  <2>6. sk[s] \in SockStates
    BY SockFields
  <2>7. q \in SockStates /\ q.waiting = sk[s].waiting /\ q.inbox = sk[s].inbox
          /\ q.phase = "fresh"
    BY <2>4, <2>5, <2>6 DEF SockStates
  <2>8. /\ sk' \in [Posix!Socks -> SockStates]
        /\ \A r \in Posix!Socks : sk'[r] = IF r = s THEN q ELSE sk[r]
    <3>1. sk \in [Posix!Socks -> SockStates]
      BY DEF IpcInv, SocksTyped
    <3>2. sk' = [sk EXCEPT ![s] = q]
      BY <2>3, <2>5, <3>1
    <3> QED
      BY <2>7, <3>1, <3>2
  <2>9. \A r \in Posix!Socks : /\ Posix!IsOpen(r) => Posix!IsOpen(r)'
                               /\ sk'[r].waiting = sk[r].waiting
                               /\ Len(sk'[r].inbox) <= Capacity
    BY <2>7, <2>8, SockFields DEF Posix!IsOpen
  <2>10. TypeOK' /\ SocksTyped'
    <3>1. /\ m_value' \in [Objects -> Fds \cup {Invalid, Unborn}]
          /\ handling' \in [Servers -> Streams \cup {NoObject}]
          /\ fds' \in [Fds -> 0..MaxSocks]
      BY <2>1, <2>3, <2>4 DEF IpcInv, TypeOK, Posix!Socks
    <3> QED
      BY <2>4, <2>8, <2>9, <3>1, HandsType
  <2>11. Owners' /\ Table'
    <3>1. Posix!IsOpen(s)'
      BY <2>7, <2>8 DEF Posix!IsOpen
    <3>2. \A g \in Fds : fds[g] # s
      BY <2>4, FreshSock
    <3> QED
      BY <2>1, <2>3, <2>4, <2>9, <3>1, <3>2, GainOwners
  <2>12. Queued'
    <3>1. PICK d : d = [r \in Posix!Socks |-> 0]
      OBVIOUS
    <3>2. d \in [Posix!Socks -> Nat]
      BY <3>1
    <3>3. ASSUME NEW r \in Posix!Socks, NEW i \in 1..Len(sk'[r].waiting)
          PROVE  /\ i + d[r] \in 1..Len(sk[r].waiting)
                 /\ sk'[r].waiting[i] = sk[r].waiting[i + d[r]]
                 /\ Posix!IsOpen(sk[r].waiting[i])'
                 /\ \A g \in Fds : fds'[g] # sk'[r].waiting[i]
      <4>1. /\ i + d[r] = i /\ sk'[r].waiting = sk[r].waiting
            /\ i \in 1..Len(sk[r].waiting)
        BY <2>9, <3>1, SockFields
      <4>2. PICK x : x = sk[r].waiting[i]
        OBVIOUS
      <4>3. Posix!IsOpen(x) /\ (\A g \in Fds : fds[g] # x) /\ x # s
        BY <2>4, <4>1, <4>2, WaitsOnce, FreshSock
      <4>4. Posix!IsOpen(x)'
        BY <2>9, <4>3 DEF Posix!IsOpen
      <4>5. \A g \in Fds : fds'[g] # x
        BY <2>3, <4>3 DEF IpcInv, TypeOK
      <4>6. Posix!IsOpen(sk[r].waiting[i])'
        BY <4>1, <4>2, <4>4 DEF Posix!IsOpen
      <4> QED
        BY <4>1, <4>2, <4>5, <4>6
    <3> QED
      BY <3>2, <3>3, QueuesShrink
  <2>13. Handlers'
    BY <2>1, <2>4 DEF IpcInv, TypeOK, Handlers, Objects
  <2> QED
    BY <2>10, <2>11, <2>12, <2>13 DEF IpcInv
<1> QED
  BY <1>1, <1>2 DEF Construct

LEMMA MoveInv ==
  ASSUME IpcInv, NEW o \in Objects, NEW other \in Objects,
         MoveConstruct(o, other)
  PROVE  IpcInv'
<1>1. /\ m_value \in [Objects -> Fds \cup {Invalid, Unborn}]
      /\ m_value[o] = Unborn /\ m_value[other] # Unborn
      /\ m_value' = [m_value EXCEPT ![o] = m_value[other], ![other] = Invalid]
      /\ UNCHANGED <<remote, binding, handling, rivals, fds, sk, file, terminated>>
  BY DEF IpcInv, TypeOK, MoveConstruct, Usable, system
<1>2. \A p \in Objects : m_value'[p] = IF p = o THEN m_value[other]
                                       ELSE IF p = other THEN Invalid
                                       ELSE m_value[p]
  BY <1>1
<1>3. TypeOK' /\ SocksTyped'
  <2>1. /\ m_value' \in [Objects -> Fds \cup {Invalid, Unborn}]
        /\ handling' \in [Servers -> Streams \cup {NoObject}]
        /\ fds' \in [Fds -> 0..MaxSocks] /\ sk' \in [Posix!Socks -> SockStates]
    BY <1>1 DEF IpcInv, TypeOK, SocksTyped
  <2>2. \A s \in Posix!Socks : Len(sk'[s].inbox) <= Capacity
    BY <1>1, SockFields
  <2> QED
    BY <1>1, <2>1, <2>2, HandsType
<1>4. Owners'
  <2>1. ASSUME NEW f \in Fds
        PROVE  fds'[f] # 0 <=> \E p \in Objects : m_value'[p] = f
    <3>1. fds[f] # 0 <=> \E p \in Objects : m_value[p] = f
      BY DEF IpcInv, Owners
    <3>2. (\E p \in Objects : m_value[p] = f) <=> \E p \in Objects : m_value'[p] = f
      BY <1>1, <1>2
    <3> QED
      BY <1>1, <3>1, <3>2
  <2>2. \A a, b \in Objects : m_value'[a] \in Fds /\ m_value'[a] = m_value'[b] =>
          a = b
    <3>1. \A a, b \in Objects : m_value[a] \in Fds /\ m_value[a] = m_value[b] =>
            a = b
      BY DEF IpcInv, Owners
    <3> QED
      BY <1>1, <1>2, <3>1
  <2> QED
    BY <2>1, <2>2 DEF Owners
<1>5. Table' /\ Queued'
  BY <1>1 DEF IpcInv, Table, Queued, Posix!IsOpen
<1>6. Handlers'
  <2>1. \A a \in Servers : handling[a] # NoObject =>
          handling[a] \in Objects /\ m_value[handling[a]] # Unborn
    BY DEF IpcInv, TypeOK, Handlers, Objects
  <2>2. \A p \in Objects : m_value[p] # Unborn => m_value'[p] # Unborn
    BY <1>1, <1>2
  <2> QED
    BY <1>1, <2>1, <2>2 DEF IpcInv, Handlers
<1> QED
  BY <1>3, <1>4, <1>5, <1>6 DEF IpcInv

---------------------------------------------------------------------------
(* The end of a socket *)

\* The sockets that end with socket s.
Gone(s) == {sk[s].waiting[i] : i \in 1..Len(sk[s].waiting)} \cup {s}

\* What close() leaves, and what connect() creates.
LEMMA FreeTyped == Posix!Free \in SockStates
<1>1. /\ <<>> \in Seq(Posix!Socks) /\ <<>> \in Seq(Names \cup {<<>>})
      /\ <<>> \in Names \cup {<<>>} /\ 0 \in 0..MaxSocks /\ 0 \in 0..MaxQueue
      /\ {} \in SUBSET {"send", "receive", "reset"}
  OBVIOUS
<1> QED
  BY <1>1 DEF SockStates, Posix!Free

LEMMA ClosedTyped ==
  ASSUME NEW r \in SockStates
  PROVE  [r EXCEPT !.phase = "closed"] \in SockStates
  BY DEF SockStates

LEMMA NewTyped ==
  ASSUME NEW r \in SockStates, NEW n \in Names, NEW p \in Posix!Socks
  PROVE  [r EXCEPT !.kind = "stream", !.phase = "connected", !.name = n,
                   !.peer = p] \in SockStates
<1>1. p \in 0..MaxSocks
  BY DEF Posix!Socks
<1> QED
  BY <1>1 DEF SockStates

LEMMA AfterCloseFacts ==
  ASSUME IpcInv, NEW s \in Posix!Socks, sk' = Posix!AfterClose(s)
  PROVE  /\ sk' \in [Posix!Socks -> SockStates]
         /\ \A x \in Posix!Socks :
              /\ x \notin Gone(s) => /\ sk'[x].waiting = sk[x].waiting
                                     /\ sk'[x].phase = sk[x].phase
              /\ x \in Gone(s) => sk'[x].waiting = <<>>
              /\ Len(sk'[x].inbox) <= Capacity
<1> DEFINE closed == [Posix!Free EXCEPT !.phase = "closed"]
<1>1. ASSUME NEW x \in Posix!Socks
      PROVE  /\ x \in Gone(s) => sk'[x] = closed
             /\ x \notin Gone(s) =>
                  \E more \in SUBSET {"send", "receive", "reset"} :
                    sk'[x] = sk[x] \/ sk'[x] = [sk[x] EXCEPT !.shut = @ \cup more]
  <2> DEFINE pending == {sk[s].waiting[i] : i \in 1..Len(sk[s].waiting)}
             Reset(y) == IF y \in pending \/ sk[y].inbox # <<>> THEN {"reset"}
                         ELSE {}
             more == {"send", "receive"} \cup Reset(sk[x].peer)
  <2>1. sk'[x] = IF x \in Gone(s) THEN closed
                 ELSE IF sk[x].peer \in Gone(s)
                 THEN [sk[x] EXCEPT !.shut = @ \cup {"send", "receive"}
                                               \cup Reset(sk[x].peer)]
                 ELSE sk[x]
    BY DEF Posix!AfterClose, Gone
  <2>2. more \in SUBSET {"send", "receive", "reset"}
    OBVIOUS
  <2>3. [sk[x] EXCEPT !.shut = @ \cup {"send", "receive"} \cup Reset(sk[x].peer)]
          = [sk[x] EXCEPT !.shut = @ \cup more]
    <3>1. sk[x].shut \cup {"send", "receive"} \cup Reset(sk[x].peer)
            = sk[x].shut \cup more
      OBVIOUS
    <3> QED
      BY <3>1
  <2> HIDE DEF more, closed
  <2> QED
    BY <2>1, <2>2, <2>3
<1>2. DOMAIN sk' = Posix!Socks /\ sk' = [x \in Posix!Socks |-> sk'[x]]
  BY DEF Posix!AfterClose
<1>3. closed.waiting = <<>> /\ closed.inbox = <<>>
  BY DEF Posix!Free
<1> HIDE DEF closed
<1>4. ASSUME NEW x \in Posix!Socks
      PROVE  /\ sk'[x] \in SockStates
             /\ x \notin Gone(s) => /\ sk'[x].waiting = sk[x].waiting
                                    /\ sk'[x].phase = sk[x].phase
             /\ x \in Gone(s) => sk'[x].waiting = <<>>
             /\ Len(sk'[x].inbox) <= Capacity
  <2>1. sk[x] \in SockStates /\ Len(sk[x].inbox) <= Capacity
    BY SockFields
  <2>2. CASE x \in Gone(s)
    <3>1. PICK q : q = sk'[x]
      OBVIOUS
    <3>2. q = closed
      BY <1>1, <2>2, <3>1
    <3>3. q \in SockStates
      BY <3>2, FreeTyped, ClosedTyped DEF closed
    <3>4. Len(q.inbox) <= Capacity /\ q.waiting = <<>>
      BY <1>3, <3>2
    <3> QED
      BY <2>2, <3>1, <3>3, <3>4
  <2>3. CASE x \notin Gone(s)
    <3>1. PICK q : q = sk'[x]
      OBVIOUS
    <3>2. PICK more \in SUBSET {"send", "receive", "reset"} :
            q = sk[x] \/ q = [sk[x] EXCEPT !.shut = @ \cup more]
      BY <1>1, <2>3, <3>1
    <3>3. q \in SockStates
      <4>1. [sk[x] EXCEPT !.shut = @ \cup more] \in SockStates
        BY <2>1, ShutSet
      <4> QED
        BY <2>1, <3>2, <4>1
    <3>4. q.waiting = sk[x].waiting /\ q.inbox = sk[x].inbox /\ q.phase = sk[x].phase
      BY <2>1, <3>2 DEF SockStates
    <3> QED
      BY <2>1, <2>3, <3>1, <3>3, <3>4
  <2> QED
    BY <2>2, <2>3
<1> QED
  BY <1>2, <1>4

\* A destructor, whatever becomes of the handler that had the object.
LEMMA DestructorInv ==
  ASSUME IpcInv, NEW o \in Objects, m_value[o] # Unborn, Destructor(o),
         UNCHANGED <<remote, binding, rivals>>,
         handling' \in [Servers -> Streams \cup {NoObject}],
         \A a \in Servers : handling'[a] # NoObject =>
           handling'[a] = handling[a] /\ handling[a] # o
  PROVE  IpcInv'
<1>1. /\ m_value \in [Objects -> Fds \cup {Invalid, Unborn}]
      /\ fds \in [Fds -> 0..MaxSocks]
      /\ m_value' = [m_value EXCEPT ![o] = Unborn]
  BY DEF IpcInv, TypeOK, Destructor
<1>2. /\ m_value' \in [Objects -> Fds \cup {Invalid, Unborn}]
      /\ \A p \in Objects : m_value'[p] = IF p = o THEN Unborn ELSE m_value[p]
  BY <1>1
<1>3. Handlers'
  <2>1. \A a \in Servers : handling[a] # NoObject =>
          handling[a] \in Objects /\ m_value[handling[a]] # Unborn
    BY DEF IpcInv, TypeOK, Handlers, Objects
  <2> QED
    BY <1>2, <2>1 DEF IpcInv, Handlers
<1>4. \A a, b \in Objects : m_value'[a] \in Fds /\ m_value'[a] = m_value'[b] =>
        a = b
  <2>1. \A a, b \in Objects : m_value[a] \in Fds /\ m_value[a] = m_value[b] =>
          a = b
    BY DEF IpcInv, Owners
  <2> QED
    BY <1>2, <2>1
<1>5. CASE m_value[o] = Invalid
  <2>1. UNCHANGED <<fds, sk, file, terminated>>
    BY <1>5 DEF Destructor, is_valid, system
  <2>2. TypeOK' /\ SocksTyped'
    <3>1. fds' \in [Fds -> 0..MaxSocks] /\ sk' \in [Posix!Socks -> SockStates]
      BY <1>1, <2>1 DEF IpcInv, SocksTyped
    <3>2. \A s \in Posix!Socks : Len(sk'[s].inbox) <= Capacity
      BY <2>1, SockFields
    <3> QED
      BY <1>2, <2>1, <3>1, <3>2, HandsType
  <2>3. Owners'
    <3>1. \A f \in Fds : fds'[f] # 0 <=> \E p \in Objects : m_value'[p] = f
      BY <1>2, <1>5, <2>1 DEF IpcInv, Owners
    <3> QED
      BY <1>4, <3>1 DEF Owners
  <2>4. Table' /\ Queued'
    BY <2>1 DEF IpcInv, Table, Queued, Posix!IsOpen
  <2> QED
    BY <1>3, <2>2, <2>3, <2>4 DEF IpcInv
<1>6. CASE m_value[o] \in Fds
  <2>1. PICK h \in Fds : h = m_value[o]
    BY <1>6
  <2>2. fds[h] # 0
    BY <2>1 DEF IpcInv, Owners
  <2>3. PICK s \in Posix!Socks : s = fds[h]
    BY <1>1, <2>2 DEF Posix!Socks
  <2>4. /\ UNCHANGED <<file, terminated>>
        /\ fds' = [fds EXCEPT ![h] = 0]
        /\ sk' = Posix!AfterClose(s)
    <3>1. h # Invalid /\ Posix!Behind(h) = s /\ s # 0
      BY <2>2, <2>3 DEF Posix!Behind
    <3>2. Posix!destroy(h)
      BY <2>1, <3>1 DEF Destructor, is_valid
    <3>3. ~Posix!CloseFails(h)
      BY <3>1 DEF Posix!CloseFails
    <3> QED
      BY <3>1, <3>2, <3>3 DEF Posix!destroy
  <2>5. \A f \in Fds : fds'[f] = IF f = h THEN 0 ELSE fds[f]
    BY <1>1, <2>4
  <2>6. /\ sk' \in [Posix!Socks -> SockStates]
        /\ \A x \in Posix!Socks :
             /\ x \notin Gone(s) => /\ sk'[x].waiting = sk[x].waiting
                                    /\ sk'[x].phase = sk[x].phase
             /\ x \in Gone(s) => sk'[x].waiting = <<>>
             /\ Len(sk'[x].inbox) <= Capacity
    BY <2>4, AfterCloseFacts
  <2>7. TypeOK' /\ SocksTyped'
    <3>1. fds' \in [Fds -> 0..MaxSocks]
      BY <1>1, <2>4
    <3> QED
      BY <1>2, <2>4, <2>6, <3>1, HandsType
  <2>8. Owners'
    <3>1. ASSUME NEW f \in Fds
          PROVE  fds'[f] # 0 <=> \E p \in Objects : m_value'[p] = f
      <4>1. fds[f] # 0 <=> \E p \in Objects : m_value[p] = f
        BY DEF IpcInv, Owners
      <4>2. \A p \in Objects : m_value[p] = h => p = o
        BY <2>1 DEF IpcInv, Owners
      <4> QED
        BY <1>2, <2>1, <2>5, <4>1, <4>2
    <3> QED
      BY <1>4, <3>1 DEF Owners
  <2>9. \A f \in Fds : f # h /\ fds[f] # 0 => fds[f] \notin Gone(s)
    <3>1. \A f \in Fds : f # h /\ fds[f] # 0 => fds[f] # s
      BY <2>2, <2>3 DEF IpcInv, Table
    <3>2. \A f \in Fds : \A i \in 1..Len(sk[s].waiting) : fds[f] # sk[s].waiting[i]
      BY WaitsOnce
    <3> QED
      BY <3>1, <3>2 DEF Gone
  <2>10. Table'
    <3>1. ASSUME NEW f \in Fds, fds'[f] # 0 PROVE Posix!IsOpen(fds[f])'
      <4>1. PICK x : x = fds'[f]
        OBVIOUS
      <4>2. x = fds[f] /\ x \notin Gone(s)
        BY <2>5, <2>9, <3>1, <4>1
      <4>3. Posix!IsOpen(x)
        BY <2>5, <3>1, <4>1, <4>2 DEF IpcInv, Table
      <4>4. Posix!IsOpen(x)'
        BY <2>6, <4>2, <4>3 DEF Posix!IsOpen
      <4> QED
        BY <4>1, <4>4 DEF Posix!IsOpen
    <3>2. \A f, g \in Fds : fds'[f] # 0 /\ fds'[f] = fds'[g] => f = g
      <4>1. \A f, g \in Fds : fds[f] # 0 /\ fds[f] = fds[g] => f = g
        BY DEF IpcInv, Table
      <4> QED
        BY <2>5, <4>1
    <3> QED
      BY <3>1, <3>2 DEF Table
  <2>11. Queued'
    <3>1. PICK d : d = [r \in Posix!Socks |-> 0]
      OBVIOUS
    <3>2. d \in [Posix!Socks -> Nat]
      BY <3>1
    <3>3. ASSUME NEW r \in Posix!Socks, NEW i \in 1..Len(sk'[r].waiting)
          PROVE  /\ i + d[r] \in 1..Len(sk[r].waiting)
                 /\ sk'[r].waiting[i] = sk[r].waiting[i + d[r]]
                 /\ Posix!IsOpen(sk[r].waiting[i])'
                 /\ \A g \in Fds : fds'[g] # sk'[r].waiting[i]
      <4>1. r \notin Gone(s)
        BY <2>6
      <4>2. /\ i + d[r] = i /\ sk'[r].waiting = sk[r].waiting
            /\ i \in 1..Len(sk[r].waiting)
        BY <2>6, <3>1, <4>1, SockFields
      <4>3. PICK x : x = sk[r].waiting[i]
        OBVIOUS
      <4>4. Posix!IsOpen(x) /\ \A g \in Fds : fds[g] # x
        BY <4>2, <4>3, WaitsOnce
      <4>5. x \notin Gone(s)
        <5>1. x # s
          BY <2>3, <4>4
        <5>2. \A j \in 1..Len(sk[s].waiting) : sk[s].waiting[j] = x => s = r
          BY <4>2, <4>3, WaitsOnce
        <5>3. r # s
          BY <4>1 DEF Gone
        <5> QED
          BY <5>1, <5>2, <5>3 DEF Gone
      <4>6. Posix!IsOpen(x)'
        BY <2>6, <4>4, <4>5 DEF Posix!IsOpen
      <4>7. \A g \in Fds : fds'[g] # x
        <5>1. x # 0
          BY <4>4 DEF Posix!IsOpen, Posix!Socks
        <5> QED
          BY <2>5, <4>4, <5>1
      <4>8. Posix!IsOpen(sk[r].waiting[i])'
        BY <4>2, <4>3, <4>6 DEF Posix!IsOpen
      <4> QED
        BY <4>2, <4>3, <4>7, <4>8
    <3> QED
      BY <3>2, <3>3, QueuesShrink
  <2> QED
    BY <1>3, <2>7, <2>8, <2>10, <2>11 DEF IpcInv
<1> QED
  BY <1>1, <1>5, <1>6

LEMMA DestroyInv ==
  ASSUME IpcInv, NEW o \in Objects, Destroy(o) PROVE IpcInv'
<1>1. /\ m_value[o] # Unborn /\ Destructor(o)
      /\ UNCHANGED <<remote, binding, handling, rivals>>
      /\ \A a \in Servers : handling[a] # o
  BY DEF Destroy, Usable, InHandler
<1>2. handling' \in [Servers -> Streams \cup {NoObject}]
  BY <1>1 DEF IpcInv, TypeOK
<1>3. \A a \in Servers : handling'[a] = handling[a] /\ handling[a] # o
  BY <1>1
<1> QED
  BY <1>1, <1>2, <1>3, DestructorInv

LEMMA HandlerEndsInv ==
  ASSUME IpcInv, NEW o \in Servers, HandlerEnds(o) PROVE IpcInv'
<1>1. PICK t : t = handling[o]
  OBVIOUS
<1>2. /\ t # NoObject /\ Destructor(t)
      /\ handling' = [handling EXCEPT ![o] = NoObject]
      /\ UNCHANGED <<remote, binding, rivals>>
  BY <1>1 DEF HandlerEnds
<1>3. handling \in [Servers -> Streams \cup {NoObject}]
  BY DEF IpcInv, TypeOK
<1>4. t \in Objects /\ m_value[t] # Unborn
  BY <1>1, <1>2, <1>3 DEF IpcInv, Handlers, Objects
<1>5. handling' \in [Servers -> Streams \cup {NoObject}]
  BY <1>2, <1>3
<1>6. \A a \in Servers : handling'[a] # NoObject =>
        handling'[a] = handling[a] /\ handling[a] # t
  <2>1. \A a \in Servers : handling'[a] = IF a = o THEN NoObject ELSE handling[a]
    BY <1>2, <1>3
  <2>2. \A a \in Servers : handling[a] = t => a = o
    BY <1>1, <1>2 DEF IpcInv, Handlers
  <2> QED
    BY <2>1, <2>2
<1> QED
  BY <1>2, <1>4, <1>5, <1>6, DestructorInv

---------------------------------------------------------------------------
(* Connections *)

LEMMA AcceptInv ==
  ASSUME IpcInv, NEW o \in Servers, Accept(o) PROVE IpcInv'
<1>1. CASE Posix!AcceptFails(m_value[o]) /\ UNCHANGED <<m_value, handling>>
  BY <1>1, UnchangedInv DEF Accept, Posix!AcceptFails, Posix!no_effect,
     Posix!system, system, objects, vars
<1>2. CASE \E f \in Fds, t \in Streams :
             /\ m_value[t] = Unborn
             /\ Posix!accept(m_value[o], f)
             /\ Adopt(t, f)
             /\ handling' = [handling EXCEPT ![o] = t]
  <2>1. PICK f \in Fds, t \in Streams :
             /\ m_value[t] = Unborn
             /\ Posix!accept(m_value[o], f)
             /\ Adopt(t, f)
             /\ handling' = [handling EXCEPT ![o] = t]
    BY <1>2
  <2>2. PICK s : s = Posix!Behind(m_value[o])
    OBVIOUS
  <2>3. /\ s # 0 /\ sk[s].waiting # <<>> /\ fds[f] = 0
        /\ fds' = [fds EXCEPT ![f] = Head(sk[s].waiting)]
        /\ sk' = [sk EXCEPT ![s].waiting = Tail(@)]
        /\ UNCHANGED <<file, terminated, remote, binding, rivals>>
    BY <2>1, <2>2 DEF Posix!accept, Accept
  <2>4. s \in Posix!Socks
    BY <2>2, <2>3, BehindTyped
  <2>5. PICK w : w = sk[s].waiting
    OBVIOUS
  <2>6. w \in Seq(Posix!Socks) /\ w # <<>>
    BY <2>3, <2>4, <2>5, SockFields
  <2>7. /\ Len(w) \in Nat /\ 1 \in 1..Len(w) /\ Head(w) = w[1]
        /\ Tail(w) \in Seq(Posix!Socks) /\ Len(Tail(w)) = Len(w) - 1
        /\ \A i \in 1..Len(Tail(w)) : i + 1 \in 1..Len(w) /\ Tail(w)[i] = w[i + 1]
    BY <2>6
  <2>8. PICK k : k = w[1]
    OBVIOUS
  <2>9. k \in Posix!Socks /\ Posix!IsOpen(k) /\ \A g \in Fds : fds[g] # k
    BY <2>4, <2>5, <2>6, <2>7, <2>8, WaitsOnce
  <2>10. PICK rest : rest = Tail(w)
    OBVIOUS
  <2>11. PICK q : q = [sk[s] EXCEPT !.waiting = rest]
    OBVIOUS
  <2>12. q \in SockStates /\ q.waiting = rest /\ q.inbox = sk[s].inbox
           /\ q.phase = sk[s].phase
    <3>1. sk[s] \in SockStates /\ rest \in Seq(Posix!Socks)
      BY <2>4, <2>7, <2>10, SockFields
    <3> QED
      BY <2>11, <3>1 DEF SockStates
  <2>13. /\ sk' \in [Posix!Socks -> SockStates]
         /\ \A r \in Posix!Socks : sk'[r] = IF r = s THEN q ELSE sk[r]
    <3>1. sk \in [Posix!Socks -> SockStates]
      BY DEF IpcInv, SocksTyped
    <3>2. sk' = [sk EXCEPT ![s] = q]
      BY <2>3, <2>4, <2>5, <2>10, <2>11, <3>1
    <3> QED
      BY <2>4, <2>12, <3>1, <3>2
  <2>14. \A r \in Posix!Socks : /\ Posix!IsOpen(r) => Posix!IsOpen(r)'
                                /\ Len(sk'[r].inbox) <= Capacity
    BY <2>4, <2>12, <2>13, SockFields DEF Posix!IsOpen
  <2>15. /\ t \in Objects /\ m_value' = [m_value EXCEPT ![t] = f]
         /\ fds' = [fds EXCEPT ![f] = k]
    BY <2>1, <2>3, <2>5, <2>7, <2>8 DEF Adopt, Objects
  <2>16. TypeOK' /\ SocksTyped'
    <3>1. /\ m_value' \in [Objects -> Fds \cup {Invalid, Unborn}]
          /\ handling' \in [Servers -> Streams \cup {NoObject}]
          /\ fds' \in [Fds -> 0..MaxSocks]
      BY <2>1, <2>9, <2>15 DEF IpcInv, TypeOK, Posix!Socks
    <3> QED
      BY <2>3, <2>13, <2>14, <3>1, HandsType
  <2>17. Owners' /\ Table'
    <3>1. Posix!IsOpen(k)'
      BY <2>9, <2>14
    <3> QED
      BY <2>1, <2>3, <2>9, <2>14, <2>15, <3>1, GainOwners
  <2>18. Queued'
    <3>1. PICK d : d = [r \in Posix!Socks |-> IF r = s THEN 1 ELSE 0]
      OBVIOUS
    <3>2. d \in [Posix!Socks -> Nat]
      BY <3>1
    <3>3. ASSUME NEW r \in Posix!Socks, NEW i \in 1..Len(sk'[r].waiting)
          PROVE  /\ i + d[r] \in 1..Len(sk[r].waiting)
                 /\ sk'[r].waiting[i] = sk[r].waiting[i + d[r]]
                 /\ Posix!IsOpen(sk[r].waiting[i])'
                 /\ \A g \in Fds : fds'[g] # sk'[r].waiting[i]
      <4>1. PICK j : j = i + d[r]
        OBVIOUS
      <4>2. PICK x : x = sk[r].waiting[j]
        OBVIOUS
      <4>3. j \in 1..Len(sk[r].waiting) /\ sk'[r].waiting[i] = x
              /\ (r = s => j # 1)
        <5>1. CASE r = s
          <6>1. j = i + 1 /\ sk'[r].waiting = rest
            BY <2>12, <2>13, <3>1, <4>1, <5>1
          <6> QED
            BY <2>5, <2>7, <2>10, <4>2, <5>1, <6>1
        <5>2. CASE r # s
          <6>1. j = i /\ sk'[r].waiting = sk[r].waiting
            BY <2>13, <3>1, <4>1, <5>2, SockFields
          <6> QED
            BY <4>2, <5>2, <6>1
        <5> QED
          BY <5>1, <5>2
      <4>4. Posix!IsOpen(x) /\ \A g \in Fds : fds[g] # x
        BY <4>2, <4>3, WaitsOnce
      <4>5. x # k
        <5>1. ASSUME x = k PROVE r = s /\ j = 1
          <6>1. /\ 1 \in 1..Len(sk[s].waiting) /\ j \in 1..Len(sk[r].waiting)
                /\ sk[r].waiting[j] = sk[s].waiting[1]
            BY <2>5, <2>7, <2>8, <4>2, <4>3, <5>1
          <6> QED
            BY <2>4, <6>1, WaitsOnce
        <5> QED
          BY <4>3, <5>1
      <4>6. Posix!IsOpen(x)'
        BY <2>14, <4>4 DEF Posix!IsOpen
      <4>7. \A g \in Fds : fds'[g] # x
        BY <2>15, <4>4, <4>5 DEF IpcInv, TypeOK
      <4>8. Posix!IsOpen(sk[r].waiting[i])'
        BY <4>3, <4>6 DEF Posix!IsOpen
      <4> QED
        BY <4>1, <4>2, <4>3, <4>7, <4>8
    <3> QED
      BY <3>2, <3>3, QueuesShrink
  <2>19. Handlers'
    <3>1. /\ m_value \in [Objects -> Fds \cup {Invalid, Unborn}]
          /\ handling \in [Servers -> Streams \cup {NoObject}]
      BY DEF IpcInv, TypeOK
    <3>2. \A a \in Servers : handling'[a] = IF a = o THEN t ELSE handling[a]
      BY <2>1, <3>1
    <3>3. \A p \in Objects : m_value'[p] = IF p = t THEN f ELSE m_value[p]
      BY <2>15, <3>1
    <3>4. \A a \in Servers : handling[a] # NoObject =>
            /\ handling[a] \in Objects
            /\ m_value[handling[a]] # Unborn /\ handling[a] # t
      BY <2>1, <3>1 DEF IpcInv, Handlers, Objects
    <3> QED
      BY <2>15, <3>2, <3>3, <3>4 DEF IpcInv, Handlers
  <2> QED
    BY <2>16, <2>17, <2>18, <2>19 DEF IpcInv
<1> QED
  BY <1>1, <1>2 DEF Accept

\* The three sockets of a connection: k is created, s connects, l listens.
Connected(u, k, s, l, n) ==
  [u EXCEPT
     ![k] = [Posix!Free EXCEPT !.kind = "stream", !.phase = "connected",
                               !.name = n, !.peer = s],
     ![s].phase = "connected", ![s].peer = k,
     ![l].waiting = Append(@, k)]

LEMMA ConnectedSocks ==
  ASSUME NEW u \in [Posix!Socks -> SockStates], NEW n \in Names,
         NEW k \in Posix!Socks, NEW s \in Posix!Socks, NEW l \in Posix!Socks,
         k # s, k # l, s # l,
         NEW v, v = Connected(u, k, s, l, n)
  PROVE  /\ v \in [Posix!Socks -> SockStates]
         /\ \A r \in Posix!Socks :
              /\ r # l => v[r].waiting = IF r = k THEN <<>> ELSE u[r].waiting
              /\ r = l => v[r].waiting = Append(u[l].waiting, k)
              /\ v[r].inbox = IF r = k THEN <<>> ELSE u[r].inbox
              /\ v[r].phase = IF r \in {k, s} THEN "connected" ELSE u[r].phase
<1>1. PICK a : a = [Posix!Free EXCEPT !.kind = "stream", !.phase = "connected",
                                      !.name = n, !.peer = s]
  OBVIOUS
<1>2. a \in SockStates /\ a.waiting = <<>> /\ a.inbox = <<>> /\ a.phase = "connected"
  <2>1. a \in SockStates
    BY <1>1, FreeTyped, NewTyped
  <2>2. a.waiting = <<>> /\ a.inbox = <<>> /\ a.phase = "connected"
    BY <1>1 DEF Posix!Free
  <2> QED
    BY <2>1, <2>2
<1>3. PICK b : b = [u[s] EXCEPT !.phase = "connected", !.peer = k]
  OBVIOUS
<1>4. b \in SockStates /\ b.waiting = u[s].waiting /\ b.inbox = u[s].inbox
        /\ b.phase = "connected"
  <2>1. u[s] \in SockStates /\ k \in 0..MaxSocks
    BY DEF Posix!Socks
  <2> QED
    BY <1>3, <2>1 DEF SockStates
<1>5. PICK w : w = Append(u[l].waiting, k)
  OBVIOUS
<1>6. u[l] \in SockStates /\ w \in Seq(Posix!Socks)
  <2>1. u[l] \in SockStates
    OBVIOUS
  <2>2. u[l].waiting \in Seq(Posix!Socks)
    BY <2>1 DEF SockStates
  <2> QED
    BY <1>5, <2>1, <2>2
<1>7. PICK c : c = [u[l] EXCEPT !.waiting = w]
  OBVIOUS
<1>8. c \in SockStates /\ c.waiting = w /\ c.inbox = u[l].inbox
        /\ c.phase = u[l].phase
  BY <1>6, <1>7 DEF SockStates
<1>9. v = [r \in Posix!Socks |-> IF r = k THEN a ELSE IF r = s THEN b ELSE
                       IF r = l THEN c ELSE u[r]]
  BY <1>1, <1>3, <1>5, <1>7 DEF Connected
<1>10. /\ v \in [Posix!Socks -> SockStates]
       /\ \A r \in Posix!Socks : v[r] = IF r = k THEN a ELSE IF r = s THEN b ELSE
                              IF r = l THEN c ELSE u[r]
  <2> HIDE DEF SockStates
  <2>1. \A r \in Posix!Socks : v[r] = IF r = k THEN a ELSE IF r = s THEN b ELSE
                                     IF r = l THEN c ELSE u[r]
    BY <1>9
  <2>2. \A r \in Posix!Socks : v[r] \in SockStates
    BY <1>2, <1>4, <1>8, <2>1
  <2> QED
    BY <1>9, <2>1, <2>2
<1> QED
  BY <1>2, <1>4, <1>5, <1>8, <1>10

\* What connect() does when it does anything.
LEMMA ConnectFacts ==
  ASSUME IpcInv, NEW o \in Objects, NEW path \in Paths, Connect(o, path),
         ~Posix!no_effect
  PROVE  \E k, s, l \in Posix!Socks :
           /\ k # l
           /\ sk[k].phase = "none"
           /\ UNCHANGED <<fds, file, terminated, m_value, remote, binding, handling, rivals>>
           /\ sk' \in [Posix!Socks -> SockStates]
           /\ \A r \in Posix!Socks :
                /\ r # l => sk'[r].waiting = IF r = k THEN <<>> ELSE sk[r].waiting
                /\ r = l => sk'[r].waiting = Append(sk[l].waiting, k)
                /\ sk'[r].inbox = IF r = k THEN <<>> ELSE sk[r].inbox
                /\ sk'[r].phase = IF r \in {k, s} THEN "connected" ELSE sk[r].phase
<1>1. PICK n : n = NameOf(path)
  OBVIOUS
<1>2. n \in Names
  BY <1>1, NamesAreNames DEF Connect
<1>3. PICK s : s = Posix!Behind(m_value[o])
  OBVIOUS
<1>4. PICK l : l = file[n]
  OBVIOUS
<1>5. /\ s # 0 /\ sk[s].phase = "fresh"
      /\ Posix!IsOpen(l) /\ sk[l].phase = "listening"
  BY <1>1, <1>3, <1>4 DEF Connect, Posix!connect
<1>6. PICK k \in Posix!Socks :
       /\ Posix!NextSock(k)
       /\ Posix!Sets([sk EXCEPT
            ![k] = [Posix!Free EXCEPT !.kind = "stream", !.phase = "connected",
                                      !.name = n, !.peer = s],
            ![s].phase = "connected", ![s].peer = k,
            ![l].waiting = Append(@, k)])
  BY <1>1, <1>3, <1>4 DEF Connect, Posix!connect
<1>7. /\ s \in Posix!Socks /\ l \in Posix!Socks /\ sk[k].phase = "none"
      /\ k # s /\ k # l /\ s # l
  BY <1>3, <1>5, <1>6, BehindTyped DEF Posix!IsOpen, Posix!NextSock
<1>8. UNCHANGED <<fds, file, terminated, m_value, remote, binding, handling, rivals>>
  BY <1>6 DEF Posix!Sets, Connect, objects
<1>9. /\ sk' \in [Posix!Socks -> SockStates]
      /\ \A r \in Posix!Socks :
           /\ r # l => sk'[r].waiting = IF r = k THEN <<>> ELSE sk[r].waiting
           /\ r = l => sk'[r].waiting = Append(sk[l].waiting, k)
           /\ sk'[r].inbox = IF r = k THEN <<>> ELSE sk[r].inbox
           /\ sk'[r].phase = IF r \in {k, s} THEN "connected" ELSE sk[r].phase
  <2>1. sk \in [Posix!Socks -> SockStates]
    BY DEF IpcInv, SocksTyped
  <2>2. PICK u : u = sk
    OBVIOUS
  <2>3. PICK v : v = Connected(u, k, s, l, n)
    OBVIOUS
  <2>4. sk' = v
    BY <1>6, <2>3, <2>2 DEF Posix!Sets, Connected
  <2>5. /\ v \in [Posix!Socks -> SockStates]
        /\ \A r \in Posix!Socks :
             /\ r # l => v[r].waiting = IF r = k THEN <<>> ELSE u[r].waiting
             /\ r = l => v[r].waiting = Append(u[l].waiting, k)
             /\ v[r].inbox = IF r = k THEN <<>> ELSE u[r].inbox
             /\ v[r].phase = IF r \in {k, s} THEN "connected" ELSE u[r].phase
    BY <1>2, <1>7, <2>1, <2>3, <2>2, ConnectedSocks
  <2> QED
    BY <2>4, <2>5, <2>2
<1> QED
  BY <1>7, <1>8, <1>9

LEMMA ConnectInv ==
  ASSUME IpcInv, NEW o \in Objects, NEW path \in Paths, Connect(o, path)
  PROVE  IpcInv'
<1>1. CASE Posix!no_effect
  BY <1>1, UnchangedInv DEF Connect, Posix!no_effect, Posix!system, system, vars
<1>2. CASE ~Posix!no_effect
  <2>1. PICK k, s, l \in Posix!Socks :
           /\ k # l
           /\ sk[k].phase = "none"
           /\ UNCHANGED <<fds, file, terminated, m_value, remote, binding, handling, rivals>>
           /\ sk' \in [Posix!Socks -> SockStates]
           /\ \A r \in Posix!Socks :
                /\ r # l => sk'[r].waiting = IF r = k THEN <<>> ELSE sk[r].waiting
                /\ r = l => sk'[r].waiting = Append(sk[l].waiting, k)
                /\ sk'[r].inbox = IF r = k THEN <<>> ELSE sk[r].inbox
                /\ sk'[r].phase = IF r \in {k, s} THEN "connected" ELSE sk[r].phase
    BY <1>2, ConnectFacts
  <2>2. l \in Posix!Socks /\ sk[k].phase = "none" /\ k # l
    BY <2>1
  <2>3. UNCHANGED <<fds, file, terminated, m_value, remote, binding, handling, rivals>>
    BY <2>1
  <2>4. /\ sk' \in [Posix!Socks -> SockStates]
        /\ \A r \in Posix!Socks :
             /\ r # l => sk'[r].waiting = IF r = k THEN <<>> ELSE sk[r].waiting
             /\ r = l => sk'[r].waiting = Append(sk[l].waiting, k)
             /\ sk'[r].inbox = IF r = k THEN <<>> ELSE sk[r].inbox
             /\ sk'[r].phase = IF r \in {k, s} THEN "connected" ELSE sk[r].phase
    BY <2>1
  <2>5. TypeOK' /\ SocksTyped'
    <3>1. /\ m_value' \in [Objects -> Fds \cup {Invalid, Unborn}]
          /\ handling' \in [Servers -> Streams \cup {NoObject}]
          /\ fds' \in [Fds -> 0..MaxSocks]
      BY <2>3 DEF IpcInv, TypeOK
    <3>2. \A r \in Posix!Socks : Len(sk'[r].inbox) <= Capacity
      BY <2>4, SockFields
    <3> QED
      BY <2>3, <2>4, <3>1, <3>2, HandsType
  <2>6. \A x : Posix!IsOpen(x) => Posix!IsOpen(x)'
    BY <2>4 DEF Posix!IsOpen
  <2>7. Owners' /\ Handlers'
    BY <2>3 DEF IpcInv, Owners, Handlers
  <2>8. Table'
    BY <2>3, <2>6 DEF IpcInv, Table
  <2>9. Queued'
    <3>1. \A g \in Fds : fds[g] # k
      BY <2>2, FreshSock
    <3>2. ASSUME NEW r \in Posix!Socks, NEW i \in 1..Len(sk'[r].waiting),
                 NEW x, x = sk'[r].waiting[i]
          PROVE  \/ i \in 1..Len(sk[r].waiting) /\ sk[r].waiting[i] = x /\ x # k
                 \/ r = l /\ i = Len(sk[l].waiting) + 1 /\ x = k
      <4>1. CASE r = l
        <5>1. sk[l].waiting \in Seq(Posix!Socks) /\ Len(sk[l].waiting) \in Nat
          BY <2>2, SockFields
        <5>2. sk'[r].waiting = Append(sk[l].waiting, k)
          BY <2>4, <4>1
        <5>3. i \in 1..Len(sk[l].waiting) => sk[l].waiting[i] = x
          BY <3>2, <5>1, <5>2
        <5>4. i \in 1..Len(sk[l].waiting) \/ i = Len(sk[l].waiting) + 1
          BY <5>1, <5>2
        <5>5. i = Len(sk[l].waiting) + 1 => x = k
          BY <3>2, <5>1, <5>2
        <5> QED
          BY <2>2, <4>1, <5>3, <5>4, <5>5, FreshSock
      <4>2. CASE r # l
        <5>1. r # k /\ sk'[r].waiting = sk[r].waiting
          BY <2>4, <4>2
        <5> QED
          BY <2>2, <3>2, <5>1, FreshSock
      <4> QED
        BY <4>1, <4>2
    <3>3. ASSUME NEW r \in Posix!Socks, NEW i \in 1..Len(sk'[r].waiting)
          PROVE  /\ Posix!IsOpen(sk[r].waiting[i])'
                 /\ \A f \in Fds : fds'[f] # sk'[r].waiting[i]
      <4>1. PICK x : x = sk'[r].waiting[i]
        OBVIOUS
      <4>2. Posix!IsOpen(k)'
        BY <2>4 DEF Posix!IsOpen
      <4>3. Posix!IsOpen(x)' /\ \A f \in Fds : fds[f] # x
        BY <2>6, <3>1, <3>2, <4>1, <4>2, WaitsOnce
      <4>4. Posix!IsOpen(sk[r].waiting[i])'
        BY <4>1, <4>3 DEF Posix!IsOpen
      <4> QED
        BY <2>3, <4>1, <4>3, <4>4
    <3>4. ASSUME NEW r \in Posix!Socks, NEW i \in 1..Len(sk'[r].waiting),
                 NEW p \in Posix!Socks, NEW j \in 1..Len(sk'[p].waiting),
                 sk'[p].waiting[j] = sk'[r].waiting[i]
          PROVE  p = r /\ j = i
      <4>1. PICK x : x = sk'[r].waiting[i]
        OBVIOUS
      <4>2. CASE x = k
        <5>1. r = l /\ i = Len(sk[l].waiting) + 1
          BY <3>2, <4>1, <4>2
        <5>2. p = l /\ j = Len(sk[l].waiting) + 1
          BY <3>2, <3>4, <4>1, <4>2
        <5> QED
          BY <5>1, <5>2
      <4>3. CASE x # k
        <5>1. /\ i \in 1..Len(sk[r].waiting) /\ sk[r].waiting[i] = x
              /\ j \in 1..Len(sk[p].waiting) /\ sk[p].waiting[j] = x
          BY <3>2, <3>4, <4>1, <4>3
        <5>2. sk[p].waiting[j] = sk[r].waiting[i]
          BY <5>1
        <5>3. \A y \in Posix!Socks : \A h \in 1..Len(sk[y].waiting) :
                sk[y].waiting[h] = sk[r].waiting[i] => y = r /\ h = i
          BY <5>1, WaitsOnce
        <5> QED
          BY <5>1, <5>2, <5>3
      <4> QED
        BY <4>2, <4>3
    <3> QED
      BY <3>3, <3>4 DEF Queued
  <2> QED
    BY <2>5, <2>7, <2>8, <2>9 DEF IpcInv
<1> QED
  BY <1>1, <1>2

---------------------------------------------------------------------------
(* The theorems *)

LEMMA IpcInit == ASSUME Init PROVE IpcInv
<1> USE DEF Init, Posix!SystemInit
<1>1. SocksTyped
  <2>1. sk \in [Posix!Socks -> SockStates]
    BY FreeTyped
  <2> QED
    BY <2>1 DEF SocksTyped
<1>2. \A s \in Posix!Socks : sk[s] = Posix!Free
  OBVIOUS
<1>3. TypeOK
  <2>1. \A o \in Datagrams : SystemName(remote[o]) \in Names \cup {<<>>}
    <3> SUFFICES ASSUME NEW o \in Datagrams
                 PROVE  SystemName(remote[o]) \in Names \cup {<<>>}
      OBVIOUS
    <3>1. PICK path \in Paths : /\ Address!Fits(path)
                                /\ remote[o] = Address!construct(path)
      OBVIOUS
    <3>2. SystemName(remote[o]) = NameOf(path)
      BY <3>1 DEF NameOf, SystemName
    <3> QED
      BY <3>1, <3>2, PathNames, NamesAreNames
  <2>2. \A s \in Posix!Socks :
          /\ sk[s].kind = "none" /\ sk[s].phase = "none" /\ sk[s].name = <<>>
          /\ sk[s].backlog = 0 /\ sk[s].inbox = <<>>
    BY <1>2 DEF Posix!Free
  <2>3. Len(<<>>) = 0
    OBVIOUS
  <2> QED
    BY <2>1, <2>2, <2>3 DEF TypeOK
<1>4. Owners /\ Table /\ Handlers
  BY DEF Owners, Table, Handlers, Objects
<1>5. Queued
  <2>1. \A s \in Posix!Socks : sk[s].waiting = <<>>
    BY <1>2 DEF Posix!Free
  <2> QED
    BY <2>1 DEF Queued
<1> QED
  BY <1>1, <1>3, <1>4, <1>5 DEF IpcInv

LEMMA IpcStep == ASSUME IpcInv, [Next]_vars PROVE IpcInv'
<1> USE DEF Objects
<1>1. ASSUME UNCHANGED vars PROVE IpcInv'
  BY <1>1, UnchangedInv
<1>2. ASSUME NEW o \in Objects,
             Construct(o) \/ Destroy(o) \/ BadArgument(o)
               \/ \E modes \in Modes : Shutdown(o, modes)
      PROVE  IpcInv'
  BY <1>2, ConstructInv, DestroyInv, UnchangedInv, ShutdownInv DEF BadArgument
<1>3. ASSUME Moves(Servers) \/ Moves(Streams) \/ Moves(Datagrams) PROVE IpcInv'
  BY <1>3, MoveInv DEF Moves
<1>4. ASSUME NEW o \in Servers \cup Datagrams,
             BindBinds(o) \/ \E path \in BindPaths : BindUnlinks(o, path)
      PROVE  IpcInv'
  BY <1>4, BindBindsInv, BindUnlinksInv
<1>5. ASSUME NEW o \in Servers,
             Accept(o) \/ HandlerEnds(o)
               \/ \E size \in QueueSizes : Listen(o, size)
      PROVE  IpcInv'
  BY <1>5, AcceptInv, HandlerEndsInv, ListenInv
<1>6. ASSUME NEW o \in Streams, NEW path \in Paths, Connect(o, path)
      PROVE  IpcInv'
  BY <1>6, ConnectInv
<1>7. ASSUME NEW o \in Servers \cup Streams, Send(o) \/ Receive(o)
      PROVE  IpcInv'
  BY <1>7, SendInv, ReceiveInv
<1>8. ASSUME NEW o \in Datagrams,
             ReceiveFrom(o) \/ \E path \in Paths : SendTo(o, path)
      PROVE  IpcInv'
  BY <1>8, ReceiveFromInv, SendToInv
<1> QED
  BY <1>1, <1>2, <1>3, <1>4, <1>5, <1>6, <1>7, <1>8 DEF Next

\* The inductive invariant of the socket classes: whose every descriptor is,
\* which sockets are open, and where connections wait for accept().
THEOREM IpcInvariant == Spec => []IpcInv
<1>1. Init => IpcInv
  BY IpcInit
<1>2. IpcInv /\ [Next]_vars => IpcInv'
  BY IpcStep
<1> QED
  BY <1>1, <1>2, PTL DEF Spec

\* Type correctness, and no destructor ever finds its descriptor closed:
\* destroy() of socket.cpp never terminates the program.
THEOREM TypeCorrect == Spec => []TypeOK
<1>1. IpcInv => TypeOK
  BY DEF IpcInv
<1> QED
  BY <1>1, IpcInvariant, PTL

\* Every open descriptor has exactly one owner, and every object that has a
\* descriptor has an open socket behind it, through every order of
\* constructions, moves, destructions, accepts and failures.
THEOREM DescriptorOwnedOnce == Spec => []OwnedOnce
<1>1. IpcInv => OwnedOnce
  <2> SUFFICES ASSUME IpcInv PROVE OwnedOnce
    OBVIOUS
  <2>1. ASSUME NEW f \in Fds, fds[f] # 0
        PROVE  Cardinality({o \in Objects : m_value[o] = f}) = 1
    <3>1. PICK p \in Objects : m_value[p] = f
      BY <2>1 DEF IpcInv, Owners
    <3>2. \A o \in Objects : m_value[o] = f => o = p
      BY <3>1 DEF IpcInv, Owners
    <3>3. {o \in Objects : m_value[o] = f} = {p}
      BY <3>1, <3>2
    <3> QED
      BY <3>3, FS_Singleton
  <2>2. ASSUME NEW o \in Objects, m_value[o] \in Fds
        PROVE  Posix!IsOpen(Posix!Behind(m_value[o]))
    <3>1. fds[m_value[o]] # 0 /\ Posix!Behind(m_value[o]) = fds[m_value[o]]
      BY <2>2 DEF IpcInv, Owners, Posix!Behind
    <3> QED
      BY <2>2, <3>1 DEF IpcInv, Table
  <2> QED
    BY <2>1, <2>2 DEF OwnedOnce
<1> QED
  BY <1>1, IpcInvariant, PTL

---------------------------------------------------------------------------
(* What a step may not do *)

\* Descriptors are opened where none was open, and closed by the destructor
\* of their owner.
LEMMA DescriptorSteps ==
  ASSUME IpcInv, Next
  PROVE  \/ UNCHANGED fds
         \/ \E f \in Fds : fds[f] = 0 /\ \E k : fds' = [fds EXCEPT ![f] = k]
         \/ \E p \in Objects : /\ m_value'[p] = Unborn /\ m_value[p] \in Fds
                               /\ fds' = [fds EXCEPT ![m_value[p]] = 0]
<1>1. ASSUME NEW p \in Objects, Destructor(p), m_value[p] # Unborn
      PROVE  \/ UNCHANGED fds
             \/ /\ m_value'[p] = Unborn /\ m_value[p] \in Fds
                /\ fds' = [fds EXCEPT ![m_value[p]] = 0]
  BY <1>1 DEF Destructor, is_valid, system, Posix!destroy, IpcInv, TypeOK
<1>2. ASSUME NEW o \in Objects, Construct(o)
      PROVE  \/ UNCHANGED fds
             \/ \E f \in Fds : fds[f] = 0 /\ \E k : fds' = [fds EXCEPT ![f] = k]
  BY <1>2 DEF Construct, Posix!construct, Posix!NoDescriptor, Posix!no_effect,
     Posix!system
<1>3. ASSUME NEW o \in Servers, Accept(o)
      PROVE  \/ UNCHANGED fds
             \/ \E f \in Fds : fds[f] = 0 /\ \E k : fds' = [fds EXCEPT ![f] = k]
  <2>1. CASE Posix!AcceptFails(m_value[o])
    BY <2>1 DEF Posix!AcceptFails, Posix!no_effect, Posix!system
  <2>2. CASE \E f \in Fds : Posix!accept(m_value[o], f)
    BY <2>2 DEF Posix!accept
  <2> QED
    BY <1>3, <2>1, <2>2 DEF Accept
<1>4. ASSUME NEW o \in Servers, HandlerEnds(o)
      PROVE  handling[o] \in Objects /\ Destructor(handling[o])
               /\ m_value[handling[o]] # Unborn
  BY <1>4 DEF HandlerEnds, IpcInv, TypeOK, Handlers, Objects
<1>5. ASSUME NEW o \in Objects, Destroy(o)
      PROVE  Destructor(o) /\ m_value[o] # Unborn
  BY <1>5 DEF Destroy, Usable
<1>6. ASSUME NEW o, \/ BadArgument(o)
                    \/ \E modes \in Modes : Shutdown(o, modes)
                    \/ BindBinds(o) \/ \E path \in BindPaths : BindUnlinks(o, path)
                    \/ \E size \in QueueSizes : Listen(o, size)
                    \/ \E path \in Paths : Connect(o, path)
                    \/ Send(o) \/ Receive(o) \/ ReceiveFrom(o)
                    \/ \E path \in Paths : SendTo(o, path)
                    \/ \E other : MoveConstruct(o, other)
      PROVE  UNCHANGED fds
  BY <1>6 DEF BadArgument, Shutdown, BindBinds, BindUnlinks, Listen, Connect, Send,
     Receive, ReceiveFrom, SendTo, MoveConstruct, Unlinks, vars, system,
     Posix!shutdown, Posix!bind, Posix!unlink, Posix!UnlinkFails, Posix!listen,
     Posix!connect, Posix!send, Posix!receive, Posix!send_to, Posix!receive_from,
     Posix!ReceiveFromEnds, Posix!Sets, Posix!no_effect, Posix!system
<1> QED
  BY <1>1, <1>2, <1>3, <1>4, <1>5, <1>6 DEF Next, Moves

\* The socket behind an object does not change under it: what is closed is
\* the closing object's own, and what is given out was nobody's.
THEOREM SocketNeverSwapped == Spec => SocketStays
<1> DEFINE Stays == \A o \in Objects :
                      m_value[o] \in Fds /\ m_value'[o] = m_value[o] =>
                        fds'[m_value[o]] = fds[m_value[o]]
<1>1. IpcInv /\ [Next]_vars => [Stays]_vars
  <2> SUFFICES ASSUME IpcInv, Next, NEW o \in Objects, m_value[o] \in Fds,
                      m_value'[o] = m_value[o]
               PROVE  fds'[m_value[o]] = fds[m_value[o]]
    OBVIOUS
  <2>1. PICK h \in Fds : h = m_value[o]
    OBVIOUS
  <2>2. fds \in [Fds -> 0..MaxSocks] /\ fds[h] # 0
    BY <2>1 DEF IpcInv, TypeOK, Owners
  <2>3. CASE UNCHANGED fds
    BY <2>3
  <2>4. ASSUME NEW f \in Fds, fds[f] = 0, NEW k, fds' = [fds EXCEPT ![f] = k]
        PROVE  fds'[h] = fds[h]
    BY <2>2, <2>4
  <2>5. ASSUME NEW p \in Objects, m_value'[p] = Unborn, m_value[p] \in Fds,
               fds' = [fds EXCEPT ![m_value[p]] = 0]
        PROVE  fds'[h] = fds[h]
    <3>1. p # o
      BY <2>1, <2>5
    <3>2. m_value[p] # h
      BY <2>1, <2>5, <3>1 DEF IpcInv, Owners
    <3> QED
      BY <2>2, <2>5, <3>2
  <2>6. fds'[h] = fds[h]
    BY <2>3, <2>4, <2>5, DescriptorSteps
  <2> QED
    BY <2>1, <2>6
<1>2. [][Stays]_vars => SocketStays
  BY DEF SocketStays
<1> QED
  BY <1>1, <1>2, IpcInvariant, PTL DEF Spec

\* A name that leads to an open socket goes to another, or to none, only by
\* the unlink() at the start of a bind(), which takes one name at most; that
\* name may be another than the bind() is of, as the view unlink() reads
\* dangles.
THEOREM NameGoesToBind == Spec => NameTakenByBind
<1> DEFINE Taken == \A n \in Names :
                      Posix!IsOpen(file[n]) /\ sk'[file[n]].phase # "closed"
                        /\ file'[n] # file[n] =>
                          /\ \E o \in Objects :
                               binding[o] = <<>> /\ binding'[o] # <<>>
                          /\ \A m \in Names \ {n} : file'[m] = file[m]
<1>1. IpcInv /\ [Next]_vars => [Taken]_vars
  <2> SUFFICES ASSUME IpcInv, Next, NEW n \in Names, Posix!IsOpen(file[n]),
                      file'[n] # file[n]
               PROVE  /\ \E o \in Objects :
                           binding[o] = <<>> /\ binding'[o] # <<>>
                      /\ \A m \in Names \ {n} : file'[m] = file[m]
    OBVIOUS
  <2>1. file \in [Names -> 0..MaxSocks] /\ file[n] # 0
    BY DEF IpcInv, TypeOK, Posix!IsOpen, Posix!Socks
  <2>2. ASSUME NEW o \in Objects, NEW path \in BindPaths, BindUnlinks(o, path)
        PROVE  /\ binding[o] = <<>> /\ binding'[o] # <<>>
               /\ \A m \in Names \ {n} : file'[m] = file[m]
    <3>1. /\ binding[o] = <<>> /\ Takes(path) /\ path \in Paths
          /\ binding' = [binding EXCEPT ![o] = NameOf(path)]
          /\ Unlinks
      BY <2>2, SocketAssumption DEF SocketAssumption, BindUnlinks, Usable,
         Posix!UnlinkFails, Posix!no_effect, Posix!system
    <3>2. NameOf(path) # <<>>
      <4>1. Len(NameOf(path)) # 0
        BY <3>1 DEF Takes, NameOf, SystemName, Address!length
      <4> QED
        BY <4>1
    <3>3. binding'[o] = NameOf(path)
      BY <3>1 DEF IpcInv, TypeOK
    <3> QED
      BY <2>1, <3>1, <3>2, <3>3, UnlinkTypes
  <2>3. ASSUME NEW o \in Objects, BindBinds(o) PROVE FALSE
    <3>1. PICK x : x = binding[o]
      OBVIOUS
    <3>2. \/ UNCHANGED file
          \/ /\ file[x] = 0
             /\ file' = [file EXCEPT ![x] = Posix!Behind(m_value[o])]
      BY <2>3, <3>1 DEF BindBinds, Posix!bind, Posix!CanBind, Posix!no_effect,
         Posix!system
    <3> QED
      BY <2>1, <3>2
  <2>4. ASSUME NEW o, \/ Construct(o) \/ Destroy(o) \/ BadArgument(o)
                      \/ \E modes \in Modes : Shutdown(o, modes)
                      \/ Accept(o) \/ HandlerEnds(o)
                      \/ \E size \in QueueSizes : Listen(o, size)
                      \/ \E path \in Paths : Connect(o, path)
                      \/ Send(o) \/ Receive(o) \/ ReceiveFrom(o)
                      \/ \E path \in Paths : SendTo(o, path)
                      \/ \E other : MoveConstruct(o, other)
        PROVE  FALSE
    <3>1. UNCHANGED file
      BY <2>4 DEF Construct, Destroy, Destructor, BadArgument, Shutdown, Accept,
         HandlerEnds, Listen, Connect, Send, Receive, ReceiveFrom, SendTo,
         MoveConstruct, vars, system, Posix!construct, Posix!NoDescriptor,
         Posix!destroy, Posix!accept, Posix!AcceptFails, Posix!shutdown,
         Posix!listen, Posix!connect, Posix!send, Posix!receive, Posix!send_to,
         Posix!receive_from, Posix!ReceiveFromEnds, Posix!Sets, Posix!no_effect,
         Posix!system
    <3> QED
      BY <3>1
  <2> QED
    BY <2>2, <2>3, <2>4 DEF Next, Moves, Objects
<1>2. [][Taken]_vars => NameTakenByBind
  BY DEF NameTakenByBind
<1> QED
  BY <1>1, <1>2, IpcInvariant, PTL DEF Spec

\* Steps that leave the buffer of an open socket alone.
LEMMA BuffersKept ==
  ASSUME IpcInv, NEW o \in Objects, NEW s \in Posix!Socks, Posix!IsOpen(s),
         UNCHANGED m_value,
         \/ Construct(o) \/ Destroy(o) \/ BadArgument(o)
         \/ \E modes \in Modes : Shutdown(o, modes)
         \/ \E other : MoveConstruct(o, other)
         \/ BindBinds(o) \/ \E path \in BindPaths : BindUnlinks(o, path)
         \/ o \in Servers /\ (Accept(o) \/ HandlerEnds(o))
         \/ o \in Servers /\ \E size \in QueueSizes : Listen(o, size)
         \/ \E path \in Paths : Connect(o, path)
  PROVE  sk'[s].inbox = sk[s].inbox
<1>1. /\ sk \in [Posix!Socks -> SockStates] /\ sk[s] \in SockStates
      /\ m_value \in [Objects -> Fds \cup {Invalid, Unborn}]
  BY DEF IpcInv, SocksTyped, TypeOK
<1>2. CASE BadArgument(o) \/ (\E path \in BindPaths : BindUnlinks(o, path))
             \/ \E other : MoveConstruct(o, other)
  BY <1>2 DEF BadArgument, BindUnlinks, Unlinks, MoveConstruct, vars, system,
     Posix!unlink, Posix!UnlinkFails, Posix!no_effect, Posix!system
<1>3. ASSUME NEW t \in Objects, Destructor(t), m_value[t] # Unborn PROVE FALSE
  BY <1>1, <1>3 DEF Destructor
<1>4. CASE Destroy(o)
  BY <1>3, <1>4 DEF Destroy, Usable
<1>5. CASE o \in Servers /\ HandlerEnds(o)
  BY <1>3, <1>5 DEF HandlerEnds, IpcInv, TypeOK, Handlers, Objects
<1>6. CASE Construct(o)
  <2>1. CASE Posix!NoDescriptor
    BY <2>1 DEF Posix!NoDescriptor, Posix!no_effect, Posix!system
  <2>2. CASE \E f \in Fds : m_value' = [m_value EXCEPT ![o] = f]
    BY <1>1, <1>6, <2>2 DEF Construct
  <2> QED
    BY <1>6, <2>1, <2>2 DEF Construct
<1>7. CASE o \in Servers /\ Accept(o)
  <2>1. CASE Posix!AcceptFails(m_value[o])
    BY <2>1 DEF Posix!AcceptFails, Posix!no_effect, Posix!system
  <2>2. CASE \E f \in Fds, t \in Streams :
               m_value[t] = Unborn /\ m_value' = [m_value EXCEPT ![t] = f]
    BY <1>1, <2>2 DEF Objects
  <2> QED
    BY <1>7, <2>1, <2>2 DEF Accept, Adopt
<1>8. CASE \E modes \in Modes : Shutdown(o, modes)
  BY <1>8, ShutdownInv
<1>9. CASE BindBinds(o)
  BY <1>9, BindBindsInv
<1>10. CASE o \in Servers /\ \E size \in QueueSizes : Listen(o, size)
  BY <1>10, ListenInv
<1>11. ASSUME NEW path \in Paths, Connect(o, path)
       PROVE  sk'[s].inbox = sk[s].inbox
  <2>1. CASE Posix!no_effect
    BY <2>1 DEF Posix!no_effect, Posix!system
  <2>2. CASE ~Posix!no_effect
    BY <1>11, <2>2, ConnectFacts DEF Posix!IsOpen
  <2> QED
    BY <2>1, <2>2
<1> QED
  BY <1>2, <1>4, <1>5, <1>6, <1>7, <1>8, <1>9, <1>10, <1>11

\* No two objects have one socket.
LEMMA OwnSock ==
  ASSUME IpcInv, NEW o \in Objects, NEW p \in Objects,
         Posix!Behind(m_value[o]) # 0,
         Posix!Behind(m_value[p]) = Posix!Behind(m_value[o])
  PROVE  p = o
<1>1. PICK f \in Fds : f = m_value[o] /\ fds[f] = Posix!Behind(m_value[o])
  BY BehindTyped
<1>2. PICK g \in Fds : g = m_value[p] /\ fds[g] = Posix!Behind(m_value[p])
  BY BehindTyped
<1>3. f = g
  BY <1>1, <1>2 DEF IpcInv, Table
<1> QED
  BY <1>1, <1>2, <1>3 DEF IpcInv, Owners

\* A message more in some buffer, or one less in that of another object.
LEMMA OtherBuffer ==
  ASSUME IpcInv, NEW s \in Posix!Socks, NEW x, NEW m,
         \/ UNCHANGED sk
         \/ sk' = [sk EXCEPT ![x].inbox = Append(@, m)]
         \/ x # s /\ sk' = [sk EXCEPT ![x].inbox = Tail(@)]
         \/ x # s /\ sk' = [sk EXCEPT ![x].shut = m]
  PROVE  sk'[s].inbox = sk[s].inbox \/ sk'[s].inbox = Append(sk[s].inbox, m)
<1>1. sk \in [Posix!Socks -> SockStates] /\ sk[s] \in SockStates
  BY DEF IpcInv, SocksTyped
<1>2. CASE x # s
  BY <1>1, <1>2
<1>3. CASE UNCHANGED sk
  BY <1>3
<1>4. CASE x = s /\ sk' = [sk EXCEPT ![x].inbox = Append(@, m)]
  <2>1. PICK q : q = [sk[s] EXCEPT !.inbox = Append(sk[s].inbox, m)]
    OBVIOUS
  <2>2. q.inbox = Append(sk[s].inbox, m)
    BY <1>1, <2>1 DEF SockStates
  <2>3. sk'[s] = q
    BY <1>1, <1>4, <2>1
  <2> QED
    BY <2>2, <2>3
<1> QED
  BY <1>2, <1>3, <1>4

\* Of all steps only receive_from() of its owner takes a message from the
\* buffer of a datagram socket.
LEMMA TakenByOwner ==
  ASSUME IpcInv, Next, UNCHANGED m_value, NEW o \in Datagrams,
         NEW s, s = Posix!Behind(m_value[o]), s # 0
  PROVE  \/ ReceiveFrom(o)
         \/ sk'[s].inbox = sk[s].inbox
         \/ \E m : sk'[s].inbox = Append(sk[s].inbox, m)
<1> DEFINE Kept == \/ sk'[s].inbox = sk[s].inbox
                   \/ \E m : sk'[s].inbox = Append(sk[s].inbox, m)
<1>1. s \in Posix!Socks /\ Posix!IsOpen(s)
  BY BehindTyped DEF IpcInv, Table
<1>2. \A p \in Objects : p # o => Posix!Behind(m_value[p]) # s
  BY OwnSock DEF Objects
<1>3. ASSUME NEW p \in Objects, Send(p) PROVE Kept
  <2>1. PICK x : x = sk[Posix!Behind(m_value[p])].peer
    OBVIOUS
  <2>2. UNCHANGED sk \/ sk' = [sk EXCEPT ![x].inbox = Append(@, <<>>)]
    BY <1>3, <2>1 DEF Send, Posix!send, Posix!Sets, Posix!no_effect, Posix!system
  <2> QED
    BY <1>1, <2>2, OtherBuffer
<1>4. ASSUME NEW p \in Objects, NEW path \in Paths, SendTo(p, path) PROVE Kept
  <2>1. PICK x : x = file[NameOf(path)]
    OBVIOUS
  <2>2. PICK m : m = sk[Posix!Behind(m_value[p])].name
    OBVIOUS
  <2>3. UNCHANGED sk \/ sk' = [sk EXCEPT ![x].inbox = Append(@, m)]
    BY <1>4, <2>1, <2>2 DEF SendTo, Posix!send_to, Posix!Sets, Posix!no_effect,
       Posix!system
  <2> QED
    BY <1>1, <2>3, OtherBuffer
<1>5. ASSUME NEW p \in Objects, p # o, Receive(p) \/ ReceiveFrom(p) PROVE Kept
  <2>1. PICK x : x = Posix!Behind(m_value[p])
    OBVIOUS
  <2>2. PICK m : m = sk[x].shut \ {"reset"}
    OBVIOUS
  <2>3. x # s
    BY <1>2, <1>5, <2>1
  <2>4. \/ UNCHANGED sk
        \/ sk' = [sk EXCEPT ![x].inbox = Tail(@)]
        \/ sk' = [sk EXCEPT ![x].shut = m]
    BY <1>5, <2>1, <2>2 DEF Receive, Posix!receive, ReceiveFrom, Posix!receive_from,
       Posix!ReceiveFromEnds, Posix!Sets, Posix!no_effect, Posix!system
  <2> QED
    BY <1>1, <2>3, <2>4, OtherBuffer
<1>6. ASSUME NEW p \in Servers \cup Streams, Send(p) \/ Receive(p) PROVE Kept
  <2>1. p \in Objects /\ p # o
    BY DEF Objects
  <2> QED
    BY <1>3, <1>5, <1>6, <2>1
<1>7. ASSUME NEW p \in Datagrams,
             ReceiveFrom(p) \/ \E path \in Paths : SendTo(p, path)
      PROVE  Kept \/ ReceiveFrom(o)
  <2>1. p \in Objects
    BY DEF Objects
  <2> QED
    BY <1>4, <1>5, <1>7, <2>1
<1>8. ASSUME NEW p \in Objects,
             \/ Construct(p) \/ Destroy(p) \/ BadArgument(p)
             \/ \E modes \in Modes : Shutdown(p, modes)
             \/ \E other : MoveConstruct(p, other)
             \/ BindBinds(p) \/ \E path \in BindPaths : BindUnlinks(p, path)
             \/ p \in Servers /\ (Accept(p) \/ HandlerEnds(p))
             \/ p \in Servers /\ \E size \in QueueSizes : Listen(p, size)
             \/ \E path \in Paths : Connect(p, path)
      PROVE  Kept
  BY <1>1, <1>8, BuffersKept
<1> HIDE DEF Kept
<1>9. Kept \/ ReceiveFrom(o)
  BY <1>6, <1>7, <1>8 DEF Next, Moves, Objects
<1> QED
  BY <1>9 DEF Kept

\* The address receive_from() fills in compares equal to the one its sender
\* was bound to, for names of every length and whatever the address held
\* before.
THEOREM SenderIsKnown == Spec => SenderKnown
<1> DEFINE Known ==
      \A o \in Datagrams :
        LET s == Posix!Behind(m_value[o]) IN
        s # 0 /\ sk[s].inbox # <<>> /\ UNCHANGED m_value
          /\ sk'[s].inbox = Tail(sk[s].inbox) /\ Head(sk[s].inbox) # <<>> =>
            Address!EqualAddresses(remote'[o],
              Address!construct(Head(sk[s].inbox)))
<1>1. IpcInv /\ [Next]_vars => [Known]_vars
  <2> SUFFICES ASSUME IpcInv, Next, UNCHANGED m_value, NEW o \in Datagrams,
                      NEW s, s = Posix!Behind(m_value[o]),
                      s # 0, sk[s].inbox # <<>>,
                      sk'[s].inbox = Tail(sk[s].inbox), Head(sk[s].inbox) # <<>>
               PROVE  Address!EqualAddresses(remote'[o],
                        Address!construct(Head(sk[s].inbox)))
    OBVIOUS
  <2>1. PICK box : box = sk[s].inbox
    OBVIOUS
  <2>2. box \in Seq(Names \cup {<<>>}) /\ box # <<>>
    BY <2>1, BehindTyped, SockFields
  <2>3. /\ Tail(box) # box /\ \A m : Tail(box) # Append(box, m)
        /\ Head(box) \in Names \cup {<<>>}
    <3>1. Len(box) \in Nat /\ Len(Tail(box)) = Len(box) - 1
            /\ Head(box) \in Names \cup {<<>>}
      BY <2>2
    <3>2. \A m : Len(Append(box, m)) = Len(box) + 1
      BY <2>2
    <3> QED
      BY <3>1, <3>2
  <2>4. sk'[s].inbox # sk[s].inbox /\ \A m : sk'[s].inbox # Append(sk[s].inbox, m)
    BY <2>1, <2>3
  <2>5. ReceiveFrom(o)
    BY <2>4, TakenByOwner
  <2>6. PICK sender \in Names \cup {<<>>} :
             /\ Posix!receive_from(m_value[o], sender)
             /\ remote' = [remote EXCEPT ![o] =
                             IF sender = <<>> THEN @
                             ELSE Address!Filled(@, sender)]
    BY <2>4, <2>5 DEF ReceiveFrom, Posix!ReceiveFromEnds, Posix!no_effect,
       Posix!system
  <2>7. sender = Head(sk[s].inbox)
    BY <2>6 DEF Posix!receive_from
  <2>8. SystemName(remote'[o]) = sender
    BY <2>6, <2>7, ReceivedFrom
  <2>9. Address!to_string_view(Address!construct(sender)) = sender
    BY <2>7, NamesAreNames, NameSurvives
  <2> QED
    BY <2>7, <2>8, <2>9 DEF Address!EqualAddresses, Address!equal, SystemName
<1>2. [][Known]_vars => SenderKnown
  BY DEF SenderKnown
<1> QED
  BY <1>1, <1>2, IpcInvariant, PTL DEF Spec
=============================================================================
