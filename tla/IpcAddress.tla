----------------------------- MODULE IpcAddress -----------------------------
(***************************************************************************)
(* The addresses of local sockets: posix/ipc_address.hpp, and the classes  *)
(* over it, com/basic_address.hpp and com/ipc/basic_ipc_address.hpp, which *)
(* pass everything on.  An address is the array sun_path, whose length is  *)
(* Size; what it names ends at the first null character.                   *)
(***************************************************************************)
EXTENDS Naturals, Sequences

CONSTANTS
  Size,  \* sizeof(sockaddr_un::sun_path)
  Nul    \* '\0'

max_length == Size - 1

\* not_greater(socket_path.size(), max_length()) of the constructor.
Fits(path) == Len(path) <= max_length

\* The array is zeroed before the path is copied: the name always ends.
construct(path) ==
  [i \in 1..Size |-> IF i <= Len(path) THEN path[i] ELSE Nul]

\* The default constructor.
Empty == construct(<<>>)

to_string_view(address) ==
  LET ends == {i \in 1..Size : address[i] = Nul}
      first == CHOOSE i \in ends : \A j \in ends : i <= j
  IN  SubSeq(address, 1, first - 1)

length(address) == Len(to_string_view(address))

\* A mutant: all of the array is compared.
equalBytes(lh, rh) == lh = rh

equal(lh, rh) == to_string_view(lh) = to_string_view(rh)

\* operator== of the classes.
EqualAddresses(lh, rh) == equal(lh, rh)

\* recvfrom writes the sender's name and the null character after it; the
\* rest of the array keeps what it held.
Filled(address, name) ==
  [i \in 1..Size |-> IF i <= Len(name) THEN name[i]
                     ELSE IF i = Len(name) + 1 THEN Nul
                     ELSE address[i]]
=============================================================================
