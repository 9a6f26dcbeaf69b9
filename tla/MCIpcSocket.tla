---------------------------- MODULE MCIpcSocket ----------------------------
EXTENDS IpcSocket, TLC

\* The default, shutdown_mode::both.
MCModes == {{"send", "receive"}}

\* A short name, the longest one, and a path that is too long.
MCPaths == {<<"a">>, <<"b", "b", "b">>, <<"b", "b", "b", "b">>}

\* The one name of the smaller instance.
MCPath == {<<"a">>}

\* The names that sockets are bound to.
MCBindPaths == {<<"a">>, <<"b", "b", "b">>}

\* Descriptors and objects of a class are interchangeable.
Symmetry ==
  Permutations(Fds) \cup Permutations(Servers)
    \cup Permutations(Streams) \cup Permutations(Datagrams)
===========================================================================
