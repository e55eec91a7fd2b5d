--------------------------- MODULE MCConsolePanel ---------------------------
(* Bounds for TLC: the sets come from the cfg and are interchangeable.     *)
EXTENDS ConsolePanel, TLC

Symmetry == Permutations(Sockets) \cup Permutations(Subscriptions)
              \cup Permutations(Streams) \cup Permutations(Clients)
=============================================================================
