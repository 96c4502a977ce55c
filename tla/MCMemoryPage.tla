---------------------------- MODULE MCMemoryPage ----------------------------
(***************************************************************************)
(* MemoryPage for TLC: charts shorter than the map they are taken from.    *)
(* Handlers, addresses and user agents are interchangeable: no action and  *)
(* no safety property names one of them.                                   *)
(***************************************************************************)
EXTENDS MemoryPage, TLC

Symmetry ==
  Permutations(Handlers) \cup Permutations(IPs) \cup Permutations(UserAgents)

=============================================================================
