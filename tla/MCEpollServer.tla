--------------------------- MODULE MCEpollServer ---------------------------
(* Instances of EpollServer for TLC.                                       *)
EXTENDS EpollServer, TLC

NoClients  == {}
AllClients == Clients

Symmetry == Permutations(Clients) \cup Permutations(Workers)
=============================================================================
