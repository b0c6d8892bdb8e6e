--------------------------- MODULE MCAppFramework ---------------------------
(***************************************************************************)
(* Two instances, one of them with both clients.                            *)
(***************************************************************************)
EXTENDS AppFramework, TLC

MCClientOf == [c \in Client |-> "i1"]
MCObjects == Permutations(Service) \cup Permutations(Client)
=============================================================================
