---------------------------- MODULE MCGameManager ----------------------------
(* Instances of GameManager for TLC: clients and games are interchangeable. *)
EXTENDS GameManager, TLC

Symmetry == Permutations(Clients) \cup Permutations(Games)
SymmetryOfIds == Symmetry \cup Permutations(GameIds)
=============================================================================
