----------------------------- MODULE MCGameRelay -----------------------------
(* Instances of GameRelay for TLC: clients, games and ids are interchangeable. *)
EXTENDS GameRelay, TLC

Symmetry == Permutations(Clients) \cup Permutations(Games)
SymmetryOfIds == Symmetry \cup Permutations(GameIds)
=============================================================================
