------------------------- MODULE MCSessionManager -------------------------
(* Instances of SessionManager for TLC: one profile, owned by u1.            *)
EXTENDS SessionManager, TLC

CONSTANTS u1, u2, c1

MCConfigOwner == [c \in Configs |-> u1]
MCSymmetry == Permutations(Backends) \cup Permutations(Paths) \cup Permutations(Callers)
=============================================================================
