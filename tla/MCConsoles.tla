----------------------------- MODULE MCConsoles -----------------------------
(* Symmetry set of the safety run of Consoles. *)
EXTENDS Consoles, TLC

SafetySymmetry ==
    Permutations(Conn) \cup Permutations(Session) \cup Permutations(Token)
=============================================================================
