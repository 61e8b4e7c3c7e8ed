---------------------------- MODULE MCEnrolment ----------------------------
(* Symmetry set of the run of Enrolment. *)
EXTENDS Enrolment, TLC

Symmetry ==
    UNION {Permutations(S) : S \in {Key, Row, Token, Serial, Request}}
=============================================================================
