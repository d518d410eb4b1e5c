---------------------------- MODULE MCAdmission ----------------------------
(* Small instances of Admission.                                           *)
EXTENDS Admission, TLC

CONSTANTS c1, c2, c3, h1, h2

(* Two connections from one host, the third one from another.              *)
OneHost  == [c \in Conns |-> h1]
TwoHosts == [c \in Conns |-> IF c = c3 THEN h2 ELSE h1]

(* Connections of one host are interchangeable.                            *)
Symmetry == Permutations({c1, c2})
=============================================================================
