----------------------------- MODULE MCFtMember -----------------------------
(* Instances of FtMember for TLC: two or three members, two of them on one  *)
(* host.                                                                   *)
EXTENDS FtMember

CONSTANTS A, B, C

MCTwo == {A, B}
MCThree == {A, B, C}

MCIP == [m \in Members |-> IF m = A THEN 2 ELSE 1]
MCPid == [m \in Members |-> IF m = B THEN 2 ELSE 1]

MCUnequal == [m \in Members |-> IF m = C THEN 2 ELSE 1]
MCNoWeights == {}

(* Equal weights at first; setWeight may raise or lower them. *)
MCEqual == [m \in Members |-> 1]
MCWeights == {1, 2}
MCOneWeight == {1}
=============================================================================
