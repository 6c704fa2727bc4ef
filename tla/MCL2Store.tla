----------------------------- MODULE MCL2Store -----------------------------
(* Instances of L2Store for TLC: records of one or two body bytes. *)
EXTENDS L2Refinement, TLC

CONSTANTS k1, k2, v1, v2

MCAnswers == [k \in Keys |-> IF k = k1 THEN {v1} ELSE {v2}]
MCBodyLen == [k \in Keys |-> [v \in Vals |-> IF v = v1 THEN 1 ELSE 2]]
=============================================================================
