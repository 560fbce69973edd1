----------------------------- MODULE MCMapping ------------------------------
(* Instances of Mapping for TLC. *)
EXTENDS Mapping, TLC

CONSTANTS k1, k2, k3, k4, k5, k6, v1, v2, v3

\* Hash values chosen so that probe paths collide and wrap below slot 0.
MCHash == (k1 :> 0) @@ (k2 :> 0) @@ (k3 :> 1) @@ (k4 :> 8) @@ (k5 :> 15) @@ (k6 :> 16)

MCHash6 == [k \in {k1, k2, k3, k4, k5, k6} |-> MCHash[k]]
MCHash4 == [k \in {k1, k2, k3, k4} |-> MCHash[k]]

MCNoFields == <<>>
MCNoTypes == <<>>
MCRecordFields == <<k2, k1, k3>>
MCRecordTypes == <<{v1, v2}, {v1, v2, v3}, {v2, v3}>>
=============================================================================
