------------------------------ MODULE MCServer ------------------------------
(***************************************************************************)
(* Model checking of Server: two settings, and three contents of the file, *)
(* one of which mentions only the first setting.                           *)
(***************************************************************************)
EXTENDS Server

CONSTANTS k1, k2, v1, v2

MCSettings == {k1, k2}
MCValues == {v1, v2}
MCContents == { [k \in MCSettings |-> v1],
                [k \in MCSettings |-> v2],
                [k \in MCSettings |-> IF k = k1 THEN v2 ELSE NoValue] }
=============================================================================
