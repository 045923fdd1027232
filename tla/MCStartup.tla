------------------------------ MODULE MCStartup ------------------------------
(* Processes of two builds, two keys, and new identities for several tries. *)
EXTENDS Startup

CONSTANTS p1, p2, k1, k2, u1, u2, u3

MCBuild == [p \in {p1, p2} |-> IF p = p1 THEN 1 ELSE 2]
=============================================================================
