------------------------------ MODULE MCCheck ------------------------------
(* Two threads that check a concept whose one relatum asks for more depth  *)
(* than its target may have.                                               *)
EXTENDS Check, TLC

CONSTANTS a, b, x, y, t1, t2

MCIds == {a, b}
MCNames == {x, y}

Shape(S) == [l \in Level |-> IF l \in S THEN "authored" ELSE "absent"]

Draft(i, n, S, E) == [id |-> i, name |-> n, depths |-> Shape(S), relata |-> E]

ToB == [rel_type |-> "REQUIRES", source_depth |-> 1, target |-> b, target_depth |-> 1]

MCDrafts == {Draft(a, x, {0, 1}, {ToB}), Draft(b, y, {0}, {})}

MCQueries == {<<x>>}
MCFloors == {None}

ThreadSymmetry == Permutations(Threads)
=============================================================================
