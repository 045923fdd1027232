------------------------------- MODULE MCGuard -------------------------------
(* A tool on x, which requires y; the APPLIES_TO edges, one on each of two *)
(* levels, come and go, and the deeper one is also hidden by a hole.       *)
EXTENDS Guard, TLC

CONSTANTS a, b, x, y, v1, v2, c1

MCIds == {a, b}
MCNames == {x, y}

Shape(S) == [l \in Level |-> IF l \in S THEN "authored" ELSE "absent"]

Edge(t, sd, i, td) == [rel_type |-> t, source_depth |-> sd, target |-> i, target_depth |-> td]

Draft(i, n, S, E) == [id |-> i, name |-> n, depths |-> Shape(S), relata |-> E]

MCDrafts ==
  {Draft(b, y, {0}, {}),
   Draft(a, x, {0, 1, 2}, {Edge("APPLIES_TO", 1, b, 0), Edge("APPLIES_TO", 2, b, 0), Edge("REQUIRES", 0, b, 0)}),
   Draft(a, x, {0, 2}, {Edge("APPLIES_TO", 2, b, 0), Edge("REQUIRES", 0, b, 0)})}

Policy(k, d, confirm, card) ==
  [key |-> k, source |-> x, target |-> y, depth |-> d, confirm |-> confirm, cardinality |-> card]

MCPlacements == {Policy("hard", 1, FALSE, "single"), Policy("ask", 2, TRUE, "any")}

MCQueries == {<<x>>}
MCCards == {"single", "multiple"}
NoFloor == {None}

VreSymmetry == Permutations(Vres)

\* Without the result of the last store call, which no step of the guard reads
\* and no property of it mentions.
GuardView == <<graph, gvars>>

=============================================================================
