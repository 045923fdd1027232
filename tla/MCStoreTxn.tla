----------------------------- MODULE MCStoreTxn -----------------------------
(* Two connections that write, one of which reads as well.  The drafts close *)
(* a cycle in two steps, dangle, replace relata, and take a name that is in  *)
(* use.                                                                      *)
EXTENDS StoreTxn

CONSTANTS a, b, x, y, c1, c2

MCIds == {a, b}
MCNames == {x, y}

Shape(S) == [l \in Level |-> IF l \in S THEN "authored" ELSE "absent"]

Edge(t, i) == [rel_type |-> t, source_depth |-> 1, target |-> i, target_depth |-> 1]

Draft(i, n, d, E) == [id |-> i, name |-> n, depths |-> d, relata |-> E]

D0 == Shape({0})
D1 == Shape({0, 1})

MCDrafts ==
  {Draft(a, x, D1, {Edge("REQUIRES", b), Edge("INCLUDES", a)}),
   Draft(b, y, D1, {}), Draft(b, y, D1, {Edge("DEPENDS_ON", a)}),
   Draft(b, x, D0, {})}

MCQueries == {<<x>>}
=============================================================================
