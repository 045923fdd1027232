----------------------------- MODULE MCNeo4jTxn -----------------------------
(* Two clients; three primitives whose relata may close a cycle, and three *)
(* whose relata cross while their names change hands.                      *)
EXTENDS Neo4jTxn

CONSTANTS a, b, c, x, y, z, k1, k2

MCIds == {a, b, c}
MCNames == {x, y, z}

D1 == [l \in Level |-> IF l \in {0, 1} THEN "authored" ELSE "absent"]

Edge(i) == [rel_type |-> "REQUIRES", source_depth |-> 1, target |-> i, target_depth |-> 1]

Part(i) == [Edge(i) EXCEPT !.rel_type = "INCLUDES"]

Draft(i, n, E) == [id |-> i, name |-> n, depths |-> D1, relata |-> E]

Ring ==
  {Draft(a, x, {}), Draft(a, x, {Edge(b)}), Draft(a, x, {Edge(c)}),
   Draft(b, y, {}), Draft(b, y, {Edge(c)}), Draft(c, z, {Edge(a)})}

Crossing ==
  {Draft(a, x, {Edge(b), Part(a)}), Draft(b, y, {}), Draft(b, x, {Edge(c)}),
   Draft(b, y, {Edge(b)}), Draft(c, y, {}), Draft(c, z, {Part(a)})}

\* The crossing drafts are ordered, for all that they cross; the ring is not.
ASSUME CrossingIsOrdered == DraftsOrdered <=> Drafts = Crossing
=============================================================================
