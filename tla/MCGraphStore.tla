---------------------------- MODULE MCGraphStore ----------------------------
(* Three ids and three names.  A draft is one of the ids under one of two   *)
(* names, with D0 and D1 and up to two relata at D1; or a with D0 alone.    *)
EXTENDS GraphStore

CONSTANTS a, b, c, x, y, z

MCIds == {a, b, c}
MCNames == {x, y, z}

Shape == [l \in Level |-> IF l \in {0, 1} THEN "authored" ELSE "absent"]

D0 == [l \in Level |-> IF l = 0 THEN "authored" ELSE "absent"]

Edge(t, i) == [rel_type |-> t, source_depth |-> 1, target |-> i, target_depth |-> 1]

Ra == Edge("REQUIRES", a)
Db == Edge("DEPENDS_ON", b)
Cc == Edge("CONSTRAINED_BY", c)
Ia == Edge("INCLUDES", a)

Ib == Edge("APPLIES_TO", b)

RelataSets == {{}, {Ra}, {Db}, {Cc}, {Ia}, {Ra, Db}, {Db, Cc}, {Ra, Cc}, {Ia, Cc}, {Ib, Ra}}

NamesOf(i) == CASE i = a -> {x, y} [] i = b -> {y} [] i = c -> {z, y}

MCDrafts == UNION {
  {[id |-> i, name |-> n, depths |-> Shape, relata |-> E] :
     n \in NamesOf(i), E \in RelataSets} : i \in MCIds}
  \cup {[id |-> a, name |-> x, depths |-> D0, relata |-> {}]}
=============================================================================
