-------------------------- MODULE MCGroundedStore --------------------------
(* Three concepts, each with a few shapes: shallow, deep, with a hole under *)
(* a deeper level, and bare, with relata at D1 but no properties.           *)
EXTENDS GroundedStore

CONSTANTS a, b, c, x, y, z

MCIds == {a, b, c}
MCNames == {x, y, z}

NameOf(i) == CASE i = a -> x [] i = b -> y [] i = c -> z

\* The levels of S with content, those of E without.
Shape(S, E) == [l \in Level |-> CASE l \in S -> "authored" [] l \in E -> "empty"
                                  [] OTHER -> "absent"]

Edge(t, sd, i, td) == [rel_type |-> t, source_depth |-> sd, target |-> i, target_depth |-> td]

Draft(i, d, E) == [id |-> i, name |-> NameOf(i), depths |-> d, relata |-> E]

D1   == Shape({0, 1}, {})
D2   == Shape({0, 1, 2}, {})
Hole == Shape({0, 2}, {})
Void == Shape({0}, {1})

\* Relata of a, at D2 (visible over D2, gated over Hole) and at D0, with one
\* or two demands on b and on c.
RelataOfA == {{}, {Edge("REQUIRES", 2, b, 1)}, {Edge("INCLUDES", 0, b, 2)},
              {Edge("REQUIRES", 2, b, 1), Edge("APPLIES_TO", 0, c, 1)},
              {Edge("DEPENDS_ON", 0, b, 1), Edge("REQUIRES", 0, b, 2)}}

MCDrafts ==
  {Draft(i, d, {}) : i \in {b, c}, d \in {Void, D1, D2}}
  \cup {Draft(a, d, E) : d \in {D2, Hole}, E \in RelataOfA}
  \cup {Draft(b, D1, {Edge("DEPENDS_ON", 1, c, td)}) : td \in {0, 2}}
  \cup {Draft(c, D2, {Edge("CONSTRAINED_BY", 2, a, 1)}),
        Draft(a, Void, {Edge("INCLUDES", 1, b, 0)}),
        Draft(a, Void, {Edge("INCLUDES", 1, b, 0), Edge("REQUIRES", 1, c, 1)})}

MCQueries == {<< >>, <<x>>, <<y>>, <<z>>, <<x, y>>, <<y, x>>, <<x, z>>, <<z, x>>,
              <<x, y, z>>, <<z, y, x>>}
MCFloors == {None, 1}

=============================================================================
