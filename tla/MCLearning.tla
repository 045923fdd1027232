----------------------------- MODULE MCLearning -----------------------------
(* Three concepts and one id for a learned one.                             *)
EXTENDS Learning

CONSTANTS a, b, c, u, v, x, y, z, l1

MCIds == {a, b, c}
MCNames == {x, y, z}
MCNewIds == {c}
MoreIds == {a, b, c, u, v}
MoreNewIds == {c, u, v}

NameOf(i) == CASE i = a -> x [] i = b -> y [] i = c -> z

\* The levels of S with content, those of E without.
Shape(S, E) == [l \in Level |-> CASE l \in S -> "authored" [] l \in E -> "empty"
                                  [] OTHER -> "absent"]

Edge(t, sd, i, td) == [rel_type |-> t, source_depth |-> sd, target |-> i, target_depth |-> td]

Draft(i, d, E) == [id |-> i, name |-> NameOf(i), depths |-> d, relata |-> E]

GraphOf(P) == [i \in {p.id : p \in P} |-> CHOOSE p \in P : p.id = i]

D1   == Shape({0, 1}, {})
D2   == Shape({0, 1, 2}, {})
Hole == Shape({0, 2}, {1})
Void == Shape({0}, {1})

Needy   == Draft(a, Hole, {Edge("REQUIRES", 2, b, 2), Edge("INCLUDES", 0, b, 0)})
Shallow == Draft(b, Void, {})
Bare    == Draft(a, Void, {Edge("INCLUDES", 1, b, 0)})

MCInitial == {<< >>, GraphOf({Shallow}), GraphOf({Needy, Shallow}), GraphOf({Draft(a, D1, {}), Shallow})}
LoopInitial == MCInitial \ {<< >>}
BareInitial == {GraphOf({Bare, Shallow})}

MCDrafts == {Draft(a, D1, {}), Draft(b, D2, {}), Draft(c, D1, {Edge("DEPENDS_ON", 1, a, 1)})}
LoopDrafts == {Draft(a, D1, {}), Draft(b, Hole, {Edge("DEPENDS_ON", 2, a, 1)})}

Propose(s, t, r, sd, td) ==
  [source |-> s, target |-> t, rel_type |-> r, source_depth |-> sd, target_depth |-> td]

MCProposals == {Propose(s, t, "INCLUDES", 1, 0) : s, t \in MCNames}
               \cup {Propose(x, y, "REQUIRES", 1, 1), Propose(y, x, "REQUIRES", 1, 1)}

JoinProposals == {Propose(s, t, "INCLUDES", 0, 1) : s, t \in MCNames}

MCQueries == {<<x, y>>, <<y, z>>}
SingleQuery == {<<x>>}
AllThree == {<<z, y, x>>}
FloorD1 == {1}
=============================================================================
