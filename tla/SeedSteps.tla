------------------------------ MODULE SeedSteps ------------------------------
(***************************************************************************)
(* What a seed script is made of.  A script is a sequence of steps, each   *)
(* one call of the repository.  Relata name their target: in the script it *)
(* is a local variable, bound by an earlier step.                          *)
(***************************************************************************)
EXTENDS Integers

\* A relatum at level l.
At(l, type, target, depth) ==
  [source_depth |-> l, rel_type |-> type, target |-> target, target_depth |-> depth]

AllAt(l, type, targets, depth) == {At(l, type, t, depth) : t \in targets}

\* A new Primitive: D0 carries nothing, the levels of S have properties, a
\* level of relata alone has none.
Seed(op, name, S, relata) ==
  [op |-> op, new |-> TRUE, name |-> name, relata |-> relata,
   depths |-> [l \in 0..4 |-> IF l \in S THEN "authored"
                              ELSE IF l = 0 \/ \E r \in relata : r.source_depth = l THEN "empty"
                              ELSE "absent"]]

\* The object built before, with more relata, saved again.
Rewire(op, name, relata) == [op |-> op, new |-> FALSE, name |-> name, relata |-> relata]

Clear == [op |-> "clear"]

=============================================================================
