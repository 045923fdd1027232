------------------------------ MODULE Grounding ------------------------------
(***************************************************************************)
(* Repository.resolve_subgraph and GroundingEngine: from a graph g, the    *)
(* queried concepts q (a sequence of fold keys, in the caller's order) and *)
(* the depth floor m (None when the integrator gives none) to the gaps and *)
(* the verdict.                                                            *)
(*                                                                         *)
(* s is always a resolved subgraph: a graph over the collected nodes only. *)
(* An edge is its source with the relatum, as EpistemicStep is built.      *)
(***************************************************************************)
EXTENDS DepthGraph, Sequences, FiniteSets

Concepts(q) == {q[k] : k \in DOMAIN q}

\* Fault: only the first concept is a root.
RootsOfFirst(g, q) == IF q = << >> THEN {} ELSE HoldersOf(g, q[1])

Roots(g, q) == {i \in DOMAIN g : g[i].name \in Concepts(q)}

\* Everything reached from the roots over transitive relata.
Collected(g, q) == ReachFrom(Roots(g, q), TransitiveSucc(g))

\* resolve_subgraph: the collected rows, hydrated with the relata that stay
\* between collected nodes.  A relatum that leaves the set is not fetched, so
\* the depth record it hangs on is rebuilt without it.
Subgraph(g, q) ==
  LET C == Collected(g, q)
  IN  [i \in C |-> [g[i] EXCEPT !.relata = {r \in g[i].relata : r.target \in C}]]

Known(s, i) == ContiguousMaxDepth(s[i])

Edges(s) == UNION {{[source |-> i, relatum |-> r] : r \in s[i].relata} : i \in DOMAIN s}

\* Faults: every edge is visible; and an edge at the very depth is not.
VisibleEverywhere(s) == Edges(s)
VisibleBelow(s) == {e \in Edges(s) : Known(s, e.source) > e.relatum.source_depth}

\* _partition_edges_by_source_depth: the source is grounded deeply enough to
\* see the edge, or the edge is gated.
VisibleEdges(s) == {e \in Edges(s) : Known(s, e.source) >= e.relatum.source_depth}
GatedEdges(s)   == Edges(s) \ VisibleEdges(s)

\* The targets of each node over the edges of E.
SuccOver(s, E) == [i \in DOMAIN s |-> {e.relatum.target : e \in {v \in E : v.source = i}}]

\* _reachable_via_visible: the justified frontier of the roots R.
Frontier(s, R) == ReachFrom(R, SuccOver(s, VisibleEdges(s)))

\* The edges the gaps and the pathway are built from.
LeavingOf(E, F) == {e \in E : e.source \in F}
FrontierVisible(s, R) == LeavingOf(VisibleEdges(s), Frontier(s, R))
FrontierGated(s, R)   == LeavingOf(GatedEdges(s), Frontier(s, R))

Highest(S) == CHOOSE l \in S : \A k \in S : k <= l

-----------------------------------------------------------------------------
(* The four kinds of gap, of the subgraph s with the roots R, the frontier's *)
(* visible edges V and its gated edges H                                     *)

\* Fault: a missing concept counts only when no concept is found.
ExistenceGapsOfNone(g, q) ==
  {[kind |-> "EXISTENCE", name |-> n] : n \in {c \in Concepts(q) : Roots(g, q) = {}}}

ExistenceGaps(g, q) ==
  {[kind |-> "EXISTENCE", name |-> n] : n \in {c \in Concepts(q) : HoldersOf(g, c) = {}}}

\* What is asked of node i: the source depth of each gated edge that leaves
\* it and, on a root, the floor.
DepthDemands(s, R, H, m, i) ==
  {e.relatum.source_depth : e \in LeavingOf(H, {i})}
    \cup {l \in {m} : i \in R /\ Known(s, i) < m}

\* One gap per node, for the deepest demand.
DepthGap(s, i, required) ==
  [kind |-> "DEPTH", id |-> i, required |-> required, current |-> Known(s, i),
   missing |-> MissingDepthLevels(GroundingLevels(s[i]), Known(s, i), required)]

DepthGaps(s, R, H, m) ==
  {DepthGap(s, i, Highest(DepthDemands(s, R, H, m, i))) :
     i \in {j \in DOMAIN s : DepthDemands(s, R, H, m, j) # {}}}

\* What the visible edges from i to t ask of t and t does not have.
RelationalDemands(s, V, i, t) ==
  {e.relatum.target_depth :
     e \in {f \in LeavingOf(V, {i}) : /\ f.relatum.target = t
                                      /\ Known(s, t) < f.relatum.target_depth}}

RelationalGap(s, i, t, required) ==
  [kind |-> "RELATIONAL", source |-> i, id |-> t, required |-> required,
   current |-> Known(s, t),
   missing |-> MissingDepthLevels(GroundingLevels(s[t]), Known(s, t), required)]

RelationalGaps(s, V) ==
  {RelationalGap(s, p[1], p[2], Highest(RelationalDemands(s, V, p[1], p[2]))) :
     p \in {w \in (DOMAIN s) \X (DOMAIN s) : RelationalDemands(s, V, w[1], w[2]) # {}}}

\* _reachable_undirected over the edges of V.
Component(s, V, i) ==
  LET nbrs == [j \in DOMAIN s |-> {e.relatum.target : e \in LeavingOf(V, {j})}
                                   \cup {e.source : e \in {f \in V : f.relatum.target = j}}]
  IN  ReachFrom({i}, nbrs)

\* The position of a root in the query: its first occurrence.
Position(s, q, i) == CHOOSE k \in DOMAIN q : /\ q[k] = s[i].name
                                            /\ \A j \in 1..(k - 1) : q[j] # s[i].name

\* The first of the roots with the largest component.
Anchor(s, R, V, q) ==
  LET size == [i \in R |-> Cardinality(Component(s, V, i))]
  IN  CHOOSE i \in R : \A j \in R \ {i} :
        \/ size[i] > size[j]
        \/ size[i] = size[j] /\ Position(s, q, i) < Position(s, q, j)

ReachabilityGaps(s, R, V, q) ==
  IF Cardinality(R) > 1
  THEN {[kind |-> "REACHABILITY", id |-> i, name |-> s[i].name] : i \in R \ Component(s, V, Anchor(s, R, V, q))}
  ELSE {}

-----------------------------------------------------------------------------
(* query and ground *)

Gaps(g, q, m) ==
  LET s == Subgraph(g, q)
      R == Roots(g, q)
      F == Frontier(s, R)
      V == LeavingOf(VisibleEdges(s), F)
      H == LeavingOf(GatedEdges(s), F)
  IN  ExistenceGaps(g, q) \cup DepthGaps(s, R, H, m)
        \cup RelationalGaps(s, V) \cup ReachabilityGaps(s, R, V, q)

\* An empty query is never grounded, and has no gaps.
Grounded(g, q, m) == q # << >> /\ Gaps(g, q, m) = {}

\* Fault: the primitives of the trace keep the relata above their depth.
TraceUncut(g, q) ==
  LET s == Subgraph(g, q)
      F == Frontier(s, Roots(g, q))
  IN  [i \in F |-> [s[i] EXCEPT !.relata = {r \in @ : r.target \in F}]]

\* The primitives of the trace: the frontier, each cut down to its contiguous
\* depth and to the relata that stay inside (_filter_depths).
Trace(g, q) ==
  LET s == Subgraph(g, q)
      F == Frontier(s, Roots(g, q))
      kept(i) == {r \in s[i].relata : r.source_depth <= Known(s, i) /\ r.target \in F}
  IN  [i \in F |->
         [id |-> s[i].id, name |-> s[i].name, relata |-> kept(i),
          depths |-> [l \in Level |-> IF l <= Known(s, i) THEN s[i].depths[l] ELSE "absent"]]]

=============================================================================
