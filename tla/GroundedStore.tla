--------------------------- MODULE GroundedStore ---------------------------
(***************************************************************************)
(* The grounding engine over the repository: what its verdicts, gaps and   *)
(* traces mean for every graph the store can hold, however it was built.   *)
(***************************************************************************)
EXTENDS GraphStore, Grounding

CONSTANTS
  Queries,   \* sequences of concept names
  Floors     \* min_depth overrides, None for no override

ASSUME FloorsAssumption == Floors \subseteq Level \cup {None}

ASSUME FiniteIdsAssumption == IsFiniteSet(Ids)

ASSUME QueriesAssumption == Queries \subseteq Seq(Names)

-----------------------------------------------------------------------------
(* What a verdict promises, told from the stored graph alone *)

\* i has an unbroken chain of grounded levels up to l in the stored graph.
GroundedTo(i, l) == \A k \in 0..l : Grounds(graph[i], k)

\* The relata between the concepts and all they transitively require.
Pathways(q) == {e \in Edges(graph) : /\ e.source \in Collected(graph, q)
                                     /\ e.relatum.target \in Collected(graph, q)}

\* The roots hang together: no set of collected primitives holds one root,
\* leaves another out and has no relatum across its border.
Connected(q) ==
  \A S \in SUBSET Collected(graph, q) :
    (S \cap Roots(graph, q) # {} /\ Roots(graph, q) \ S # {})
      => \E e \in Pathways(q) : (e.source \in S) # (e.relatum.target \in S)

Justified(q, m) ==
  /\ q # << >>
  /\ \A n \in Concepts(q) : HoldersOf(graph, n) # {}
  /\ \A i \in Roots(graph, q) : GroundedTo(i, m)
  /\ \A e \in Pathways(q) : /\ GroundedTo(e.source, e.relatum.source_depth)
                            /\ GroundedTo(e.relatum.target, e.relatum.target_depth)
  /\ Connected(q)

-----------------------------------------------------------------------------
(***************************************************************************)
(* A bare level: a record without properties, kept grounding only by       *)
(* relata that a subgraph may leave out, those not followed transitively.  *)
(* On such a level resolve_subgraph and find_by_id can disagree.           *)
(***************************************************************************)
BareLevel(p, l) ==
  /\ l # 0 /\ p.depths[l] = "empty"
  /\ \A r \in p.relata : r.source_depth = l => r.rel_type \notin TransitiveTypes

NoBareLevel == \A i \in DOMAIN graph, l \in Level : Grounds(graph[i], l) => ~BareLevel(graph[i], l)

(* Properties *)

\* Soundness, the promise of ground(): a verdict "grounded" means that every
\* concept exists, that every relatum in the whole transitive closure, not
\* only on the frontier the engine walked, has both its ends grounded deeply
\* enough in the stored graph, and that the concepts are connected.
VerdictSound == \A q \in Queries, m \in Floors : Grounded(graph, q, m) => Justified(q, m)

\* Completeness: what is justified by the stored graph is not refused, as long
\* as no primitive has a bare level.
VerdictComplete ==
  NoBareLevel => \A q \in Queries, m \in Floors : Justified(q, m) => Grounded(graph, q, m)

\* A depth or relational gap names a primitive that really falls short, and
\* the levels it asks to author are levels that do not ground yet.  The store
\* is judged by Depth.grounds over the whole primitive: "Any deeper level must
\* carry properties or relata; an empty one is treated as absent."
GapsAreRealOnEveryGraph ==
  \A q \in Queries, m \in Floors : \A p \in Gaps(graph, q, m) :
    p.kind \in {"DEPTH", "RELATIONAL"} =>
      /\ ~GroundedTo(p.id, p.required)
      /\ p.missing # {}
      /\ p.missing \cap GroundingLevels(graph[p.id]) = {}

\* The same, on the graphs without a bare level.
GapsAreReal == NoBareLevel => GapsAreRealOnEveryGraph

\* The verdict and the gaps of existence and depth do not depend on the order
\* in which the concepts were submitted; only the root that a reachability gap
\* names does.
OrderInsensitive ==
  \A q, w \in Queries, m \in Floors :
    Concepts(q) = Concepts(w) =>
      LET unordered(v) == {p \in Gaps(graph, v, m) : p.kind # "REACHABILITY"}
      IN  unordered(q) = unordered(w) /\ (Grounded(graph, q, m) <=> Grounded(graph, w, m))

\* A concept that is not grounded alone is not grounded in company, and a
\* lower floor never refuses what a higher one accepts.  (On a bare level it
\* can be: the company brings the relatum back into the subgraph.)
NoLaundering ==
  NoBareLevel => \A q \in Queries, m \in Floors : Grounded(graph, q, m) =>
    \A n \in {f \in Floors : f <= m}, c \in Concepts(q) : Grounded(graph, <<c>>, n)

\* The trace the policy gate and the recorder read agrees with the pathway the
\* gaps were computed from: its relata are the pathway's edges, none points
\* outside it, and the levels it shows are an unbroken chain from D0.
TraceMatchesPathway ==
  \A q \in Queries :
    LET t == Trace(graph, q)
    IN  /\ Edges(t) = FrontierVisible(Subgraph(graph, q), Roots(graph, q))
        /\ \A i \in DOMAIN t, l \in Level :
             t[i].depths[l] # "absent" => \A k \in 0..l : t[i].depths[k] # "absent"

=============================================================================
