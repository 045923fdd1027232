--------------------------- MODULE GroundingProofs ---------------------------
(***************************************************************************)
(* The verdict of the grounding engine is sound on every graph the store   *)
(* can reach, for every query and every floor.  The engine walks only the  *)
(* frontier it can see, over rows hydrated with part of their relata; the  *)
(* argument is that without a gap the frontier is the whole closure, and   *)
(* that hydration can only make a primitive look shallower than it is.     *)
(***************************************************************************)
EXTENDS GroundedStore, GraphStoreProofs, FiniteSetTheorems, SequenceTheorems,
        WellFoundedInduction

-----------------------------------------------------------------------------
(* Levels *)

\* Some levels, None among them or not, have a highest one.
LEMMA HighestExists ==
  ASSUME NEW S \in SUBSET (Level \cup {None}), S # {}
  PROVE  \E n \in S : \A k \in S : k <= n
<1>0. S \subseteq -1..4
  BY DEF Level, None
<1>1. CASE 4 \in S
  BY <1>0, <1>1
<1>2. CASE 4 \notin S /\ 3 \in S
  BY <1>0, <1>2
<1>3. CASE 4 \notin S /\ 3 \notin S /\ 2 \in S
  BY <1>0, <1>3
<1>4. CASE 4 \notin S /\ 3 \notin S /\ 2 \notin S /\ 1 \in S
  BY <1>0, <1>4
<1>5. CASE 4 \notin S /\ 3 \notin S /\ 2 \notin S /\ 1 \notin S /\ 0 \in S
  BY <1>0, <1>5
<1>6. CASE 4 \notin S /\ 3 \notin S /\ 2 \notin S /\ 1 \notin S /\ 0 \notin S
  <2>1. \A k \in S : k = -1
    BY <1>0, <1>6
  <2> QED
    BY <2>1
<1> QED
  BY <1>1, <1>2, <1>3, <1>4, <1>5, <1>6

\* The highest of some levels is one of them and bounds the others.
LEMMA HighestLevel ==
  ASSUME NEW S \in SUBSET (Level \cup {None}), S # {}
  PROVE  Highest(S) \in S /\ \A k \in S : k <= Highest(S)
BY HighestExists DEF Highest

\* The contiguous maximum of a set of levels is a level or None, all the
\* levels up to it are in the set, and no longer chain fits.
LEMMA ContiguousMaxIsHighest ==
  ASSUME NEW levels
  PROVE  /\ ContiguousMax(levels) \in Level \cup {None}
         /\ 0..ContiguousMax(levels) \subseteq levels
         /\ \A l \in Level \cup {None} : 0..l \subseteq levels => l <= ContiguousMax(levels)
<1> DEFINE chain == {l \in Level \cup {None} : 0..l \subseteq levels}
<1>1. chain \in SUBSET (Level \cup {None}) /\ chain # {}
  <2>1. None \in chain
    BY DEF None
  <2> QED
    BY <2>1
<1>2. ContiguousMax(levels) = CHOOSE n \in chain : \A l \in chain : l <= n
  BY DEF ContiguousMax
<1> HIDE DEF chain
<1>3. ContiguousMax(levels) \in chain /\ \A l \in chain : l <= ContiguousMax(levels)
  BY <1>1, <1>2, HighestExists
<1> QED
  BY <1>3 DEF chain

\* The first two of these facts.
LEMMA ContiguousMaxChain ==
  ASSUME NEW levels
  PROVE  /\ ContiguousMax(levels) \in Level \cup {None}
         /\ 0..ContiguousMax(levels) \subseteq levels
BY ContiguousMaxIsHighest

\* And the third.
LEMMA ContiguousMaxGreatest ==
  ASSUME NEW levels, NEW l \in Level \cup {None}, 0..l \subseteq levels
  PROVE  l <= ContiguousMax(levels)
BY ContiguousMaxIsHighest

-----------------------------------------------------------------------------
(* The resolved subgraph *)

\* The subgraph is over the collected primitives, which hold the roots; its
\* rows keep their depths and the relata between collected primitives.
LEMMA SubgraphRows ==
  ASSUME NEW g, IsGraph(g), NEW q
  PROVE  /\ DOMAIN Subgraph(g, q) = Collected(g, q)
         /\ Collected(g, q) \subseteq DOMAIN g
         /\ Roots(g, q) \subseteq Collected(g, q)
         /\ \A i \in Collected(g, q) :
              /\ Subgraph(g, q)[i].depths = g[i].depths
              /\ Subgraph(g, q)[i].relata = {r \in g[i].relata : r.target \in Collected(g, q)}
<1>1. DOMAIN TransitiveSucc(g) = DOMAIN g
  BY DEF TransitiveSucc
<1>2. /\ Collected(g, q) \subseteq DOMAIN g
      /\ Roots(g, q) \subseteq Collected(g, q)
  BY <1>1, ReachStart DEF Collected, Roots
<1>3. \A i \in Collected(g, q) :
        /\ Subgraph(g, q)[i].depths = g[i].depths
        /\ Subgraph(g, q)[i].relata = {r \in g[i].relata : r.target \in Collected(g, q)}
  BY <1>2 DEF Subgraph, IsGraph, Primitive
<1> QED
  BY <1>2, <1>3 DEF Subgraph

\* What the engine knows of a primitive is true of the stored one: it may
\* have lost relata in hydration, never gained any.
LEMMA KnownIsGrounded ==
  ASSUME IsGraph(graph), NEW q, NEW i \in Collected(graph, q),
         NEW l \in Level \cup {None}, l <= Known(Subgraph(graph, q), i)
  PROVE  GroundedTo(i, l)
<1> DEFINE s == Subgraph(graph, q)
<1>1. \A k \in Level : Grounds(s[i], k) => Grounds(graph[i], k)
  <2>1. s[i].depths = graph[i].depths /\ s[i].relata \subseteq graph[i].relata
    BY SubgraphRows
  <2> HIDE DEF s
  <2> QED
    BY <2>1 DEF Grounds
<1>2. /\ Known(s, i) \in Level \cup {None}
      /\ 0..Known(s, i) \subseteq GroundingLevels(s[i])
  BY ContiguousMaxChain DEF Known, ContiguousMaxDepth
<1>3. 0..l \subseteq 0..Known(s, i)
  BY <1>2 DEF Level, None
<1> QED
  BY <1>1, <1>2, <1>3 DEF GroundedTo, GroundingLevels

\* An edge of the subgraph is a stored relatum between collected primitives.
LEMMA SubgraphEdges ==
  ASSUME IsGraph(graph), NEW q
  PROVE  Edges(Subgraph(graph, q)) = Pathways(q)
<1> DEFINE s == Subgraph(graph, q)
           C == Collected(graph, q)
<1>1. /\ DOMAIN s = C /\ C \subseteq DOMAIN graph
      /\ \A i \in C : s[i].relata = {r \in graph[i].relata : r.target \in C}
  BY SubgraphRows
<1> HIDE DEF s, C
<1>2. Edges(s) \subseteq {e \in Edges(graph) : e.source \in C /\ e.relatum.target \in C}
  BY <1>1 DEF Edges
<1>3. {e \in Edges(graph) : e.source \in C /\ e.relatum.target \in C} \subseteq Edges(s)
  BY <1>1 DEF Edges
<1> QED
  BY <1>2, <1>3 DEF Pathways, s, C

-----------------------------------------------------------------------------
(* A verdict without a gap *)

\* The names the lemmas below share: the pieces of Gaps(graph, q, m).
sub(q)     == Subgraph(graph, q)
roots(q)   == Roots(graph, q)
visible(q) == LeavingOf(VisibleEdges(sub(q)), Frontier(sub(q), roots(q)))
gated(q)   == LeavingOf(GatedEdges(sub(q)), Frontier(sub(q), roots(q)))

\* A grounded verdict is a query with none of the four kinds of gap.
LEMMA NoGaps ==
  ASSUME NEW q, NEW m, Grounded(graph, q, m)
  PROVE  /\ q # << >>
         /\ ExistenceGaps(graph, q) = {}
         /\ DepthGaps(sub(q), roots(q), gated(q), m) = {}
         /\ RelationalGaps(sub(q), visible(q)) = {}
         /\ ReachabilityGaps(sub(q), roots(q), visible(q), q) = {}
BY DEF Grounded, Gaps, sub, roots, visible, gated

\* The frontier lies in the subgraph and holds the roots.
LEMMA FrontierBounds ==
  ASSUME IsGraph(graph), NEW q
  PROVE  /\ roots(q) \subseteq Frontier(sub(q), roots(q))
         /\ Frontier(sub(q), roots(q)) \subseteq Collected(graph, q)
<1> DEFINE succ == SuccOver(sub(q), VisibleEdges(sub(q)))
<1>1. DOMAIN succ = Collected(graph, q)
  BY SubgraphRows DEF SuccOver, sub
<1>2. roots(q) \subseteq Collected(graph, q)
  BY SubgraphRows DEF roots
<1> HIDE DEF succ
<1>3. Frontier(sub(q), roots(q)) = ReachFrom(roots(q), succ)
  BY DEF Frontier, succ
<1> QED
  BY <1>1, <1>2, <1>3, ReachStart

\* Without a depth gap no edge that leaves the frontier is gated.
LEMMA NothingGated ==
  ASSUME IsGraph(graph), NEW q, NEW m, Grounded(graph, q, m)
  PROVE  gated(q) = {}
<1> SUFFICES ASSUME NEW e \in gated(q) PROVE FALSE
  OBVIOUS
<1>1. e.source \in DOMAIN sub(q) /\ e \in LeavingOf(gated(q), {e.source})
  BY FrontierBounds, SubgraphRows DEF gated, LeavingOf, sub
<1>2. DepthDemands(sub(q), roots(q), gated(q), m, e.source) # {}
  BY <1>1 DEF DepthDemands
<1> QED
  BY <1>1, <1>2, NoGaps DEF DepthGaps

\* Then the engine has walked the whole transitive closure, and sees all of it.
LEMMA FrontierIsClosure ==
  ASSUME IsGraph(graph), NEW q, gated(q) = {}
  PROVE  visible(q) = Edges(sub(q))
<1> DEFINE C == Collected(graph, q)
           F == Frontier(sub(q), roots(q))
           V == VisibleEdges(sub(q))
           succ == SuccOver(sub(q), V)
<1>1. DOMAIN succ = C /\ F = ReachFrom(roots(q), succ)
  BY SubgraphRows DEF SuccOver, sub, Frontier
<1>2. roots(q) \subseteq F /\ F \subseteq C /\ C \subseteq DOMAIN graph
  BY FrontierBounds, SubgraphRows
<1>3. \A e \in Edges(sub(q)) : e.source \in F => e \in V
  BY DEF gated, LeavingOf, GatedEdges
<1>4. \A i \in F : TransitiveTargets(graph[i]) \cap DOMAIN graph \subseteq F
  <2> SUFFICES ASSUME NEW i \in F, NEW t \in TransitiveTargets(graph[i]), t \in DOMAIN graph
               PROVE  t \in F
    OBVIOUS
  <2>1. t \in C
    <3>1. i \in ReachFrom(Roots(graph, q), TransitiveSucc(graph))
      BY <1>2 DEF Collected
    <3>2. TransitiveSucc(graph)[i] = TransitiveTargets(graph[i])
          /\ DOMAIN TransitiveSucc(graph) = DOMAIN graph
      BY <1>2 DEF TransitiveSucc
    <3> QED
      BY <3>1, <3>2, ReachClosed DEF Collected
  <2>2. PICK r \in graph[i].relata : r.target = t
    BY DEF TransitiveTargets
  <2>3. i \in DOMAIN sub(q) /\ r \in sub(q)[i].relata
    BY <1>2, <2>1, <2>2, SubgraphRows DEF sub
  <2> DEFINE e == [source |-> i, relatum |-> r]
  <2>4. e \in Edges(sub(q))
    BY <2>3 DEF Edges
  <2>5. e \in V /\ e.source = i /\ e.relatum.target = t
    BY <2>2, <2>4, <1>3
  <2>6. t \in succ[i]
    <3> HIDE DEF e, V
    <3> QED
      BY <2>3, <2>5 DEF SuccOver
  <2> HIDE DEF succ, F, C
  <2> QED
    BY <1>1, <2>1, <2>6, ReachClosed
<1>5. C \subseteq F
  <2>1. DOMAIN TransitiveSucc(graph) = DOMAIN graph
        /\ \A i \in DOMAIN graph : TransitiveSucc(graph)[i] = TransitiveTargets(graph[i])
    BY DEF TransitiveSucc
  <2> HIDE DEF F
  <2> QED
    BY <1>2, <1>4, <2>1, ReachLeast DEF Collected, roots
<1>6. \A e \in Edges(sub(q)) : e.source \in C
  BY SubgraphRows DEF Edges, sub
<1>7. V \subseteq Edges(sub(q))
  BY DEF VisibleEdges
<1> QED
  BY <1>3, <1>5, <1>6, <1>7 DEF visible, LeavingOf

\* Every relatum of the closure is visible and its target deep enough.
LEMMA PathwaysGrounded ==
  ASSUME IsGraph(graph), NEW q, NEW m, Grounded(graph, q, m), NEW e \in Pathways(q)
  PROVE  /\ GroundedTo(e.source, e.relatum.source_depth)
         /\ GroundedTo(e.relatum.target, e.relatum.target_depth)
<1>1. /\ e \in visible(q) /\ e.source \in Collected(graph, q)
      /\ e.relatum.target \in Collected(graph, q)
  BY NothingGated, FrontierIsClosure, SubgraphEdges DEF Pathways, sub
<1>2. e.relatum.source_depth \in Level /\ e.relatum.target_depth \in Level
  <2>1. e \in Edges(graph)
    BY DEF Pathways
  <2>2. PICK i \in DOMAIN graph : e.relatum \in graph[i].relata
    BY <2>1 DEF Edges
  <2> QED
    BY <2>2 DEF IsGraph, Primitive, Relatum
<1>3. Known(sub(q), e.source) >= e.relatum.source_depth
  BY <1>1 DEF visible, LeavingOf, VisibleEdges
<1>4. ~(Known(sub(q), e.relatum.target) < e.relatum.target_depth)
  <2> SUFFICES ASSUME Known(sub(q), e.relatum.target) < e.relatum.target_depth PROVE FALSE
    OBVIOUS
  <2>1. e \in LeavingOf(visible(q), {e.source})
    BY <1>1 DEF LeavingOf
  <2>2. RelationalDemands(sub(q), visible(q), e.source, e.relatum.target) # {}
    BY <2>1 DEF RelationalDemands
  <2>3. <<e.source, e.relatum.target>> \in (DOMAIN sub(q)) \X (DOMAIN sub(q))
    BY <1>1, SubgraphRows DEF sub
  <2>4. RelationalGaps(sub(q), visible(q)) # {}
    BY <2>2, <2>3 DEF RelationalGaps
  <2> QED
    BY <2>4, NoGaps
<1>5. /\ Known(sub(q), e.source) \in Level \cup {None}
      /\ Known(sub(q), e.relatum.target) \in Level \cup {None}
  BY ContiguousMaxChain DEF Known, ContiguousMaxDepth
<1>6. /\ e.relatum.source_depth <= Known(sub(q), e.source)
      /\ e.relatum.target_depth <= Known(sub(q), e.relatum.target)
  BY <1>2, <1>3, <1>4, <1>5 DEF Level, None
<1> QED
  BY <1>1, <1>2, <1>6, KnownIsGrounded DEF sub

\* The roots reach the floor.
LEMMA RootsReachFloor ==
  ASSUME IsGraph(graph), NEW q, NEW m \in Floors, Grounded(graph, q, m),
         NEW i \in Roots(graph, q)
  PROVE  GroundedTo(i, m)
<1>1. i \in Collected(graph, q) /\ i \in DOMAIN sub(q) /\ i \in roots(q)
  BY SubgraphRows DEF sub, roots
<1>2. ~(Known(sub(q), i) < m)
  <2> SUFFICES ASSUME Known(sub(q), i) < m PROVE FALSE
    OBVIOUS
  <2>1. DepthDemands(sub(q), roots(q), gated(q), m, i) # {}
    BY <1>1 DEF DepthDemands
  <2> QED
    BY <1>1, <2>1, NoGaps DEF DepthGaps
<1>3. Known(sub(q), i) \in Level \cup {None} /\ m \in Level \cup {None}
  BY ContiguousMaxChain, FloorsAssumption DEF Known, ContiguousMaxDepth
<1>4. m <= Known(sub(q), i)
  BY <1>2, <1>3 DEF Level, None
<1> QED
  BY <1>1, <1>3, <1>4, KnownIsGrounded DEF sub

-----------------------------------------------------------------------------
(* The roots and their anchor *)

\* No border that the edges of V do not cross separates the nodes of R.
Inseparable(s, V, R) ==
  \A S \in SUBSET DOMAIN s :
    S \cap R # {} /\ R \ S # {} => \E e \in V : (e.source \in S) # (e.relatum.target \in S)

\* The component of A is closed under the edges in both directions, and is the
\* least such set that holds A.
LEMMA ComponentClosed ==
  ASSUME NEW s, NEW V, NEW A,
         \A e \in V : e.source \in DOMAIN s /\ e.relatum.target \in DOMAIN s
  PROVE  /\ Component(s, V, A) \subseteq DOMAIN s
         /\ A \in DOMAIN s => A \in Component(s, V, A)
         /\ \A e \in V : e.source \in Component(s, V, A) <=> e.relatum.target \in Component(s, V, A)
         /\ \A S \in SUBSET DOMAIN s :
              /\ A \in DOMAIN s => A \in S
              /\ \A e \in V : e.source \in S <=> e.relatum.target \in S
              => Component(s, V, A) \subseteq S
<1> DEFINE nbrs == [j \in DOMAIN s |-> {e.relatum.target : e \in LeavingOf(V, {j})}
                                         \cup {e.source : e \in {f \in V : f.relatum.target = j}}]
           C == ReachFrom({A}, nbrs)
<1>1. Component(s, V, A) = C
  BY DEF Component
<1>2. DOMAIN nbrs = DOMAIN s
  OBVIOUS
<1>3. \A e \in V : e.relatum.target \in nbrs[e.source] /\ e.source \in nbrs[e.relatum.target]
  <2> TAKE e \in V
  <2>1. e \in LeavingOf(V, {e.source})
    BY DEF LeavingOf
  <2> QED
    BY <2>1
<1>4. \A j \in DOMAIN s : \A k \in nbrs[j] :
        \E e \in V : \/ e.source = j /\ e.relatum.target = k
                     \/ e.relatum.target = j /\ e.source = k
  BY DEF LeavingOf
<1> HIDE DEF nbrs
<1>5. C \subseteq DOMAIN s /\ (A \in DOMAIN s => A \in C)
  BY <1>2, ReachStart
<1>6. \A e \in V : e.source \in C <=> e.relatum.target \in C
  BY <1>2, <1>3, ReachClosed
<1>7. ASSUME NEW S \in SUBSET DOMAIN s, A \in DOMAIN s => A \in S,
             \A e \in V : e.source \in S <=> e.relatum.target \in S
      PROVE  C \subseteq S
  <2>1. {A} \cap DOMAIN nbrs \subseteq S
    BY <1>2, <1>7
  <2>2. \A j \in S : nbrs[j] \cap DOMAIN nbrs \subseteq S
    BY <1>4, <1>7
  <2>3. S \in SUBSET DOMAIN nbrs
    BY <1>2
  <2> QED
    BY <2>1, <2>2, <2>3, ReachLeast
<1> HIDE DEF C
<1> QED
  BY <1>1, <1>5, <1>6, <1>7

\* A component that holds all of R leaves no border between them; and without
\* such a border the component of any of them holds them all.
LEMMA ComponentHoldsRoots ==
  ASSUME NEW s, NEW V, NEW R \in SUBSET DOMAIN s, NEW A,
         \A e \in V : e.source \in DOMAIN s /\ e.relatum.target \in DOMAIN s
  PROVE  /\ R \subseteq Component(s, V, A) => Inseparable(s, V, R)
         /\ A \in R /\ Inseparable(s, V, R) => R \subseteq Component(s, V, A)
<1> DEFINE C == Component(s, V, A)
<1>1. /\ C \subseteq DOMAIN s
      /\ A \in DOMAIN s => A \in C
      /\ \A e \in V : e.source \in C <=> e.relatum.target \in C
  BY ComponentClosed
<1>2. ASSUME NEW S \in SUBSET DOMAIN s, A \in DOMAIN s => A \in S,
             \A e \in V : e.source \in S <=> e.relatum.target \in S
      PROVE  C \subseteq S
  BY <1>2, ComponentClosed
<1> HIDE DEF C
<1>3. ASSUME R \subseteq C PROVE Inseparable(s, V, R)
  <2> SUFFICES ASSUME NEW S \in SUBSET DOMAIN s, S \cap R # {}, R \ S # {},
                      \A e \in V : e.source \in S <=> e.relatum.target \in S
               PROVE  FALSE
    BY DEF Inseparable
  <2>1. CASE A \in S
    BY <1>2, <1>3, <2>1
  <2>2. CASE A \notin S
    <3> DEFINE T == DOMAIN s \ S
    <3>1. \A e \in V : e.source \in T <=> e.relatum.target \in T
      OBVIOUS
    <3>2. C \subseteq T
      BY <1>2, <2>2, <3>1
    <3> QED
      BY <1>3, <3>2
  <2> QED
    BY <2>1, <2>2
<1>4. ASSUME A \in R, Inseparable(s, V, R) PROVE R \subseteq C
  BY <1>1, <1>4 DEF Inseparable
<1> QED
  BY <1>3, <1>4 DEF C

\* Some natural numbers have a least one.
LEMMA LeastNatural ==
  ASSUME NEW S \in SUBSET Nat, S # {}
  PROVE  \E n \in S : \A k \in S : n <= k
<1> DEFINE R == OpToRel(<, Nat)
<1>1. IsWellFoundedOn(R, Nat)
  BY NatLessThanWellFounded
<1>2. \A n, k \in Nat : <<n, k>> \in R <=> n < k
  BY DEF OpToRel
<1> HIDE DEF R
<1>3. PICK n \in S : \A k \in S : ~(<<k, n>> \in R)
  BY <1>1, WFMin
<1>4. \A k \in S : ~(k < n)
  BY <1>2, <1>3, Zenon
<1> QED
  BY <1>4

\* Every queried name has a first position in the query.
LEMMA PositionOfRoot ==
  ASSUME NEW s, NEW q \in Seq(Names), NEW i, s[i].name \in Concepts(q)
  PROVE  /\ Position(s, q, i) \in Nat
         /\ Position(s, q, i) \in DOMAIN q
         /\ q[Position(s, q, i)] = s[i].name
<1> DEFINE K == {k \in DOMAIN q : q[k] = s[i].name}
<1>1. K \in SUBSET Nat /\ K # {} /\ DOMAIN q \subseteq Nat
  BY DEF Concepts
<1>2. PICK k \in K : \A j \in K : k <= j
  BY <1>1, LeastNatural
<1>3. \A j \in 1..(k - 1) : q[j] # s[i].name
  <2> SUFFICES ASSUME NEW j \in 1..(k - 1), q[j] = s[i].name PROVE FALSE
    OBVIOUS
  <2>1. k \in 1..Len(q) /\ DOMAIN q = 1..Len(q) /\ Len(q) \in Nat
    BY <1>2
  <2>2. j \in DOMAIN q
    BY <2>1
  <2>3. j \in K
    BY <2>2
  <2> QED
    BY <1>2, <2>1, <2>3
<1>4. Position(s, q, i) \in K
  BY <1>2, <1>3 DEF Position
<1> QED
  BY <1>1, <1>4

\* There is a first one among the roots with the largest component: sizes are
\* bounded by the subgraph, and roots with different names have different
\* positions.
LEMMA AnchorIsRoot ==
  ASSUME NEW s, IsFiniteSet(DOMAIN s), NEW V,
         \A e \in V : e.source \in DOMAIN s /\ e.relatum.target \in DOMAIN s,
         NEW q \in Seq(Names), NEW R \in SUBSET DOMAIN s, R # {},
         \A i \in R : s[i].name \in Concepts(q),
         \A i, j \in R : s[i].name = s[j].name => i = j
  PROVE  Anchor(s, R, V, q) \in R
<1> DEFINE size == [i \in R |-> Cardinality(Component(s, V, i))]
           N == Cardinality(DOMAIN s)
           pos(i) == Position(s, q, i)
<1>1. N \in Nat /\ \A i \in R : size[i] \in 0..N
  <2> SUFFICES ASSUME NEW i \in R PROVE N \in Nat /\ size[i] \in 0..N
    OBVIOUS
  <2>1. Component(s, V, i) \in SUBSET DOMAIN s
    BY ComponentClosed
  <2>2. /\ IsFiniteSet(Component(s, V, i))
        /\ Cardinality(Component(s, V, i)) <= N
    BY <2>1, FS_Subset
  <2> QED
    BY <2>2, FS_CardinalityType
<1>2. \A i \in R : pos(i) \in Nat /\ q[pos(i)] = s[i].name
  BY PositionOfRoot
<1> HIDE DEF size, N, pos
<1>3. PICK a \in R : \A j \in R : size[j] <= size[a]
  <2> DEFINE T == {N - size[i] : i \in R}
  <2>1. T \in SUBSET Nat /\ T # {}
    BY <1>1
  <2>2. PICK n \in T : \A k \in T : n <= k
    <3> HIDE DEF T
    <3> QED
      BY <2>1, LeastNatural
  <2>3. PICK a \in R : n = N - size[a]
    BY <2>2
  <2>4. \A j \in R : N - size[a] <= N - size[j]
    BY <2>2, <2>3
  <2>5. \A j \in R : size[j] <= size[a]
    <3> TAKE j \in R
    <3> QED
      BY <1>1, <2>4
  <2> QED
    BY <2>5
<1>4. PICK b \in R : size[b] = size[a] /\ \A j \in R : size[j] = size[a] => pos(b) <= pos(j)
  <2> DEFINE T == {pos(i) : i \in {j \in R : size[j] = size[a]}}
  <2>1. T \in SUBSET Nat /\ T # {}
    BY <1>2
  <2>2. PICK n \in T : \A k \in T : n <= k
    <3> HIDE DEF T
    <3> QED
      BY <2>1, LeastNatural
  <2> QED
    BY <2>2
<1>5. \A j \in R \ {b} : \/ size[b] > size[j]
                         \/ size[b] = size[j] /\ pos(b) < pos(j)
  <2> TAKE j \in R \ {b}
  <2>1. pos(b) # pos(j)
    BY <1>2
  <2>2. size[b] \in 0..N /\ size[j] \in 0..N /\ size[j] <= size[a] /\ pos(b) \in Nat /\ pos(j) \in Nat
    BY <1>1, <1>2, <1>3
  <2> QED
    BY <1>4, <2>1, <2>2
<1>6. Anchor(s, R, V, q) =
        CHOOSE i \in R : \A j \in R \ {i} : \/ size[i] > size[j]
                                            \/ size[i] = size[j] /\ pos(i) < pos(j)
  BY DEF Anchor, size, pos
<1> QED
  BY <1>5, <1>6

\* The store's invariant makes the roots of a query distinct, finite in number
\* and different in name.
LEMMA RootsOfQuery ==
  ASSUME StoreInv, NEW q
  PROVE  /\ IsFiniteSet(DOMAIN sub(q)) /\ IsFiniteSet(roots(q))
         /\ roots(q) \in SUBSET DOMAIN sub(q)
         /\ \A i \in roots(q) : sub(q)[i].name \in Concepts(q)
         /\ \A i, j \in roots(q) : sub(q)[i].name = sub(q)[j].name => i = j
         /\ \A e \in visible(q) : e.source \in DOMAIN sub(q) /\ e.relatum.target \in DOMAIN sub(q)
<1>1. IsGraph(graph)
  BY DEF StoreInv, TypeOK
<1>2. /\ DOMAIN sub(q) = Collected(graph, q) /\ Collected(graph, q) \subseteq DOMAIN graph
      /\ roots(q) \subseteq Collected(graph, q)
  BY <1>1, SubgraphRows DEF sub, roots
<1>3. IsFiniteSet(DOMAIN sub(q)) /\ IsFiniteSet(roots(q))
  <2>1. DOMAIN graph \subseteq Ids
    BY <1>1 DEF IsGraph
  <2>2. DOMAIN sub(q) \in SUBSET Ids /\ roots(q) \in SUBSET Ids
    BY <1>2, <2>1
  <2> QED
    BY <2>2, FiniteIdsAssumption, FS_Subset
<1>4. \A i \in roots(q) : sub(q)[i].name = graph[i].name /\ graph[i].name \in Concepts(q)
  BY <1>1, <1>2 DEF sub, Subgraph, roots, Roots, IsGraph, Primitive
<1>5. \A i, j \in roots(q) : graph[i].name = graph[j].name => i = j
  BY <1>2 DEF StoreInv, UniqueNames
<1>6. \A e \in visible(q) : e.source \in DOMAIN sub(q) /\ e.relatum.target \in DOMAIN sub(q)
  <2>1. visible(q) \subseteq Pathways(q)
    BY <1>1, SubgraphEdges DEF visible, LeavingOf, VisibleEdges, sub
  <2> QED
    BY <1>2, <2>1 DEF Pathways
<1> QED
  BY <1>2, <1>3, <1>4, <1>5, <1>6

\* The reachability check is exact: it names a root exactly if some border
\* separates the roots, whichever anchor the order of the query picks.
LEMMA ReachabilityGapsExact ==
  ASSUME StoreInv, NEW q \in Seq(Names)
  PROVE  ReachabilityGaps(sub(q), roots(q), visible(q), q) = {}
           <=> Inseparable(sub(q), visible(q), roots(q))
<1> DEFINE s == sub(q)
           R == roots(q)
           V == visible(q)
           A == Anchor(s, R, V, q)
<1>1. /\ IsFiniteSet(R) /\ R \in SUBSET DOMAIN s
      /\ \A e \in V : e.source \in DOMAIN s /\ e.relatum.target \in DOMAIN s
  BY RootsOfQuery
<1>2. Cardinality(R) \in Nat
  BY <1>1, FS_CardinalityType
<1>3. CASE Cardinality(R) > 1
  <2>1. R # {}
    BY <1>3, FS_EmptySet
  <2>2. A \in R
    BY <2>1, RootsOfQuery, AnchorIsRoot
  <2>3. R \subseteq Component(s, V, A) <=> Inseparable(s, V, R)
    BY <1>1, <2>2, ComponentHoldsRoots
  <2>4. ReachabilityGaps(s, R, V, q) = {} <=> R \subseteq Component(s, V, A)
    BY <1>3 DEF ReachabilityGaps
  <2> QED
    BY <2>3, <2>4
<1>4. CASE ~(Cardinality(R) > 1)
  <2>1. ReachabilityGaps(s, R, V, q) = {}
    BY <1>4 DEF ReachabilityGaps
  <2>2. \A i, j \in R : i = j
    <3>1. CASE Cardinality(R) = 0
      BY <1>1, <3>1, FS_EmptySet
    <3>2. CASE Cardinality(R) = 1
      BY <1>1, <3>2, FS_Singleton
    <3> QED
      BY <1>2, <1>4, <3>1, <3>2
  <2>3. Inseparable(s, V, R)
    BY <2>2 DEF Inseparable
  <2> QED
    BY <2>1, <2>3
<1> QED
  BY <1>3, <1>4

\* When the whole closure is visible, that is the connectedness promised.
LEMMA ConnectedExact ==
  ASSUME StoreInv, NEW q \in Seq(Names), gated(q) = {}
  PROVE  ReachabilityGaps(sub(q), roots(q), visible(q), q) = {} <=> Connected(q)
<1>1. IsGraph(graph)
  BY DEF StoreInv, TypeOK
<1>2. DOMAIN sub(q) = Collected(graph, q)
  BY <1>1, SubgraphRows DEF sub
<1>3. visible(q) = Pathways(q)
  BY <1>1, FrontierIsClosure, SubgraphEdges DEF sub
<1>4. Inseparable(sub(q), visible(q), roots(q)) <=> Connected(q)
  BY <1>2, <1>3 DEF Inseparable, Connected, roots
<1> QED
  BY <1>4, ReachabilityGapsExact

-----------------------------------------------------------------------------
(* Soundness *)

\* A query without a gap is justified.
LEMMA GroundedIsJustified ==
  ASSUME StoreInv, NEW q \in Seq(Names), NEW m \in Floors, Grounded(graph, q, m)
  PROVE  Justified(q, m)
<1>0. IsGraph(graph)
  BY DEF StoreInv, TypeOK
<1>1. q # << >> /\ \A n \in Concepts(q) : HoldersOf(graph, n) # {}
  BY NoGaps DEF ExistenceGaps
<1>2. \A i \in Roots(graph, q) : GroundedTo(i, m)
  BY <1>0, RootsReachFloor
<1>3. \A e \in Pathways(q) : /\ GroundedTo(e.source, e.relatum.source_depth)
                             /\ GroundedTo(e.relatum.target, e.relatum.target_depth)
  BY <1>0, PathwaysGrounded
<1>4. Connected(q)
  BY <1>0, NothingGated, NoGaps, ConnectedExact
<1> QED
  BY <1>1, <1>2, <1>3, <1>4 DEF Justified

\* So the store's invariant makes every verdict sound.
LEMMA StoreSound == StoreInv => VerdictSound
BY GroundedIsJustified, QueriesAssumption DEF VerdictSound

\* A grounded verdict is justified by the stored graph: whatever was saved,
\* renamed or deleted before, for every query and every floor, no gap means
\* that nothing in the transitive closure of the concepts falls short.
THEOREM GroundingSound == Spec => []VerdictSound
BY StoreSound, StoreInvariant, PTL

-----------------------------------------------------------------------------
(* Completeness: without a bare level hydration loses nothing *)

\* A level that lives on relata keeps a transitive one, whose target the store
\* has and the closure collects: the collected row grounds the same levels.
LEMMA HydrationKeepsLevels ==
  ASSUME StoreInv, NoBareLevel, NEW q, NEW i \in Collected(graph, q)
  PROVE  GroundingLevels(sub(q)[i]) = GroundingLevels(graph[i])
<1> DEFINE C == Collected(graph, q)
           s == sub(q)
<1>0. IsGraph(graph)
  BY DEF StoreInv, TypeOK
<1>1. /\ C \subseteq DOMAIN graph /\ s[i].depths = graph[i].depths
      /\ s[i].relata = {r \in graph[i].relata : r.target \in C}
  BY <1>0, SubgraphRows DEF sub
<1>2. \A r \in graph[i].relata : r.rel_type \in TransitiveTypes => r.target \in C
  <2> SUFFICES ASSUME NEW r \in graph[i].relata, r.rel_type \in TransitiveTypes
               PROVE  r.target \in C
    OBVIOUS
  <2>1. r.target \in DOMAIN graph /\ r.target \in TransitiveTargets(graph[i])
    BY <1>1 DEF StoreInv, NoDangling, TransitiveTargets
  <2>2. TransitiveSucc(graph)[i] = TransitiveTargets(graph[i])
        /\ DOMAIN TransitiveSucc(graph) = DOMAIN graph
    BY <1>1 DEF TransitiveSucc
  <2> QED
    BY <2>1, <2>2, ReachClosed DEF Collected
<1> HIDE DEF s, C
<1>3. ASSUME NEW l \in Level, Grounds(s[i], l) PROVE Grounds(graph[i], l)
  BY <1>1, <1>3 DEF Grounds
<1>4. ASSUME NEW l \in Level, Grounds(graph[i], l) PROVE Grounds(s[i], l)
  <2>1. ~BareLevel(graph[i], l)
    BY <1>1, <1>4 DEF NoBareLevel, C
  <2>2. CASE l = 0 \/ graph[i].depths[l] # "empty"
    BY <1>1, <1>4, <2>2 DEF Grounds
  <2>3. CASE \E r \in graph[i].relata : r.source_depth = l /\ r.rel_type \in TransitiveTypes
    BY <1>1, <1>2, <1>4, <2>3 DEF Grounds
  <2> QED
    BY <2>1, <2>2, <2>3 DEF BareLevel
<1> QED
  BY <1>3, <1>4 DEF GroundingLevels, s

\* So what the engine knows of a collected primitive is exactly the truth.
LEMMA KnownExact ==
  ASSUME StoreInv, NoBareLevel, NEW q, NEW i \in Collected(graph, q),
         NEW l \in Level \cup {None}
  PROVE  l <= Known(sub(q), i) <=> GroundedTo(i, l)
<1>1. l <= Known(sub(q), i) => GroundedTo(i, l)
  BY KnownIsGrounded DEF StoreInv, TypeOK, sub
<1>2. ASSUME GroundedTo(i, l) PROVE l <= Known(sub(q), i)
  <2>1. 0..l \subseteq GroundingLevels(graph[i])
    BY <1>2 DEF GroundedTo, GroundingLevels, Level, None
  <2>2. 0..l \subseteq GroundingLevels(sub(q)[i])
    BY <2>1, HydrationKeepsLevels
  <2> QED
    BY <2>2, ContiguousMaxGreatest DEF Known, ContiguousMaxDepth
<1> QED
  BY <1>1, <1>2

\* What is known of a collected primitive is a level or None.
LEMMA KnownType ==
  ASSUME NEW s, NEW i
  PROVE  Known(s, i) \in Level \cup {None}
BY ContiguousMaxChain DEF Known, ContiguousMaxDepth

\* The depths of the relata of the closure are levels, their ends collected.
LEMMA PathwayType ==
  ASSUME IsGraph(graph), NEW q, NEW e \in Pathways(q)
  PROVE  /\ e.source \in Collected(graph, q) /\ e.relatum.target \in Collected(graph, q)
         /\ e.relatum.source_depth \in Level /\ e.relatum.target_depth \in Level
<1>1. e \in Edges(graph)
  BY DEF Pathways
<1>2. PICK i \in DOMAIN graph : e.relatum \in graph[i].relata
  BY <1>1 DEF Edges
<1> QED
  BY <1>2 DEF Pathways, IsGraph, Primitive, Relatum

\* A justified query has no gap of any kind.
LEMMA JustifiedIsGrounded ==
  ASSUME StoreInv, NoBareLevel, NEW q \in Seq(Names), NEW m \in Floors, Justified(q, m)
  PROVE  Grounded(graph, q, m)
<1>0. IsGraph(graph)
  BY DEF StoreInv, TypeOK
<1>1. DOMAIN sub(q) = Collected(graph, q) /\ roots(q) \subseteq Collected(graph, q)
  BY <1>0, SubgraphRows DEF sub, roots
<1>2. Edges(sub(q)) = Pathways(q)
  BY <1>0, SubgraphEdges DEF sub
<1>3. \A e \in Pathways(q) : /\ Known(sub(q), e.source) >= e.relatum.source_depth
                             /\ ~(Known(sub(q), e.relatum.target) < e.relatum.target_depth)
  <2> TAKE e \in Pathways(q)
  <2>1. /\ e.relatum.source_depth <= Known(sub(q), e.source)
        /\ e.relatum.target_depth <= Known(sub(q), e.relatum.target)
    BY <1>0, PathwayType, KnownExact DEF Justified
  <2> QED
    BY <1>0, <2>1, PathwayType, KnownType DEF Level, None
<1>4. gated(q) = {}
  BY <1>2, <1>3 DEF gated, LeavingOf, GatedEdges, VisibleEdges
<1>5. ExistenceGaps(graph, q) = {}
  BY DEF ExistenceGaps, Justified
<1>6. DepthGaps(sub(q), roots(q), gated(q), m) = {}
  <2>1. \A i \in DOMAIN sub(q) : DepthDemands(sub(q), roots(q), gated(q), m, i) = {}
    <3> SUFFICES ASSUME NEW i \in roots(q), Known(sub(q), i) < m PROVE FALSE
      BY <1>4 DEF DepthDemands, LeavingOf
    <3>1. m <= Known(sub(q), i) /\ m \in Level \cup {None}
      BY <1>1, FloorsAssumption, KnownExact DEF Justified, roots
    <3> QED
      BY <3>1, KnownType DEF Level, None
  <2> QED
    BY <2>1 DEF DepthGaps
<1>7. RelationalGaps(sub(q), visible(q)) = {}
  <2>1. visible(q) \subseteq Pathways(q)
    BY <1>2 DEF visible, LeavingOf, VisibleEdges
  <2>2. \A i, t : RelationalDemands(sub(q), visible(q), i, t) = {}
    BY <1>3, <2>1 DEF RelationalDemands, LeavingOf
  <2> QED
    BY <2>2 DEF RelationalGaps
<1>8. ReachabilityGaps(sub(q), roots(q), visible(q), q) = {}
  BY <1>4, ConnectedExact DEF Justified
<1>9. q # << >>
  BY DEF Justified
<1> QED
  BY <1>5, <1>6, <1>7, <1>8, <1>9 DEF Grounded, Gaps, sub, roots, visible, gated

\* Nothing that the stored graph justifies is refused, as long as no primitive
\* has a bare level: the engine never asks for knowledge that is there.
THEOREM GroundingComplete == Spec => []VerdictComplete
<1>1. StoreInv => VerdictComplete
  BY JustifiedIsGrounded, QueriesAssumption DEF VerdictComplete
<1> QED
  BY <1>1, StoreInvariant, PTL

-----------------------------------------------------------------------------
(* The gaps *)

\* A node that is known too shallow for a level lacks one of the levels a
\* fill would have to author, and no such level grounds.
LEMMA MissingIsReal ==
  ASSUME StoreInv, NoBareLevel, NEW q, NEW i \in Collected(graph, q),
         NEW l \in Level \cup {None}, Known(sub(q), i) < l
  PROVE  LET missing == MissingDepthLevels(GroundingLevels(sub(q)[i]), Known(sub(q), i), l)
         IN  ~GroundedTo(i, l) /\ missing # {} /\ missing \cap GroundingLevels(graph[i]) = {}
<1> DEFINE known == Known(sub(q), i)
           levels == GroundingLevels(sub(q)[i])
           missing == MissingDepthLevels(levels, known, l)
<1>1. levels = GroundingLevels(graph[i])
  BY HydrationKeepsLevels
<1>2. known \in Level \cup {None} /\ 0..known \subseteq levels
  BY ContiguousMaxChain DEF Known, ContiguousMaxDepth
<1>3. known < l
  OBVIOUS
<1>4. ~(0..l \subseteq levels)
  <2> SUFFICES ASSUME 0..l \subseteq levels PROVE FALSE
    OBVIOUS
  <2>1. l <= known
    BY ContiguousMaxGreatest DEF Known, ContiguousMaxDepth
  <2> HIDE DEF known
  <2> QED
    BY <1>2, <1>3, <2>1 DEF Level, None
<1>5. ~GroundedTo(i, l)
  <2> SUFFICES ASSUME GroundedTo(i, l) PROVE FALSE
    OBVIOUS
  <2>1. l <= known
    BY KnownExact
  <2> HIDE DEF known
  <2> QED
    BY <1>2, <1>3, <2>1 DEF Level, None
<1> HIDE DEF known, levels
<1>6. missing # {} /\ missing \cap levels = {}
  <2>1. PICK k \in 0..l : k \notin levels
    BY <1>4
  <2>2. k \in Level /\ known < k /\ k <= l
    BY <1>2, <2>1 DEF Level, None
  <2> QED
    BY <2>1, <2>2 DEF MissingDepthLevels
<1> QED
  BY <1>1, <1>5, <1>6 DEF known, levels

\* Every demand on a node is a level it is not known to reach.
LEMMA DepthDemandsUnmet ==
  ASSUME IsGraph(graph), NEW q, NEW m \in Floors, NEW i
  PROVE  \A l \in DepthDemands(sub(q), roots(q), gated(q), m, i) :
           l \in Level \cup {None} /\ Known(sub(q), i) < l
<1>1. gated(q) \subseteq {e \in Pathways(q) : ~(Known(sub(q), e.source) >= e.relatum.source_depth)}
  BY SubgraphEdges DEF gated, LeavingOf, GatedEdges, VisibleEdges, sub
<1>2. ASSUME NEW e \in gated(q), e.source = i
      PROVE  /\ e.relatum.source_depth \in Level \cup {None}
             /\ Known(sub(q), i) < e.relatum.source_depth
  <2>1. e.relatum.source_depth \in Level /\ ~(Known(sub(q), i) >= e.relatum.source_depth)
    BY <1>1, <1>2, PathwayType
  <2> QED
    BY <2>1, KnownType DEF Level, None
<1>3. m \in Level \cup {None}
  BY FloorsAssumption
<1> QED
  BY <1>2, <1>3 DEF DepthDemands, LeavingOf

\* On both ends of a relatum.
LEMMA RelationalDemandsUnmet ==
  ASSUME IsGraph(graph), NEW q, NEW i, NEW t
  PROVE  \A l \in RelationalDemands(sub(q), visible(q), i, t) :
           l \in Level \cup {None} /\ Known(sub(q), t) < l
<1>1. visible(q) \subseteq Pathways(q)
  BY SubgraphEdges DEF visible, LeavingOf, VisibleEdges, sub
<1> QED
  BY <1>1, PathwayType DEF RelationalDemands, LeavingOf

\* The gaps of the kind of existence gaps.
LEMMA ExistenceGapKind ==
  ASSUME NEW q, NEW m, NEW p \in Gaps(graph, q, m), p.kind = "EXISTENCE"
  PROVE  p \in ExistenceGaps(graph, q)
<1>1. \/ p \in ExistenceGaps(graph, q)
      \/ p \in DepthGaps(sub(q), roots(q), gated(q), m)
      \/ p \in RelationalGaps(sub(q), visible(q))
      \/ p \in ReachabilityGaps(sub(q), roots(q), visible(q), q)
  BY DEF Gaps, sub, roots, visible, gated
<1>2. p \notin ReachabilityGaps(sub(q), roots(q), visible(q), q)
  BY DEF ReachabilityGaps
<1>3. p \notin DepthGaps(sub(q), roots(q), gated(q), m)
  BY DEF DepthGaps, DepthGap
<1>4. p \notin RelationalGaps(sub(q), visible(q))
  BY DEF RelationalGaps, RelationalGap
<1> QED
  BY <1>1, <1>2, <1>3, <1>4

\* A depth gap is that of a collected node and its highest demand, and so is
\* a relational gap.
LEMMA GapDemand ==
  ASSUME IsGraph(graph), NEW q, NEW m \in Floors, NEW p \in Gaps(graph, q, m),
         p.kind \in {"DEPTH", "RELATIONAL"}
  PROVE  /\ p.id \in Collected(graph, q)
         /\ p.required \in Level \cup {None} /\ Known(sub(q), p.id) < p.required
         /\ p.missing = MissingDepthLevels(GroundingLevels(sub(q)[p.id]), Known(sub(q), p.id), p.required)
<1>0. DOMAIN sub(q) = Collected(graph, q)
  BY SubgraphRows DEF sub
<1>1. \/ p \in ExistenceGaps(graph, q)
      \/ p \in DepthGaps(sub(q), roots(q), gated(q), m)
      \/ p \in RelationalGaps(sub(q), visible(q))
      \/ p \in ReachabilityGaps(sub(q), roots(q), visible(q), q)
  BY DEF Gaps, sub, roots, visible, gated
<1>2. p \notin ExistenceGaps(graph, q) /\ p \notin ReachabilityGaps(sub(q), roots(q), visible(q), q)
  BY DEF ExistenceGaps, ReachabilityGaps
<1>3. CASE p \in DepthGaps(sub(q), roots(q), gated(q), m)
  <2> DEFINE demands(j) == DepthDemands(sub(q), roots(q), gated(q), m, j)
  <2>1. PICK j \in DOMAIN sub(q) : demands(j) # {} /\ p = DepthGap(sub(q), j, Highest(demands(j)))
    BY <1>3 DEF DepthGaps
  <2>2. demands(j) \in SUBSET (Level \cup {None}) /\ \A l \in demands(j) : Known(sub(q), j) < l
    BY DepthDemandsUnmet
  <2> HIDE DEF demands
  <2>3. Highest(demands(j)) \in demands(j)
    BY <2>1, <2>2, HighestLevel
  <2> QED
    BY <1>0, <2>1, <2>2, <2>3 DEF DepthGap
<1>4. CASE p \in RelationalGaps(sub(q), visible(q))
  <2> DEFINE demands(i, t) == RelationalDemands(sub(q), visible(q), i, t)
  <2>1. PICK w \in (DOMAIN sub(q)) \X (DOMAIN sub(q)) :
          demands(w[1], w[2]) # {} /\ p = RelationalGap(sub(q), w[1], w[2], Highest(demands(w[1], w[2])))
    BY <1>4 DEF RelationalGaps
  <2>2. \A i, t : \A l \in demands(i, t) : l \in Level \cup {None} /\ Known(sub(q), t) < l
    BY RelationalDemandsUnmet
  <2> HIDE DEF demands
  <2>3. Highest(demands(w[1], w[2])) \in demands(w[1], w[2]) /\ w[2] \in DOMAIN sub(q)
    <3>1. demands(w[1], w[2]) \in SUBSET (Level \cup {None})
      BY <2>2
    <3> QED
      BY <2>1, <3>1, HighestLevel
  <2> QED
    BY <1>0, <2>1, <2>2, <2>3 DEF RelationalGap
<1> QED
  BY <1>1, <1>2, <1>3, <1>4

\* A depth or relational gap is never asked of a primitive that meets it, and
\* never asks to author a level that grounds already.
THEOREM GapsReal == Spec => []GapsAreReal
<1>1. StoreInv => GapsAreReal
  <2> SUFFICES ASSUME StoreInv, NoBareLevel, NEW q \in Queries, NEW m \in Floors,
                      NEW p \in Gaps(graph, q, m), p.kind \in {"DEPTH", "RELATIONAL"}
               PROVE  /\ ~GroundedTo(p.id, p.required)
                      /\ p.missing # {}
                      /\ p.missing \cap GroundingLevels(graph[p.id]) = {}
    BY DEF GapsAreReal, GapsAreRealOnEveryGraph
  <2>1. IsGraph(graph)
    BY DEF StoreInv, TypeOK
  <2>2. /\ p.id \in Collected(graph, q)
        /\ p.required \in Level \cup {None} /\ Known(sub(q), p.id) < p.required
        /\ p.missing = MissingDepthLevels(GroundingLevels(sub(q)[p.id]), Known(sub(q), p.id), p.required)
    BY <2>1, GapDemand
  <2> QED
    BY <2>2, MissingIsReal
<1> QED
  BY <1>1, StoreInvariant, PTL

-----------------------------------------------------------------------------
(* The order and the company of the concepts *)

\* All but the reachability gaps is a function of the set of concepts.
LEMMA OrderedAlike ==
  ASSUME NEW q, NEW w, Concepts(q) = Concepts(w)
  PROVE  /\ ExistenceGaps(graph, q) = ExistenceGaps(graph, w)
         /\ sub(q) = sub(w) /\ roots(q) = roots(w)
         /\ visible(q) = visible(w) /\ gated(q) = gated(w)
<1>1. ExistenceGaps(graph, q) = ExistenceGaps(graph, w)
  BY DEF ExistenceGaps
<1>2. roots(q) = roots(w)
  BY DEF roots, Roots
<1>3. sub(q) = sub(w)
  BY <1>2 DEF sub, Subgraph, Collected, roots
<1> QED
  BY <1>1, <1>2, <1>3 DEF visible, gated

\* The parts of a query's gaps, by kind.
LEMMA GapKinds ==
  ASSUME NEW q, NEW m
  PROVE  /\ {p \in Gaps(graph, q, m) : p.kind # "REACHABILITY"}
              = ExistenceGaps(graph, q) \cup DepthGaps(sub(q), roots(q), gated(q), m)
                  \cup RelationalGaps(sub(q), visible(q))
         /\ Gaps(graph, q, m) = {} <=>
              /\ ExistenceGaps(graph, q) = {}
              /\ DepthGaps(sub(q), roots(q), gated(q), m) = {}
              /\ RelationalGaps(sub(q), visible(q)) = {}
              /\ ReachabilityGaps(sub(q), roots(q), visible(q), q) = {}
<1> DEFINE E == ExistenceGaps(graph, q)
           D == DepthGaps(sub(q), roots(q), gated(q), m)
           L == RelationalGaps(sub(q), visible(q))
           B == ReachabilityGaps(sub(q), roots(q), visible(q), q)
<1>1. Gaps(graph, q, m) = E \cup D \cup L \cup B
  BY DEF Gaps, sub, roots, visible, gated
<1>2. \A p \in E : p.kind # "REACHABILITY"
  BY DEF ExistenceGaps
<1>3. \A p \in D : p.kind # "REACHABILITY"
  BY DEF DepthGaps, DepthGap
<1>4. \A p \in L : p.kind # "REACHABILITY"
  BY DEF RelationalGaps, RelationalGap
<1>5. \A p \in B : p.kind = "REACHABILITY"
  BY DEF ReachabilityGaps
<1> HIDE DEF E, D, L, B
<1> QED
  BY <1>1, <1>2, <1>3, <1>4, <1>5 DEF E, D, L, B

\* The caller's order decides which root a reachability gap names and nothing
\* else: not the other gaps, not whether there is one, not the verdict.
THEOREM OrderIrrelevant == Spec => []OrderInsensitive
<1>1. StoreInv => OrderInsensitive
  <2> SUFFICES ASSUME StoreInv, NEW q \in Queries, NEW w \in Queries, NEW m \in Floors,
                      Concepts(q) = Concepts(w)
               PROVE  /\ {p \in Gaps(graph, q, m) : p.kind # "REACHABILITY"}
                           = {p \in Gaps(graph, w, m) : p.kind # "REACHABILITY"}
                      /\ Grounded(graph, q, m) <=> Grounded(graph, w, m)
    BY DEF OrderInsensitive
  <2>1. /\ ExistenceGaps(graph, q) = ExistenceGaps(graph, w)
        /\ sub(q) = sub(w) /\ roots(q) = roots(w)
        /\ visible(q) = visible(w) /\ gated(q) = gated(w)
    BY OrderedAlike
  <2>2. {p \in Gaps(graph, q, m) : p.kind # "REACHABILITY"}
          = {p \in Gaps(graph, w, m) : p.kind # "REACHABILITY"}
    BY <2>1, GapKinds
  <2>3. q \in Seq(Names) /\ w \in Seq(Names)
    BY QueriesAssumption
  <2>4. ReachabilityGaps(sub(q), roots(q), visible(q), q) = {}
          <=> ReachabilityGaps(sub(w), roots(w), visible(w), w) = {}
    BY <2>1, <2>3, ReachabilityGapsExact
  <2>5. q # << >> <=> w # << >>
    <3>1. \A v \in Seq(Names) : v # << >> <=> Concepts(v) # {}
      <4> TAKE v \in Seq(Names)
      <4>1. ASSUME v # << >> PROVE Concepts(v) # {}
        <5>1. Len(v) \in Nat \ {0}
          BY <4>1, EmptySeq
        <5>2. 1 \in DOMAIN v
          BY <5>1
        <5> QED
          BY <5>2 DEF Concepts
      <4>2. v = << >> => Concepts(v) = {}
        BY DEF Concepts
      <4> QED
        BY <4>1, <4>2
    <3> QED
      BY <2>3, <3>1
  <2>6. Gaps(graph, q, m) = {} <=> Gaps(graph, w, m) = {}
    BY <2>1, <2>4, GapKinds
  <2> QED
    BY <2>2, <2>5, <2>6 DEF Grounded
<1> QED
  BY <1>1, StoreInvariant, PTL

\* A smaller company collects less.
LEMMA CollectedMonotone ==
  ASSUME IsGraph(graph), NEW q, NEW w, Concepts(w) \subseteq Concepts(q)
  PROVE  /\ Roots(graph, w) \subseteq Roots(graph, q)
         /\ Collected(graph, w) \subseteq Collected(graph, q)
         /\ Pathways(w) \subseteq Pathways(q)
<1>1. Roots(graph, w) \subseteq Roots(graph, q)
  BY DEF Roots
<1>2. Collected(graph, w) \subseteq Collected(graph, q)
  <2> DEFINE succ == TransitiveSucc(graph)
             T == ReachFrom(Roots(graph, q), succ)
  <2> HIDE DEF succ
  <2>1. T \in SUBSET DOMAIN succ /\ Roots(graph, w) \cap DOMAIN succ \subseteq T
    BY <1>1, ReachStart
  <2>2. \A i \in T : succ[i] \cap DOMAIN succ \subseteq T
    BY ReachClosed
  <2> HIDE DEF T
  <2>3. ReachFrom(Roots(graph, w), succ) \subseteq T
    BY <2>1, <2>2, ReachLeast
  <2> QED
    BY <2>3 DEF Collected, T, succ
<1> QED
  BY <1>1, <1>2 DEF Pathways

\* What is justified in company, at a floor, is justified alone at a lower one.
LEMMA JustifiedAlone ==
  ASSUME StoreInv, NEW q, NEW m \in Floors, Justified(q, m),
         NEW n \in Floors, n <= m, NEW c \in Concepts(q)
  PROVE  Justified(<<c>>, n)
<1>0. IsGraph(graph)
  BY DEF StoreInv, TypeOK
<1>1. <<c>> # << >> /\ Concepts(<<c>>) = {c}
  BY DEF Concepts
<1>2. \A k \in Concepts(<<c>>) : HoldersOf(graph, k) # {}
  BY <1>1 DEF Justified
<1>3. /\ Roots(graph, <<c>>) \subseteq Roots(graph, q)
      /\ Pathways(<<c>>) \subseteq Pathways(q)
  BY <1>0, <1>1, CollectedMonotone
<1>4. \A i \in Roots(graph, <<c>>) : GroundedTo(i, n)
  <2>1. 0..n \subseteq 0..m
    BY FloorsAssumption DEF Level, None
  <2> QED
    BY <1>3, <2>1 DEF Justified, GroundedTo
<1>5. \A e \in Pathways(<<c>>) : /\ GroundedTo(e.source, e.relatum.source_depth)
                                 /\ GroundedTo(e.relatum.target, e.relatum.target_depth)
  BY <1>3 DEF Justified
<1>6. \A i, j \in Roots(graph, <<c>>) : i = j
  BY <1>1 DEF Roots, StoreInv, UniqueNames
<1>7. Connected(<<c>>)
  BY <1>6 DEF Connected
<1> QED
  BY <1>1, <1>2, <1>4, <1>5, <1>7 DEF Justified

\* Without a bare level a concept that is grounded in company is grounded
\* alone, at the same floor or a lower one.
THEOREM NoConceptLaundered == Spec => []NoLaundering
<1>1. StoreInv => NoLaundering
  <2> SUFFICES ASSUME StoreInv, NoBareLevel, NEW q \in Queries, NEW m \in Floors,
                      Grounded(graph, q, m), NEW n \in Floors, n <= m, NEW c \in Concepts(q)
               PROVE  Grounded(graph, <<c>>, n)
    BY DEF NoLaundering
  <2>1. q \in Seq(Names)
    BY QueriesAssumption
  <2>2. <<c>> \in Seq(Names)
    <3>1. c \in Names
      BY <2>1 DEF Concepts
    <3> QED
      BY <3>1
  <2>3. Justified(<<c>>, n)
    BY <2>1, GroundedIsJustified, JustifiedAlone
  <2> QED
    BY <2>2, <2>3, JustifiedIsGrounded
<1> QED
  BY <1>1, StoreInvariant, PTL

-----------------------------------------------------------------------------
(* The trace *)

\* The frontier holds the targets of the edges that are visible from it.
LEMMA FrontierClosed ==
  ASSUME IsGraph(graph), NEW q, NEW e \in visible(q)
  PROVE  e.relatum.target \in Frontier(sub(q), roots(q))
<1> DEFINE V == VisibleEdges(sub(q))
           succ == SuccOver(sub(q), V)
           F == Frontier(sub(q), roots(q))
<1>1. e \in V /\ e.source \in F /\ e \in Pathways(q)
  BY SubgraphEdges DEF visible, LeavingOf, VisibleEdges, sub
<1>2. /\ DOMAIN succ = Collected(graph, q) /\ F = ReachFrom(roots(q), succ)
      /\ DOMAIN sub(q) = Collected(graph, q)
  BY SubgraphRows DEF SuccOver, sub, Frontier
<1>3. e.source \in Collected(graph, q) /\ e.relatum.target \in Collected(graph, q)
  BY <1>1, PathwayType
<1>4. e.relatum.target \in succ[e.source]
  <2> HIDE DEF V
  <2>1. succ[e.source] = {v.relatum.target : v \in {d \in V : d.source = e.source}}
    BY <1>2, <1>3 DEF SuccOver
  <2> QED
    BY <1>1, <2>1
<1> HIDE DEF succ, F
<1>5. e.relatum.target \in F
  BY <1>1, <1>2, <1>3, <1>4, ReachClosed
<1> QED
  BY <1>5 DEF F

\* The trace shows the relata of the pathway, all of them and no other, and of
\* every primitive an unbroken chain of levels from D0.
THEOREM TraceExact == Spec => []TraceMatchesPathway
<1>1. ASSUME IsGraph(graph), NEW q
      PROVE  Edges(Trace(graph, q)) = FrontierVisible(Subgraph(graph, q), Roots(graph, q))
  <2> DEFINE s == sub(q)
             F == Frontier(sub(q), roots(q))
             t == Trace(graph, q)
  <2>1. /\ DOMAIN t = F
        /\ \A i \in F : t[i].relata = {r \in s[i].relata : r.source_depth <= Known(s, i) /\ r.target \in F}
    BY DEF Trace, sub, roots
  <2>2. visible(q) = LeavingOf(VisibleEdges(s), F)
    BY DEF visible
  <2>3. \A e \in visible(q) : e.relatum.target \in F
    BY <1>1, FrontierClosed
  <2>4. F \subseteq DOMAIN s
    BY <1>1, FrontierBounds, SubgraphRows DEF sub
  <2>5. \A i \in F : \A r \in s[i].relata : Known(s, i) >= r.source_depth <=> r.source_depth <= Known(s, i)
    <3> TAKE i \in F
    <3> TAKE r \in s[i].relata
    <3>1. [source |-> i, relatum |-> r] \in Pathways(q)
      BY <1>1, <2>4, SubgraphEdges DEF Edges, sub
    <3>2. r.source_depth \in Level
      BY <1>1, <3>1, PathwayType
    <3> QED
      BY <3>2, KnownType DEF Level, None
  <2> HIDE DEF t, F, s
  <2>6. Edges(t) \subseteq visible(q)
    BY <2>1, <2>2, <2>4, <2>5 DEF Edges, VisibleEdges, LeavingOf
  <2>7. visible(q) \subseteq Edges(t)
    BY <2>1, <2>2, <2>3, <2>5 DEF Edges, VisibleEdges, LeavingOf
  <2> QED
    BY <2>2, <2>6, <2>7 DEF FrontierVisible, sub, roots, s, F, t
<1>2. ASSUME NEW q, NEW i \in DOMAIN Trace(graph, q), NEW l \in Level,
             Trace(graph, q)[i].depths[l] # "absent", NEW k \in 0..l
      PROVE  Trace(graph, q)[i].depths[k] # "absent"
  <2> DEFINE s == sub(q)
             d == Trace(graph, q)[i].depths
  <2>1. \A j \in Level : d[j] = IF j <= Known(s, i) THEN s[i].depths[j] ELSE "absent"
    BY <1>2 DEF Trace, sub, roots
  <2>2. l <= Known(s, i)
    BY <1>2, <2>1
  <2>3. Known(s, i) \in Level \cup {None} /\ 0..Known(s, i) \subseteq GroundingLevels(s[i])
    BY ContiguousMaxChain DEF Known, ContiguousMaxDepth
  <2>4. k \in Level /\ k <= Known(s, i) /\ k \in 0..Known(s, i)
    BY <2>2, <2>3 DEF Level, None
  <2>5. s[i].depths[k] # "absent"
    BY <2>3, <2>4 DEF GroundingLevels, Grounds
  <2> QED
    BY <2>1, <2>4, <2>5
<1>3. TypeOK => TraceMatchesPathway
  BY <1>1, <1>2 DEF TypeOK, TraceMatchesPathway
<1> QED
  BY <1>3, StoreTypeOK, PTL

=============================================================================
