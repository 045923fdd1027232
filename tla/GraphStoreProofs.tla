-------------------------- MODULE GraphStoreProofs --------------------------
(***************************************************************************)
(* What holds of the repository for every set of ids, names and drafts and *)
(* for both backends: the rows stay well typed, names stay unique, relata  *)
(* never dangle and the transitive relata never close a cycle.             *)
(***************************************************************************)
EXTENDS GraphStore, TLAPS

-----------------------------------------------------------------------------
(* Reachability: the three facts that say ReachFrom is a least closed set *)

\* The start nodes are reached.
LEMMA ReachStart ==
  ASSUME NEW S, NEW succ
  PROVE  S \cap DOMAIN succ \subseteq ReachFrom(S, succ) /\ ReachFrom(S, succ) \subseteq DOMAIN succ
BY DEF ReachFrom

\* What a reached node leads to is reached.
LEMMA ReachClosed ==
  ASSUME NEW S, NEW succ, NEW i \in ReachFrom(S, succ)
  PROVE  succ[i] \cap DOMAIN succ \subseteq ReachFrom(S, succ)
BY DEF ReachFrom

\* A closed set that holds the start nodes holds all that is reached.
LEMMA ReachLeast ==
  ASSUME NEW S, NEW succ, NEW T \in SUBSET DOMAIN succ,
         S \cap DOMAIN succ \subseteq T,
         \A i \in T : succ[i] \cap DOMAIN succ \subseteq T
  PROVE  ReachFrom(S, succ) \subseteq T
BY DEF ReachFrom

-----------------------------------------------------------------------------
(* The writes keep each part of the invariant *)

\* An upsert hands save_primitive a primitive, under an id that exists.
LEMMA CanonicalPrimitive ==
  ASSUME NEW g, IsGraph(g), NEW p \in Primitive, WellFormed(p)
  PROVE  Canonical(g, p) \in Primitive /\ WellFormed(Canonical(g, p))
<1>1. CASE HoldersOf(g, p.name) = {}
  BY <1>1 DEF Canonical
<1>2. CASE HoldersOf(g, p.name) # {}
  <2> DEFINE i == CHOOSE j \in HoldersOf(g, p.name) : TRUE
  <2>1. i \in Ids
    BY <1>2 DEF HoldersOf, IsGraph
  <2>2. Canonical(g, p) = [p EXCEPT !.id = i]
    BY <1>2 DEF Canonical
  <2> QED
    BY <2>1, <2>2 DEF Primitive, WellFormed
<1> QED
  BY <1>1, <1>2

\* A committed save leaves a graph of primitives.
LEMMA SavedIsGraph ==
  ASSUME NEW g, IsGraph(g), NEW p \in Primitive, WellFormed(p)
  PROVE  IsGraph(Saved(g, p))
<1>1. /\ StoredRow(g, p) \in Primitive /\ StoredRow(g, p).id = p.id
      /\ WellFormed(StoredRow(g, p))
  BY DEF StoredRow, Primitive, WellFormed
<1>2. p.id \in Ids
  BY DEF Primitive
<1> QED
  BY <1>1, <1>2 DEF Saved, IsGraph

\* A delete leaves a graph of primitives.
LEMMA WithoutIsGraph ==
  ASSUME NEW g, IsGraph(g), NEW S
  PROVE  IsGraph(Without(g, S))
<1> SUFFICES ASSUME NEW i \in DOMAIN g \ S
             PROVE  LET w == [g[i] EXCEPT !.relata = {r \in g[i].relata : r.target \notin S}]
                    IN  w \in Primitive /\ w.id = i /\ WellFormed(w)
  BY DEF Without, IsGraph
<1>1. g[i] \in Primitive /\ g[i].id = i /\ WellFormed(g[i])
  BY DEF IsGraph
<1> QED
  BY <1>1 DEF Primitive, WellFormed

\* The cycle check is enough: a primitive it lets through closes no cycle.
\* R is what the proposed targets lead to.  In a set T without an exit, the
\* part inside R is one of the old graph; if T misses R, the saved primitive
\* itself has no relatum into T.
LEMMA SavedAcyclic ==
  ASSUME NEW g, IsGraph(g), AcyclicGraph(g), NEW p \in Primitive, ~ClosesCycle(g, p)
  PROVE  AcyclicGraph(Saved(g, p))
<1> DEFINE h == Saved(g, p)
           D == DOMAIN g \cup {p.id}
           succ == TransitiveSucc(Unlinked(g, p))
           R == ReachFrom(TransitiveTargets(p), succ)
<1>1. DOMAIN h = D /\ DOMAIN succ = D
  BY DEF Saved, TransitiveSucc, Unlinked
<1>2. p.id \notin R
  BY DEF ClosesCycle
<1>3. \A i \in R : TransitiveTargets(g[i]) \cap D \subseteq R
  <2> TAKE i \in R
  <2>1. i \in DOMAIN g /\ i # p.id
    BY <1>1, <1>2, ReachStart
  <2>2. succ[i] = TransitiveTargets(g[i])
    BY <2>1 DEF TransitiveSucc, Unlinked
  <2> HIDE DEF succ
  <2> QED
    BY <1>1, <2>2, ReachClosed
<1>4. TransitiveTargets(h[p.id]) \subseteq R
  <2>1. TransitiveTargets(h[p.id]) \subseteq TransitiveTargets(p) \cap D
    <3>1. h[p.id] = StoredRow(g, p)
      BY DEF Saved
    <3>2. StoredRow(g, p).relata = {r \in p.relata : r.target \in D}
      BY DEF StoredRow, Primitive
    <3> QED
      BY <3>1, <3>2 DEF TransitiveTargets
  <2>2. TransitiveTargets(p) \cap D \subseteq R
    BY <1>1, ReachStart
  <2> QED
    BY <2>1, <2>2
<1>5. \A i \in DOMAIN g \ {p.id} : h[i] = g[i]
  BY DEF Saved
<1>6. R \subseteq D
  BY <1>1, ReachStart
<1> HIDE DEF h, R, succ
<1> SUFFICES ASSUME NEW T \in SUBSET D, T # {}
             PROVE  \E i \in T : TransitiveTargets(h[i]) \cap T = {}
  BY <1>1 DEF AcyclicGraph, h
<1>7. CASE T \cap R # {}
  <2>1. PICK i \in T \cap R : TransitiveTargets(g[i]) \cap (T \cap R) = {}
    <3>1. T \cap R \in (SUBSET DOMAIN g) \ {{}}
      BY <1>2, <1>6, <1>7
    <3> QED
      BY <3>1 DEF AcyclicGraph
  <2>2. h[i] = g[i]
    BY <1>2, <1>5, <1>6
  <2> QED
    BY <2>1, <2>2, <1>3
<1>8. CASE T \cap R = {} /\ p.id \in T
  BY <1>8, <1>4
<1>9. CASE p.id \notin T
  <2>1. PICK i \in T : TransitiveTargets(g[i]) \cap T = {}
    <3>1. T \in (SUBSET DOMAIN g) \ {{}}
      BY <1>9
    <3> QED
      BY <3>1 DEF AcyclicGraph
  <2> QED
    BY <2>1, <1>5, <1>9
<1> QED
  BY <1>7, <1>8, <1>9

\* Taking primitives away takes relata away only.
LEMMA WithoutAcyclic ==
  ASSUME NEW g, IsGraph(g), AcyclicGraph(g), NEW S
  PROVE  AcyclicGraph(Without(g, S))
<1> DEFINE h == Without(g, S)
<1>1. DOMAIN h = DOMAIN g \ S
  BY DEF Without
<1>2. \A i \in DOMAIN h : TransitiveTargets(h[i]) \subseteq TransitiveTargets(g[i])
  <2> TAKE i \in DOMAIN h
  <2>1. h[i].relata \subseteq g[i].relata
    BY <1>1 DEF Without, IsGraph, Primitive
  <2> HIDE DEF h
  <2> QED
    BY <2>1 DEF TransitiveTargets
<1> HIDE DEF h
<1> SUFFICES ASSUME NEW T \in (SUBSET DOMAIN h) \ {{}}
             PROVE  \E i \in T : TransitiveTargets(h[i]) \cap T = {}
  BY DEF AcyclicGraph, h
<1>3. PICK i \in T : TransitiveTargets(g[i]) \cap T = {}
  BY <1>1 DEF AcyclicGraph
<1> QED
  BY <1>2, <1>3

-----------------------------------------------------------------------------
(* The invariant of the store, and what follows for every behaviour *)

\* Together the four invariants are inductive: a save keeps the relata inside
\* the graph because the rows it keeps already were, and refuses a second
\* holder of a name because the rows it keeps have different names.
StoreInv == TypeOK /\ Acyclic /\ NoDangling /\ UniqueNames

\* An empty store satisfies the invariant.
LEMMA InitStoreInv == Init => StoreInv
<1> SUFFICES ASSUME Init PROVE StoreInv
  OBVIOUS
<1>1. DOMAIN graph = {}
  BY DEF Init
<1> QED
  BY <1>1 DEF Init, StoreInv, TypeOK, Results, IsGraph, Acyclic, AcyclicGraph, NoDangling,
              UniqueNames

\* save_primitive, called by an author or by upsert_primitive.
LEMMA SaveStoreInv ==
  ASSUME StoreInv, NEW p \in Primitive, WellFormed(p), SavePrimitive(p)
  PROVE  StoreInv'
<1>1. result' = SaveResult(graph, p) /\ result' \in Results
  BY DEF SavePrimitive, SaveResult, Results
<1>2. CASE result' # "ok"
  <2>1. graph' = graph
    BY <1>2 DEF SavePrimitive
  <2> QED
    BY <2>1, <1>1 DEF StoreInv, TypeOK, Acyclic, NoDangling, UniqueNames
<1>3. CASE result' = "ok"
  <2>1. graph' = Saved(graph, p) /\ ~NameTaken(graph, p) /\ ~ClosesCycle(graph, p)
    BY <1>1, <1>3 DEF SavePrimitive, SaveResult
  <2>2. TypeOK'
    BY <2>1, <1>1, SavedIsGraph DEF StoreInv, TypeOK
  <2>3. Acyclic'
    BY <2>1, SavedAcyclic DEF StoreInv, TypeOK, Acyclic
  <2>4. NoDangling'
    <3>1. \A r \in StoredRow(graph, p).relata : r.target \in DOMAIN graph \cup {p.id}
      BY DEF StoredRow, Primitive
    <3> QED
      BY <2>1, <3>1 DEF StoreInv, NoDangling, Saved
  <2>5. UniqueNames'
    <3>1. StoredRow(graph, p).name = p.name
      BY DEF StoredRow, Primitive
    <3>2. \A j \in DOMAIN graph \ {p.id} : graph[j].name # p.name
      BY <2>1 DEF NameTaken
    <3> QED
      BY <2>1, <3>1, <3>2 DEF StoreInv, UniqueNames, Saved
  <2> QED
    BY <2>2, <2>3, <2>4, <2>5 DEF StoreInv
<1> QED
  BY <1>2, <1>3

\* delete_primitive and clear: the rows of S go.
LEMMA WithoutStoreInv ==
  ASSUME StoreInv, NEW S, graph' = Without(graph, S), result' \in Results
  PROVE  StoreInv'
<1>1. TypeOK'
  BY WithoutIsGraph DEF StoreInv, TypeOK
<1>2. Acyclic'
  BY WithoutAcyclic DEF StoreInv, TypeOK, Acyclic
<1>3. \A i \in DOMAIN graph' : /\ i \in DOMAIN graph \ S
                               /\ graph'[i].name = graph[i].name
                               /\ graph'[i].relata = {r \in graph[i].relata : r.target \notin S}
  BY DEF StoreInv, TypeOK, IsGraph, Primitive, Without
<1>4. DOMAIN graph' = DOMAIN graph \ S
  BY DEF Without
<1>5. NoDangling'
  BY <1>3, <1>4 DEF StoreInv, NoDangling
<1>6. UniqueNames'
  BY <1>3 DEF StoreInv, UniqueNames
<1> QED
  BY <1>1, <1>2, <1>5, <1>6 DEF StoreInv

\* Every call of the repository, and a stutter, keeps the invariant.
LEMMA NextStoreInv == StoreInv /\ [Next]_vars => StoreInv'
<1> SUFFICES ASSUME StoreInv, [Next]_vars PROVE StoreInv'
  OBVIOUS
<1>1. CASE \E p \in Drafts : SavePrimitive(p)
  BY <1>1, SaveStoreInv, DraftsAssumption
<1>2. CASE \E p \in Drafts : UpsertPrimitive(p)
  <2>1. PICK p \in Drafts : SavePrimitive(Canonical(graph, p))
    BY <1>2 DEF UpsertPrimitive
  <2>2. Canonical(graph, p) \in Primitive /\ WellFormed(Canonical(graph, p))
    BY CanonicalPrimitive, DraftsAssumption DEF StoreInv, TypeOK
  <2> QED
    BY <2>1, <2>2, SaveStoreInv
<1>3. CASE \E i \in Ids : DeletePrimitive(i)
  BY <1>3, WithoutStoreInv DEF DeletePrimitive, Results
<1>4. CASE Clear
  BY <1>4, WithoutStoreInv DEF Clear, Results
<1>5. CASE UNCHANGED vars
  BY <1>5 DEF vars, StoreInv, TypeOK, Acyclic, NoDangling, UniqueNames
<1> QED
  BY <1>1, <1>2, <1>3, <1>4, <1>5 DEF Next

\* No order of saves, upserts, deletes and clears breaks the store's invariant.
THEOREM StoreInvariant == Spec => []StoreInv
BY InitStoreInv, NextStoreInv, PTL DEF Spec

\* The rows of the store are primitives under their own id whose relata hang
\* on recorded levels, after any calls.
THEOREM StoreTypeOK == Spec => []TypeOK
<1>1. StoreInv => TypeOK
  BY DEF StoreInv
<1> QED
  BY <1>1, StoreInvariant, PTL

\* No sequence of saves, upserts, deletes and clears, refused or committed,
\* leaves a cycle of transitive relata.
THEOREM StoreAcyclic == Spec => []Acyclic
<1>1. StoreInv => Acyclic
  BY DEF StoreInv
<1> QED
  BY <1>1, StoreInvariant, PTL

\* Every stored relatum has a stored target, on either backend.
THEOREM StoreNoDangling == Spec => []NoDangling
<1>1. StoreInv => NoDangling
  BY DEF StoreInv
<1> QED
  BY <1>1, StoreInvariant, PTL

\* Every concept name has at most one primitive.
THEOREM StoreUniqueNames == Spec => []UniqueNames
<1>1. StoreInv => UniqueNames
  BY DEF StoreInv
<1> QED
  BY <1>1, StoreInvariant, PTL

-----------------------------------------------------------------------------
(* What a step may do *)

\* A save replaces one row, a delete removes one, clear leaves none to keep.
THEOREM StoreOthersKept == Spec => OthersKept
<1> DEFINE Step == \A i, j \in DOMAIN graph \cap DOMAIN graph' : i # j => RowKept(i) \/ RowKept(j)
<1>1. StoreInv /\ [Next]_vars => [Step]_vars
  <2> SUFFICES ASSUME StoreInv, Next PROVE Step
    OBVIOUS
  <2>1. \A j \in DOMAIN graph : /\ graph[j] \in Primitive /\ j \in Ids
                                /\ \A r \in graph[j].relata : r.target \in DOMAIN graph
    BY DEF StoreInv, TypeOK, IsGraph, NoDangling
  <2>2. ASSUME NEW p \in Primitive, SavePrimitive(p) PROVE Step
    <3>1. graph' = graph \/ graph' = Saved(graph, p)
      BY <2>2 DEF SavePrimitive
    <3>2. DOMAIN graph \subseteq DOMAIN graph' /\ \A j \in DOMAIN graph \ {p.id} : graph'[j] = graph[j]
      BY <3>1 DEF Saved
    <3>3. ASSUME NEW j \in DOMAIN graph, j # p.id PROVE RowKept(j)
      <4>1. {r \in graph[j].relata : r.target \in DOMAIN graph'} = graph[j].relata
        BY <2>1, <3>2
      <4>2. [graph[j] EXCEPT !.relata = graph[j].relata] = graph[j]
        BY <2>1 DEF Primitive
      <4> QED
        BY <3>2, <3>3, <4>1, <4>2 DEF RowKept
    <3> QED
      BY <3>3
  <2>3. ASSUME NEW S, graph' = Without(graph, S)
        PROVE  Step
    <3>1. DOMAIN graph' = DOMAIN graph \ S
      BY <2>3 DEF Without
    <3>2. ASSUME NEW j \in DOMAIN graph' PROVE RowKept(j)
      <4>1. {r \in graph[j].relata : r.target \in DOMAIN graph'}
              = {r \in graph[j].relata : r.target \notin S}
        BY <2>1, <3>1, <3>2
      <4>2. graph'[j] = [graph[j] EXCEPT !.relata = {r \in graph[j].relata : r.target \notin S}]
        BY <2>3, <3>1, <3>2 DEF Without
      <4> QED
        BY <4>1, <4>2 DEF RowKept
    <3> QED
      BY <3>2
  <2>4. CASE \E p \in Drafts : SavePrimitive(p)
    BY <2>2, <2>4, DraftsAssumption
  <2>5. CASE \E p \in Drafts : UpsertPrimitive(p)
    <3>1. PICK p \in Drafts : SavePrimitive(Canonical(graph, p))
      BY <2>5 DEF UpsertPrimitive
    <3>2. Canonical(graph, p) \in Primitive
      BY CanonicalPrimitive, DraftsAssumption DEF StoreInv, TypeOK
    <3> QED
      BY <2>2, <3>1, <3>2
  <2>6. CASE \E i \in Ids : DeletePrimitive(i)
    BY <2>3, <2>6 DEF DeletePrimitive
  <2>7. CASE Clear
    BY <2>3, <2>7 DEF Clear
  <2> QED
    BY <2>4, <2>5, <2>6, <2>7 DEF Next
<1>2. Spec => [][Step]_vars
  BY <1>1, StoreInvariant, PTL DEF Spec
<1> QED
  BY <1>2 DEF OthersKept

\* The cycle check is exact: what it refuses would leave a set without an exit,
\* the primitives that lead to the refused one.
LEMMA RefusedIsCyclic ==
  ASSUME NEW g, NEW p \in Primitive, ClosesCycle(g, p)
  PROVE  ~AcyclicGraph(Saved(g, p))
<1> DEFINE h == Saved(g, p)
           D == DOMAIN g \cup {p.id}
           succ == TransitiveSucc(Unlinked(g, p))
           S == {i \in D : p.id \in ReachFrom({i}, succ)}
<1>1. DOMAIN h = D /\ DOMAIN succ = D
  BY DEF Saved, TransitiveSucc, Unlinked
<1>2. p.id \in ReachFrom(TransitiveTargets(p), succ)
  BY DEF ClosesCycle
<1>3. \A i \in D : i # p.id => TransitiveTargets(h[i]) = succ[i]
  BY DEF Saved, TransitiveSucc, Unlinked
<1>4. TransitiveTargets(p) \cap D \subseteq TransitiveTargets(h[p.id])
  <2>1. h[p.id] = StoredRow(g, p)
    BY DEF Saved
  <2>2. StoredRow(g, p).relata = {r \in p.relata : r.target \in D}
    BY DEF StoredRow, Primitive
  <2> HIDE DEF h, D
  <2> QED
    BY <2>1, <2>2 DEF TransitiveTargets
<1> HIDE DEF succ, h
<1>5. p.id \in S
  BY <1>1, ReachStart
<1>6. \A j \in D \ S : succ[j] \cap D \subseteq D \ S
  <2> SUFFICES ASSUME NEW j \in D, NEW k \in succ[j] \cap D, k \in S PROVE j \in S
    OBVIOUS
  <2>1. k \in ReachFrom({j}, succ)
    <3>1. j \in ReachFrom({j}, succ)
      BY <1>1, ReachStart
    <3> QED
      BY <1>1, <3>1, ReachClosed
  <2>2. ReachFrom({k}, succ) \subseteq ReachFrom({j}, succ)
    <3>1. ReachFrom({j}, succ) \in SUBSET DOMAIN succ
      BY ReachStart
    <3>2. \A i \in ReachFrom({j}, succ) : succ[i] \cap DOMAIN succ \subseteq ReachFrom({j}, succ)
      BY ReachClosed
    <3> QED
      BY <2>1, <3>1, <3>2, ReachLeast
  <2> QED
    BY <2>2
<1>7. ASSUME NEW i \in S, i # p.id PROVE succ[i] \cap S # {}
  <2> SUFFICES ASSUME succ[i] \cap S = {} PROVE FALSE
    OBVIOUS
  <2> DEFINE T == {i} \cup (D \ S)
  <2>1. T \in SUBSET DOMAIN succ /\ {i} \cap DOMAIN succ \subseteq T
    BY <1>1
  <2>2. \A j \in T : succ[j] \cap DOMAIN succ \subseteq T
    BY <1>1, <1>6
  <2>3. p.id \notin T
    BY <1>5, <1>7
  <2> HIDE DEF T
  <2>4. ReachFrom({i}, succ) \subseteq T
    BY <2>1, <2>2, ReachLeast
  <2> QED
    BY <2>3, <2>4
<1>8. TransitiveTargets(p) \cap S # {}
  <2> SUFFICES ASSUME TransitiveTargets(p) \cap S = {} PROVE FALSE
    OBVIOUS
  <2> DEFINE T == D \ S
  <2>1. T \in SUBSET DOMAIN succ /\ TransitiveTargets(p) \cap DOMAIN succ \subseteq T
    BY <1>1
  <2>2. \A j \in T : succ[j] \cap DOMAIN succ \subseteq T
    BY <1>1, <1>6
  <2>3. p.id \notin T
    BY <1>5
  <2> HIDE DEF T
  <2>4. ReachFrom(TransitiveTargets(p), succ) \subseteq T
    BY <2>1, <2>2, ReachLeast
  <2> QED
    BY <1>2, <2>3, <2>4
<1>9. \A i \in S : TransitiveTargets(h[i]) \cap S # {}
  <2> TAKE i \in S
  <2>1. CASE i = p.id
    BY <1>4, <1>8, <2>1
  <2>2. CASE i # p.id
    BY <1>3, <1>7, <2>2
  <2> QED
    BY <2>1, <2>2
<1> QED
  BY <1>1, <1>5, <1>9 DEF AcyclicGraph, h

\* No save is refused for a cycle that would not have been one.
THEOREM StoreRefusals == Spec => CyclicRefusalIsReal
<1> DEFINE Step == result' = "cyclic" =>
      \A p \in Drafts : SavePrimitive(p) => ~AcyclicGraph(Saved(graph, p))
<1>1. Step
  <2> SUFFICES ASSUME result' = "cyclic", NEW p \in Drafts, SavePrimitive(p)
               PROVE  ~AcyclicGraph(Saved(graph, p))
    OBVIOUS
  <2>1. ClosesCycle(graph, p)
    BY DEF SavePrimitive, SaveResult
  <2> QED
    BY <2>1, RefusedIsCyclic, DraftsAssumption
<1>2. Spec => [][Step]_vars
  BY <1>1, PTL DEF Spec
<1> QED
  BY <1>2 DEF CyclicRefusalIsReal

=============================================================================
