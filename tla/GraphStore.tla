----------------------------- MODULE GraphStore -----------------------------
(***************************************************************************)
(* The Repository: the operations of core/backends that change the stored  *)
(* graph, each one transaction.  Authors (seeders, scripts, integrators)   *)
(* call them with any primitive they hold, in any order.                   *)
(***************************************************************************)
EXTENDS DepthGraph, FiniteSets

CONSTANT Drafts    \* the primitives authors may hand to the repository

ASSUME DraftsAssumption == \A p \in Drafts : p \in Primitive /\ WellFormed(p)

VARIABLES
  graph,    \* the committed rows
  result    \* what the last call returned or raised

vars == <<graph, result>>

Init == graph = << >> /\ result = "ok"

\* save_primitive(p): refused whole, or committed whole.
SavePrimitive(p) ==
  /\ result' = SaveResult(graph, p)
  /\ graph' = IF result' = "ok" THEN Saved(graph, p) ELSE graph

\* upsert_primitive(p): the id of the holder of the name, if there is one,
\* replaces the id of p.
Canonical(g, p) ==
  IF HoldersOf(g, p.name) = {} THEN p
  ELSE [p EXCEPT !.id = CHOOSE i \in HoldersOf(g, p.name) : TRUE]

UpsertPrimitive(p) == SavePrimitive(Canonical(graph, p))

DeletePrimitive(i) ==
  /\ graph' = Without(graph, {i})
  /\ result' = IF i \in DOMAIN graph THEN "ok" ELSE "not_found"

Clear ==
  /\ graph' = Without(graph, DOMAIN graph)
  /\ result' = "ok"

Next ==
  \/ \E p \in Drafts : SavePrimitive(p) \/ UpsertPrimitive(p)
  \/ \E i \in Ids : DeletePrimitive(i)
  \/ Clear

Spec == Init /\ [][Next]_vars

-----------------------------------------------------------------------------
(* Properties *)

Results == {"ok", "name_taken", "cyclic", "dangling", "not_found"}

\* Type invariant: the rows are primitives stored under their own id and every
\* relatum hangs on a depth record that exists.
TypeOK == IsGraph(graph) /\ result \in Results

\* No call order and no full replace leaves a cycle of transitive relata, the
\* promise of _check_transitive_cycles.  Stated without a search: among any
\* primitives, one requires none of the others.
AcyclicGraph(g) ==
  \A S \in (SUBSET DOMAIN g) \ {{}} : \E i \in S : TransitiveTargets(g[i]) \cap S = {}

Acyclic == AcyclicGraph(graph)

\* Every stored relatum points at a stored primitive: the foreign keys of
\* SQLite, DETACH DELETE and the endpoint matches of Neo4j.  The grounding
\* engine raises GraphIntegrityError on anything else.
NoDangling == \A i \in DOMAIN graph : \A r \in graph[i].relata : r.target \in DOMAIN graph

\* A concept name has one primitive, whatever mix of saves, renames under an
\* old id, upserts and deletes produced the graph.
UniqueNames == \A i, j \in DOMAIN graph : graph[i].name = graph[j].name => i = j

\* Primitive j is as before, but for relata whose target is gone.
RowKept(j) ==
  graph'[j] = [graph[j] EXCEPT !.relata = {r \in graph[j].relata : r.target \in DOMAIN graph'}]

\* A step rewrites at most one primitive.  Every other one keeps its name,
\* its depths and its relata, and a relatum of it goes only with its target:
\* the full replace of a save never takes the incoming relata away.
OthersKept ==
  [][\A i, j \in DOMAIN graph \cap DOMAIN graph' : i # j => RowKept(i) \/ RowKept(j)]_vars

\* The cycle check refuses only what would really be a cycle: had the refused
\* primitive been stored, the graph would not be acyclic.
CyclicRefusalIsReal ==
  [][result' = "cyclic" =>
       \A p \in Drafts : SavePrimitive(p) => ~AcyclicGraph(Saved(graph, p))]_vars

=============================================================================
