----------------------------- MODULE DepthGraph -----------------------------
(***************************************************************************)
(* The epistemic graph as data: primitives with depth levels D0..D4, typed *)
(* relata between them, and the pure functions of vre/core/models.py and   *)
(* of the two backends that every other module is built from.              *)
(*                                                                         *)
(* A graph is a function from the ids of the stored primitives to the      *)
(* primitives.  A name is its fold key (Primitive.fold_name): two names    *)
(* that differ only by case are the same element of Names.  The properties *)
(* of a depth record are reduced to what the code tells apart: no record,  *)
(* a record without properties, or one with properties and the provenance  *)
(* they came with.  The relata of a primitive carry the level they hang    *)
(* on, as the rows of the relata table do.                                 *)
(***************************************************************************)
EXTENDS Integers

CONSTANTS
  Ids,      \* the UUIDs
  Names,    \* the fold keys of the concept names
  Backend   \* which Repository implementation: "sqlite" or "neo4j"

ASSUME BackendAssumption == Backend \in {"sqlite", "neo4j"}

Level == 0..4          \* DepthLevel: EXISTENCE .. IMPLICATIONS
None  == -1            \* the None of "DepthLevel | None": below every level

RelationType == {"APPLIES_TO", "REQUIRES", "CONSTRAINED_BY", "DEPENDS_ON", "INCLUDES"}
TransitiveTypes == {"REQUIRES", "CONSTRAINED_BY", "DEPENDS_ON"}

Content == {"absent", "empty", "authored", "learned"}

Relatum == [rel_type : RelationType, source_depth : Level,
            target : Ids, target_depth : Level]

Primitive == [id : Ids, name : Names, depths : [Level -> Content],
              relata : SUBSET Relatum]

(***************************************************************************)
(* A relatum lives inside a Depth object, so its level has a record.       *)
(***************************************************************************)
WellFormed(p) == \A r \in p.relata : p.depths[r.source_depth] # "absent"

IsGraph(g) ==
  /\ DOMAIN g \subseteq Ids
  /\ \A i \in DOMAIN g : g[i] \in Primitive /\ g[i].id = i /\ WellFormed(g[i])

-----------------------------------------------------------------------------
(* Depth levels *)

\* Depth.grounds: D0 by its mere presence, a deeper record by having content.
Grounds(p, l) ==
  /\ p.depths[l] # "absent"
  /\ \/ l = 0
     \/ p.depths[l] # "empty"
     \/ \E r \in p.relata : r.source_depth = l

GroundingLevels(p) == {l \in Level : Grounds(p, l)}

\* The highest level of the unbroken chain from D0, None when D0 is missing.
ContiguousMax(levels) ==
  LET chain == {l \in Level \cup {None} : 0..l \subseteq levels}
  IN  CHOOSE m \in chain : \A l \in chain : l <= m

ContiguousMaxDepth(p) == ContiguousMax(GroundingLevels(p))

\* Faults: the whole span, holes or not; and a span that stops one short.
MissingSpan(present, current, required) == {l \in Level : current < l /\ l <= required}
MissingShort(present, current, required) ==
  {l \in Level : current < l /\ l < required /\ l \notin present}

\* The holes a fill must author to get from current to required.
MissingDepthLevels(present, current, required) ==
  {l \in Level : current < l /\ l <= required /\ l \notin present}

-----------------------------------------------------------------------------
(* Reachability *)

(***************************************************************************)
(* The nodes reached from the set S along succ: the least set that holds S *)
(* and is closed under succ.  It is what the recursive CTE of SQLite, the  *)
(* variable-length path of Cypher and the stack searches of the grounding  *)
(* engine compute.                                                         *)
(***************************************************************************)
ReachFrom(S, succ) ==
  LET D == DOMAIN succ
      closed == {T \in SUBSET D : S \cap D \subseteq T /\ \A i \in T : succ[i] \cap D \subseteq T}
  IN  {n \in D : \A T \in closed : n \in T}

TransitiveTargets(p) ==
  {r.target : r \in {s \in p.relata : s.rel_type \in TransitiveTypes}}

TransitiveSucc(g) == [i \in DOMAIN g |-> TransitiveTargets(g[i])]

-----------------------------------------------------------------------------
(* Reads and writes of one primitive *)

\* find_by_name: the ids whose stored fold key is n (at most one).
HoldersOf(g, n) == {i \in DOMAIN g : g[i].name = n}

\* The graph inside the transaction of save_primitive after the row of p was
\* written and its old outgoing relata deleted, before the new ones are in.
Unlinked(g, p) ==
  [j \in DOMAIN g \cup {p.id} |-> IF j = p.id THEN [p EXCEPT !.relata = {}] ELSE g[j]]

\* Fault: the name of a primitive that exists already is not looked at.
NameTakenByNew(g, p) == p.id \notin DOMAIN g /\ \E j \in DOMAIN g : g[j].name = p.name

\* The unique index on the fold key.
NameTaken(g, p) == \E j \in DOMAIN g \ {p.id} : g[j].name = p.name

\* Faults: only a relatum to itself is a cycle; and relata of every type count.
ClosesCycleDirectly(g, p) == p.id \in TransitiveTargets(p)
ClosesCycleOfAnyType(g, p) ==
  p.id \in ReachFrom({r.target : r \in p.relata},
                     [i \in DOMAIN g |-> {r.target : r \in g[i].relata}])

\* _check_transitive_cycles: a proposed transitive target is the primitive
\* itself, or leads to it over the transitive relata of the others.
ClosesCycle(g, p) ==
  p.id \in ReachFrom(TransitiveTargets(p), TransitiveSucc(Unlinked(g, p)))

\* A relatum to an id without a row: the foreign key of SQLite.
Dangles(g, p) == \E r \in p.relata : r.target \notin DOMAIN g \cup {p.id}

\* What save_primitive answers, its checks in their order: the unique index
\* when the row is written, the cycle check, the foreign key on the relata.
SaveResult(g, p) ==
  IF NameTaken(g, p) THEN "name_taken"
  ELSE IF ClosesCycle(g, p) THEN "cyclic"
  ELSE IF Backend = "sqlite" /\ Dangles(g, p) THEN "dangling"
  ELSE "ok"

\* Fault: the old relata are not deleted.
StoredRowMerged(g, p) ==
  [p EXCEPT !.relata = @ \cup UNION {g[j].relata : j \in DOMAIN g \cap {p.id}}]

\* The rows an accepted save leaves for p.  Neo4j creates a relationship by
\* matching both endpoints, so one to a missing node is not created.
StoredRow(g, p) ==
  [p EXCEPT !.relata = {r \in p.relata : r.target \in DOMAIN g \cup {p.id}}]

\* Fault: the row is deleted and inserted again, and the delete cascades.
SavedAnew(g, p) ==
  [j \in DOMAIN g \cup {p.id} |->
     IF j = p.id THEN StoredRow(g, p)
     ELSE [g[j] EXCEPT !.relata = {r \in g[j].relata : r.target # p.id}]]

\* The graph an accepted save commits: the row and the outgoing relata of p
\* are replaced as a whole, everything else is kept.
Saved(g, p) ==
  [j \in DOMAIN g \cup {p.id} |-> IF j = p.id THEN StoredRow(g, p) ELSE g[j]]

\* Fault: no cascade.
WithoutRows(g, S) == [j \in DOMAIN g \ S |-> g[j]]

\* Without the primitives of S: their rows, and by cascade the relata that
\* leave them or point at them.
Without(g, S) ==
  [j \in DOMAIN g \ S |-> [g[j] EXCEPT !.relata = {r \in g[j].relata : r.target \notin S}]]

=============================================================================
