------------------------------ MODULE Neo4jTxn ------------------------------
(***************************************************************************)
(* Neo4jRepository.save_primitive query by query, in transactions of a     *)
(* server that several clients share.  The server is external: a query     *)
(* reads what is committed, and the changes of its own transaction; writes *)
(* lock the nodes they touch, a relationship both its ends, and a name its *)
(* entry in the unique index.  A transaction that waits too long, or that  *)
(* waits for one that waits for it, is rolled back, and execute_write runs *)
(* it again from the start.                                                *)
(***************************************************************************)
EXTENDS DepthGraph, FiniteSets

CONSTANTS
  Clients,      \* each with its own driver session
  Drafts        \* the primitives they save

ASSUME Neo4jDraftsAssumption == \A p \in Drafts : p \in Primitive /\ WellFormed(p)
ASSUME Neo4jAssumption == Backend = "neo4j"

VARIABLES
  committed,   \* the nodes, with the relationships that leave them
  txn,         \* the transaction of each client: its save, how far it is, what it made
  last,        \* the answer of the last call that ended
  stayed       \* history: per client, the nodes that were there all through its transaction

vars == <<committed, txn, last, stayed>>

\* Drafts without some of their relata: the repository as whole calls, of
\* which each may have skipped relata.
PartialDrafts == UNION {{[p EXCEPT !.relata = S] : S \in SUBSET p.relata} : p \in Drafts}

Store == INSTANCE GraphStore WITH graph <- committed, result <- last, Drafts <- PartialDrafts

\* The repository as whole calls, nothing skipped but for want of a target.
Whole == INSTANCE GraphStore WITH graph <- committed, result <- last

Idle == [at |-> "idle"]

Init ==
  /\ committed = << >>
  /\ txn = [c \in Clients |-> Idle]
  /\ last = "ok"
  /\ stayed = [c \in Clients |-> {}]

-----------------------------------------------------------------------------
(* Locks and what a transaction sees *)

\* Fault: only the start of a relationship is locked.
LocksStart(c) ==
  IF txn[c].at \in {"idle", "begin"} THEN {} ELSE {txn[c].prim.id, txn[c].prim.name}

\* The nodes and names a transaction has locked so far: its own from the first
\* query, the ends of the relationships it deleted or created.
Locks(c) ==
  IF txn[c].at \in {"idle", "begin"} THEN {}
  ELSE {txn[c].prim.id, txn[c].prim.name} \cup {r.target : r \in txn[c].gone \cup txn[c].made}

Free(c, S) == \A d \in Clients \ {c} : Locks(d) \cap S = {}

\* Fault: the relationships the row had stay.
OverlaidMerged(g, p, relata) ==
  [j \in DOMAIN g \cup {p.id} |-> IF j # p.id THEN g[j]
     ELSE [p EXCEPT !.relata = relata \cup UNION {g[k].relata : k \in DOMAIN g \cap {p.id}}]]

\* The committed graph with p's row and the given relata in place.
Overlaid(g, p, relata) ==
  [j \in DOMAIN g \cup {p.id} |-> IF j = p.id THEN [p EXCEPT !.relata = relata] ELSE g[j]]

Goto(c, step) == txn' = [txn EXCEPT ![c] = step]

Leave(c, answer) == Goto(c, Idle) /\ last' = answer

-----------------------------------------------------------------------------
(* save_primitive *)

StartSave(c, p) ==
  /\ txn[c] = Idle
  /\ Goto(c, [at |-> "begin", prim |-> p, gone |-> {}, made |-> {}, todo |-> {}])
  /\ UNCHANGED <<committed, last>>

TransitiveRelata(p) == {r \in p.relata : r.rel_type \in TransitiveTypes}

\* Fault: no unique index.
MergeUnconstrained(c) ==
  /\ txn[c].at = "begin"
  /\ Free(c, {txn[c].prim.id})
  /\ Goto(c, [txn[c] EXCEPT !.at = "merged"])
  /\ UNCHANGED <<committed, last>>

\* MERGE (p {id}) SET ..: a name that is taken is a ConstraintError.
Merge(c) ==
  /\ txn[c].at = "begin"
  /\ Free(c, {txn[c].prim.id, txn[c].prim.name})
  /\ IF NameTaken(committed, txn[c].prim) THEN Leave(c, "name_taken")
     ELSE Goto(c, [txn[c] EXCEPT !.at = "merged"]) /\ UNCHANGED last
  /\ UNCHANGED committed

\* MATCH (p)-[r]->() DELETE r, once for each relation type.
DeleteRelationships(c) ==
  LET p   == txn[c].prim
      old == UNION {committed[k].relata : k \in DOMAIN committed \cap {p.id}}
  IN  /\ txn[c].at = "merged"
      /\ Free(c, {r.target : r \in old} \ {p.id})
      /\ Goto(c, [txn[c] EXCEPT !.at = "unlinked", !.gone = old, !.todo = TransitiveRelata(p)])
      /\ UNCHANGED <<committed, last>>

\* The target of r leads to p, in what is committed and without p's old relata.
LeadsBack(g, p, r) == p.id \in ReachFrom({r.target}, TransitiveSucc(Unlinked(g, p)))

\* _check_transitive_cycles: one query for each transitive relatum, each over
\* what others have committed by then.
CheckCycles(c) ==
  /\ txn[c].at = "unlinked"
  /\ \E r \in txn[c].todo :
       IF LeadsBack(committed, txn[c].prim, r) THEN Leave(c, "cyclic")
       ELSE Goto(c, [txn[c] EXCEPT !.todo = @ \ {r}]) /\ UNCHANGED last
  /\ UNCHANGED committed

\* The check returns; what is left are the relata to create.
Checked(c) ==
  /\ txn[c].at = "unlinked"
  /\ txn[c].todo = {}
  /\ Goto(c, [txn[c] EXCEPT !.at = "checked", !.todo = txn[c].prim.relata])
  /\ UNCHANGED <<committed, last>>

\* Fault: the node of the transaction itself is not found.
MatchedElsewhere(c, r) == r.target \in DOMAIN committed

\* MATCH (t {id: target}): a node that is committed, or that the transaction made.
Matched(c, r) == r.target \in DOMAIN committed \cup {txn[c].prim.id}

\* MATCH (s) MATCH (t) CREATE (s)-[..]->(t), once for each relatum.
Create(c) ==
  /\ txn[c].at = "checked"
  /\ \E r \in txn[c].todo :
       /\ Matched(c, r)
       /\ Free(c, {r.target})
       /\ Goto(c, [txn[c] EXCEPT !.made = @ \cup {r}, !.todo = @ \ {r}])
  /\ UNCHANGED <<committed, last>>

\* The same query where the MATCH finds no target: it creates nothing, raises
\* nothing, and is not run again if the target comes.
Skip(c) ==
  /\ txn[c].at = "checked"
  /\ \E r \in txn[c].todo : ~Matched(c, r) /\ Goto(c, [txn[c] EXCEPT !.todo = @ \ {r}])
  /\ UNCHANGED <<committed, last>>

Commit(c) ==
  /\ txn[c].at = "checked"
  /\ txn[c].todo = {}
  /\ committed' = Overlaid(committed, txn[c].prim, txn[c].made)
  /\ Leave(c, "ok")

\* A lock not granted in time, a deadlock the server breaks, a lost leader:
\* rolled back and run again.
Retry(c) ==
  /\ txn[c].at \notin {"idle", "begin"}
  /\ Goto(c, [txn[c] EXCEPT !.at = "begin", !.gone = {}, !.made = {}, !.todo = {}])
  /\ UNCHANGED <<committed, last>>

\* The driver stops retrying, or the client dies: nothing is committed.
Abort(c) ==
  /\ txn[c] # Idle
  /\ Goto(c, Idle)
  /\ UNCHANGED <<committed, last>>

-----------------------------------------------------------------------------
(* delete_primitive and clear: one query, which locks the nodes at both ends *)

Neighbours(S) ==
  {j \in DOMAIN committed : \E r \in committed[j].relata : r.target \in S}
    \cup UNION {{r.target : r \in committed[j].relata} : j \in S \cap DOMAIN committed}

Detach(c, S, answer) ==
  /\ txn[c] = Idle
  /\ Free(c, S \cup Neighbours(S))
  /\ committed' = Without(committed, S)
  /\ last' = answer
  /\ UNCHANGED txn

Delete(c, i) == Detach(c, {i}, IF i \in DOMAIN committed THEN "ok" ELSE "not_found")

ClearAll(c) == Detach(c, DOMAIN committed, "ok")

Query(c) ==
  \/ Merge(c) \/ DeleteRelationships(c) \/ CheckCycles(c) \/ Checked(c)
  \/ Create(c) \/ Skip(c) \/ Commit(c)

Step(c) ==
  \/ \E p \in Drafts : StartSave(c, p)
  \/ Query(c) \/ Retry(c) \/ Abort(c)
  \/ \E i \in Ids : Delete(c, i)
  \/ ClearAll(c)

\* The nodes that every query of a transaction could match.
Remember ==
  stayed' = [c \in Clients |-> IF txn'[c].at \in {"idle", "begin"} THEN {}
                               ELSE IF txn[c].at = "begin" THEN DOMAIN committed'
                               ELSE stayed[c] \cap DOMAIN committed']

Next == (\E c \in Clients : Step(c)) /\ Remember

Spec == Init /\ [][Next]_vars

-----------------------------------------------------------------------------

\* The drafts the cycle check may let through: none of their own relata lead
\* back to them.
Passing == {p \in Drafts : p.id \notin TransitiveTargets(p)}

\* Everything that such drafts relate to one another, in any order of saves.
DraftSucc == [i \in Ids |-> UNION {TransitiveTargets(p) : p \in {q \in Passing : q.id = i}}]

\* The transitive relata of the drafts follow an order, as those of a seed
\* script do: all of them together close no cycle.
DraftsOrdered == \A i \in Ids : i \notin ReachFrom(DraftSucc[i], DraftSucc)

\* Saves of ordered drafts are whole calls of the repository, however they
\* overlap, retries and lost clients included; but a save may leave out relata.
ImplementsStore == Store!Spec

\* And nothing left out, for saves that do not overlap where it matters.
ImplementsWholeStore == Whole!Spec

\* What a save leaves out was not there to be found: a relatum whose target
\* stayed all through the transaction is in what it is about to commit, retries
\* and deletes by others notwithstanding.
LinksWhatStays ==
  \A c \in Clients : txn[c].at = "checked" /\ txn[c].todo = {} =>
    \A r \in txn[c].prim.relata : r.target \in stayed[c] \cup {txn[c].prim.id} => r \in txn[c].made

\* Saves that do overlap still leave every name one node ...
UniqueNames == Store!UniqueNames

\* ... and every relationship both its ends: a relatum that was matched cannot
\* lose its target before it is committed.
NoDangling == Store!NoDangling

\* "Verify that no new transitive edge would create a cycle", inside the write
\* transaction.
Acyclic == Store!Acyclic

=============================================================================
