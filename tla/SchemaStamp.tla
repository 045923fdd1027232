----------------------------- MODULE SchemaStamp -----------------------------
(***************************************************************************)
(* Opening a store: the version of the persisted format is stamped on a    *)
(* fresh store and compared on any other.  SQLite reads it and stamps it   *)
(* in two statements, Neo4j in one MERGE on a node of which its constraint *)
(* allows one.                                                             *)
(***************************************************************************)
EXTENDS Naturals

CONSTANT Build    \* the CURRENT_SCHEMA_VERSION each process was built with

Openers == DOMAIN Build

ASSUME BuildAssumption == Build \in [Openers -> Nat \ {0}]

VARIABLES
  backend,   \* the store the processes share: "sqlite" or "neo4j"
  stamp,     \* user_version, or the version of the VREMeta node; 0 on a fresh store
  opener,    \* where each process is in the constructor, and what came of it
  raced      \* history: a process read the version while another one had read a fresh store

stampVars == <<backend, stamp, opener, raced>>

StampInit ==
  /\ backend \in {"sqlite", "neo4j"}
  /\ stamp = 0
  /\ opener = [o \in Openers |-> "closed"]
  /\ raced = FALSE

Become(o, state) == opener' = [opener EXCEPT ![o] = state]

\* Fault: a store older than the build proceeds.
OlderProceeds(o, found) == Become(o, IF found <= Build[o] THEN "open" ELSE "refused")

\* reconcile_schema_version: only the own version proceeds.
Reconcile(o, found) == Become(o, IF found = Build[o] THEN "open" ELSE "refused")

\* SQLite: PRAGMA user_version, after the connection has created the tables.
ReadVersion(o) ==
  /\ backend = "sqlite"
  /\ opener[o] = "closed"
  /\ IF stamp = 0 THEN Become(o, "fresh") ELSE Reconcile(o, stamp)
  /\ raced' = (raced \/ \E p \in Openers : opener[p] = "fresh")
  /\ UNCHANGED <<backend, stamp>>

\* SQLite: PRAGMA user_version = CURRENT_SCHEMA_VERSION
Stamp(o) ==
  /\ opener[o] = "fresh"
  /\ stamp' = Build[o]
  /\ Become(o, "open")
  /\ UNCHANGED <<backend, raced>>

\* Neo4j: MERGE .. ON CREATE SET .. RETURN, one write transaction.
MergeMarker(o) ==
  /\ backend = "neo4j"
  /\ opener[o] = "closed"
  /\ stamp' = IF stamp = 0 THEN Build[o] ELSE stamp
  /\ Reconcile(o, stamp')
  /\ UNCHANGED <<backend, raced>>

Open(o) == ReadVersion(o) \/ Stamp(o) \/ MergeMarker(o)

\* close(), or the end of the processes in S at any step.
Close(S) ==
  /\ opener' = [o \in Openers |-> IF o \in S THEN "closed" ELSE opener[o]]
  /\ UNCHANGED <<backend, stamp, raced>>

\* Whoever works on the store was built for the format it is in, for as long as
\* the repository is open: "Only `disk == current` proceeds".  On SQLite, unless
\* a process came while another one was opening a store still fresh.
OpenMatches == ~raced => \A o \in Openers : opener[o] = "open" => stamp = Build[o]

=============================================================================
