------------------------------ MODULE StoreTxn ------------------------------
(***************************************************************************)
(* SQLiteRepository statement by statement.  Each connection is a process  *)
(* with its own SQLiteRepository on one database file in WAL mode: a read  *)
(* statement sees the commits before it, the first write of a transaction  *)
(* takes the only write lock, and what is not committed is lost with the   *)
(* process.  A statement is one step; anything may happen in between.      *)
(*                                                                         *)
(* GraphStore says what a whole call does; this module shows that the      *)
(* statements do just that.                                                *)
(***************************************************************************)
EXTENDS Grounding

CONSTANTS
  Writers,     \* the connections that write
  Readers,     \* the connections that read; one may do both
  NoConn,      \* no connection
  Drafts,      \* the primitives callers may hand in
  Queries,     \* the names callers resolve, as sequences
  MaxSeen      \* bound: the graphs one read may live to see

\* The open connections to the database file.
Conns == Writers \cup Readers

ASSUME TxnDraftsAssumption == \A p \in Drafts : p \in Primitive /\ WellFormed(p)
ASSUME NoConnAssumption == NoConn \notin Conns
ASSUME MaxSeenAssumption == MaxSeen \in Nat
ASSUME SQLiteAssumption == Backend = "sqlite"

VARIABLES
  committed,   \* the rows on disk
  lock,        \* the connection that holds the write lock
  work,        \* the rows as its transaction sees them
  call,        \* what each connection is in the middle of
  last,        \* the answer of the last write that was refused, or committed
  open,        \* the connections on which an interrupted save left its transaction open
  pinned,      \* the rows the reads of such a transaction are held to, once one has read
  seen         \* history: the graphs each connection's read could have seen

vars == <<committed, lock, work, call, last, open, pinned, seen>>

\* The repository as whole calls.  An upsert may save a draft under any id.
StoreDrafts == {[p EXCEPT !.id = i] : p \in Drafts, i \in Ids}

Store == INSTANCE GraphStore WITH graph <- committed, result <- last, Drafts <- StoreDrafts

Idle == [op |-> "idle"]

Writing == {"begin", "row", "unlinked", "insert"}

\* Rows without the lock holder's changes, or with them for itself; in a
\* transaction that has read and not written, those of its first read.
View(c) ==
  IF lock = c THEN work ELSE IF pinned[c] = {} THEN committed ELSE CHOOSE g \in pinned[c] : TRUE

Init ==
  /\ committed = << >>
  /\ lock = NoConn
  /\ work = << >>
  /\ call = [c \in Conns |-> Idle]
  /\ last = "ok"
  /\ open = {}
  /\ pinned = [c \in Conns |-> {}]
  /\ seen = [c \in Conns |-> {}]

Goto(c, step) == call' = [call EXCEPT ![c] = step]

\* The connection has no transaction any more.
Close(c) == open' = open \ {c} /\ pinned' = [pinned EXCEPT ![c] = {}]

-----------------------------------------------------------------------------
(* Ends of a transaction *)

\* Fault: the rows written so far stay.
RollbackKeeping(c) ==
  /\ Close(c)
  /\ IF lock = c THEN /\ lock' = NoConn
                      /\ committed' = work
                      /\ UNCHANGED work
     ELSE UNCHANGED <<committed, lock, work>>

\* rollback(), or the recovery of the WAL after a crash.
Rollback(c) ==
  /\ Close(c)
  /\ IF lock = c THEN /\ lock' = NoConn
                      /\ work' = committed
                      /\ UNCHANGED committed
     ELSE UNCHANGED <<committed, lock, work>>

Refuse(c, answer) == Rollback(c) /\ last' = answer /\ Goto(c, Idle)

\* The database was too busy, or failed: PersistenceError, nothing served.
Fail(c) == Rollback(c) /\ Goto(c, Idle) /\ UNCHANGED last

\* A statement outside BEGIN commits by itself.  In a transaction that an
\* interrupted save left open it answers all the same, and serves nobody: it
\* takes the lock, which it gets only if nobody has committed since the first
\* read of the transaction, and keeps it.
AutoCommit(c, g, answer) ==
  /\ lock \in {NoConn, c}
  /\ work' = g
  /\ IF c \in open
     THEN /\ pinned[c] \subseteq {committed}
          /\ lock' = c
          /\ pinned' = [pinned EXCEPT ![c] = {}]
          /\ UNCHANGED <<committed, last>>
     ELSE committed' = g /\ last' = answer /\ UNCHANGED <<lock, pinned>>
  /\ UNCHANGED <<call, open>>

-----------------------------------------------------------------------------
(* save_primitive *)

Saving(c, step) == call[c].op = step

\* BEGIN takes no lock; inside a transaction left open it fails, and the
\* handler rolls that transaction back.
StartSave(c, p) ==
  /\ call[c] = Idle
  /\ IF c \in open THEN Fail(c)
     ELSE /\ Goto(c, [op |-> "begin", prim |-> p])
          /\ UNCHANGED <<committed, lock, work, last, open, pinned>>

\* upsert_primitive: the name is looked up before the transaction begins.
StartUpsert(c, p) == StartSave(c, Store!Canonical(View(c), p))

\* Fault: INSERT OR REPLACE, which deletes the old row first and cascades.
RowReplaced(g, p) ==
  [j \in DOMAIN g \cup {p.id} |->
     IF j # p.id THEN [g[j] EXCEPT !.relata = {r \in @ : r.target # p.id}]
     ELSE [p EXCEPT !.relata = {}]]

\* The row of p after INSERT .. ON CONFLICT(id) DO UPDATE: relata as they were.
RowWritten(g, p) ==
  [j \in DOMAIN g \cup {p.id} |->
     IF j # p.id THEN g[j]
     ELSE [p EXCEPT !.relata = UNION {g[k].relata : k \in DOMAIN g \cap {p.id}}]]

\* The first write takes the lock, waiting for it up to the busy timeout.
WriteRow(c) ==
  /\ Saving(c, "begin")
  /\ lock = NoConn
  /\ IF NameTaken(committed, call[c].prim) THEN Refuse(c, "name_taken")
     ELSE /\ lock' = c
          /\ work' = RowWritten(committed, call[c].prim)
          /\ Goto(c, [op |-> "row", prim |-> call[c].prim])
          /\ UNCHANGED <<committed, last, open, pinned>>

\* DELETE FROM relata WHERE source_id = ?
DeleteOutgoing(c) ==
  /\ Saving(c, "row")
  /\ work' = Unlinked(work, call[c].prim)
  /\ Goto(c, [op |-> "unlinked", prim |-> call[c].prim])
  /\ UNCHANGED <<committed, lock, last, open, pinned>>

\* A proposed transitive target leads back to p over the relata of g.
LeadsBack(g, p) == p.id \in ReachFrom(TransitiveTargets(p), TransitiveSucc(g))

\* The recursive query, on the rows of the transaction.
CheckCycles(c) ==
  /\ Saving(c, "unlinked")
  /\ IF LeadsBack(work, call[c].prim) THEN Refuse(c, "cyclic")
     ELSE /\ Goto(c, [op |-> "insert", prim |-> call[c].prim, todo |-> call[c].prim.relata])
          /\ UNCHANGED <<committed, lock, work, last, open, pinned>>

Linked(g, i, r) ==
  [j \in DOMAIN g |-> IF j = i THEN [g[j] EXCEPT !.relata = @ \cup {r}] ELSE g[j]]

\* One row of relata; its target must have a row.
InsertRelatum(c) ==
  /\ Saving(c, "insert")
  /\ \E r \in call[c].todo :
       IF r.target \notin DOMAIN work THEN Refuse(c, "dangling")
       ELSE /\ work' = Linked(work, call[c].prim.id, r)
            /\ Goto(c, [op |-> "insert", prim |-> call[c].prim, todo |-> call[c].todo \ {r}])
            /\ UNCHANGED <<committed, lock, last, open, pinned>>

Commit(c) ==
  /\ Saving(c, "insert")
  /\ call[c].todo = {}
  /\ committed' = work
  /\ lock' = NoConn
  /\ last' = "ok"
  /\ Goto(c, Idle)
  /\ UNCHANGED <<work, open, pinned>>

\* Fault: no busy timeout.
NeverGivesUp(c) == FALSE

\* sqlite3.Error at any statement: the busy timeout at the first write, or a
\* failure of the disk.  Both roll back and raise PersistenceError.
GiveUp(c) == call[c].op \in Writing /\ Fail(c)

\* An exception that save_primitive does not catch (KeyboardInterrupt): no
\* rollback, the transaction stays open on the connection, with the write lock
\* or still without.
Interrupt(c) ==
  /\ call[c].op \in Writing
  /\ Goto(c, Idle)
  /\ open' = open \cup {c}
  /\ UNCHANGED <<committed, lock, work, last, pinned>>

\* The process dies: the connection comes back without a transaction.
Crash(c) == (call[c] # Idle \/ c \in open) /\ Fail(c)

-----------------------------------------------------------------------------
(* delete_primitive and clear: one statement each, the relata by cascade *)

Delete(c, i) ==
  /\ call[c] = Idle
  /\ AutoCommit(c, Without(View(c), {i}), IF i \in DOMAIN View(c) THEN "ok" ELSE "not_found")

ClearAll(c) == call[c] = Idle /\ AutoCommit(c, Without(View(c), DOMAIN View(c)), "ok")

-----------------------------------------------------------------------------
(* Reads: the statements of find_by_id and of resolve_subgraph *)

\* The first read of an open transaction that has not written fixes what all
\* its reads see.
Pin(c) ==
  pinned' = [pinned EXCEPT ![c] = IF c \in open /\ lock # c THEN {View(c)} ELSE @]

Read(c, step) == Goto(c, step) /\ Pin(c) /\ UNCHANGED <<committed, lock, work, last, open>>

\* list_names, or a lookup that finds nothing: answered by one statement.
ListNames(c) ==
  /\ call[c] = Idle
  /\ Pin(c)
  /\ UNCHANGED <<committed, lock, work, call, last, open>>

\* The rows of S without their relata, and the relata from S to T.
RowsOf(g, S)     == [i \in S \cap DOMAIN g |-> [g[i] EXCEPT !.relata = {}]]
EdgesOf(g, S, T) == {e \in Edges(g) : e.source \in S /\ e.relatum.target \in T}

\* Fault: the relata are grouped by the end they point at.
HydratedByTarget(rows, edges) ==
  [i \in DOMAIN rows |-> [rows[i] EXCEPT !.relata =
     {e.relatum : e \in {f \in edges : f.relatum.target = i}}]]

\* _hydrate_primitive: a relatum on a level the row does not list is dropped.
Hydrated(rows, edges) ==
  [i \in DOMAIN rows |-> [rows[i] EXCEPT !.relata =
     {e.relatum : e \in {f \in edges : f.source = i /\ rows[i].depths[f.relatum.source_depth] # "absent"}}]]

\* The row of a primitive, by its id or by its name; None ends the call.
StartFind(c, i) ==
  /\ call[c] = Idle
  /\ i \in DOMAIN View(c)
  /\ Read(c, [op |-> "found_row", id |-> i, rows |-> RowsOf(View(c), {i})])

\* _fetch_outgoing_relata
FetchOutgoing(c) ==
  /\ Saving(c, "found_row")
  /\ LET i == call[c].id
     IN  Read(c, [op |-> "found", id |-> i,
                  prim |-> Hydrated(call[c].rows, EdgesOf(View(c), {i}, Ids))[i]])

\* Phase 1: the ids, by the recursive query over names and relata.
StartResolve(c, q) ==
  /\ call[c] = Idle
  /\ Roots(View(c), q) # {}
  /\ Read(c, [op |-> "ids", query |-> q, ids |-> Collected(View(c), q)])

\* Phase 2: the rows of those ids.
FetchRows(c) ==
  /\ Saving(c, "ids")
  /\ Read(c, [op |-> "rows", query |-> call[c].query, ids |-> call[c].ids,
              rows |-> RowsOf(View(c), call[c].ids)])

\* Phase 3: the relata among those ids, and the hydrated answer.
FetchEdges(c) ==
  /\ Saving(c, "rows")
  /\ LET ids   == call[c].ids
         edges == EdgesOf(View(c), ids, ids)
     IN  Read(c, [op |-> "resolved", query |-> call[c].query, edges |-> edges,
                  nodes |-> Hydrated(call[c].rows, edges)])

Reading == {"found_row", "ids", "rows"}
Answered == {"found", "resolved"}

\* The caller has its answer.
Return(c) ==
  /\ call[c].op \in Answered
  /\ Goto(c, Idle)
  /\ UNCHANGED <<committed, lock, work, last, open, pinned>>

-----------------------------------------------------------------------------

Write(c) ==
  \/ \E p \in Drafts : StartSave(c, p) \/ StartUpsert(c, p)
  \/ \E i \in Ids : Delete(c, i)
  \/ ClearAll(c)

Query(c) ==
  \/ \E q \in Queries : StartResolve(c, q) \/ \E i \in Roots(View(c), q) : StartFind(c, i)
  \/ ListNames(c)

Start(c) == (c \in Writers /\ Write(c)) \/ (c \in Readers /\ Query(c))

Statement(c) ==
  \/ WriteRow(c) \/ DeleteOutgoing(c) \/ CheckCycles(c) \/ InsertRelatum(c) \/ Commit(c)
  \/ FetchOutgoing(c) \/ FetchRows(c) \/ FetchEdges(c) \/ Return(c)
  \/ GiveUp(c)

Step(c) == Start(c) \/ Statement(c) \/ Interrupt(c) \/ Crash(c)

\* The graphs a read may speak of: those on disk from its first statement to
\* its last, for a read outside open transactions.
Remember ==
  /\ seen' = [c \in Conns |->
       IF c \in open \/ call'[c].op \notin Reading \cup Answered THEN {}
       ELSE IF call[c].op \in Answered THEN seen[c]
       ELSE seen[c] \cup {committed'}]
  /\ \A c \in Conns : Cardinality(seen'[c]) <= MaxSeen

Next == (\E c \in Conns : Step(c)) /\ Remember

Spec == Init /\ [][Next]_vars

\* A statement once sent is executed or refused, the busy timeout included.
FairSpec == Spec /\ \A c \in Conns : WF_vars(Statement(c) /\ Remember)

-----------------------------------------------------------------------------
(* Properties *)

\* The statements of a save, its rollbacks and a crash between any two of them,
\* with other connections in between, are one atomic call of the repository:
\* every commit is a whole save, delete or clear of GraphStore, and nothing
\* else changes the rows.
ImplementsStore == Store!Spec

\* Only the holder of the write lock has uncommitted rows, and they are the
\* committed ones changed as far as its save has come: no other row differs.
TransactionIsLocal ==
  /\ lock = NoConn => work = committed
  /\ \A c \in Conns : call[c].op \in {"row", "unlinked", "insert"} =>
       /\ lock = c
       /\ \A j \in DOMAIN work \cup DOMAIN committed :
            j # call[c].prim.id => j \in DOMAIN work \cap DOMAIN committed /\ work[j] = committed[j]

\* A call that was begun ends, whatever the other connections do: a writer that
\* does not get the lock gives up, docs/trust-model.md: "rejects concurrent
\* writers rather than queuing them".
EveryCallAnswers == \A c \in Conns : call[c] # Idle ~> call[c] = Idle

\* What a read returned is the store at one moment of the read.
IsSnapshot(c, g) ==
  \/ /\ call[c].op = "found"
     /\ call[c].id \in DOMAIN g
     /\ call[c].prim = g[call[c].id]
  \/ /\ call[c].op = "resolved"
     /\ call[c].nodes = Subgraph(g, call[c].query)
     /\ call[c].edges = Edges(Subgraph(g, call[c].query))

\* The three statements and the hydration give exactly the subgraph the
\* grounding model reads in one step: that of the rows on disk when nothing is
\* committed during the read, and that of the first read of its transaction,
\* however old, on a connection that an interrupted save left inside one it has
\* not written in.  (With a commit during the read they may give a graph no
\* moment had; and where the interrupted save has written, half of it.)
QuietReadsAreSubgraphs ==
  \A c \in Conns : call[c].op \in Answered =>
    /\ seen[c] = {committed} => IsSnapshot(c, committed)
    /\ c \in open /\ lock # c => IsSnapshot(c, View(c))

=============================================================================
