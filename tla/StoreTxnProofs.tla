--------------------------- MODULE StoreTxnProofs ---------------------------
(***************************************************************************)
(* The statements of SQLiteRepository implement the atomic calls of        *)
(* GraphStore.  The inductive invariant says, for every statement between  *)
(* BEGIN and COMMIT, which rows the transaction sees, as a function of the *)
(* committed rows and the primitive being saved; the commit then publishes *)
(* exactly Saved.                                                          *)
(***************************************************************************)
EXTENDS StoreTxn, TLAPS

-----------------------------------------------------------------------------
(* The operators of the instance are those of DepthGraph *)

\* The instance's copy of reachability is the same set.
LEMMA ReachCopy == ASSUME NEW S, NEW succ PROVE Store!ReachFrom(S, succ) = ReachFrom(S, succ)
  BY DEF Store!ReachFrom, ReachFrom

\* The instance's copies of the parts of a save.
LEMMA PartCopies ==
  ASSUME NEW g, NEW p
  PROVE  /\ Store!NameTaken(g, p) = NameTaken(g, p)
         /\ Store!ClosesCycle(g, p) = ClosesCycle(g, p)
         /\ Store!Dangles(g, p) = Dangles(g, p)
         /\ Store!StoredRow(g, p) = StoredRow(g, p)
<1>1. Store!NameTaken(g, p) = NameTaken(g, p)
  BY DEF Store!NameTaken, NameTaken
<1>2. Store!Dangles(g, p) = Dangles(g, p)
  BY DEF Store!Dangles, Dangles
<1>3. Store!StoredRow(g, p) = StoredRow(g, p)
  BY DEF Store!StoredRow, StoredRow
<1>4. Store!TransitiveTypes = TransitiveTypes
  BY DEF Store!TransitiveTypes, TransitiveTypes
<1>5. ASSUME NEW q PROVE Store!TransitiveTargets(q) = TransitiveTargets(q)
  BY <1>4 DEF Store!TransitiveTargets, TransitiveTargets
<1>6. Store!Unlinked(g, p) = Unlinked(g, p)
  BY DEF Store!Unlinked, Unlinked
<1>7. ASSUME NEW h PROVE Store!TransitiveSucc(h) = TransitiveSucc(h)
  BY <1>5 DEF Store!TransitiveSucc, TransitiveSucc
<1>8. Store!ClosesCycle(g, p) = ClosesCycle(g, p)
  BY <1>5, <1>6, <1>7, ReachCopy DEF Store!ClosesCycle, ClosesCycle
<1> QED BY <1>1, <1>2, <1>3, <1>8

\* The instance's copies of a whole call.
LEMMA CallCopies ==
  ASSUME NEW g, NEW p, NEW S
  PROVE  /\ Store!SaveResult(g, p) = SaveResult(g, p)
         /\ Store!Saved(g, p) = Saved(g, p)
         /\ Store!Without(g, S) = Without(g, S)
<1>1. Store!SaveResult(g, p) = SaveResult(g, p)
  BY PartCopies DEF Store!SaveResult, SaveResult
<1>2. Store!Saved(g, p) = Saved(g, p)
  BY PartCopies DEF Store!Saved, Saved
<1>3. Store!Without(g, S) = Without(g, S)
  BY DEF Store!Without, Without
<1> QED BY <1>1, <1>2, <1>3

-----------------------------------------------------------------------------
(* The inductive invariant *)

Locked == {"row", "unlinked", "insert"}

\* The rows of an insert under way: those of the relata E are in.
PartlySaved(g, p, E) ==
  [j \in DOMAIN g \cup {p.id} |-> IF j = p.id THEN [p EXCEPT !.relata = E] ELSE g[j]]

InsertInv(c) ==
  LET p == call[c].prim
      E == p.relata \ call[c].todo
  IN  /\ call[c].todo \subseteq p.relata
      /\ ~ClosesCycle(committed, p)
      /\ \A r \in E : r.target \in DOMAIN committed \cup {p.id}
      /\ work = PartlySaved(committed, p, E)

ConnInv(c) ==
  /\ call[c].op \in Writing => call[c].prim \in StoreDrafts
  /\ call[c].op \in Locked => lock = c /\ ~NameTaken(committed, call[c].prim)
  /\ call[c].op = "row" => work = RowWritten(committed, call[c].prim)
  /\ call[c].op = "unlinked" => work = Unlinked(committed, call[c].prim)
  /\ call[c].op = "insert" => InsertInv(c)

TxnInv ==
  /\ lock \in Conns \cup {NoConn}
  /\ DOMAIN call = Conns
  /\ DOMAIN committed \subseteq Ids
  /\ lock = NoConn => work = committed
  /\ \A c \in Conns : ConnInv(c)

\* A transaction that an interrupted save left open is not a save under way;
\* what its reads are held to ends with its first write; and the lock is held by
\* one or the other.
OpenInv ==
  /\ DOMAIN pinned = Conns
  /\ \A c \in Conns : call[c].op \in Writing => c \notin open
  /\ \A c \in Conns : pinned[c] # {} => c \in open /\ lock # c /\ \E g : pinned[c] = {g}
  /\ lock \in Conns => lock \in open \/ call[lock].op \in Locked

\* What callers hand in is a primitive, under whatever id an upsert gives it.
LEMMA StoreDraftsTyped == \A p \in StoreDrafts : p \in Primitive
  BY TxnDraftsAssumption DEF StoreDrafts, Primitive

\* A draft, or a draft under the id of the holder of its name, is a StoreDraft.
LEMMA CanonicalDraft ==
  ASSUME NEW g, DOMAIN g \subseteq Ids, NEW p \in Drafts
  PROVE  p \in StoreDrafts /\ Store!Canonical(g, p) \in StoreDrafts
<1>1. p \in Primitive /\ p = [p EXCEPT !.id = p.id] /\ p.id \in Ids
  BY TxnDraftsAssumption DEF Primitive
<1>2. p \in StoreDrafts
  BY <1>1 DEF StoreDrafts
<1>3. CASE Store!HoldersOf(g, p.name) = {}
  BY <1>2, <1>3 DEF Store!Canonical
<1>4. CASE Store!HoldersOf(g, p.name) # {}
  <2> DEFINE i == CHOOSE j \in Store!HoldersOf(g, p.name) : TRUE
  <2>1. i \in Ids
    BY <1>4 DEF Store!HoldersOf
  <2>2. Store!Canonical(g, p) = [p EXCEPT !.id = i]
    BY <1>4 DEF Store!Canonical
  <2> HIDE DEF i
  <2> QED BY <2>1, <2>2, <1>2 DEF StoreDrafts
<1> QED BY <1>2, <1>3, <1>4

\* A step of c leaves what is said of a connection without the lock alone.
LEMMA OthersKeep ==
  ASSUME TxnInv, NEW c \in Conns, NEW d \in Conns, d # c, NEW step, Goto(c, step),
         call[d].op \notin Locked
  PROVE  ConnInv(d)'
<1>1. call'[d] = call[d]
  BY DEF Goto, TxnInv
<1>2. ConnInv(d)
  BY DEF TxnInv
<1>3. call'[d].op \in Writing => call'[d].prim \in StoreDrafts
  BY <1>1, <1>2 DEF ConnInv
<1> QED BY <1>1, <1>3 DEF ConnInv, Locked

\* And of every other connection, as long as the rows and the lock stay.
LEMMA OthersStay ==
  ASSUME TxnInv, NEW c \in Conns, NEW d \in Conns, d # c, NEW step, Goto(c, step),
         UNCHANGED <<committed, lock, work>>
  PROVE  ConnInv(d)'
<1>1. call'[d] = call[d]
  BY DEF Goto, TxnInv
<1>2. ConnInv(d)
  BY DEF TxnInv
<1> QED BY <1>1, <1>2 DEF ConnInv, InsertInv

\* Who holds the lock is alone with uncommitted rows.
LEMMA LockIsExclusive ==
  ASSUME TxnInv, NEW c \in Conns, NEW d \in Conns, lock = c \/ lock = NoConn, d # c
  PROVE  call[d].op \notin Locked
BY NoConnAssumption DEF TxnInv, ConnInv

\* A rollback, with the connection idle after it, keeps the invariant.
LEMMA RollbackKeeps ==
  ASSUME TxnInv, NEW c \in Conns, Rollback(c), Goto(c, Idle)
  PROVE  TxnInv'
<1>1. call'[c] = Idle /\ DOMAIN call' = Conns
  BY DEF Goto, TxnInv
<1>2. committed' = committed
  BY DEF Rollback
<1>3. ConnInv(c)'
  BY <1>1 DEF ConnInv, Idle, Writing, Locked
<1>4. CASE lock = c
  <2>1. lock' = NoConn /\ work' = committed'
    BY <1>4, <1>2 DEF Rollback
  <2>2. \A d \in Conns \ {c} : ConnInv(d)'
    BY <1>4, LockIsExclusive, OthersKeep
  <2> QED BY <1>1, <1>2, <1>3, <2>1, <2>2 DEF TxnInv
<1>5. CASE lock # c
  <2>1. UNCHANGED <<committed, lock, work>>
    BY <1>5 DEF Rollback
  <2>2. \A d \in Conns \ {c} : ConnInv(d)'
    BY <2>1, OthersStay
  <2> QED BY <1>1, <1>3, <2>1, <2>2 DEF TxnInv
<1> QED BY <1>4, <1>5

\* A step that leaves the rows and the lock keeps the invariant if it keeps what
\* is said of its own connection.
LEMMA QuietKeeps ==
  ASSUME TxnInv, NEW c \in Conns, NEW step, Goto(c, step), UNCHANGED <<committed, lock, work>>,
         ConnInv(c)'
  PROVE  TxnInv'
<1>1. call'[c] = step /\ DOMAIN call' = Conns
  BY DEF Goto, TxnInv
<1>2. \A d \in Conns \ {c} : ConnInv(d)'
  BY OthersStay
<1> QED BY <1>1, <1>2 DEF TxnInv

-----------------------------------------------------------------------------
(* Each statement keeps the invariant *)

\* BEGIN, of a save or of an upsert.
LEMMA StartSaveKeeps ==
  ASSUME TxnInv, NEW c \in Conns, NEW p \in StoreDrafts, StartSave(c, p)
  PROVE  TxnInv'
<1> DEFINE step == [op |-> "begin", prim |-> p]
<1>1. CASE c \in open
  BY <1>1, RollbackKeeps DEF StartSave, Fail
<1>2. CASE c \notin open
  <2>1. Goto(c, step) /\ UNCHANGED <<committed, lock, work>>
    BY <1>2 DEF StartSave
  <2>2. call'[c] = step
    BY <2>1 DEF Goto, TxnInv
  <2>3. ConnInv(c)'
    BY <2>2 DEF ConnInv, Locked
  <2> QED BY <2>1, <2>3, QuietKeeps
<1> QED BY <1>1, <1>2

\* The first write, which takes the lock.
LEMMA WriteRowKeeps ==
  ASSUME TxnInv, NEW c \in Conns, WriteRow(c)
  PROVE  TxnInv'
<1> DEFINE p == call[c].prim
<1>1. CASE NameTaken(committed, p)
  BY <1>1, RollbackKeeps DEF WriteRow, Refuse
<1>2. CASE ~NameTaken(committed, p)
  <2> DEFINE step == [op |-> "row", prim |-> p]
  <2>1. /\ lock = NoConn /\ lock' = c /\ work' = RowWritten(committed, p)
        /\ Goto(c, step) /\ committed' = committed /\ call[c].op = "begin"
    BY <1>2 DEF WriteRow, Saving
  <2>2. call'[c] = step /\ DOMAIN call' = Conns
    BY <2>1 DEF Goto, TxnInv
  <2>3. p \in StoreDrafts
    BY <2>1 DEF TxnInv, ConnInv, Writing
  <2>4. call'[c].op = "row" /\ call'[c].prim = p
    BY <2>2
  <2>5. ConnInv(c)'
    BY <1>2, <2>1, <2>3, <2>4 DEF ConnInv, Locked
  <2>6. \A d \in Conns \ {c} : ConnInv(d)'
    BY <2>1, LockIsExclusive, OthersKeep
  <2>7. lock' # NoConn
    BY <2>1, NoConnAssumption
  <2> QED BY <2>1, <2>2, <2>5, <2>6, <2>7 DEF TxnInv
<1> QED BY <1>1, <1>2


\* The old relata go, and with them what they added to the row.
LEMMA DeleteOutgoingKeeps ==
  ASSUME TxnInv, NEW c \in Conns, DeleteOutgoing(c)
  PROVE  TxnInv'
<1> DEFINE p == call[c].prim
           step == [op |-> "unlinked", prim |-> p]
<1>1. /\ Goto(c, step) /\ UNCHANGED <<committed, lock>> /\ call[c].op = "row"
      /\ work' = Unlinked(work, p)
  BY DEF DeleteOutgoing, Saving
<1>2. call'[c] = step /\ DOMAIN call' = Conns
  BY <1>1 DEF Goto, TxnInv
<1>3. /\ lock = c /\ ~NameTaken(committed, p) /\ p \in StoreDrafts
      /\ work = RowWritten(committed, p)
  BY <1>1 DEF TxnInv, ConnInv, Locked, Writing
<1>4. work' = Unlinked(committed, p)
  BY <1>1, <1>3 DEF RowWritten, Unlinked
<1>5. ConnInv(c)'
  BY <1>1, <1>2, <1>3, <1>4 DEF ConnInv, Locked
<1>6. \A d \in Conns \ {c} : ConnInv(d)'
  BY <1>1, <1>3, LockIsExclusive, OthersKeep
<1>7. lock' = c /\ c # NoConn
  BY <1>1, <1>3, NoConnAssumption
<1> QED BY <1>1, <1>2, <1>5, <1>6, <1>7 DEF TxnInv

\* The query on the rows of the transaction asks what the whole call asks.
LEMMA LeadsBackIsClosesCycle ==
  ASSUME NEW g, NEW p
  PROVE  LeadsBack(Unlinked(g, p), p) <=> ClosesCycle(g, p)
BY DEF LeadsBack, ClosesCycle

\* The cycle check refuses, or the relata are about to be inserted.
LEMMA CheckCyclesKeeps ==
  ASSUME TxnInv, NEW c \in Conns, CheckCycles(c)
  PROVE  TxnInv'
<1> DEFINE p == call[c].prim
<1>1. CASE LeadsBack(work, p)
  BY <1>1, RollbackKeeps DEF CheckCycles, Refuse
<1>2. CASE ~LeadsBack(work, p)
  <2> DEFINE step == [op |-> "insert", prim |-> p, todo |-> p.relata]
  <2>1. Goto(c, step) /\ UNCHANGED <<committed, lock, work>> /\ call[c].op = "unlinked"
    BY <1>2 DEF CheckCycles, Saving
  <2>2. call'[c] = step /\ DOMAIN call' = Conns
    BY <2>1 DEF Goto, TxnInv
  <2>3. /\ lock = c /\ ~NameTaken(committed, p) /\ p \in StoreDrafts
        /\ work = Unlinked(committed, p)
    BY <2>1 DEF TxnInv, ConnInv, Locked, Writing
  <2>4. ~ClosesCycle(committed, p)
    BY <1>2, <2>3, LeadsBackIsClosesCycle
  <2>5. p.relata \ step.todo = {}
    OBVIOUS
  <2>6. work = PartlySaved(committed, p, {})
    BY <2>3 DEF Unlinked, PartlySaved
  <2>7. InsertInv(c)'
    BY <2>1, <2>2, <2>4, <2>5, <2>6 DEF InsertInv
  <2>8. ConnInv(c)'
    BY <2>1, <2>2, <2>3, <2>7 DEF ConnInv, Locked
  <2> QED BY <2>1, <2>8, QuietKeeps
<1> QED BY <1>1, <1>2

\* What the insert of a connection says of the rows it sees.
LEMMA InsertFacts ==
  ASSUME TxnInv, NEW c \in Conns, Saving(c, "insert")
  PROVE  /\ lock = c /\ ~NameTaken(committed, call[c].prim) /\ call[c].prim \in Primitive
         /\ call[c].prim \in StoreDrafts
         /\ DOMAIN work = DOMAIN committed \cup {call[c].prim.id}
         /\ InsertInv(c)
<1>1. ConnInv(c) /\ call[c].op = "insert"
  BY DEF TxnInv, Saving
<1>2. InsertInv(c)
  BY <1>1 DEF ConnInv
<1>3. DOMAIN work = DOMAIN committed \cup {call[c].prim.id}
  BY <1>2 DEF InsertInv, PartlySaved
<1> QED BY <1>1, <1>2, <1>3, StoreDraftsTyped DEF ConnInv, Locked, Writing

\* One more relatum is in, or its missing target rolls the save back.
LEMMA InsertRelatumKeeps ==
  ASSUME TxnInv, NEW c \in Conns, InsertRelatum(c)
  PROVE  TxnInv'
<1> DEFINE p == call[c].prim
<1>0. Saving(c, "insert")
  BY DEF InsertRelatum
<1>1. PICK r \in call[c].todo :
        IF r.target \notin DOMAIN work THEN Refuse(c, "dangling")
        ELSE /\ work' = Linked(work, p.id, r)
             /\ Goto(c, [op |-> "insert", prim |-> p, todo |-> call[c].todo \ {r}])
             /\ UNCHANGED <<committed, lock, last>>
  BY DEF InsertRelatum
<1>2. CASE r.target \notin DOMAIN work
  BY <1>1, <1>2, RollbackKeeps DEF Refuse
<1>3. CASE r.target \in DOMAIN work
  <2> DEFINE step == [op |-> "insert", prim |-> p, todo |-> call[c].todo \ {r}]
             E == p.relata \ call[c].todo
  <2>1. Goto(c, step) /\ UNCHANGED <<committed, lock>>
    BY <1>1, <1>3
  <2>2. call'[c] = step /\ DOMAIN call' = Conns
    BY <2>1 DEF Goto, TxnInv
  <2>3. /\ lock = c /\ ~NameTaken(committed, p) /\ p \in Primitive /\ p \in StoreDrafts
        /\ DOMAIN work = DOMAIN committed \cup {p.id}
    BY <1>0, InsertFacts
  <2>4. /\ call[c].todo \subseteq p.relata /\ ~ClosesCycle(committed, p)
        /\ \A s \in E : s.target \in DOMAIN committed \cup {p.id}
        /\ work = PartlySaved(committed, p, E)
    BY <1>0, InsertFacts DEF InsertInv
  <2>5. p.relata \ step.todo = E \cup {r}
    BY <2>4
  <2>6. work' = Linked(work, p.id, r)
    BY <1>1, <1>3
  <2>9. work' = PartlySaved(committed, p, E \cup {r})
    <3> DEFINE row(F) == [id |-> p.id, name |-> p.name, depths |-> p.depths, relata |-> F]
               put(F) == [j \in DOMAIN committed \cup {p.id} |->
                            IF j = p.id THEN row(F) ELSE committed[j]]
    <3>1. p = row(p.relata)
      BY <2>3 DEF Primitive
    <3>2. ASSUME NEW F PROVE PartlySaved(committed, p, F) = put(F)
      <4>1. [p EXCEPT !.relata = F] = row(F)
        BY <3>1
      <4> QED BY <4>1 DEF PartlySaved
    <3>3. [row(E) EXCEPT !.relata = @ \cup {r}] = row(E \cup {r})
      OBVIOUS
    <3>4. work = put(E)
      BY <2>4, <3>2
    <3>5. Linked(put(E), p.id, r) = put(E \cup {r})
      <4> HIDE DEF row
      <4> QED BY <3>3 DEF Linked
    <3> HIDE DEF put
    <3> QED BY <2>6, <3>2, <3>4, <3>5
  <2>10. InsertInv(c)'
    <3>1. call'[c].prim = p /\ call'[c].todo = call[c].todo \ {r}
      BY <2>2
    <3>2. \A s \in E \cup {r} : s.target \in DOMAIN committed \cup {p.id}
      BY <1>3, <2>3, <2>4
    <3>3. call'[c].prim.relata \ call'[c].todo = E \cup {r}
      BY <2>5, <3>1
    <3>4. call[c].todo \ {r} \subseteq p.relata
      BY <2>4
    <3> HIDE DEF p, E
    <3> QED BY <2>1, <2>4, <2>9, <3>1, <3>2, <3>3, <3>4 DEF InsertInv
  <2>11. ConnInv(c)'
    BY <2>1, <2>2, <2>3, <2>10 DEF ConnInv, Locked
  <2>12. \A d \in Conns \ {c} : ConnInv(d)'
    BY <2>1, <2>3, LockIsExclusive, OthersKeep
  <2>13. lock' = c /\ c # NoConn
    BY <2>1, <2>3, NoConnAssumption
  <2> QED BY <2>1, <2>2, <2>11, <2>12, <2>13 DEF TxnInv
<1> QED BY <1>2, <1>3

\* What a save commits is what the whole call saves.
LEMMA CommitSaves ==
  ASSUME TxnInv, NEW c \in Conns, Commit(c)
  PROVE  /\ committed' = Saved(committed, call[c].prim)
         /\ SaveResult(committed, call[c].prim) = "ok"
<1> DEFINE p == call[c].prim
<1>1. /\ ~NameTaken(committed, p) /\ p \in Primitive /\ InsertInv(c)
      /\ call[c].todo = {} /\ committed' = work
  BY InsertFacts DEF Commit
<1>2. /\ ~ClosesCycle(committed, p)
      /\ \A r \in p.relata : r.target \in DOMAIN committed \cup {p.id}
      /\ work = PartlySaved(committed, p, p.relata)
  BY <1>1 DEF InsertInv
<1>3. StoredRow(committed, p) = [p EXCEPT !.relata = p.relata]
  <2>1. {r \in p.relata : r.target \in DOMAIN committed \cup {p.id}} = p.relata
    BY <1>2
  <2> QED BY <2>1 DEF StoredRow
<1>4. ~Dangles(committed, p)
  BY <1>2 DEF Dangles
<1>5. committed' = Saved(committed, p)
  BY <1>1, <1>2, <1>3 DEF Saved, PartlySaved
<1> QED BY <1>1, <1>2, <1>4, <1>5 DEF SaveResult

\* The commit publishes the rows and frees the lock.
LEMMA CommitKeeps ==
  ASSUME TxnInv, NEW c \in Conns, Commit(c)
  PROVE  TxnInv'
<1>1. Goto(c, Idle) /\ lock' = NoConn /\ committed' = work /\ work' = work
  BY DEF Commit
<1>2. call'[c] = Idle /\ DOMAIN call' = Conns
  BY <1>1 DEF Goto, TxnInv
<1>3. lock = c /\ call[c].prim \in Primitive /\ DOMAIN work = DOMAIN committed \cup {call[c].prim.id}
  BY InsertFacts DEF Commit
<1>4. DOMAIN committed' \subseteq Ids
  BY <1>1, <1>3 DEF TxnInv, Primitive
<1>5. ConnInv(c)'
  BY <1>2 DEF ConnInv, Idle, Writing, Locked
<1>6. \A d \in Conns \ {c} : ConnInv(d)'
  BY <1>1, <1>3, LockIsExclusive, OthersKeep
<1> QED BY <1>1, <1>2, <1>4, <1>5, <1>6 DEF TxnInv

\* An idle connection without an open transaction reads what is committed.
LEMMA ClosedView ==
  ASSUME TxnInv, OpenInv, NEW c \in Conns, c \notin open, call[c].op \notin Locked
  PROVE  lock # c /\ View(c) = committed
<1>1. lock # c
  BY DEF OpenInv
<1>2. pinned[c] = {}
  BY DEF OpenInv
<1> QED BY <1>1, <1>2 DEF View

\* A statement of a connection without a transaction commits by itself.
LEMMA AutoCommitKeeps ==
  ASSUME TxnInv, OpenInv, NEW c \in Conns, call[c] = Idle, c \notin open, NEW S, NEW answer,
         AutoCommit(c, Without(View(c), S), answer)
  PROVE  /\ TxnInv'
         /\ committed' = Without(committed, S) /\ last' = answer /\ View(c) = committed
<1>1. View(c) = committed /\ lock = NoConn
  BY ClosedView DEF AutoCommit, Idle, Locked
<1>2. committed' = Without(committed, S) /\ work' = committed' /\ UNCHANGED <<lock, call>> /\ last' = answer
  BY <1>1 DEF AutoCommit
<1>3. DOMAIN committed' \subseteq Ids
  BY <1>2 DEF TxnInv, Without
<1>4. \A d \in Conns : call'[d].op \notin Locked
  BY <1>1, <1>2, NoConnAssumption DEF TxnInv, ConnInv
<1>5. \A d \in Conns : ConnInv(d)'
  BY <1>2, <1>4 DEF TxnInv, ConnInv, Locked
<1>6. TxnInv'
  BY <1>1, <1>2, <1>3, <1>5 DEF TxnInv
<1> QED BY <1>1, <1>2, <1>6

\* Inside a transaction that an interrupted save left open, it serves nobody.
LEMMA OpenTransactionKeeps ==
  ASSUME TxnInv, NEW c \in Conns, call[c] = Idle, c \in open, NEW g, NEW answer,
         AutoCommit(c, g, answer)
  PROVE  TxnInv' /\ UNCHANGED <<committed, last>>
<1>1. UNCHANGED <<committed, call, last>> /\ lock' = c /\ lock \in {NoConn, c}
  BY DEF AutoCommit
<1>2. \A d \in Conns : call[d].op \notin Locked
  <2>1. call[c].op \notin Locked
    BY DEF Idle, Locked
  <2> QED BY <1>1, <2>1, LockIsExclusive
<1>3. \A d \in Conns : ConnInv(d)'
  BY <1>1, <1>2 DEF TxnInv, ConnInv, Locked
<1>4. lock' # NoConn
  BY <1>1, NoConnAssumption
<1> QED BY <1>1, <1>3, <1>4 DEF TxnInv

\* An interrupt leaves rows and lock behind, and an idle connection.
LEMMA InterruptKeeps ==
  ASSUME TxnInv, NEW c \in Conns, Interrupt(c)
  PROVE  TxnInv'
<1>1. Goto(c, Idle) /\ UNCHANGED <<committed, lock, work>>
  BY DEF Interrupt
<1>2. call'[c] = Idle
  BY <1>1 DEF Goto, TxnInv
<1>3. ConnInv(c)'
  BY <1>2 DEF ConnInv, Idle, Writing, Locked
<1> QED BY <1>1, <1>3, QuietKeeps

\* A read moves only its own connection.
LEMMA ReadKeeps ==
  ASSUME TxnInv, NEW c \in Conns, NEW step, Read(c, step), step.op \notin Writing
  PROVE  TxnInv'
<1>1. Goto(c, step) /\ UNCHANGED <<committed, lock, work>>
  BY DEF Read
<1>2. call'[c] = step
  BY <1>1 DEF Goto, TxnInv
<1>3. ConnInv(c)'
  BY <1>2 DEF ConnInv, Writing, Locked
<1> QED BY <1>1, <1>3, QuietKeeps

\* The return of an answer, and a read of one statement.
LEMMA ReturnKeeps ==
  ASSUME TxnInv, NEW c \in Conns, Return(c)
  PROVE  TxnInv'
<1>1. Goto(c, Idle) /\ UNCHANGED <<committed, lock, work>>
  BY DEF Return
<1>2. call'[c] = Idle
  BY <1>1 DEF Goto, TxnInv
<1>3. ConnInv(c)'
  BY <1>2 DEF ConnInv, Idle, Writing, Locked
<1> QED BY <1>1, <1>3, QuietKeeps

LEMMA ListNamesKeeps ==
  ASSUME TxnInv, NEW c \in Conns, ListNames(c)
  PROVE  TxnInv'
<1>1. UNCHANGED <<committed, lock, work, call>>
  BY DEF ListNames
<1> QED BY <1>1 DEF TxnInv, ConnInv, InsertInv

-----------------------------------------------------------------------------
(* Open transactions *)

\* A rollback ends the transaction of its connection and no other.
LEMMA RollbackCloses ==
  ASSUME TxnInv, OpenInv, NEW c \in Conns, Rollback(c), Goto(c, Idle)
  PROVE  OpenInv'
<1>1. /\ call'[c] = Idle /\ open' = open \ {c} /\ pinned' = [pinned EXCEPT ![c] = {}]
      /\ \A d \in Conns \ {c} : call'[d] = call[d]
  BY DEF Rollback, Close, Goto, TxnInv
<1>2. lock' = lock \/ lock' = NoConn
  BY DEF Rollback
<1>3. lock' # c
  BY NoConnAssumption DEF Rollback
<1> QED BY <1>1, <1>2, <1>3, NoConnAssumption DEF OpenInv, Idle, Writing

\* A statement of a save under way that leaves open transactions alone.
LEMMA SaveKeepsOpen ==
  ASSUME TxnInv, OpenInv, NEW c \in Conns, NEW step, Goto(c, step), UNCHANGED <<open, pinned>>,
         \/ c \notin open /\ step.op \in Locked /\ lock' = c
         \/ c \notin open /\ step.op \notin Locked /\ lock # c /\ lock' = lock
         \/ c \notin open /\ step.op \notin Locked /\ lock = c /\ lock' = NoConn
  PROVE  OpenInv'
<1>1. call'[c] = step /\ \A d \in Conns \ {c} : call'[d] = call[d]
  BY DEF Goto, TxnInv
<1>2. pinned[c] = {}
  BY DEF OpenInv
<1>3. lock' = c \/ lock' = lock \/ lock' = NoConn
  OBVIOUS
<1> QED BY <1>1, <1>2, <1>3, NoConnAssumption DEF OpenInv

\* A read pins what an open transaction sees, and no other.
LEMMA PinKeeps ==
  ASSUME TxnInv, OpenInv, NEW c \in Conns, Pin(c), UNCHANGED <<lock, open>>,
         call[c].op \notin Writing, call'[c].op \notin Writing,
         \A d \in Conns \ {c} : call'[d] = call[d]
  PROVE  OpenInv'
<1>1. DOMAIN pinned' = Conns /\ \A d \in Conns \ {c} : pinned'[d] = pinned[d]
  BY DEF Pin, OpenInv
<1>2. pinned'[c] = IF c \in open /\ lock # c THEN {View(c)} ELSE pinned[c]
  BY DEF Pin, OpenInv
<1> QED BY <1>1, <1>2 DEF OpenInv, Locked, Writing

\* Every step keeps the open transactions in order.
LEMMA StepKeepsOpen ==
  ASSUME TxnInv, OpenInv, NEW c \in Conns, Step(c)
  PROVE  OpenInv'
<1>1. CASE Fail(c) \/ \E a : Refuse(c, a)
  BY <1>1, RollbackCloses DEF Fail, Refuse
<1>2. ASSUME NEW p, StartSave(c, p), c \notin open PROVE OpenInv'
  <2>1. lock # c
    BY <1>2, ClosedView DEF StartSave, Idle, Locked
  <2> QED BY <1>2, <2>1, SaveKeepsOpen DEF StartSave, Locked
<1>3. ASSUME NEW p, StartSave(c, p) PROVE OpenInv'
  BY <1>1, <1>2, <1>3 DEF StartSave
<1>4. ASSUME NEW g, NEW a, call[c] = Idle, AutoCommit(c, g, a) PROVE OpenInv'
  <2>1. CASE c \in open
    BY <1>4, <2>1 DEF AutoCommit, OpenInv
  <2>2. CASE c \notin open
    BY <1>4, <2>2 DEF AutoCommit, OpenInv
  <2> QED BY <2>1, <2>2
<1>5. CASE Write(c)
  BY <1>3, <1>4, <1>5 DEF Write, StartUpsert, Delete, ClearAll
<1>6. ASSUME call[c].op \in Writing PROVE c \notin open
  BY <1>6 DEF OpenInv
<1>7. CASE WriteRow(c)
  BY <1>1, <1>6, <1>7, SaveKeepsOpen DEF WriteRow, Saving, Writing, Locked
<1>8. CASE DeleteOutgoing(c)
  BY <1>6, <1>8, SaveKeepsOpen DEF DeleteOutgoing, Saving, Writing, Locked, TxnInv, ConnInv
<1>9. CASE CheckCycles(c)
  BY <1>1, <1>6, <1>9, SaveKeepsOpen DEF CheckCycles, Saving, Writing, Locked, TxnInv, ConnInv
<1>10. CASE InsertRelatum(c)
  BY <1>1, <1>6, <1>10, SaveKeepsOpen DEF InsertRelatum, Saving, Writing, Locked, TxnInv, ConnInv
<1>11. CASE Commit(c)
  BY <1>6, <1>11, SaveKeepsOpen DEF Commit, Saving, Writing, Locked, TxnInv, ConnInv, Idle
<1>12. CASE Interrupt(c)
  <2>1. call'[c] = Idle /\ \A d \in Conns \ {c} : call'[d] = call[d]
    BY <1>12 DEF Interrupt, Goto, TxnInv
  <2> QED BY <1>6, <1>12, <2>1 DEF Interrupt, OpenInv, Idle, Writing
<1>13. ASSUME NEW step, Read(c, step), step.op \notin Writing, call[c].op \notin Writing PROVE OpenInv'
  <2>1. call'[c] = step /\ \A d \in Conns \ {c} : call'[d] = call[d]
    BY <1>13 DEF Read, Goto, TxnInv
  <2> QED BY <1>13, <2>1, PinKeeps DEF Read
<1>14. CASE FetchOutgoing(c) \/ FetchRows(c) \/ FetchEdges(c)
  BY <1>13, <1>14 DEF FetchOutgoing, FetchRows, FetchEdges, Saving, Writing
<1>15. CASE ListNames(c)
  BY <1>15, PinKeeps DEF ListNames, Idle, Writing
<1>16. CASE Query(c)
  <2>1. ASSUME NEW q, StartResolve(c, q) PROVE OpenInv'
    BY <1>13, <2>1 DEF StartResolve, Idle, Writing
  <2>2. ASSUME NEW i, StartFind(c, i) PROVE OpenInv'
    BY <1>13, <2>2 DEF StartFind, Idle, Writing
  <2> QED BY <1>15, <1>16, <2>1, <2>2 DEF Query
<1>17. CASE Return(c)
  <2>1. call'[c] = Idle /\ \A d \in Conns \ {c} : call'[d] = call[d]
    BY <1>17 DEF Return, Goto, TxnInv
  <2>2. UNCHANGED <<lock, open, pinned>> /\ call[c].op \notin Locked /\ Idle.op \notin Writing
    BY <1>17 DEF Return, Idle, Answered, Locked, Writing
  <2>3. lock' \in Conns => lock' \in open' \/ call'[lock'].op \in Locked
    BY <2>1, <2>2 DEF OpenInv
  <2>4. \A d \in Conns : call'[d].op \in Writing => d \notin open'
    BY <2>1, <2>2 DEF OpenInv
  <2> QED BY <2>2, <2>3, <2>4 DEF OpenInv
<1> QED BY <1>1, <1>5, <1>7, <1>8, <1>9, <1>10, <1>11, <1>12, <1>14, <1>16, <1>17
        DEF Step, Start, Statement, GiveUp, Crash

-----------------------------------------------------------------------------
(* Each statement is a call of the repository, or leaves its rows alone *)

StoreStep == Store!Next \/ UNCHANGED <<committed, last>>

\* A refusal is a save that answers what the whole call answers.
LEMMA RefusalIsSave ==
  ASSUME NEW c \in Conns, NEW p \in StoreDrafts, NEW answer,
         Refuse(c, answer), answer # "ok", answer = SaveResult(committed, p)
  PROVE  StoreStep
<1>1. committed' = committed /\ last' = answer
  BY DEF Refuse, Rollback
<1>2. Store!SavePrimitive(p)
  BY <1>1, CallCopies DEF Store!SavePrimitive
<1> QED BY <1>2 DEF StoreStep, Store!Next

\* The unique index refuses what the whole call refuses.
LEMMA WriteRowRefines ==
  ASSUME TxnInv, NEW c \in Conns, WriteRow(c)
  PROVE  StoreStep
<1> DEFINE p == call[c].prim
<1>1. p \in StoreDrafts
  BY DEF WriteRow, Saving, TxnInv, ConnInv, Writing
<1>2. CASE NameTaken(committed, p)
  <2>1. SaveResult(committed, p) = "name_taken"
    BY <1>2 DEF SaveResult
  <2>2. Refuse(c, "name_taken")
    BY <1>2 DEF WriteRow
  <2> QED BY <1>1, <2>1, <2>2, RefusalIsSave
<1>3. CASE ~NameTaken(committed, p)
  BY <1>3 DEF WriteRow, StoreStep
<1> QED BY <1>2, <1>3

\* The cycle check on the rows of the transaction refuses what the whole call refuses.
LEMMA CheckCyclesRefines ==
  ASSUME TxnInv, NEW c \in Conns, CheckCycles(c)
  PROVE  StoreStep
<1> DEFINE p == call[c].prim
<1>1. p \in StoreDrafts /\ ~NameTaken(committed, p) /\ work = Unlinked(committed, p)
  BY DEF CheckCycles, Saving, TxnInv, ConnInv, Writing, Locked
<1>2. CASE LeadsBack(work, p)
  <2>1. ClosesCycle(committed, p)
    BY <1>1, <1>2, LeadsBackIsClosesCycle
  <2>2. SaveResult(committed, p) = "cyclic"
    BY <1>1, <2>1 DEF SaveResult
  <2>3. Refuse(c, "cyclic")
    BY <1>2 DEF CheckCycles
  <2> QED BY <1>1, <2>2, <2>3, RefusalIsSave
<1>3. CASE ~LeadsBack(work, p)
  BY <1>3 DEF CheckCycles, StoreStep
<1> QED BY <1>2, <1>3

\* The foreign key refuses what the whole call refuses.
LEMMA InsertRelatumRefines ==
  ASSUME TxnInv, NEW c \in Conns, InsertRelatum(c)
  PROVE  StoreStep
<1> DEFINE p == call[c].prim
<1>1. /\ p \in StoreDrafts /\ ~NameTaken(committed, p) /\ InsertInv(c)
      /\ DOMAIN work = DOMAIN committed \cup {p.id}
  BY InsertFacts DEF InsertRelatum
<1>2. PICK r \in call[c].todo :
        IF r.target \notin DOMAIN work THEN Refuse(c, "dangling")
        ELSE UNCHANGED <<committed, lock, last>>
  BY DEF InsertRelatum
<1>3. CASE r.target \notin DOMAIN work
  <2>1. Dangles(committed, p) /\ ~ClosesCycle(committed, p)
    BY <1>1, <1>2, <1>3 DEF Dangles, InsertInv
  <2>2. SaveResult(committed, p) = "dangling"
    BY <1>1, <2>1, SQLiteAssumption DEF SaveResult
  <2> QED BY <1>1, <1>2, <1>3, <2>2, RefusalIsSave
<1>4. CASE r.target \in DOMAIN work
  BY <1>2, <1>4 DEF StoreStep
<1> QED BY <1>3, <1>4

\* The commit is the save.
LEMMA CommitRefines ==
  ASSUME TxnInv, NEW c \in Conns, Commit(c)
  PROVE  StoreStep
<1> DEFINE p == call[c].prim
<1>1. p \in StoreDrafts
  BY InsertFacts DEF Commit
<1>2. committed' = Saved(committed, p) /\ SaveResult(committed, p) = "ok" /\ last' = "ok"
  BY CommitSaves DEF Commit
<1>3. Store!SavePrimitive(p)
  BY <1>2, CallCopies DEF Store!SavePrimitive
<1> QED BY <1>1, <1>3 DEF StoreStep, Store!Next

\* A delete keeps the invariant and is the delete of the whole call, or stays
\* inside an open transaction.
LEMMA DeleteRefines ==
  ASSUME TxnInv, OpenInv, NEW c \in Conns, NEW i \in Ids, Delete(c, i)
  PROVE  TxnInv' /\ StoreStep
<1> DEFINE answer == IF i \in DOMAIN View(c) THEN "ok" ELSE "not_found"
<1>1. call[c] = Idle /\ AutoCommit(c, Without(View(c), {i}), answer)
  BY DEF Delete
<1> HIDE DEF answer
<1>2. CASE c \in open
  BY <1>1, <1>2, OpenTransactionKeeps DEF StoreStep
<1>3. CASE c \notin open
  <2>1. TxnInv' /\ committed' = Without(committed, {i}) /\ last' = answer /\ View(c) = committed
    BY <1>1, <1>3, AutoCommitKeeps
  <2>2. Store!DeletePrimitive(i)
    BY <2>1, CallCopies DEF answer, Store!DeletePrimitive
  <2> QED BY <2>1, <2>2 DEF StoreStep, Store!Next
<1> QED BY <1>2, <1>3

\* So does a clear.
LEMMA ClearRefines ==
  ASSUME TxnInv, OpenInv, NEW c \in Conns, ClearAll(c)
  PROVE  TxnInv' /\ StoreStep
<1>1. call[c] = Idle /\ AutoCommit(c, Without(View(c), DOMAIN View(c)), "ok")
  BY DEF ClearAll
<1>2. CASE c \in open
  BY <1>1, <1>2, OpenTransactionKeeps DEF StoreStep
<1>3. CASE c \notin open
  <2>1. TxnInv' /\ committed' = Without(committed, DOMAIN View(c)) /\ last' = "ok" /\ View(c) = committed
    BY <1>1, <1>3, AutoCommitKeeps
  <2>2. Store!Clear
    BY <2>1, CallCopies DEF Store!Clear
  <2> QED BY <2>1, <2>2 DEF StoreStep, Store!Next
<1> QED BY <1>2, <1>3

\* A failure, at any statement.
LEMMA FailRefines ==
  ASSUME TxnInv, NEW c \in Conns, Fail(c)
  PROVE  TxnInv' /\ StoreStep
<1>1. TxnInv'
  BY RollbackKeeps DEF Fail
<1>2. UNCHANGED <<committed, last>>
  BY DEF Fail, Rollback
<1> QED BY <1>1, <1>2 DEF StoreStep

\* A read: the rows stay.
LEMMA ReadRefines ==
  ASSUME TxnInv, NEW c \in Conns, NEW step, Read(c, step), step.op \notin Writing
  PROVE  TxnInv' /\ StoreStep
BY ReadKeeps DEF Read, StoreStep

\* The calls of a reader.
LEMMA QueryRefines ==
  ASSUME TxnInv, NEW c \in Conns, Query(c)
  PROVE  TxnInv' /\ StoreStep
<1>1. CASE \E q \in Queries : StartResolve(c, q)
  BY <1>1, ReadRefines DEF StartResolve, Writing
<1>2. CASE \E i : StartFind(c, i)
  BY <1>2, ReadRefines DEF StartFind, Writing
<1>3. CASE ListNames(c)
  BY <1>3, ListNamesKeeps DEF ListNames, StoreStep
<1> QED BY <1>1, <1>2, <1>3 DEF Query

\* The calls of a writer.
LEMMA WriteRefines ==
  ASSUME TxnInv, OpenInv, NEW c \in Conns, Write(c)
  PROVE  TxnInv' /\ StoreStep
<1>1. ASSUME NEW p \in StoreDrafts, StartSave(c, p) PROVE TxnInv' /\ StoreStep
  <2>1. TxnInv'
    BY <1>1, StartSaveKeeps
  <2>2. UNCHANGED <<committed, last>>
    BY <1>1 DEF StartSave, Fail, Rollback
  <2> QED BY <2>1, <2>2 DEF StoreStep
<1>2. ASSUME NEW p, StartSave(c, p), c \in open PROVE TxnInv' /\ StoreStep
  BY <1>2, FailRefines DEF StartSave
<1>3. ASSUME NEW p \in Drafts, StartUpsert(c, p) PROVE TxnInv' /\ StoreStep
  <2>1. CASE c \in open
    BY <1>2, <1>3, <2>1 DEF StartUpsert
  <2>2. CASE c \notin open
    <3>1. DOMAIN View(c) \subseteq Ids
      BY <1>3, <2>2, ClosedView DEF TxnInv, StartUpsert, StartSave, Idle, Locked
    <3> QED BY <1>1, <1>3, <3>1, CanonicalDraft DEF StartUpsert
  <2> QED BY <2>1, <2>2
<1>4. ASSUME NEW p \in Drafts, StartSave(c, p) PROVE TxnInv' /\ StoreStep
  <2>1. p \in StoreDrafts
    BY CanonicalDraft DEF TxnInv
  <2> QED BY <1>1, <1>4, <2>1
<1> QED BY <1>3, <1>4, DeleteRefines, ClearRefines DEF Write

\* The statements of calls under way.
LEMMA StatementRefines ==
  ASSUME TxnInv, NEW c \in Conns, Statement(c)
  PROVE  TxnInv' /\ StoreStep
<1>1. CASE WriteRow(c)
  BY <1>1, WriteRowKeeps, WriteRowRefines
<1>2. CASE DeleteOutgoing(c)
  BY <1>2, DeleteOutgoingKeeps DEF DeleteOutgoing, StoreStep
<1>3. CASE CheckCycles(c)
  BY <1>3, CheckCyclesKeeps, CheckCyclesRefines
<1>4. CASE InsertRelatum(c)
  BY <1>4, InsertRelatumKeeps, InsertRelatumRefines
<1>5. CASE Commit(c)
  BY <1>5, CommitKeeps, CommitRefines
<1>6. CASE FetchOutgoing(c)
  BY <1>6, ReadRefines DEF FetchOutgoing, Writing
<1>7. CASE FetchRows(c)
  BY <1>7, ReadRefines DEF FetchRows, Writing
<1>8. CASE FetchEdges(c)
  BY <1>8, ReadRefines DEF FetchEdges, Writing
<1>9. CASE Return(c)
  BY <1>9, ReturnKeeps DEF Return, StoreStep
<1>10. CASE GiveUp(c)
  BY <1>10, FailRefines DEF GiveUp
<1> QED BY <1>1, <1>2, <1>3, <1>4, <1>5, <1>6, <1>7, <1>8, <1>9, <1>10 DEF Statement

\* Every step of the specification.
LEMMA NextRefines ==
  ASSUME TxnInv, OpenInv, [Next]_vars
  PROVE  TxnInv' /\ OpenInv' /\ StoreStep
<1>1. CASE UNCHANGED vars
  <2>1. UNCHANGED <<committed, lock, work, call, last>>
    BY <1>1 DEF vars
  <2>2. TxnInv'
    BY <2>1 DEF TxnInv, ConnInv, InsertInv
  <2>3. OpenInv'
    BY <1>1 DEF vars, OpenInv
  <2> QED BY <2>1, <2>2, <2>3 DEF StoreStep
<1>2. ASSUME NEW c \in Conns, Step(c) PROVE TxnInv' /\ StoreStep
  <2>1. CASE Start(c)
    BY <2>1, WriteRefines, QueryRefines DEF Start
  <2>2. CASE Crash(c)
    BY <2>2, FailRefines DEF Crash
  <2>3. CASE Interrupt(c)
    BY <2>3, InterruptKeeps DEF Interrupt, StoreStep
  <2> QED BY <1>2, <2>1, <2>2, <2>3, StatementRefines DEF Step
<1> QED BY <1>1, <1>2, StepKeepsOpen DEF Next

-----------------------------------------------------------------------------
(* Theorems *)

\* What each connection is in the middle of says which rows its transaction
\* sees: for any connections, ids, names and drafts.
THEOREM TxnInvariant == Spec => [](TxnInv /\ OpenInv)
<1>1. Init => TxnInv /\ OpenInv
  BY NoConnAssumption DEF Init, TxnInv, OpenInv, ConnInv, Idle, Writing, Locked
<1>2. TxnInv /\ OpenInv /\ [Next]_vars => TxnInv' /\ OpenInv'
  BY NextRefines
<1> QED BY <1>1, <1>2, PTL DEF Spec

\* The statements of SQLiteRepository implement the atomic calls of the
\* repository, rollbacks, give-ups, crashes and interrupted saves included.
THEOREM TxnRefinesStore == Spec => ImplementsStore
<1>1. Init => Store!Init
  BY DEF Init, Store!Init
<1>2. TxnInv /\ OpenInv /\ [Next]_vars => [Store!Next]_(Store!vars)
  BY NextRefines DEF StoreStep, Store!vars
<1> QED BY <1>1, <1>2, TxnInvariant, PTL DEF Spec, ImplementsStore, Store!Spec

\* Uncommitted rows belong to the holder of the lock and differ from the
\* committed ones in the row of the primitive being saved only.
THEOREM TxnTransactionIsLocal == Spec => []TransactionIsLocal
<1>1. TxnInv => TransactionIsLocal
  <2> SUFFICES ASSUME TxnInv PROVE TransactionIsLocal
    OBVIOUS
  <2>1. ASSUME NEW c \in Conns, call[c].op \in Locked
        PROVE  /\ lock = c
               /\ \A j \in DOMAIN work \cup DOMAIN committed :
                    j # call[c].prim.id => j \in DOMAIN work \cap DOMAIN committed /\ work[j] = committed[j]
    <3>1. ConnInv(c)
      BY DEF TxnInv
    <3>2. CASE call[c].op = "row"
      BY <2>1, <3>1, <3>2 DEF ConnInv, RowWritten
    <3>3. CASE call[c].op = "unlinked"
      BY <2>1, <3>1, <3>3 DEF ConnInv, Unlinked
    <3>4. CASE call[c].op = "insert"
      BY <2>1, <3>1, <3>4 DEF ConnInv, InsertInv, PartlySaved
    <3> QED BY <2>1, <3>2, <3>3, <3>4 DEF Locked
  <2> QED BY <2>1 DEF TransactionIsLocal, TxnInv, Locked
<1> QED BY <1>1, TxnInvariant, PTL

-----------------------------------------------------------------------------
(* The statements of a read *)

\* The rows hydrated with the relata into T are the primitives with those
\* relata: every relatum hangs on a recorded level, so none is dropped.
LEMMA HydratedRow ==
  ASSUME NEW g, IsGraph(g), NEW C \in SUBSET DOMAIN g, NEW T, NEW i \in C
  PROVE  Hydrated(RowsOf(g, C), EdgesOf(g, C, T))[i]
           = [g[i] EXCEPT !.relata = {r \in g[i].relata : r.target \in T}]
<1> DEFINE rows == RowsOf(g, C)
           E == EdgesOf(g, C, T)
           L == {e.relatum : e \in {f \in E : /\ f.source = i
                                              /\ rows[i].depths[f.relatum.source_depth] # "absent"}}
           K == {r \in g[i].relata : r.target \in T}
<1>1. g[i] \in Primitive /\ WellFormed(g[i])
  BY DEF IsGraph
<1>2. DOMAIN rows = C /\ rows[i] = [g[i] EXCEPT !.relata = {}]
  BY DEF RowsOf
<1>3. rows[i].depths = g[i].depths /\ [rows[i] EXCEPT !.relata = K] = [g[i] EXCEPT !.relata = K]
  BY <1>1, <1>2 DEF Primitive
<1>4. Hydrated(rows, E)[i] = [rows[i] EXCEPT !.relata = L]
  BY <1>2 DEF Hydrated
<1> HIDE DEF rows
<1>5. L = K
  <2>1. \A e \in E : e.source = i => e.relatum \in K
    BY DEF EdgesOf, Edges
  <2>2. \A r \in K : [source |-> i, relatum |-> r] \in E
    BY DEF EdgesOf, Edges
  <2>3. \A r \in K : rows[i].depths[r.source_depth] # "absent"
    BY <1>1, <1>3 DEF WellFormed
  <2> HIDE DEF E, K
  <2>4. L \subseteq K
    BY <2>1
  <2>5. K \subseteq L
    <3> SUFFICES ASSUME NEW r \in K PROVE r \in L
      OBVIOUS
    <3> DEFINE e == [source |-> i, relatum |-> r]
    <3>1. e \in E /\ e.source = i /\ e.relatum = r /\ rows[i].depths[e.relatum.source_depth] # "absent"
      BY <2>2, <2>3
    <3> HIDE DEF e
    <3> QED BY <3>1
  <2> QED BY <2>4, <2>5
<1> HIDE DEF L, K, E
<1> QED BY <1>3, <1>4, <1>5 DEF rows, E, K

\* On one graph, the three statements of resolve_subgraph give its subgraph.
LEMMA StatementsGiveSubgraph ==
  ASSUME NEW g, IsGraph(g), NEW q
  PROVE  LET C == Collected(g, q)
         IN  /\ Hydrated(RowsOf(g, C), EdgesOf(g, C, C)) = Subgraph(g, q)
             /\ EdgesOf(g, C, C) = Edges(Subgraph(g, q))
<1> DEFINE C == Collected(g, q)
           nodes == Hydrated(RowsOf(g, C), EdgesOf(g, C, C))
           s == Subgraph(g, q)
<1>1. C \in SUBSET DOMAIN g
  BY DEF Collected, ReachFrom, TransitiveSucc
<1>2. DOMAIN nodes = C /\ nodes = [i \in DOMAIN nodes |-> nodes[i]]
  BY <1>1 DEF Hydrated, RowsOf
<1>3. DOMAIN s = C /\ s = [i \in DOMAIN s |-> s[i]]
  <2> DEFINE row(i) == [g[i] EXCEPT !.relata = {r \in g[i].relata : r.target \in C}]
  <2>1. s = [i \in C |-> row(i)]
    BY DEF Subgraph
  <2> HIDE DEF row, s
  <2> QED BY <2>1
<1>4. \A i \in C : s[i] = [g[i] EXCEPT !.relata = {r \in g[i].relata : r.target \in C}]
  BY DEF Subgraph
<1>5. \A i \in C : nodes[i] = s[i]
  <2> TAKE i \in C
  <2>1. nodes[i] = [g[i] EXCEPT !.relata = {r \in g[i].relata : r.target \in C}]
    BY <1>1, HydratedRow
  <2> HIDE DEF nodes, s
  <2> QED BY <1>4, <2>1
<1>6. \A i \in C : s[i].relata = {r \in g[i].relata : r.target \in C}
  BY <1>1, <1>4 DEF IsGraph, Primitive
<1> HIDE DEF nodes, s, C
<1>7. nodes = s
  BY <1>2, <1>3, <1>5
<1>8. EdgesOf(g, C, C) \subseteq Edges(s)
  BY <1>3, <1>6 DEF EdgesOf, Edges
<1>9. Edges(s) \subseteq EdgesOf(g, C, C)
  BY <1>1, <1>3, <1>6 DEF EdgesOf, Edges
<1> QED BY <1>7, <1>8, <1>9 DEF nodes, s, C

\* On one graph, the two statements of find_by_id give the primitive.
LEMMA StatementsGivePrimitive ==
  ASSUME NEW g, IsGraph(g), NEW i \in DOMAIN g
  PROVE  Hydrated(RowsOf(g, {i}), EdgesOf(g, {i}, Ids))[i] = g[i]
<1>1. g[i] \in Primitive
  BY DEF IsGraph
<1>2. {r \in g[i].relata : r.target \in Ids} = g[i].relata
  BY <1>1 DEF Primitive, Relatum
<1>3. {i} \in SUBSET DOMAIN g /\ i \in {i}
  OBVIOUS
<1>4. Hydrated(RowsOf(g, {i}), EdgesOf(g, {i}, Ids))[i] = [g[i] EXCEPT !.relata = g[i].relata]
  BY <1>2, <1>3, HydratedRow
<1> QED BY <1>1, <1>4 DEF Primitive

\* Each piece of an answer, so far, was read from one of the graphs of S.
Witnessed(k, S) ==
  /\ k.op = "found_row" => \E g \in S : k.id \in DOMAIN g /\ k.rows = RowsOf(g, {k.id})
  /\ k.op = "found" => \E g, h \in S :
       /\ k.id \in DOMAIN g
       /\ k.prim = Hydrated(RowsOf(g, {k.id}), EdgesOf(h, {k.id}, Ids))[k.id]
  /\ k.op = "ids" => \E g \in S : k.ids = Collected(g, k.query)
  /\ k.op = "rows" => \E g, h \in S : k.ids = Collected(g, k.query) /\ k.rows = RowsOf(h, k.ids)
  /\ k.op = "resolved" => \E g, h, f \in S :
       LET ids == Collected(g, k.query)
       IN  k.edges = EdgesOf(f, ids, ids) /\ k.nodes = Hydrated(RowsOf(h, ids), k.edges)

\* Where a read looks: the rows its open transaction is held to, or the graphs
\* it lived to see.
Sources(c) == IF c \in open THEN pinned[c] ELSE seen[c]

\* The reads of a transaction that an interrupted save left open after it had
\* written see half of that save, and nothing is said of them.
ReadInv ==
  /\ DOMAIN seen = Conns
  /\ \A c \in Conns : c \in open => seen[c] = {}
  /\ \A c \in Conns : lock = c \/ Witnessed(call[c], Sources(c))
  /\ \A c \in Conns : \A g \in pinned[c] : IsGraph(g)

\* What one graph witnesses, more graphs witness.
LEMMA WitnessedMonotone ==
  ASSUME NEW k, NEW S, NEW T, S \subseteq T, Witnessed(k, S)
  PROVE  Witnessed(k, T)
<1>1. k.op = "found_row" => \E g \in T : k.id \in DOMAIN g /\ k.rows = RowsOf(g, {k.id})
  BY DEF Witnessed
<1>2. k.op = "found" => \E g, h \in T :
        /\ k.id \in DOMAIN g
        /\ k.prim = Hydrated(RowsOf(g, {k.id}), EdgesOf(h, {k.id}, Ids))[k.id]
  BY DEF Witnessed
<1>3. k.op = "ids" => \E g \in T : k.ids = Collected(g, k.query)
  BY DEF Witnessed
<1>4. k.op = "rows" => \E g, h \in T : k.ids = Collected(g, k.query) /\ k.rows = RowsOf(h, k.ids)
  BY DEF Witnessed
<1>5. k.op = "resolved" => \E g, h, f \in T :
        LET ids == Collected(g, k.query)
        IN  k.edges = EdgesOf(f, ids, ids) /\ k.nodes = Hydrated(RowsOf(h, ids), k.edges)
  BY DEF Witnessed
<1> QED BY <1>1, <1>2, <1>3, <1>4, <1>5 DEF Witnessed

\* The steps in which a reader reads.
ReadStep(c) ==
  \/ \E q \in Queries : StartResolve(c, q)
  \/ \E i : StartFind(c, i)
  \/ FetchOutgoing(c) \/ FetchRows(c) \/ FetchEdges(c)

\* What is outside a read has nothing to witness.
LEMMA NothingToWitness ==
  ASSUME NEW k, k.op \notin Reading \cup Answered, NEW S
  PROVE  Witnessed(k, S)
BY DEF Witnessed, Reading, Answered

\* A step of c leaves the call and the transaction of every other alone.
LEMMA OthersUntouched ==
  ASSUME TxnInv, OpenInv, NEW c \in Conns, Step(c), NEW d \in Conns, d # c
  PROVE  /\ call'[d] = call[d] /\ pinned'[d] = pinned[d]
         /\ d \in open' <=> d \in open
         /\ lock' = d <=> lock = d
<1> DEFINE Kept == /\ call'[d] = call[d] /\ pinned'[d] = pinned[d]
                   /\ d \in open' <=> d \in open
                   /\ lock' = d <=> lock = d
<1>0. d # NoConn
  BY NoConnAssumption
<1>1. \A k : Goto(c, k) => call'[d] = call[d]
  BY DEF Goto, TxnInv
<1>2. Rollback(c) => pinned'[d] = pinned[d] /\ (d \in open' <=> d \in open) /\ (lock' = d <=> lock = d)
  BY <1>0 DEF Rollback, Close, OpenInv
<1>3. Fail(c) \/ (\E a : Refuse(c, a)) => Kept
  BY <1>1, <1>2 DEF Fail, Refuse
<1>4. \A p : StartSave(c, p) => Kept
  BY <1>1, <1>3 DEF StartSave
<1>5. \A g, a : AutoCommit(c, g, a) => Kept
  BY <1>0 DEF AutoCommit, OpenInv
<1>6. WriteRow(c) => Kept
  BY <1>0, <1>1, <1>3 DEF WriteRow
<1>7. DeleteOutgoing(c) \/ Return(c) => Kept
  BY <1>1 DEF DeleteOutgoing, Return
<1>8. CheckCycles(c) => Kept
  BY <1>1, <1>3 DEF CheckCycles
<1>9. InsertRelatum(c) => Kept
  BY <1>1, <1>3 DEF InsertRelatum
<1>10. Commit(c) => Kept
  <2>1. Commit(c) => lock = c
    BY InsertFacts DEF Commit
  <2> QED BY <1>0, <1>1, <2>1 DEF Commit
<1>11. Interrupt(c) => Kept
  BY <1>1 DEF Interrupt
<1>12. Pin(c) => pinned'[d] = pinned[d]
  BY DEF Pin, OpenInv
<1>13. \A k : Read(c, k) => Kept
  BY <1>1, <1>12 DEF Read
<1>14. ListNames(c) => Kept
  BY <1>12 DEF ListNames
<1> HIDE DEF Kept
<1>15. Write(c) => Kept
  BY <1>4, <1>5 DEF Write, StartUpsert, Delete, ClearAll
<1>16. Query(c) => Kept
  BY <1>13, <1>14 DEF Query, StartResolve, StartFind
<1>17. FetchOutgoing(c) \/ FetchRows(c) \/ FetchEdges(c) => Kept
  BY <1>13 DEF FetchOutgoing, FetchRows, FetchEdges
<1>18. GiveUp(c) \/ Crash(c) => Kept
  BY <1>3 DEF GiveUp, Crash
<1>19. Kept
  BY <1>6, <1>7, <1>8, <1>9, <1>10, <1>11, <1>15, <1>16, <1>17, <1>18 DEF Step, Start, Statement
<1> QED BY <1>19 DEF Kept

\* A step that is not of a read leaves its connection outside any read, with its
\* transaction gone, or holding it to what it already sees.
LEMMA OtherSteps ==
  ASSUME TxnInv, OpenInv, NEW c \in Conns, Step(c), ~ReadStep(c)
  PROVE  /\ call'[c].op \notin Reading \cup Answered
         /\ pinned'[c] \subseteq pinned[c] \/ (pinned'[c] = {View(c)} /\ lock # c)
<1> DEFINE Leaves == /\ call'[c].op \notin Reading \cup Answered
                     /\ pinned'[c] \subseteq pinned[c] \/ (pinned'[c] = {View(c)} /\ lock # c)
<1>1. Idle.op \notin Reading \cup Answered
  BY DEF Idle, Reading, Answered
<1>2. \A k : Goto(c, k) => call'[c] = k
  BY DEF Goto, TxnInv
<1>3. Rollback(c) => pinned'[c] = {}
  BY DEF Rollback, Close, OpenInv
<1>4. Fail(c) \/ (\E a : Refuse(c, a)) => Leaves
  BY <1>1, <1>2, <1>3 DEF Fail, Refuse
<1>5. ASSUME NEW p, StartSave(c, p) PROVE Leaves
  <2>1. [op |-> "begin", prim |-> p].op \notin Reading \cup Answered
    BY DEF Reading, Answered
  <2> QED BY <1>2, <1>4, <1>5, <2>1 DEF StartSave
<1>6. ASSUME NEW g, NEW a, call[c] = Idle, AutoCommit(c, g, a) PROVE Leaves
  BY <1>1, <1>6 DEF AutoCommit, OpenInv
<1>7. Write(c) => Leaves
  BY <1>5, <1>6 DEF Write, StartUpsert, Delete, ClearAll
<1>8. WriteRow(c) => Leaves
  <2>1. [op |-> "row", prim |-> call[c].prim].op \notin Reading \cup Answered
    BY DEF Reading, Answered
  <2> QED BY <1>2, <1>4, <2>1 DEF WriteRow
<1>9. DeleteOutgoing(c) => Leaves
  <2>1. [op |-> "unlinked", prim |-> call[c].prim].op \notin Reading \cup Answered
    BY DEF Reading, Answered
  <2> QED BY <1>2, <2>1 DEF DeleteOutgoing
<1>10. ASSUME NEW todo PROVE [op |-> "insert", prim |-> call[c].prim, todo |-> todo].op
                               \notin Reading \cup Answered
  BY DEF Reading, Answered
<1>11. CheckCycles(c) => Leaves
  BY <1>2, <1>4, <1>10 DEF CheckCycles
<1>12. InsertRelatum(c) => Leaves
  BY <1>2, <1>4, <1>10 DEF InsertRelatum
<1>13. Commit(c) \/ Interrupt(c) \/ Return(c) => Leaves
  BY <1>1, <1>2 DEF Commit, Interrupt, Return
<1>14. ListNames(c) => Leaves
  BY <1>1 DEF ListNames, Pin, OpenInv
<1>15. GiveUp(c) \/ Crash(c) => Leaves
  BY <1>4 DEF GiveUp, Crash
<1>16. Query(c) => ListNames(c) \/ ReadStep(c)
  BY DEF Query, ReadStep
<1> HIDE DEF Leaves
<1>17. Leaves
  BY <1>7, <1>8, <1>9, <1>11, <1>12, <1>13, <1>14, <1>15, <1>16 DEF Step, Start, Statement, ReadStep
<1> QED BY <1>17 DEF Leaves

\* A statement of a read adds a piece of the graph it sees, which is one of
\* those the read may speak of.
LEMMA ReadStepWitnessed ==
  ASSUME TxnInv, NEW c \in Conns, ReadStep(c), NEW S, View(c) \in S, Witnessed(call[c], S)
  PROVE  Witnessed(call'[c], S)
<1>1. Witnessed(call[c], S)
  OBVIOUS
<1> DEFINE g == View(c)
<1>2. g \in S
  OBVIOUS
<1> HIDE DEF g
<1>3. CASE \E q \in Queries : StartResolve(c, q)
  <2>1. PICK q \in Queries : call'[c] = [op |-> "ids", query |-> q, ids |-> Collected(g, q)]
    BY <1>3 DEF StartResolve, Read, Goto, TxnInv, g
  <2> QED BY <1>2, <2>1 DEF Witnessed
<1>4. CASE \E i : StartFind(c, i)
  <2>1. PICK i : /\ i \in DOMAIN g
                 /\ call'[c] = [op |-> "found_row", id |-> i, rows |-> RowsOf(g, {i})]
    BY <1>4 DEF StartFind, Read, Goto, TxnInv, g
  <2> QED BY <1>2, <2>1 DEF Witnessed
<1>5. CASE FetchOutgoing(c)
  <2>1. /\ call[c].op = "found_row"
        /\ call'[c] = [op |-> "found", id |-> call[c].id,
                       prim |-> Hydrated(call[c].rows, EdgesOf(g, {call[c].id}, Ids))[call[c].id]]
    BY <1>5 DEF FetchOutgoing, Saving, Read, Goto, TxnInv, g
  <2>2. PICK h \in S : call[c].id \in DOMAIN h /\ call[c].rows = RowsOf(h, {call[c].id})
    BY <1>1, <2>1 DEF Witnessed
  <2>3. /\ call'[c].op = "found" /\ call'[c].id = call[c].id
        /\ call'[c].prim = Hydrated(RowsOf(h, {call[c].id}), EdgesOf(g, {call[c].id}, Ids))[call[c].id]
    BY <2>1, <2>2
  <2> QED BY <1>2, <2>2, <2>3 DEF Witnessed
<1>6. CASE FetchRows(c)
  <2>1. /\ call[c].op = "ids"
        /\ call'[c] = [op |-> "rows", query |-> call[c].query, ids |-> call[c].ids,
                       rows |-> RowsOf(g, call[c].ids)]
    BY <1>6 DEF FetchRows, Saving, Read, Goto, TxnInv, g
  <2>2. PICK h \in S : call[c].ids = Collected(h, call[c].query)
    BY <1>1, <2>1 DEF Witnessed
  <2> QED BY <1>2, <2>1, <2>2 DEF Witnessed
<1>7. CASE FetchEdges(c)
  <2> DEFINE ids == call[c].ids
             edges == EdgesOf(g, ids, ids)
  <2>1. /\ call[c].op = "rows"
        /\ call'[c] = [op |-> "resolved", query |-> call[c].query, edges |-> edges,
                       nodes |-> Hydrated(call[c].rows, edges)]
    BY <1>7 DEF FetchEdges, Saving, Read, Goto, TxnInv, g
  <2>2. PICK h, f \in S : ids = Collected(h, call[c].query) /\ call[c].rows = RowsOf(f, ids)
    BY <1>1, <2>1 DEF Witnessed
  <2>3. /\ call'[c].op = "resolved" /\ call'[c].query = call[c].query
        /\ call'[c].edges = edges /\ call'[c].nodes = Hydrated(RowsOf(f, ids), edges)
    BY <2>1, <2>2
  <2> QED BY <1>2, <2>2, <2>3 DEF Witnessed
<1> QED BY <1>3, <1>4, <1>5, <1>6, <1>7 DEF ReadStep

\* What a connection without the lock sees is a graph.
LEMMA ViewIsGraph ==
  ASSUME IsGraph(committed), ReadInv, NEW c \in Conns, lock # c
  PROVE  IsGraph(View(c))
<1>1. CASE pinned[c] = {}
  BY <1>1 DEF View
<1>2. CASE pinned[c] # {}
  <2>1. View(c) \in pinned[c]
    BY <1>2 DEF View
  <2> QED BY <2>1 DEF ReadInv
<1> QED BY <1>1, <1>2

\* Every step keeps the witnesses of every read.
LEMMA ReadStepKeeps ==
  ASSUME TxnInv, OpenInv, IsGraph(committed), ReadInv, [Next]_vars
  PROVE  ReadInv'
<1>1. CASE UNCHANGED vars
  BY <1>1 DEF vars, ReadInv, Sources
<1>2. ASSUME NEW c \in Conns, Step(c), Remember PROVE ReadInv'
  <2> DEFINE S(d) == IF d \in open \/ call'[d].op \notin Reading \cup Answered THEN {}
                     ELSE IF call[d].op \in Answered THEN seen[d]
                     ELSE seen[d] \cup {committed'}
             Keeps(d) == /\ d \in open' => seen'[d] = {}
                         /\ lock' = d \/ Witnessed(call'[d], Sources(d)')
                         /\ \A g \in pinned'[d] : IsGraph(g)
  <2>1. seen' = [d \in Conns |-> S(d)]
    BY <1>2 DEF Remember
  <2> HIDE DEF S
  <2>2. DOMAIN seen' = Conns /\ \A d \in Conns : seen'[d] = S(d)
    BY <2>1
  <2>3. \A d \in Conns : d \in open \/ call'[d].op \notin Reading \cup Answered => seen'[d] = {}
    BY <2>2 DEF S
  <2>4. \A d \in Conns : call'[d].op \in Reading \cup Answered /\ d \notin open => seen[d] \subseteq seen'[d]
    BY <2>2 DEF S
  <2>5. ASSUME NEW d \in Conns, d # c PROVE Keeps(d)
    <3>1. /\ call'[d] = call[d] /\ pinned'[d] = pinned[d]
          /\ d \in open' <=> d \in open
          /\ lock' = d <=> lock = d
      BY <1>2, <2>5, OthersUntouched
    <3>2. /\ d \in open => seen[d] = {}
          /\ lock = d \/ Witnessed(call[d], Sources(d))
          /\ \A g \in pinned[d] : IsGraph(g)
      BY DEF ReadInv
    <3>3. CASE call'[d].op \notin Reading \cup Answered
      BY <2>3, <3>1, <3>2, <3>3, NothingToWitness
    <3>4. CASE d \in open
      BY <2>3, <3>1, <3>2, <3>4 DEF Sources
    <3>5. CASE call'[d].op \in Reading \cup Answered /\ d \notin open
      <4>1. Sources(d) \subseteq Sources(d)'
        BY <2>4, <3>1, <3>5 DEF Sources
      <4> QED BY <3>1, <3>2, <3>5, <4>1, WitnessedMonotone
    <3> QED BY <3>3, <3>4, <3>5
  <2>6. CASE ~ReadStep(c)
    <3>1. /\ call'[c].op \notin Reading \cup Answered
          /\ pinned'[c] \subseteq pinned[c] \/ (pinned'[c] = {View(c)} /\ lock # c)
      BY <1>2, <2>6, OtherSteps
    <3>2. \A g \in pinned'[c] : IsGraph(g)
      BY <3>1, ViewIsGraph DEF ReadInv
    <3>3. Keeps(c)
      BY <2>3, <3>1, <3>2, NothingToWitness
    <3> HIDE DEF Keeps
    <3>4. \A d \in Conns : Keeps(d)
      BY <2>5, <3>3
    <3> QED BY <2>2, <3>4 DEF ReadInv, Keeps
  <2>7. CASE ReadStep(c)
    <3>1. UNCHANGED <<committed, lock, open>> /\ Pin(c)
      BY <2>7 DEF ReadStep, StartResolve, StartFind, FetchOutgoing, FetchRows, FetchEdges, Read
    <3>2. pinned'[c] = IF c \in open /\ lock # c THEN {View(c)} ELSE pinned[c]
      BY <3>1 DEF Pin, OpenInv
    <3>3. call[c].op \notin Answered \cup Locked
      <4>1. call[c] = Idle \/ Saving(c, "found_row") \/ Saving(c, "ids") \/ Saving(c, "rows")
        BY <2>7 DEF ReadStep, StartResolve, StartFind, FetchOutgoing, FetchRows, FetchEdges
      <4> QED BY <4>1 DEF Saving, Idle, Answered, Locked
    <3>4. \A g \in pinned'[c] : IsGraph(g)
      BY <3>2, ViewIsGraph DEF ReadInv
    <3>5. c \in open' => seen'[c] = {}
      BY <2>3, <3>1
    <3>6. ASSUME lock # c PROVE Witnessed(call'[c], Sources(c)')
      <4>1. Witnessed(call[c], Sources(c))
        BY <3>6 DEF ReadInv
      <4>2. CASE c \in open
        <5>1. Sources(c)' = {View(c)}
          BY <3>1, <3>2, <3>6, <4>2 DEF Sources
        <5>2. Sources(c) \subseteq {View(c)}
          BY <3>6, <4>2 DEF Sources, View, OpenInv
        <5>3. Witnessed(call[c], {View(c)})
          BY <4>1, <5>2, WitnessedMonotone
        <5> QED BY <2>7, <5>1, <5>3, ReadStepWitnessed
      <4>3. CASE c \notin open /\ call'[c].op \in Reading \cup Answered
        <5>1. View(c) = committed
          BY <3>3, <4>3, ClosedView
        <5>2. Sources(c) = seen[c] /\ Sources(c)' = seen'[c]
          BY <3>1, <4>3 DEF Sources
        <5>3. seen'[c] = seen[c] \cup {committed}
          BY <2>2, <3>1, <3>3, <4>3 DEF S
        <5>4. Witnessed(call[c], seen'[c])
          BY <4>1, <5>2, <5>3, WitnessedMonotone
        <5> QED BY <2>7, <5>1, <5>2, <5>3, <5>4, ReadStepWitnessed
      <4>4. CASE call'[c].op \notin Reading \cup Answered
        BY <4>4, NothingToWitness
      <4> QED BY <4>2, <4>3, <4>4
    <3>7. Keeps(c)
      BY <3>1, <3>4, <3>5, <3>6
    <3> HIDE DEF Keeps
    <3>8. \A d \in Conns : Keeps(d)
      BY <2>5, <3>7
    <3> QED BY <2>2, <3>8 DEF ReadInv, Keeps
  <2> QED BY <2>6, <2>7
<1> QED BY <1>1, <1>2 DEF Next

\* A whole save, delete or clear leaves rows that are primitives.
LEMMA StoreStepIsGraph ==
  ASSUME IsGraph(committed), StoreStep
  PROVE  IsGraph(committed)'
<1>1. ASSUME NEW p \in Primitive, WellFormed(p), committed' = Saved(committed, p)
      PROVE  IsGraph(committed')
  <2>1. /\ StoredRow(committed, p) \in Primitive /\ StoredRow(committed, p).id = p.id
        /\ WellFormed(StoredRow(committed, p))
    BY <1>1 DEF StoredRow, Primitive, WellFormed
  <2>2. p.id \in Ids
    BY DEF Primitive
  <2> QED BY <1>1, <2>1, <2>2 DEF Saved, IsGraph
<1>2. ASSUME NEW S, committed' = Without(committed, S) PROVE IsGraph(committed')
  <2>1. ASSUME NEW i \in DOMAIN committed \ S
        PROVE  LET w == [committed[i] EXCEPT !.relata = {r \in committed[i].relata : r.target \notin S}]
               IN  w \in Primitive /\ w.id = i /\ WellFormed(w)
    BY DEF IsGraph, Primitive, WellFormed
  <2> QED BY <1>2, <2>1 DEF Without, IsGraph
<1>3. ASSUME NEW p \in Primitive, WellFormed(p), Store!SavePrimitive(p) PROVE IsGraph(committed')
  <2>1. committed' = committed \/ committed' = Saved(committed, p)
    BY <1>3, CallCopies DEF Store!SavePrimitive
  <2> QED BY <1>1, <1>3, <2>1
<1>4. ASSUME NEW p \in StoreDrafts
      PROVE  /\ p \in Primitive /\ WellFormed(p)
             /\ Store!Canonical(committed, p) \in Primitive /\ WellFormed(Store!Canonical(committed, p))
  <2>1. PICK d \in Drafts, i \in Ids : p = [d EXCEPT !.id = i]
    BY DEF StoreDrafts
  <2>2. d \in Primitive /\ WellFormed(d)
    BY TxnDraftsAssumption
  <2>3. p \in Primitive /\ WellFormed(p)
    BY <2>1, <2>2 DEF Primitive, WellFormed
  <2>4. CASE Store!HoldersOf(committed, p.name) = {}
    BY <2>3, <2>4 DEF Store!Canonical
  <2>5. CASE Store!HoldersOf(committed, p.name) # {}
    <3> DEFINE j == CHOOSE k \in Store!HoldersOf(committed, p.name) : TRUE
    <3>1. j \in Ids
      BY <2>5 DEF Store!HoldersOf, IsGraph
    <3>2. Store!Canonical(committed, p) = [p EXCEPT !.id = j]
      BY <2>5 DEF Store!Canonical
    <3> HIDE DEF j
    <3> QED BY <2>3, <3>1, <3>2 DEF Primitive, WellFormed
  <2> QED BY <2>3, <2>4, <2>5
<1>5. CASE UNCHANGED <<committed, last>>
  BY <1>5
<1>6. ASSUME NEW p \in StoreDrafts, Store!SavePrimitive(p) \/ Store!UpsertPrimitive(p)
      PROVE  IsGraph(committed')
  BY <1>3, <1>4, <1>6 DEF Store!UpsertPrimitive
<1>7. ASSUME NEW i \in Ids, Store!DeletePrimitive(i) PROVE IsGraph(committed')
  BY <1>2, <1>7, CallCopies DEF Store!DeletePrimitive
<1>8. CASE Store!Clear
  BY <1>2, <1>8, CallCopies DEF Store!Clear
<1> QED BY <1>5, <1>6, <1>7, <1>8 DEF StoreStep, Store!Next

\* An answer that one graph alone witnesses is the subgraph or the primitive of
\* that graph: the three statements of resolve_subgraph and their hydration
\* lose nothing.
LEMMA OneWitnessIsSnapshot ==
  ASSUME NEW c \in Conns, NEW g, IsGraph(g), Witnessed(call[c], {g}), call[c].op \in Answered
  PROVE  IsSnapshot(c, g)
<1>1. CASE call[c].op = "found"
  <2>1. /\ call[c].id \in DOMAIN g
        /\ call[c].prim = Hydrated(RowsOf(g, {call[c].id}), EdgesOf(g, {call[c].id}, Ids))[call[c].id]
    BY <1>1 DEF Witnessed
  <2>2. call[c].prim = g[call[c].id]
    BY <2>1, StatementsGivePrimitive
  <2> QED BY <1>1, <2>1, <2>2 DEF IsSnapshot
<1>2. CASE call[c].op = "resolved"
  <2> DEFINE ids == Collected(g, call[c].query)
  <2>1. /\ call[c].edges = EdgesOf(g, ids, ids)
        /\ call[c].nodes = Hydrated(RowsOf(g, ids), call[c].edges)
    BY <1>2 DEF Witnessed
  <2> QED BY <1>2, <2>1, StatementsGiveSubgraph DEF IsSnapshot
<1> QED BY <1>1, <1>2 DEF Answered

\* A read with no commit during it has exactly the subgraph or the primitive of
\* the rows on disk; one on a connection that an interrupted save left inside a
\* transaction it has not written in has that of the rows the transaction saw
\* first.
THEOREM TxnQuietReads == Spec => []QuietReadsAreSubgraphs
<1>1. Init => ReadInv /\ IsGraph(committed)
  <2> SUFFICES ASSUME Init PROVE ReadInv /\ IsGraph(committed)
    OBVIOUS
  <2>1. DOMAIN seen = Conns /\ \A c \in Conns : call[c].op = "idle" /\ seen[c] = {} /\ pinned[c] = {}
    BY DEF Init, Idle
  <2>2. \A c \in Conns : Witnessed(call[c], Sources(c))
    BY <2>1, NothingToWitness DEF Reading, Answered
  <2> QED BY <2>1, <2>2 DEF Init, IsGraph, ReadInv
<1>2. TxnInv /\ OpenInv /\ ReadInv /\ IsGraph(committed) /\ [Next]_vars
        => ReadInv' /\ IsGraph(committed)'
  BY ReadStepKeeps, NextRefines, StoreStepIsGraph
<1>3. TxnInv /\ OpenInv /\ ReadInv /\ IsGraph(committed) => QuietReadsAreSubgraphs
  <2> SUFFICES ASSUME TxnInv, OpenInv, ReadInv, IsGraph(committed),
                      NEW c \in Conns, call[c].op \in Answered
               PROVE  /\ seen[c] = {committed} => IsSnapshot(c, committed)
                      /\ c \in open /\ lock # c => IsSnapshot(c, View(c))
    BY DEF QuietReadsAreSubgraphs
  <2>1. ASSUME seen[c] = {committed} PROVE IsSnapshot(c, committed)
    <3>1. c \notin open
      BY <2>1 DEF ReadInv
    <3>2. lock # c
      BY <3>1, ClosedView DEF Answered, Locked
    <3>3. Witnessed(call[c], {committed})
      BY <2>1, <3>1, <3>2 DEF ReadInv, Sources
    <3> QED BY <3>3, OneWitnessIsSnapshot
  <2>2. ASSUME c \in open, lock # c PROVE IsSnapshot(c, View(c))
    <3>1. Witnessed(call[c], pinned[c])
      BY <2>2 DEF ReadInv, Sources
    <3>2. pinned[c] # {}
      BY <3>1 DEF Witnessed, Answered
    <3>3. pinned[c] = {View(c)}
      BY <2>2, <3>2 DEF OpenInv, View
    <3> QED BY <2>2, <3>1, <3>3, ViewIsGraph, OneWitnessIsSnapshot
  <2> QED BY <2>1, <2>2
<1> QED BY <1>1, <1>2, <1>3, TxnInvariant, PTL DEF Spec

-----------------------------------------------------------------------------
(* What the repository guarantees carries over to the statements *)

\* The theorems of the repository, about the committed rows.
Calls == INSTANCE GraphStoreProofs WITH graph <- committed, result <- last, Drafts <- StoreDrafts

\* The specification of the repository is the one the theorems are about.
LEMMA CallsSpec == Store!Spec => Calls!Spec
<1>1. Store!Init => Calls!Init
  BY DEF Store!Init, Calls!Init
<1>2. Store!Next => Calls!Next
  BY Zenon DEF Store!Next, Calls!Next, Store!SavePrimitive, Calls!SavePrimitive,
       Store!UpsertPrimitive, Calls!UpsertPrimitive, Store!DeletePrimitive, Calls!DeletePrimitive,
       Store!Clear, Calls!Clear, Store!Canonical, Calls!Canonical, Store!HoldersOf, Calls!HoldersOf,
       Store!SaveResult, Calls!SaveResult, Store!NameTaken, Calls!NameTaken,
       Store!ClosesCycle, Calls!ClosesCycle, Store!ReachFrom, Calls!ReachFrom,
       Store!TransitiveTargets, Calls!TransitiveTargets, Store!TransitiveSucc, Calls!TransitiveSucc,
       Store!TransitiveTypes, Calls!TransitiveTypes, Store!Unlinked, Calls!Unlinked,
       Store!Dangles, Calls!Dangles, Store!Saved, Calls!Saved, Store!StoredRow, Calls!StoredRow,
       Store!Without, Calls!Without
<1>3. [Store!Next]_(Store!vars) => [Calls!Next]_(Calls!vars)
  BY <1>2 DEF Store!vars, Calls!vars
<1> QED BY <1>1, <1>3, PTL DEF Store!Spec, Calls!Spec

\* What the theorems assume of the drafts and the backend holds here.
LEMMA CallsAssumptions == Calls!DraftsAssumption /\ Calls!BackendAssumption
<1>1. Calls!Primitive = Primitive
  BY DEF Calls!Primitive, Calls!Level, Calls!Content, Calls!Relatum, Calls!RelationType,
         Primitive, Level, Content, Relatum, RelationType
<1>2. ASSUME NEW p \in StoreDrafts PROVE Calls!WellFormed(p)
  BY TxnDraftsAssumption DEF StoreDrafts, Primitive, Calls!WellFormed, WellFormed
<1>3. Calls!DraftsAssumption
  BY <1>1, <1>2, StoreDraftsTyped DEF Calls!DraftsAssumption
<1>4. Calls!BackendAssumption
  BY BackendAssumption DEF Calls!BackendAssumption
<1> QED BY <1>3, <1>4

\* Whatever statements of whatever connections interleave, with crashes, busy
\* timeouts and saves interrupted between them, the file never holds a cycle
\* of transitive relata, a relatum without its target or a name twice.
THEOREM TxnFileIsSound == Spec => [](Store!Acyclic /\ Store!NoDangling /\ Store!UniqueNames)
<1>1. Calls!Spec => []Calls!Acyclic /\ []Calls!NoDangling /\ []Calls!UniqueNames
  BY CallsAssumptions, Calls!StoreAcyclic, Calls!StoreNoDangling, Calls!StoreUniqueNames, PTL
<1>2. Calls!Acyclic <=> Store!Acyclic
  BY DEF Calls!Acyclic, Store!Acyclic, Calls!AcyclicGraph, Store!AcyclicGraph,
         Calls!TransitiveTargets, Store!TransitiveTargets, Calls!TransitiveTypes, Store!TransitiveTypes
<1>3. Calls!NoDangling <=> Store!NoDangling
  BY DEF Calls!NoDangling, Store!NoDangling
<1>4. Calls!UniqueNames <=> Store!UniqueNames
  BY DEF Calls!UniqueNames, Store!UniqueNames
<1>5. Spec => Calls!Spec
  BY CallsSpec, TxnRefinesStore DEF ImplementsStore
<1> QED BY <1>1, <1>2, <1>3, <1>4, <1>5, PTL

=============================================================================
