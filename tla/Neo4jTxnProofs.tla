---------------------------- MODULE Neo4jTxnProofs ----------------------------
(***************************************************************************)
(* What the locks of Neo4j guarantee for any clients and drafts, however   *)
(* their transactions overlap: no two hold the same node or name, so a     *)
(* name that was free at the MERGE is free at the commit and a relatum     *)
(* that was matched keeps its target.  Only the cycle check reads what it  *)
(* does not lock; when no two saves are past it at once, the queries are   *)
(* whole calls of the repository.                                          *)
(***************************************************************************)
EXTENDS Neo4jTxn, TLAPS

-----------------------------------------------------------------------------
(* Whole calls, of both instances of the repository *)

\* The save of q as one call.
Call(q) ==
  /\ last' = SaveResult(committed, q)
  /\ committed' = IF last' = "ok" THEN Saved(committed, q) ELSE committed

\* A delete or a clear as one call.
Removal ==
  \/ \E i \in Ids : /\ last' = IF i \in DOMAIN committed THEN "ok" ELSE "not_found"
                    /\ committed' = Without(committed, {i})
  \/ last' = "ok" /\ committed' = Without(committed, DOMAIN committed)

\* A step of the repository whose authors hold the primitives of D, or none.
StoreStep(D) ==
  \/ \E q \in D : Call(q)
  \/ Removal
  \/ UNCHANGED <<committed, last>>

\* The calls of the instances are these.
LEMMA SaveCopies ==
  ASSUME NEW q, Call(q)
  PROVE  Store!SavePrimitive(q) /\ Whole!SavePrimitive(q)
<1>1. Store!SavePrimitive(q)
  BY Zenon DEF Call, Store!SavePrimitive, SaveResult, Store!SaveResult, NameTaken, Store!NameTaken,
       ClosesCycle, Store!ClosesCycle, ReachFrom, Store!ReachFrom, TransitiveTargets,
       Store!TransitiveTargets, TransitiveSucc, Store!TransitiveSucc, TransitiveTypes,
       Store!TransitiveTypes, Unlinked, Store!Unlinked, Dangles, Store!Dangles, Saved, Store!Saved,
       StoredRow, Store!StoredRow
<1>2. Whole!SavePrimitive(q)
  BY Zenon DEF Call, Whole!SavePrimitive, SaveResult, Whole!SaveResult, NameTaken, Whole!NameTaken,
       ClosesCycle, Whole!ClosesCycle, ReachFrom, Whole!ReachFrom, TransitiveTargets,
       Whole!TransitiveTargets, TransitiveSucc, Whole!TransitiveSucc, TransitiveTypes,
       Whole!TransitiveTypes, Unlinked, Whole!Unlinked, Dangles, Whole!Dangles, Saved, Whole!Saved,
       StoredRow, Whole!StoredRow
<1> QED BY <1>1, <1>2

LEMMA RemovalCopies ==
  ASSUME Removal
  PROVE  Store!Next /\ Whole!Next
<1>1. Store!Next
  BY DEF Removal, Store!Next, Store!DeletePrimitive, Store!Clear, Store!Without, Without
<1>2. Whole!Next
  BY DEF Removal, Whole!Next, Whole!DeletePrimitive, Whole!Clear, Whole!Without, Without
<1> QED BY <1>1, <1>2

\* So steps with the drafts are steps of the repository with nothing left out.
LEMMA WholeSteps ==
  ASSUME StoreStep(Drafts)
  PROVE  [Whole!Next]_(Whole!vars)
<1>1. CASE \E q \in Drafts : Call(q)
  BY <1>1, SaveCopies DEF Whole!Next
<1>2. CASE Removal
  BY <1>2, RemovalCopies
<1>3. CASE UNCHANGED <<committed, last>>
  BY <1>3 DEF Whole!vars
<1> QED BY <1>1, <1>2, <1>3 DEF StoreStep

\* And those with drafts of which some relata are left out, of the other.
LEMMA PartialSteps ==
  ASSUME StoreStep(PartialDrafts)
  PROVE  [Store!Next]_(Store!vars)
<1>1. CASE \E q \in PartialDrafts : Call(q)
  BY <1>1, SaveCopies DEF Store!Next
<1>2. CASE Removal
  BY <1>2, RemovalCopies
<1>3. CASE UNCHANGED <<committed, last>>
  BY <1>3 DEF Store!vars
<1> QED BY <1>1, <1>2, <1>3 DEF StoreStep

\* A draft without some of its relata is a primitive.
LEMMA PartialDraft ==
  ASSUME NEW p \in Drafts, NEW S \in SUBSET p.relata
  PROVE  /\ [p EXCEPT !.relata = S] \in PartialDrafts
         /\ [p EXCEPT !.relata = S] \in Primitive
         /\ WellFormed([p EXCEPT !.relata = S])
         /\ [p EXCEPT !.relata = S].relata = S
         /\ [p EXCEPT !.relata = S].id = p.id
         /\ [p EXCEPT !.relata = S].name = p.name
<1>1. p \in Primitive /\ WellFormed(p)
  BY Neo4jDraftsAssumption
<1>2. [p EXCEPT !.relata = S] \in PartialDrafts
  BY DEF PartialDrafts
<1> QED BY <1>1, <1>2 DEF Primitive, WellFormed

\* And every draft is one without none of its relata.
LEMMA DraftsArePartial == Drafts \subseteq PartialDrafts
<1> SUFFICES ASSUME NEW p \in Drafts PROVE p \in PartialDrafts
  OBVIOUS
<1>1. [p EXCEPT !.relata = p.relata] \in PartialDrafts
  BY PartialDraft
<1>2. [p EXCEPT !.relata = p.relata] = p
  BY Neo4jDraftsAssumption DEF Primitive
<1> QED BY <1>1, <1>2

-----------------------------------------------------------------------------
(* The inductive invariant *)

Locking == {"merged", "unlinked", "checked"}

Running == [at : {"begin"} \cup Locking, prim : Drafts,
            gone : SUBSET Relatum, made : SUBSET Relatum, todo : SUBSET Relatum]

\* What a transaction under way has found free is free, and what it has
\* matched is there.
TxnOK(c) ==
  \/ txn[c] = Idle
  \/ /\ txn[c] \in Running
     /\ txn[c].at = "begin" => txn[c].made = {} /\ txn[c].gone = {}
     /\ txn[c].at \in Locking => ~NameTaken(committed, txn[c].prim)
     /\ txn[c].made \subseteq txn[c].prim.relata
     /\ \A r \in txn[c].made : r.target \in DOMAIN committed \cup {txn[c].prim.id}
     /\ txn[c].todo \subseteq txn[c].prim.relata
     /\ txn[c].at = "unlinked" => txn[c].todo \subseteq TransitiveRelata(txn[c].prim)

\* No node and no name is locked twice.
Exclusive == \A c, d \in Clients : c # d => Locks(c) \cap Locks(d) = {}

GraphOK ==
  /\ IsGraph(committed)
  /\ \A i \in DOMAIN committed : \A r \in committed[i].relata : r.target \in DOMAIN committed
  /\ \A i, j \in DOMAIN committed : committed[i].name = committed[j].name => i = j

Neo4jInv ==
  /\ GraphOK
  /\ DOMAIN txn = Clients
  /\ Exclusive
  /\ \A c \in Clients : TxnOK(c)

\* Before its first query a transaction has locked nothing.
LEMMA IdleLocks ==
  ASSUME NEW c, txn[c].at \in {"idle", "begin"}
  PROVE  Locks(c) = {}
BY DEF Locks

\* From its first query on a transaction has locked its node and its name, and
\* the targets of what it made.
LEMMA LockingLocks ==
  ASSUME Neo4jInv, NEW c \in Clients, txn[c].at \in Locking
  PROVE  Locks(c) = {txn[c].prim.id, txn[c].prim.name} \cup {r.target : r \in txn[c].gone \cup txn[c].made}
BY DEF Locks, Locking

\* A step of c that adds only what is free to its locks keeps them exclusive.
LEMMA LocksStayExclusive ==
  ASSUME Neo4jInv, NEW c \in Clients, NEW step, Goto(c, step),
         NEW L, Free(c, L), Locks(c)' \subseteq Locks(c) \cup L
  PROVE  Exclusive'
<1>1. \A d \in Clients \ {c} : txn'[d] = txn[d]
  BY DEF Goto, Neo4jInv
<1>2. \A d \in Clients \ {c} : Locks(d)' = Locks(d)
  BY <1>1 DEF Locks
<1>3. \A d \in Clients \ {c} : Locks(d) \cap L = {} /\ Locks(d) \cap Locks(c) = {}
  BY DEF Free, Neo4jInv, Exclusive
<1>4. \A d, e \in Clients \ {c} : d # e => Locks(d) \cap Locks(e) = {}
  BY DEF Neo4jInv, Exclusive
<1> QED BY <1>2, <1>3, <1>4 DEF Exclusive

\* A query that writes nothing that others see.
LEMMA QuietKeeps ==
  ASSUME Neo4jInv, NEW c \in Clients, NEW step, Goto(c, step), committed' = committed,
         NEW L, Free(c, L), Locks(c)' \subseteq Locks(c) \cup L, TxnOK(c)'
  PROVE  Neo4jInv'
<1>1. Exclusive'
  BY LocksStayExclusive
<1>2. DOMAIN txn' = Clients /\ \A d \in Clients \ {c} : txn'[d] = txn[d]
  BY DEF Goto, Neo4jInv
<1>3. \A d \in Clients \ {c} : TxnOK(d)'
  BY <1>2 DEF Neo4jInv, TxnOK
<1>4. GraphOK'
  BY DEF Neo4jInv, GraphOK
<1> QED BY <1>1, <1>2, <1>3, <1>4 DEF Neo4jInv

\* A transaction that ends without a commit.
LEMMA LeavesKeeps ==
  ASSUME Neo4jInv, NEW c \in Clients, Goto(c, Idle), committed' = committed
  PROVE  Neo4jInv'
<1>1. txn'[c] = Idle
  BY DEF Goto, Neo4jInv
<1>2. Locks(c)' = {}
  BY <1>1 DEF Locks, Idle
<1>3. TxnOK(c)'
  BY <1>1 DEF TxnOK
<1>4. Free(c, {})
  BY DEF Free
<1> QED BY <1>2, <1>3, <1>4, QuietKeeps

\* The parts of a transaction under way.
LEMMA RunningFacts ==
  ASSUME Neo4jInv, NEW c \in Clients, txn[c].at # "idle"
  PROVE  /\ txn[c] \in Running
         /\ txn[c].at = "begin" => txn[c].made = {} /\ txn[c].gone = {}
         /\ txn[c].at \in Locking => ~NameTaken(committed, txn[c].prim)
         /\ txn[c].made \subseteq txn[c].prim.relata
         /\ \A r \in txn[c].made : r.target \in DOMAIN committed \cup {txn[c].prim.id}
         /\ txn[c].todo \subseteq txn[c].prim.relata
         /\ txn[c].at = "unlinked" => txn[c].todo \subseteq TransitiveRelata(txn[c].prim)
         /\ txn[c].prim \in Drafts /\ txn[c].prim \in Primitive /\ WellFormed(txn[c].prim)
<1>1. txn[c] # Idle
  BY DEF Idle
<1>2. txn[c] \in Running
  BY <1>1 DEF Neo4jInv, TxnOK
<1>3. txn[c].prim \in Drafts /\ txn[c].prim \in Primitive /\ WellFormed(txn[c].prim)
  BY <1>2, Neo4jDraftsAssumption DEF Running
<1> QED BY <1>1, <1>2, <1>3 DEF Neo4jInv, TxnOK

\* A save begins.
LEMMA StartKeeps ==
  ASSUME Neo4jInv, NEW c \in Clients, NEW p \in Drafts, StartSave(c, p)
  PROVE  Neo4jInv'
<1> DEFINE t == [at |-> "begin", prim |-> p, gone |-> {}, made |-> {}, todo |-> {}]
<1>1. Goto(c, t) /\ committed' = committed
  BY DEF StartSave
<1>2. txn'[c] = t
  BY <1>1 DEF Goto, Neo4jInv
<1>3. t \in Running
  BY DEF Running
<1>4. TxnOK(c)'
  BY <1>2, <1>3 DEF TxnOK, Locking
<1>5. Locks(c)' = {}
  BY <1>2 DEF Locks
<1>6. Free(c, {})
  BY DEF Free
<1> QED BY <1>1, <1>4, <1>5, <1>6, QuietKeeps

\* The MERGE locks the node and the name, when the name is free.
LEMMA MergeKeeps ==
  ASSUME Neo4jInv, NEW c \in Clients, Merge(c)
  PROVE  Neo4jInv'
<1>1. CASE NameTaken(committed, txn[c].prim)
  BY <1>1, LeavesKeeps DEF Merge, Leave
<1>2. CASE ~NameTaken(committed, txn[c].prim)
  <2> DEFINE t == [txn[c] EXCEPT !.at = "merged"]
             L == {txn[c].prim.id, txn[c].prim.name}
  <2>1. txn[c].at = "begin" /\ Free(c, L) /\ Goto(c, t) /\ committed' = committed
    BY <1>2 DEF Merge
  <2>2. /\ txn[c] \in Running /\ txn[c].made = {} /\ txn[c].gone = {}
        /\ txn[c].todo \subseteq txn[c].prim.relata
    BY <2>1, RunningFacts
  <2>3. txn'[c] = t
    BY <2>1 DEF Goto, Neo4jInv
  <2>4. t \in Running /\ t.at = "merged" /\ t.made = {} /\ t.gone = {} /\ t.prim = txn[c].prim
        /\ t.todo = txn[c].todo
    BY <2>2 DEF Running, Locking
  <2> HIDE DEF t
  <2>5. TxnOK(c)'
    BY <1>2, <2>1, <2>2, <2>3, <2>4 DEF TxnOK
  <2>6. Locks(c)' = L
    BY <2>3, <2>4 DEF Locks
  <2> QED BY <2>1, <2>5, <2>6, QuietKeeps
<1> QED BY <1>1, <1>2

\* The old relationships go, with locks on their ends.
LEMMA DeleteKeeps ==
  ASSUME Neo4jInv, NEW c \in Clients, DeleteRelationships(c)
  PROVE  Neo4jInv'
<1> DEFINE p == txn[c].prim
           old == UNION {committed[k].relata : k \in DOMAIN committed \cap {p.id}}
           t == [txn[c] EXCEPT !.at = "unlinked", !.gone = old, !.todo = TransitiveRelata(p)]
           L == {r.target : r \in old} \ {p.id}
<1>1. txn[c].at = "merged" /\ Free(c, L) /\ Goto(c, t) /\ committed' = committed
  BY DEF DeleteRelationships
<1>2. txn[c] \in Running /\ ~NameTaken(committed, p) /\ txn[c].made \subseteq p.relata
      /\ (\A r \in txn[c].made : r.target \in DOMAIN committed \cup {p.id})
      /\ TransitiveRelata(p) \subseteq p.relata /\ p \in Primitive
  BY <1>1, RunningFacts DEF Locking, TransitiveRelata
<1>3. old \in SUBSET Relatum
  BY DEF Neo4jInv, GraphOK, IsGraph, Primitive
<1>4. txn'[c] = t
  BY <1>1 DEF Goto, Neo4jInv
<1> HIDE DEF old
<1>5. /\ t \in Running /\ t.at = "unlinked" /\ t.gone = old /\ t.made = txn[c].made /\ t.prim = p
      /\ t.todo = TransitiveRelata(p)
  BY <1>2, <1>3 DEF Running, Locking, Primitive
<1> HIDE DEF t
<1>6. TxnOK(c)'
  BY <1>1, <1>2, <1>4, <1>5 DEF TxnOK
<1>7. Locks(c)' = {p.id, p.name} \cup {r.target : r \in old \cup txn[c].made}
  BY <1>4, <1>5 DEF Locks
<1>8. Locks(c)' \subseteq Locks(c) \cup L
  BY <1>1, <1>7, LockingLocks DEF Locking
<1> QED BY <1>1, <1>6, <1>8, QuietKeeps

\* A query that only moves the transaction on, to what is left to do.
LEMMA MovesKeep ==
  ASSUME Neo4jInv, NEW c \in Clients, txn[c].at \in Locking, NEW at \in Locking,
         NEW todo \in SUBSET txn[c].prim.relata,
         at = "unlinked" => todo \subseteq TransitiveRelata(txn[c].prim),
         Goto(c, [txn[c] EXCEPT !.at = at, !.todo = todo]), committed' = committed
  PROVE  Neo4jInv'
<1> DEFINE t == [txn[c] EXCEPT !.at = at, !.todo = todo]
<1>1. /\ txn[c] \in Running /\ ~NameTaken(committed, txn[c].prim)
      /\ txn[c].made \subseteq txn[c].prim.relata
      /\ \A r \in txn[c].made : r.target \in DOMAIN committed \cup {txn[c].prim.id}
      /\ txn[c].prim \in Primitive
  BY RunningFacts DEF Locking
<1>2. txn'[c] = t
  BY DEF Goto, Neo4jInv
<1>3. /\ t \in Running /\ t.at = at /\ t.todo = todo
      /\ t.made = txn[c].made /\ t.gone = txn[c].gone /\ t.prim = txn[c].prim
  BY <1>1 DEF Running, Locking, Primitive
<1> HIDE DEF t
<1>4. TxnOK(c)'
  BY <1>1, <1>2, <1>3 DEF TxnOK, Locking
<1>5. Locks(c)' \subseteq Locks(c) \cup {} /\ Free(c, {})
  BY <1>2, <1>3, LockingLocks DEF Locks, Locking, Free
<1> QED BY <1>2, <1>4, <1>5, QuietKeeps DEF t

\* The cycle check locks nothing.
LEMMA CheckKeeps ==
  ASSUME Neo4jInv, NEW c \in Clients, CheckCycles(c) \/ Checked(c)
  PROVE  Neo4jInv'
<1>1. /\ txn[c].at = "unlinked" /\ txn[c] \in Running
      /\ txn[c].todo \subseteq txn[c].prim.relata
      /\ txn[c].todo \subseteq TransitiveRelata(txn[c].prim)
  BY RunningFacts DEF CheckCycles, Checked
<1>2. CASE Goto(c, Idle) /\ committed' = committed
  BY <1>2, LeavesKeeps
<1>3. CASE Checked(c)
  BY <1>1, <1>3, MovesKeep DEF Checked, Locking
<1>4. ASSUME NEW r, Goto(c, [txn[c] EXCEPT !.todo = @ \ {r}]), committed' = committed
      PROVE  Neo4jInv'
  <2>1. [txn[c] EXCEPT !.todo = @ \ {r}] = [txn[c] EXCEPT !.at = "unlinked", !.todo = txn[c].todo \ {r}]
    BY <1>1 DEF Running
  <2>2. Goto(c, [txn[c] EXCEPT !.at = "unlinked", !.todo = txn[c].todo \ {r}])
    BY <1>4, <2>1
  <2>3. /\ txn[c].todo \ {r} \in SUBSET txn[c].prim.relata
        /\ txn[c].todo \ {r} \subseteq TransitiveRelata(txn[c].prim)
    BY <1>1
  <2> QED BY <1>1, <1>4, <2>2, <2>3, MovesKeep DEF Locking
<1> QED BY <1>2, <1>3, <1>4 DEF CheckCycles, Leave

\* A query that matches nothing neither.
LEMMA SkipKeeps ==
  ASSUME Neo4jInv, NEW c \in Clients, Skip(c)
  PROVE  Neo4jInv'
<1>1. PICK r \in txn[c].todo : Goto(c, [txn[c] EXCEPT !.todo = @ \ {r}])
  BY DEF Skip
<1>2. /\ txn[c].at = "checked" /\ txn[c] \in Running /\ txn[c].todo \subseteq txn[c].prim.relata
      /\ committed' = committed
  BY RunningFacts DEF Skip
<1>3. [txn[c] EXCEPT !.todo = @ \ {r}] = [txn[c] EXCEPT !.at = "checked", !.todo = txn[c].todo \ {r}]
  BY <1>2 DEF Running
<1>4. Goto(c, [txn[c] EXCEPT !.at = "checked", !.todo = txn[c].todo \ {r}])
  BY <1>1, <1>3
<1>5. txn[c].todo \ {r} \in SUBSET txn[c].prim.relata
  BY <1>2
<1> QED BY <1>2, <1>4, <1>5, MovesKeep DEF Locking

\* A relatum is created where the MATCH finds both ends, which it locks.
LEMMA CreateKeeps ==
  ASSUME Neo4jInv, NEW c \in Clients, Create(c)
  PROVE  Neo4jInv'
<1> DEFINE p == txn[c].prim
<1>1. PICK r \in txn[c].todo :
        /\ Matched(c, r) /\ Free(c, {r.target})
        /\ Goto(c, [txn[c] EXCEPT !.made = @ \cup {r}, !.todo = @ \ {r}])
  BY DEF Create
<1> DEFINE t == [txn[c] EXCEPT !.made = @ \cup {r}, !.todo = @ \ {r}]
<1>2. txn[c].at = "checked" /\ Goto(c, t) /\ committed' = committed
  BY <1>1 DEF Create
<1>3. /\ txn[c] \in Running /\ ~NameTaken(committed, p) /\ txn[c].made \subseteq p.relata
      /\ \A e \in txn[c].made : e.target \in DOMAIN committed \cup {p.id}
      /\ p \in Primitive /\ txn[c].todo \subseteq p.relata
  BY <1>2, RunningFacts DEF Locking
<1>4. r \in p.relata /\ r.target \in DOMAIN committed \cup {p.id} /\ r \in Relatum
  BY <1>1, <1>3 DEF Matched, Primitive
<1>5. txn'[c] = t
  BY <1>2 DEF Goto, Neo4jInv
<1>6. /\ t \in Running /\ t.at = "checked"
      /\ t.made = txn[c].made \cup {r} /\ t.gone = txn[c].gone /\ t.prim = p
      /\ t.todo \subseteq p.relata
  BY <1>2, <1>3, <1>4 DEF Running, Locking
<1> HIDE DEF t
<1>7. TxnOK(c)'
  BY <1>2, <1>3, <1>4, <1>5, <1>6 DEF TxnOK
<1>8. Locks(c)' \subseteq Locks(c) \cup {r.target}
  BY <1>2, <1>5, <1>6, LockingLocks DEF Locks, Locking
<1> QED BY <1>1, <1>2, <1>7, <1>8, QuietKeeps

\* What is committed: the row with the relata that were made, and no name or
\* end that another transaction counts on is touched.
LEMMA CommitKeeps ==
  ASSUME Neo4jInv, NEW c \in Clients, Commit(c)
  PROVE  Neo4jInv'
<1> DEFINE p == txn[c].prim
           made == txn[c].made
<1>1. /\ txn[c].at = "checked" /\ committed' = Overlaid(committed, p, made) /\ Goto(c, Idle)
  BY DEF Commit, Leave
<1>2. /\ ~NameTaken(committed, p) /\ made \subseteq p.relata
      /\ \A r \in made : r.target \in DOMAIN committed \cup {p.id}
      /\ p \in Primitive /\ WellFormed(p)
  BY <1>1, RunningFacts DEF Locking
<1>3. DOMAIN committed' = DOMAIN committed \cup {p.id}
  BY <1>1 DEF Overlaid
<1>4. committed'[p.id] = [p EXCEPT !.relata = made]
      /\ \A j \in DOMAIN committed : j # p.id => committed'[j] = committed[j]
  BY <1>1 DEF Overlaid
<1>5. [p EXCEPT !.relata = made] \in Primitive
      /\ [p EXCEPT !.relata = made].name = p.name
      /\ [p EXCEPT !.relata = made].id = p.id
      /\ [p EXCEPT !.relata = made].relata = made
      /\ WellFormed([p EXCEPT !.relata = made])
  BY <1>2 DEF Primitive, WellFormed
<1> DEFINE row == [p EXCEPT !.relata = made]
<1> HIDE DEF row
<1>6. GraphOK'
  <2>1. \A j \in DOMAIN committed' : (j = p.id /\ committed'[j] = row)
                                     \/ (j \in DOMAIN committed /\ j # p.id /\ committed'[j] = committed[j])
    BY <1>3, <1>4 DEF row
  <2>2. row \in Primitive /\ row.name = p.name /\ row.id = p.id /\ row.relata = made /\ WellFormed(row)
    BY <1>5 DEF row
  <2>3. p.id \in Ids
    BY <1>2 DEF Primitive
  <2>4. IsGraph(committed')
    BY <1>3, <2>1, <2>2, <2>3 DEF IsGraph, Neo4jInv, GraphOK
  <2>5. \A i \in DOMAIN committed' : \A r \in committed'[i].relata : r.target \in DOMAIN committed'
    BY <1>2, <1>3, <2>1, <2>2 DEF Neo4jInv, GraphOK
  <2>6. \A j \in DOMAIN committed \ {p.id} : committed[j].name # p.name
    BY <1>2 DEF NameTaken
  <2>7. ASSUME NEW i \in DOMAIN committed', NEW j \in DOMAIN committed',
               committed'[i].name = committed'[j].name
        PROVE  i = j
    <3>1. CASE i = p.id /\ j = p.id
      BY <3>1
    <3>2. CASE i # p.id /\ j # p.id
      BY <2>1, <2>7, <3>2 DEF Neo4jInv, GraphOK
    <3>3. CASE i = p.id /\ j # p.id
      BY <2>1, <2>2, <2>6, <2>7, <3>3
    <3>4. CASE i # p.id /\ j = p.id
      BY <2>1, <2>2, <2>6, <2>7, <3>4
    <3> QED BY <3>1, <3>2, <3>3, <3>4
  <2> QED BY <2>4, <2>5, <2>7 DEF GraphOK
<1>7. DOMAIN txn' = Clients /\ txn'[c] = Idle /\ \A d \in Clients \ {c} : txn'[d] = txn[d]
  BY <1>1 DEF Goto, Neo4jInv
<1>8. Exclusive'
  <2>1. Locks(c)' = {}
    BY <1>7 DEF Locks, Idle
  <2>2. Free(c, {})
    BY DEF Free
  <2> QED BY <1>1, <2>1, <2>2, LocksStayExclusive
<1>9. ASSUME NEW d \in Clients \ {c} PROVE TxnOK(d)'
  <2>1. TxnOK(d) /\ txn'[d] = txn[d]
    BY <1>7 DEF Neo4jInv
  <2>2. ASSUME txn[d].at \in Locking PROVE ~NameTaken(committed', txn[d].prim)
    <3>1. p.id \in Locks(c) /\ p.name \in Locks(c)
      BY <1>1, LockingLocks DEF Locking
    <3>2. txn[d].prim.id \in Locks(d) /\ txn[d].prim.name \in Locks(d)
      BY <2>2, LockingLocks
    <3>3. p.name # txn[d].prim.name
      BY <3>1, <3>2 DEF Neo4jInv, Exclusive
    <3>4. ~NameTaken(committed, txn[d].prim)
      BY <2>2, RunningFacts DEF Locking
    <3> QED BY <1>3, <1>4, <1>5, <3>3, <3>4 DEF NameTaken
  <2> QED BY <1>3, <2>1, <2>2 DEF TxnOK
<1>10. \A d \in Clients : TxnOK(d)'
  BY <1>7, <1>9 DEF TxnOK
<1> QED BY <1>6, <1>7, <1>8, <1>10 DEF Neo4jInv

\* A delete takes nothing that a transaction under way has locked.
LEMMA DetachKeeps ==
  ASSUME Neo4jInv, NEW c \in Clients, NEW S, NEW answer, Detach(c, S, answer)
  PROVE  Neo4jInv'
<1>1. txn[c] = Idle /\ Free(c, S) /\ committed' = Without(committed, S) /\ txn' = txn
  BY DEF Detach, Free
<1>2. /\ DOMAIN committed' = DOMAIN committed \ S
      /\ \A i \in DOMAIN committed \ S :
           committed'[i] = [committed[i] EXCEPT !.relata = {r \in committed[i].relata : r.target \notin S}]
  BY <1>1 DEF Without
<1>3. \A i \in DOMAIN committed \ S :
        /\ committed'[i] \in Primitive /\ committed'[i].id = i /\ WellFormed(committed'[i])
        /\ committed'[i].name = committed[i].name
        /\ committed'[i].relata = {r \in committed[i].relata : r.target \notin S}
  <2> TAKE i \in DOMAIN committed \ S
  <2>1. committed[i] \in Primitive /\ committed[i].id = i /\ WellFormed(committed[i])
    BY DEF Neo4jInv, GraphOK, IsGraph
  <2> QED BY <1>2, <2>1 DEF Primitive, WellFormed
<1>4. GraphOK'
  BY <1>2, <1>3 DEF Neo4jInv, GraphOK, IsGraph
<1>5. Exclusive' /\ DOMAIN txn' = Clients
  BY <1>1 DEF Neo4jInv, Exclusive, Locks
<1>6. ASSUME NEW d \in Clients PROVE TxnOK(d)'
  <2>1. CASE txn[d] = Idle
    BY <1>1, <2>1 DEF TxnOK
  <2>2. CASE txn[d] # Idle
    <3>1. TxnOK(d) /\ d # c
      BY <1>1, <2>2 DEF Neo4jInv
    <3>2. Locks(d) \cap S = {}
      BY <1>1, <3>1 DEF Free
    <3>3. txn[d].at = "begin" \/ txn[d].at \in Locking
      BY <2>2, <3>1 DEF TxnOK, Running
    <3>4. \A r \in txn[d].made : r.target \notin S
      <4>1. CASE txn[d].at = "begin"
        BY <2>2, <3>1, <4>1 DEF TxnOK
      <4>2. CASE txn[d].at \in Locking
        BY <3>2, <4>2, LockingLocks
      <4> QED BY <3>3, <4>1, <4>2
    <3>5. ~NameTaken(committed, txn[d].prim) => ~NameTaken(committed', txn[d].prim)
      BY <1>2, <1>3 DEF NameTaken
    <3> QED BY <1>1, <1>2, <2>2, <3>1, <3>4, <3>5 DEF TxnOK
  <2> QED BY <2>1, <2>2
<1> QED BY <1>4, <1>5, <1>6 DEF Neo4jInv

\* A transaction that is run again starts without locks.
LEMMA RetryKeeps ==
  ASSUME Neo4jInv, NEW c \in Clients, Retry(c)
  PROVE  Neo4jInv'
<1> DEFINE t == [txn[c] EXCEPT !.at = "begin", !.gone = {}, !.made = {}, !.todo = {}]
<1>1. txn[c].at # "idle" /\ Goto(c, t) /\ committed' = committed
  BY DEF Retry
<1>2. txn[c] \in Running
  BY <1>1, RunningFacts
<1>3. txn'[c] = t
  BY <1>1 DEF Goto, Neo4jInv
<1>4. t \in Running /\ t.at = "begin" /\ t.made = {} /\ t.gone = {} /\ t.todo = {}
  BY <1>2 DEF Running
<1> HIDE DEF t
<1>5. TxnOK(c)'
  BY <1>3, <1>4 DEF TxnOK, Locking
<1>6. Locks(c)' = {} /\ Free(c, {})
  BY <1>3, <1>4 DEF Locks, Free
<1> QED BY <1>1, <1>5, <1>6, QuietKeeps

\* Every step, and a stutter, keeps the invariant.
LEMMA NextKeeps == Neo4jInv /\ [Next]_vars => Neo4jInv'
<1> SUFFICES ASSUME Neo4jInv, [Next]_vars PROVE Neo4jInv'
  OBVIOUS
<1>1. CASE UNCHANGED vars
  BY <1>1 DEF vars, Neo4jInv, GraphOK, Exclusive, Locks, TxnOK
<1>2. ASSUME NEW c \in Clients, Step(c) PROVE Neo4jInv'
  <2>1. CASE Query(c)
    BY <2>1, MergeKeeps, DeleteKeeps, CheckKeeps, CreateKeeps, SkipKeeps, CommitKeeps DEF Query
  <2>2. CASE \E p \in Drafts : StartSave(c, p)
    BY <2>2, StartKeeps
  <2>3. CASE Retry(c)
    BY <2>3, RetryKeeps
  <2>4. CASE Abort(c)
    BY <2>4, LeavesKeeps DEF Abort
  <2>5. CASE \E i \in Ids : Delete(c, i)
    BY <2>5, DetachKeeps DEF Delete
  <2>6. CASE ClearAll(c)
    BY <2>6, DetachKeeps DEF ClearAll
  <2> QED BY <1>2, <2>1, <2>2, <2>3, <2>4, <2>5, <2>6 DEF Step
<1> QED BY <1>1, <1>2 DEF Next

-----------------------------------------------------------------------------
(* What the locks guarantee *)

\* However transactions overlap, retry and abort: locks exclude each other and
\* what was found free or matched under them stays so.
THEOREM Neo4jInvariant == Spec => []Neo4jInv
<1>1. Init => Neo4jInv
  <2> SUFFICES ASSUME Init PROVE Neo4jInv
    OBVIOUS
  <2>1. GraphOK
    BY DEF Init, GraphOK, IsGraph
  <2>2. DOMAIN txn = Clients /\ \A c \in Clients : txn[c] = Idle
    BY DEF Init
  <2>3. \A c \in Clients : Locks(c) = {}
    BY <2>2 DEF Locks, Idle
  <2> QED BY <2>1, <2>2, <2>3 DEF Neo4jInv, Exclusive, TxnOK
<1> QED BY <1>1, NextKeeps, PTL DEF Spec

\* Overlapping saves, deletes, retries and lost clients never give a name two
\* nodes: the name is locked from the MERGE that found it free to the commit.
THEOREM Neo4jUniqueNames == Spec => []UniqueNames
<1>1. Neo4jInv => UniqueNames
  BY DEF Neo4jInv, GraphOK, UniqueNames, Store!UniqueNames
<1> QED BY <1>1, Neo4jInvariant, PTL

\* Nor do they leave a relationship without one of its ends.
THEOREM Neo4jNoDangling == Spec => []NoDangling
<1>1. Neo4jInv => NoDangling
  BY DEF Neo4jInv, GraphOK, NoDangling, Store!NoDangling
<1> QED BY <1>1, Neo4jInvariant, PTL

\* What stayed all through a transaction is still there, and a relatum to it
\* is made or still to be made: it cannot have been skipped.
StaysInv ==
  \A c \in Clients :
    /\ txn[c].at \in Locking => stayed[c] \subseteq DOMAIN committed
    /\ txn[c].at = "checked" =>
         \A r \in txn[c].prim.relata :
           r.target \in stayed[c] \cup {txn[c].prim.id} => r \in txn[c].made \cup txn[c].todo

\* The history only shrinks while a transaction is under way.
LEMMA StayedShrinks ==
  ASSUME Neo4jInv, Remember, NEW c \in Clients
  PROVE  /\ txn'[c].at \in Locking => stayed'[c] \subseteq DOMAIN committed'
         /\ txn'[c].at \in Locking /\ txn[c].at # "begin" => stayed'[c] \subseteq stayed[c]
BY DEF Remember, Locking

\* A step of one client leaves the transactions of the others as they are.
LEMMA OthersStay ==
  ASSUME Neo4jInv, NEW c \in Clients, Step(c)
  PROVE  \A d \in Clients \ {c} : txn'[d] = txn[d]
<1>1. txn' = txn \/ \E step : Goto(c, step)
  BY DEF Step, StartSave, Retry, Abort, Query, Merge, DeleteRelationships, CheckCycles, Checked,
         Create, Skip, Commit, Delete, ClearAll, Detach, Leave
<1> QED BY <1>1 DEF Goto, Neo4jInv

\* A query of the cycle check has found nothing, or the check begins.
UnlinkedStep(c) ==
  /\ txn'[c].at = "unlinked" /\ txn'[c].prim = txn[c].prim /\ committed' = committed
  /\ \/ txn'[c].todo = TransitiveRelata(txn[c].prim)
     \/ /\ txn[c].at = "unlinked"
        /\ \E r \in txn[c].todo : /\ ~LeadsBack(committed, txn[c].prim, r)
                                  /\ txn'[c].todo = txn[c].todo \ {r}

\* The check returns, or a relatum is made or skipped.
CheckedStep(c) ==
  /\ txn'[c].at = "checked" /\ txn'[c].prim = txn[c].prim /\ committed' = committed
  /\ \/ /\ txn[c].at = "unlinked" /\ txn[c].todo = {}
        /\ txn'[c].todo = txn[c].prim.relata
     \/ /\ txn[c].at = "checked"
        /\ \E r \in txn[c].todo : /\ txn'[c].made = txn[c].made \cup {r}
                                  /\ txn'[c].todo = txn[c].todo \ {r}
     \/ /\ txn[c].at = "checked"
        /\ \E r \in txn[c].todo : /\ ~Matched(c, r) /\ txn'[c].made = txn[c].made
                                  /\ txn'[c].todo = txn[c].todo \ {r}

\* How a transaction comes to its cycle check and past it.
LEMMA TxnSteps ==
  ASSUME Neo4jInv, NEW c \in Clients, Step(c)
  PROVE  txn'[c].at \notin {"unlinked", "checked"} \/ UnlinkedStep(c) \/ CheckedStep(c)
<1>1. CASE Checked(c)
  <2>1. txn'[c] = [txn[c] EXCEPT !.at = "checked", !.todo = txn[c].prim.relata]
    BY <1>1 DEF Checked, Goto, Neo4jInv
  <2>2. txn[c] \in Running
    BY <1>1, RunningFacts DEF Checked
  <2>3. txn'[c].at = "checked" /\ txn'[c].prim = txn[c].prim /\ txn'[c].todo = txn[c].prim.relata
    BY <2>1, <2>2 DEF Running
  <2> QED BY <1>1, <2>3 DEF Checked, CheckedStep
<1>2. CASE Create(c)
  <2>1. PICK r \in txn[c].todo : txn'[c] = [txn[c] EXCEPT !.made = @ \cup {r}, !.todo = @ \ {r}]
    BY <1>2 DEF Create, Goto, Neo4jInv
  <2>2. txn[c] \in Running
    BY <1>2, RunningFacts DEF Create
  <2>3. /\ txn'[c].at = txn[c].at /\ txn'[c].prim = txn[c].prim
        /\ txn'[c].made = txn[c].made \cup {r} /\ txn'[c].todo = txn[c].todo \ {r}
    BY <2>1, <2>2 DEF Running
  <2> QED BY <1>2, <2>3 DEF Create, CheckedStep
<1>3. CASE Skip(c)
  <2>1. PICK r \in txn[c].todo : ~Matched(c, r) /\ txn'[c] = [txn[c] EXCEPT !.todo = @ \ {r}]
    BY <1>3 DEF Skip, Goto, Neo4jInv
  <2>2. txn[c] \in Running
    BY <1>3, RunningFacts DEF Skip
  <2>3. /\ txn'[c].at = txn[c].at /\ txn'[c].prim = txn[c].prim
        /\ txn'[c].made = txn[c].made /\ txn'[c].todo = txn[c].todo \ {r}
    BY <2>1, <2>2 DEF Running
  <2> QED BY <1>3, <2>1, <2>3 DEF Skip, CheckedStep
<1>4. CASE CheckCycles(c)
  <2>1. txn[c] \in Running /\ txn[c].at = "unlinked" /\ committed' = committed
    BY <1>4, RunningFacts DEF CheckCycles
  <2>2. CASE txn'[c] = Idle
    BY <2>2 DEF Idle
  <2>3. ASSUME NEW r \in txn[c].todo, ~LeadsBack(committed, txn[c].prim, r),
               txn'[c] = [txn[c] EXCEPT !.todo = @ \ {r}]
        PROVE  UnlinkedStep(c)
    <3>1. /\ txn'[c].at = "unlinked" /\ txn'[c].prim = txn[c].prim
          /\ txn'[c].todo = txn[c].todo \ {r}
      BY <2>1, <2>3 DEF Running
    <3> QED BY <2>1, <2>3, <3>1 DEF UnlinkedStep
  <2>4. \/ txn'[c] = Idle
        \/ \E r \in txn[c].todo : /\ ~LeadsBack(committed, txn[c].prim, r)
                                  /\ txn'[c] = [txn[c] EXCEPT !.todo = @ \ {r}]
    BY <1>4 DEF CheckCycles, Leave, Goto, Neo4jInv
  <2> QED BY <2>2, <2>3, <2>4
<1>5. CASE Merge(c)
  <2>1. txn[c] \in Running
    BY <1>5, RunningFacts DEF Merge
  <2>2. txn'[c] = Idle \/ txn'[c] = [txn[c] EXCEPT !.at = "merged"]
    BY <1>5 DEF Merge, Leave, Goto, Neo4jInv
  <2> QED BY <2>1, <2>2 DEF Running, Idle
<1>6. CASE DeleteRelationships(c)
  <2>1. txn[c] \in Running
    BY <1>6, RunningFacts DEF DeleteRelationships
  <2>2. PICK old : txn'[c] = [txn[c] EXCEPT !.at = "unlinked", !.gone = old,
                                            !.todo = TransitiveRelata(txn[c].prim)]
    BY <1>6 DEF DeleteRelationships, Goto, Neo4jInv
  <2>3. /\ txn'[c].at = "unlinked" /\ txn'[c].prim = txn[c].prim
        /\ txn'[c].todo = TransitiveRelata(txn[c].prim)
    BY <2>1, <2>2 DEF Running
  <2> QED BY <1>6, <2>3 DEF DeleteRelationships, UnlinkedStep
<1>7. CASE Retry(c)
  <2>1. txn[c] \in Running
    BY <1>7, RunningFacts DEF Retry
  <2>2. txn'[c] = [txn[c] EXCEPT !.at = "begin", !.gone = {}, !.made = {}, !.todo = {}]
    BY <1>7 DEF Retry, Goto, Neo4jInv
  <2> QED BY <2>1, <2>2 DEF Running
<1>8. CASE Commit(c) \/ Abort(c)
  BY <1>8 DEF Commit, Abort, Leave, Goto, Idle, Neo4jInv
<1>9. CASE \E p \in Drafts : StartSave(c, p)
  BY <1>9 DEF StartSave, Goto, Neo4jInv
<1>10. CASE ClearAll(c) \/ \E i \in Ids : Delete(c, i)
  <2>1. txn[c] = Idle /\ txn' = txn
    BY <1>10 DEF ClearAll, Delete, Detach
  <2>2. txn'[c].at = "idle"
    BY <2>1 DEF Idle
  <2> QED BY <2>2
<1> QED BY <1>1, <1>2, <1>3, <1>4, <1>5, <1>6, <1>7, <1>8, <1>9, <1>10 DEF Step, Query

\* A step keeps it: what is skipped is not there.
LEMMA StaysKeeps ==
  ASSUME Neo4jInv, StaysInv, NEW c \in Clients, Step(c), Remember
  PROVE  StaysInv'
<1> SUFFICES ASSUME NEW d \in Clients
             PROVE  /\ txn'[d].at \in Locking => stayed'[d] \subseteq DOMAIN committed'
                    /\ txn'[d].at = "checked" =>
                         \A r \in txn'[d].prim.relata :
                           r.target \in stayed'[d] \cup {txn'[d].prim.id} => r \in txn'[d].made \cup txn'[d].todo
  BY DEF StaysInv
<1>1. txn'[d].at \in Locking => stayed'[d] \subseteq DOMAIN committed'
  BY StayedShrinks
<1>2. ASSUME txn'[d].at = "checked", NEW r \in txn'[d].prim.relata,
             r.target \in stayed'[d] \cup {txn'[d].prim.id}
      PROVE  r \in txn'[d].made \cup txn'[d].todo
  <2>1. CASE d # c
    <3>1. txn'[d] = txn[d]
      BY <2>1, OthersStay
    <3>2. stayed'[d] \subseteq stayed[d]
      BY <1>2, <3>1, StayedShrinks DEF Locking
    <3> QED BY <1>2, <3>1, <3>2 DEF StaysInv
  <2>2. CASE d = c
    <3>1. CheckedStep(c)
      BY <1>2, <2>2, TxnSteps DEF UnlinkedStep
    <3>2. CASE txn'[c].todo = txn[c].prim.relata
      BY <1>2, <2>2, <3>1, <3>2 DEF CheckedStep
    <3>3. CASE txn[c].at = "checked"
      <4>1. stayed'[c] \subseteq stayed[c] /\ stayed[c] \subseteq DOMAIN committed
        BY <1>2, <2>2, <3>3, StayedShrinks DEF Locking, StaysInv
      <4>2. txn'[c].prim = txn[c].prim
        BY <3>1 DEF CheckedStep
      <4>3. r \in txn[c].made \cup txn[c].todo
        BY <1>2, <2>2, <3>3, <4>1, <4>2 DEF StaysInv
      <4>4. Matched(c, r)
        BY <1>2, <2>2, <4>1, <4>2 DEF Matched
      <4> QED BY <2>2, <3>1, <3>3, <4>3, <4>4 DEF CheckedStep
    <3> QED BY <3>1, <3>2, <3>3 DEF CheckedStep
  <2> QED BY <2>1, <2>2
<1> QED BY <1>1, <1>2

\* No retry, delete or commit of another client makes a save lose a relatum
\* whose target was there from its MERGE to its commit.
THEOREM Neo4jLinksWhatStays == Spec => []LinksWhatStays
<1>1. Init => StaysInv
  BY DEF Init, StaysInv, Idle, Locking
<1>2. Neo4jInv /\ StaysInv /\ [Next]_vars => StaysInv'
  BY StaysKeeps DEF Next, vars, StaysInv
<1>3. StaysInv => LinksWhatStays
  BY DEF StaysInv, LinksWhatStays
<1> QED BY <1>1, <1>2, <1>3, Neo4jInvariant, PTL DEF Spec

-----------------------------------------------------------------------------
(* The cycle check, one query for each transitive relatum *)

\* Fewer nodes and fewer edges reach less.
LEMMA ReachMonotone ==
  ASSUME NEW S, NEW few, NEW many,
         DOMAIN few \subseteq DOMAIN many,
         \A i \in DOMAIN few : few[i] \subseteq many[i]
  PROVE  ReachFrom(S, few) \subseteq ReachFrom(S, many)
<1> DEFINE T == ReachFrom(S, many) \cap DOMAIN few
<1>1. S \cap DOMAIN many \subseteq ReachFrom(S, many)
  BY DEF ReachFrom
<1>2. \A i \in ReachFrom(S, many) : many[i] \cap DOMAIN many \subseteq ReachFrom(S, many)
  BY DEF ReachFrom
<1>3. S \cap DOMAIN few \subseteq T
  BY <1>1
<1>4. \A i \in T : few[i] \cap DOMAIN few \subseteq T
  BY <1>2
<1>5. T \in SUBSET DOMAIN few
  OBVIOUS
<1> HIDE DEF T
<1>6. ReachFrom(S, few) \subseteq T
  BY <1>3, <1>4, <1>5 DEF ReachFrom
<1> QED BY <1>6 DEF T

\* A delete makes no relatum lead back.
LEMMA WithoutLeadsLess ==
  ASSUME NEW g, NEW S, NEW p, NEW r, LeadsBack(Without(g, S), p, r)
  PROVE  LeadsBack(g, p, r)
<1> DEFINE few == TransitiveSucc(Unlinked(Without(g, S), p))
           many == TransitiveSucc(Unlinked(g, p))
<1>1. DOMAIN few = (DOMAIN g \ S) \cup {p.id} /\ DOMAIN many = DOMAIN g \cup {p.id}
  BY DEF TransitiveSucc, Unlinked, Without
<1>2. ASSUME NEW i \in DOMAIN few PROVE few[i] \subseteq many[i]
  <2>1. CASE i = p.id
    BY <1>1, <2>1 DEF TransitiveSucc, Unlinked
  <2>2. CASE i # p.id
    <3>1. i \in DOMAIN g \ S
      BY <1>1, <2>2
    <3>2. many[i] = TransitiveTargets(g[i])
      BY <2>2, <3>1 DEF TransitiveSucc, Unlinked
    <3>3. few[i] = TransitiveTargets(Without(g, S)[i])
      BY <2>2, <3>1 DEF TransitiveSucc, Unlinked, Without
    <3>4. Without(g, S)[i] = [g[i] EXCEPT !.relata = {e \in g[i].relata : e.target \notin S}]
      BY <3>1 DEF Without
    <3>5. \/ Without(g, S)[i].relata \subseteq g[i].relata
          \/ Without(g, S)[i] = g[i]
      BY <3>4
    <3> QED BY <3>2, <3>3, <3>5 DEF TransitiveTargets
  <2> QED BY <2>1, <2>2
<1> HIDE DEF few, many
<1>3. ReachFrom({r.target}, few) \subseteq ReachFrom({r.target}, many)
  BY <1>1, <1>2, ReachMonotone
<1> QED BY <1>3 DEF LeadsBack, few, many

\* Starting from less, less is reached.
LEMMA ReachFewer ==
  ASSUME NEW S, NEW T, S \subseteq T, NEW succ
  PROVE  ReachFrom(S, succ) \subseteq ReachFrom(T, succ)
BY DEF ReachFrom

\* What is reached from a set is reached from one of its elements.
LEMMA ReachFromOne ==
  ASSUME NEW S, NEW succ, NEW n \in ReachFrom(S, succ)
  PROVE  \E x \in S : n \in ReachFrom({x}, succ)
<1> DEFINE T == UNION {ReachFrom({x}, succ) : x \in S}
<1>1. ASSUME NEW x \in S
      PROVE  /\ {x} \cap DOMAIN succ \subseteq ReachFrom({x}, succ)
             /\ \A i \in ReachFrom({x}, succ) : succ[i] \cap DOMAIN succ \subseteq ReachFrom({x}, succ)
             /\ ReachFrom({x}, succ) \subseteq DOMAIN succ
  BY DEF ReachFrom
<1>2. T \in SUBSET DOMAIN succ /\ S \cap DOMAIN succ \subseteq T
  BY <1>1
<1>3. \A i \in T : succ[i] \cap DOMAIN succ \subseteq T
  BY <1>1
<1> HIDE DEF T
<1>4. n \in T
  BY <1>2, <1>3 DEF ReachFrom
<1> QED BY <1>4 DEF T

\* One query finds a cycle only where the draft closes one, and if none does it
\* closes none.
LEMMA QueriesDecide ==
  ASSUME NEW g, NEW p
  PROVE  ClosesCycle(g, p) <=> \E r \in TransitiveRelata(p) : LeadsBack(g, p, r)
<1> DEFINE succ == TransitiveSucc(Unlinked(g, p))
<1>1. TransitiveTargets(p) = {r.target : r \in TransitiveRelata(p)}
  BY DEF TransitiveTargets, TransitiveRelata
<1> HIDE DEF succ
<1>2. ASSUME NEW r \in TransitiveRelata(p), p.id \in ReachFrom({r.target}, succ)
      PROVE  p.id \in ReachFrom(TransitiveTargets(p), succ)
  BY <1>1, <1>2, ReachFewer
<1>3. ASSUME p.id \in ReachFrom(TransitiveTargets(p), succ)
      PROVE  \E r \in TransitiveRelata(p) : p.id \in ReachFrom({r.target}, succ)
  <2>1. PICK x \in TransitiveTargets(p) : p.id \in ReachFrom({x}, succ)
    BY <1>3, ReachFromOne
  <2>2. PICK r \in TransitiveRelata(p) : x = r.target
    BY <1>1
  <2> QED BY <2>1, <2>2
<1> QED BY <1>2, <1>3 DEF ClosesCycle, LeadsBack, succ

\* With fewer relata a draft closes fewer cycles.
LEMMA FewerCloseNone ==
  ASSUME NEW g, NEW p \in Drafts, NEW S \in SUBSET p.relata,
         ClosesCycle(g, [p EXCEPT !.relata = S])
  PROVE  ClosesCycle(g, p)
<1> DEFINE q == [p EXCEPT !.relata = S]
<1>1. q.relata = S /\ q.id = p.id
  BY PartialDraft
<1>2. [q EXCEPT !.relata = {}] = [p EXCEPT !.relata = {}]
  OBVIOUS
<1> HIDE DEF q
<1>3. Unlinked(g, q) = Unlinked(g, p)
  BY <1>1, <1>2 DEF Unlinked
<1>4. TransitiveTargets(q) \subseteq TransitiveTargets(p)
  BY <1>1 DEF TransitiveTargets
<1> QED BY <1>1, <1>3, <1>4, ReachFewer DEF ClosesCycle, q

-----------------------------------------------------------------------------
(* The queries as whole calls *)

\* A query before the commit is no step of the repository, or a refusal.
LEMMA QueryRefines ==
  ASSUME Neo4jInv, NEW c \in Clients, Query(c), ~Commit(c)
  PROVE  StoreStep(Drafts)
<1> DEFINE p == txn[c].prim
<1>1. CASE Merge(c)
  <2>1. p \in Drafts
    BY <1>1, RunningFacts DEF Merge
  <2>2. CASE NameTaken(committed, p)
    <3>1. Call(p)
      BY <1>1, <2>2 DEF Merge, Leave, Call, SaveResult
    <3> QED BY <2>1, <3>1 DEF StoreStep
  <2>3. CASE ~NameTaken(committed, p)
    BY <1>1, <2>3 DEF Merge, StoreStep
  <2> QED BY <2>2, <2>3
<1>2. CASE CheckCycles(c)
  <2>1. /\ p \in Drafts /\ ~NameTaken(committed, p) /\ txn[c].todo \subseteq p.relata
        /\ txn[c].todo \subseteq TransitiveRelata(p)
    BY <1>2, RunningFacts DEF CheckCycles, Locking
  <2>2. CASE \E r \in txn[c].todo : LeadsBack(committed, p, r) /\ Leave(c, "cyclic")
    <3>1. ClosesCycle(committed, p)
      BY <2>1, <2>2, QueriesDecide
    <3>2. Call(p)
      BY <1>2, <2>1, <2>2, <3>1 DEF CheckCycles, Leave, Call, SaveResult
    <3> QED BY <2>1, <3>2 DEF StoreStep
  <2>3. CASE UNCHANGED <<committed, last>>
    BY <2>3 DEF StoreStep
  <2> QED BY <1>2, <2>2, <2>3 DEF CheckCycles
<1>3. CASE DeleteRelationships(c) \/ Checked(c) \/ Create(c) \/ Skip(c)
  BY <1>3 DEF DeleteRelationships, Checked, Create, Skip, StoreStep
<1> QED BY <1>1, <1>2, <1>3 DEF Query

\* Deletes and clears are whole calls, and so is nothing.
LEMMA OtherStepRefines ==
  ASSUME Neo4jInv, NEW c \in Clients, Step(c), ~Query(c)
  PROVE  StoreStep(Drafts)
<1>1. CASE (\E p \in Drafts : StartSave(c, p)) \/ Retry(c) \/ Abort(c)
  BY <1>1 DEF StartSave, Retry, Abort, StoreStep
<1>2. CASE (\E i \in Ids : Delete(c, i)) \/ ClearAll(c)
  BY <1>2 DEF Delete, ClearAll, Detach, StoreStep, Removal
<1> QED BY <1>1, <1>2 DEF Step

\* Every step but a commit is a whole call or none.
LEMMA QuietStepRefines ==
  ASSUME Neo4jInv, NEW c \in Clients, Step(c), ~Commit(c)
  PROVE  StoreStep(Drafts)
BY QueryRefines, OtherStepRefines

\* A commit is the save of the draft with the relata that were made, whenever
\* these close no cycle.
LEMMA CommitSavesMade ==
  ASSUME Neo4jInv, NEW c \in Clients, Commit(c), ~ClosesCycle(committed, txn[c].prim)
  PROVE  Call([txn[c].prim EXCEPT !.relata = txn[c].made])
<1> DEFINE p == txn[c].prim
           made == txn[c].made
           q == [p EXCEPT !.relata = made]
<1>1. txn[c].at = "checked" /\ committed' = Overlaid(committed, p, made) /\ last' = "ok"
  BY DEF Commit, Leave
<1>2. /\ p \in Drafts /\ ~NameTaken(committed, p) /\ made \in SUBSET p.relata
      /\ \A r \in made : r.target \in DOMAIN committed \cup {p.id}
  BY <1>1, RunningFacts DEF Locking
<1>3. q.relata = made /\ q.id = p.id /\ q.name = p.name
  BY <1>2, PartialDraft
<1>4. ~ClosesCycle(committed, q)
  BY <1>2, FewerCloseNone
<1>5. [q EXCEPT !.relata = made] = q
  OBVIOUS
<1> HIDE DEF q
<1>6. ~NameTaken(committed, q)
  BY <1>2, <1>3 DEF NameTaken
<1>7. SaveResult(committed, q) = "ok"
  BY <1>4, <1>6, Neo4jAssumption DEF SaveResult
<1>8. {r \in q.relata : r.target \in DOMAIN committed \cup {q.id}} = made
  BY <1>2, <1>3
<1>9. StoredRow(committed, q) = q
  BY <1>5, <1>8 DEF StoredRow
<1>10. Overlaid(committed, p, made) = Saved(committed, q)
  BY <1>3, <1>9 DEF Overlaid, Saved, q
<1>11. Call(q)
  BY <1>1, <1>7, <1>10 DEF Call
<1> QED BY <1>11 DEF q

-----------------------------------------------------------------------------
(* Saves of which only one is past its first cycle query are whole calls *)

\* A transaction that has begun to look for cycles and has not yet ended.
Past(c) ==
  \/ txn[c].at = "checked"
  \/ txn[c].at = "unlinked" /\ txn[c].todo # TransitiveRelata(txn[c].prim)

OneChecked == \A c, d \in Clients : Past(c) /\ Past(d) => c = d

\* What the queries of a transaction found is still so: no relatum they cleared
\* leads back, and no target they missed has come.
QueriesHold(c) ==
  /\ txn[c].at \in {"unlinked", "checked"} =>
       \A r \in TransitiveRelata(txn[c].prim) :
         (txn[c].at = "unlinked" => r \notin txn[c].todo) => ~LeadsBack(committed, txn[c].prim, r)
  /\ txn[c].at = "checked" =>
       \A r \in txn[c].prim.relata \ (txn[c].made \cup txn[c].todo) :
         r.target \notin DOMAIN committed \cup {txn[c].prim.id}

CheckHolds == \A c \in Clients : QueriesHold(c)

\* For the client that steps.
LEMMA OwnQueriesHold ==
  ASSUME Neo4jInv, CheckHolds, NEW c \in Clients, Step(c)
  PROVE  QueriesHold(c)'
<1>1. CASE txn'[c].at \notin {"unlinked", "checked"}
  BY <1>1 DEF QueriesHold
<1>2. CASE UnlinkedStep(c)
  BY <1>2 DEF UnlinkedStep, QueriesHold, CheckHolds
<1>3. CASE CheckedStep(c)
  <2>1. /\ txn'[c].at = "checked" /\ txn'[c].prim = txn[c].prim /\ committed' = committed
        /\ txn[c].at \in {"unlinked", "checked"}
        /\ txn[c].at = "unlinked" => txn[c].todo = {}
    BY <1>3 DEF CheckedStep
  <2>2. \A r \in TransitiveRelata(txn'[c].prim) : ~LeadsBack(committed', txn'[c].prim, r)
    BY <2>1 DEF QueriesHold, CheckHolds
  <2>3. ASSUME NEW r \in txn'[c].prim.relata \ (txn'[c].made \cup txn'[c].todo)
        PROVE  r.target \notin DOMAIN committed' \cup {txn'[c].prim.id}
    BY <1>3, <2>1 DEF CheckedStep, Matched, QueriesHold, CheckHolds
  <2> QED BY <2>1, <2>2, <2>3 DEF QueriesHold
<1> QED BY <1>1, <1>2, <1>3, TxnSteps

\* For the others: a delete takes away, and no other commits.
LEMMA StepKeepsCheck ==
  ASSUME Neo4jInv, CheckHolds, OneChecked, NEW c \in Clients, Step(c)
  PROVE  CheckHolds'
<1> SUFFICES ASSUME NEW d \in Clients PROVE QueriesHold(d)'
  BY DEF CheckHolds
<1>1. CASE d = c
  BY <1>1, OwnQueriesHold
<1>2. CASE d # c /\ committed' = committed
  <2>1. txn'[d] = txn[d]
    BY <1>2, OthersStay
  <2> QED BY <1>2, <2>1 DEF CheckHolds, QueriesHold
<1>3. CASE d # c /\ Commit(c)
  <2>1. txn'[d] = txn[d] /\ Past(c)
    BY <1>3, OthersStay DEF Commit, Past
  <2>2. ~Past(d)
    BY <1>3, <2>1 DEF OneChecked
  <2> QED BY <2>1, <2>2 DEF QueriesHold, Past
<1>4. ASSUME d # c, NEW S, NEW answer, Detach(c, S, answer) PROVE QueriesHold(d)'
  <2>1. committed' = Without(committed, S) /\ txn' = txn
    BY <1>4 DEF Detach
  <2>2. DOMAIN committed' \subseteq DOMAIN committed
    BY <2>1 DEF Without
  <2>3. \A r : LeadsBack(committed', txn[d].prim, r) => LeadsBack(committed, txn[d].prim, r)
    BY <2>1, WithoutLeadsLess
  <2> QED BY <2>1, <2>2, <2>3 DEF CheckHolds, QueriesHold
<1>5. committed' = committed \/ Commit(c) \/ ClearAll(c) \/ \E i \in Ids : Delete(c, i)
  BY DEF Step, StartSave, Retry, Abort, Query, Merge, DeleteRelationships, CheckCycles, Checked,
         Create, Skip
<1> QED BY <1>1, <1>2, <1>3, <1>4, <1>5 DEF Delete, ClearAll

\* A commit is then the whole save: what was skipped is still not there.
LEMMA CommitRefines ==
  ASSUME Neo4jInv, CheckHolds, NEW c \in Clients, Commit(c)
  PROVE  StoreStep(Drafts)
<1> DEFINE p == txn[c].prim
           made == txn[c].made
<1>1. /\ txn[c].at = "checked" /\ txn[c].todo = {}
      /\ committed' = Overlaid(committed, p, made) /\ last' = "ok"
  BY DEF Commit, Leave
<1>2. /\ p \in Drafts /\ ~NameTaken(committed, p) /\ made \subseteq p.relata
      /\ \A r \in made : r.target \in DOMAIN committed \cup {p.id}
  BY <1>1, RunningFacts DEF Locking
<1>3. \A r \in TransitiveRelata(p) : ~LeadsBack(committed, p, r)
  BY <1>1 DEF CheckHolds, QueriesHold
<1>4. made = {r \in p.relata : r.target \in DOMAIN committed \cup {p.id}}
  BY <1>1, <1>2 DEF CheckHolds, QueriesHold
<1>5. committed' = Saved(committed, p)
  BY <1>1, <1>4 DEF Overlaid, Saved, StoredRow
<1>6. ~ClosesCycle(committed, p)
  BY <1>3, QueriesDecide
<1>7. SaveResult(committed, p) = "ok"
  BY <1>2, <1>6, Neo4jAssumption DEF SaveResult
<1>8. Call(p)
  BY <1>1, <1>5, <1>7 DEF Call
<1> QED BY <1>2, <1>8 DEF StoreStep

\* While no two saves are past their first cycle query at once, the queries of
\* Neo4jRepository are the atomic calls of the repository with nothing left out
\* but what has no target, retries, deadlocks and lost clients included.  The
\* overlap this excludes is the one that lets two saves close a cycle neither
\* sees, and a save miss a target that another is about to commit.
THEOREM Neo4jRefinesStore == Spec /\ []OneChecked => ImplementsWholeStore
<1>1. Init => Whole!Init
  BY DEF Init, Whole!Init
<1>2. Init => CheckHolds
  BY DEF Init, CheckHolds, QueriesHold, Idle
<1>3. Neo4jInv /\ CheckHolds /\ OneChecked /\ [Next]_vars => CheckHolds'
  BY StepKeepsCheck DEF Next, vars, CheckHolds, QueriesHold
<1>4. Neo4jInv /\ CheckHolds /\ [Next]_vars => [Whole!Next]_(Whole!vars)
  <2>1. ASSUME Neo4jInv, CheckHolds, NEW c \in Clients, Step(c) PROVE StoreStep(Drafts)
    BY <2>1, CommitRefines, QuietStepRefines
  <2>2. UNCHANGED vars => StoreStep(Drafts)
    BY DEF vars, StoreStep
  <2> QED BY <2>1, <2>2, WholeSteps DEF Next
<1> QED BY <1>1, <1>2, <1>3, <1>4, Neo4jInvariant, PTL DEF Spec, ImplementsWholeStore, Whole!Spec

-----------------------------------------------------------------------------
(* What the repository guarantees carries over *)

\* Nothing left out is a case of something left out.
LEMMA WholeIsStore == ImplementsWholeStore => ImplementsStore
<1>1. Whole!Init => Store!Init
  BY DEF Whole!Init, Store!Init
<1>2. Whole!Next => Store!Next
  <2>1. ASSUME NEW q PROVE Whole!SavePrimitive(q) <=> Store!SavePrimitive(q)
    BY Zenon DEF Store!SavePrimitive, Whole!SavePrimitive,
         Store!SaveResult, Whole!SaveResult, Store!NameTaken, Whole!NameTaken,
         Store!ClosesCycle, Whole!ClosesCycle, Store!ReachFrom, Whole!ReachFrom,
         Store!TransitiveTargets, Whole!TransitiveTargets, Store!TransitiveSucc, Whole!TransitiveSucc,
         Store!TransitiveTypes, Whole!TransitiveTypes, Store!Unlinked, Whole!Unlinked,
         Store!Dangles, Whole!Dangles, Store!Saved, Whole!Saved, Store!StoredRow, Whole!StoredRow
  <2>2. ASSUME NEW q PROVE Whole!Canonical(committed, q) = Store!Canonical(committed, q)
    BY Zenon DEF Store!Canonical, Whole!Canonical, Store!HoldersOf, Whole!HoldersOf
  <2>3. ASSUME NEW q PROVE Whole!UpsertPrimitive(q) <=> Store!UpsertPrimitive(q)
    BY <2>1, <2>2 DEF Store!UpsertPrimitive, Whole!UpsertPrimitive
  <2>4. \A i : Whole!DeletePrimitive(i) <=> Store!DeletePrimitive(i)
    BY Zenon DEF Store!DeletePrimitive, Whole!DeletePrimitive, Store!Without, Whole!Without
  <2>5. Whole!Clear <=> Store!Clear
    BY Zenon DEF Store!Clear, Whole!Clear, Store!Without, Whole!Without
  <2> QED BY <2>1, <2>3, <2>4, <2>5, DraftsArePartial DEF Store!Next, Whole!Next
<1>3. [Whole!Next]_(Whole!vars) => [Store!Next]_(Store!vars)
  BY <1>2 DEF Store!vars, Whole!vars
<1> QED BY <1>1, <1>3, PTL DEF Store!Spec, Whole!Spec, ImplementsStore, ImplementsWholeStore

\* The theorems of the repository, about the committed graph.
Calls == INSTANCE GraphStoreProofs WITH graph <- committed, result <- last, Drafts <- PartialDrafts

\* The specification of the repository is the one the theorems are about.
LEMMA CallsSpec == Store!Spec => Calls!Spec
<1>1. Store!Init => Calls!Init
  BY DEF Store!Init, Calls!Init
<1>2. Store!Next => Calls!Next
  BY Zenon DEF Store!Next, Calls!Next, Store!SavePrimitive, Calls!SavePrimitive,
       Store!UpsertPrimitive, Calls!UpsertPrimitive, Store!DeletePrimitive, Calls!DeletePrimitive,
       Store!Clear, Calls!Clear, Store!Canonical, Calls!Canonical, Store!HoldersOf, Calls!HoldersOf,
       Store!SaveResult, Calls!SaveResult, Store!NameTaken, Calls!NameTaken,
       Store!ClosesCycle, Calls!ClosesCycle, Store!ReachFrom, Calls!ReachFrom,
       Store!TransitiveTargets, Calls!TransitiveTargets, Store!TransitiveSucc, Calls!TransitiveSucc,
       Store!TransitiveTypes, Calls!TransitiveTypes, Store!Unlinked, Calls!Unlinked,
       Store!Dangles, Calls!Dangles, Store!Saved, Calls!Saved, Store!StoredRow, Calls!StoredRow,
       Store!Without, Calls!Without
<1>3. [Store!Next]_(Store!vars) => [Calls!Next]_(Calls!vars)
  BY <1>2 DEF Store!vars, Calls!vars
<1> QED BY <1>1, <1>3, PTL DEF Store!Spec, Calls!Spec

\* What the theorems assume of the drafts and the backend holds here.
LEMMA CallsAssumptions == Calls!DraftsAssumption /\ Calls!BackendAssumption
<1>1. Calls!Primitive = Primitive
  BY DEF Calls!Primitive, Calls!Level, Calls!Content, Calls!Relatum, Calls!RelationType,
         Primitive, Level, Content, Relatum, RelationType
<1>2. Calls!DraftsAssumption
  <2>1. ASSUME NEW q \in PartialDrafts PROVE q \in Primitive /\ WellFormed(q)
    BY <2>1, PartialDraft DEF PartialDrafts
  <2> QED BY <1>1, <2>1 DEF Calls!DraftsAssumption, Calls!WellFormed, WellFormed
<1>3. Calls!BackendAssumption
  BY BackendAssumption DEF Calls!BackendAssumption
<1> QED BY <1>2, <1>3

\* Acyclicity is the same property on both sides.
LEMMA CallsAcyclic == Calls!Acyclic <=> Acyclic
BY DEF Calls!Acyclic, Acyclic, Store!Acyclic, Calls!AcyclicGraph, Store!AcyclicGraph,
       Calls!TransitiveTargets, Store!TransitiveTargets, Calls!TransitiveTypes, Store!TransitiveTypes

\* The cycle that racing saves close needs two of them past their checks at
\* once: any other interleaving of any number of clients keeps the transitive
\* relata acyclic.
THEOREM Neo4jSerialAcyclic == Spec /\ []OneChecked => []Acyclic
<1>1. Calls!Spec => []Calls!Acyclic
  BY CallsAssumptions, Calls!StoreAcyclic, PTL
<1>2. Calls!Acyclic <=> Acyclic
  BY CallsAcyclic
<1>3. Spec /\ []OneChecked => Calls!Spec
  BY CallsSpec, Neo4jRefinesStore, WholeIsStore DEF ImplementsStore
<1> QED BY <1>1, <1>2, <1>3, PTL

-----------------------------------------------------------------------------
(* Drafts whose relata follow an order need no turns *)

\* The check clears no relatum to the draft itself, so a checked draft is one
\* that can pass; and what is committed came from such drafts: the stored
\* transitive relata are among theirs.
OrderedInv ==
  /\ \A c \in Clients : txn[c].at = "unlinked" =>
       \A r \in TransitiveRelata(txn[c].prim) \ txn[c].todo : r.target # txn[c].prim.id
  /\ \A c \in Clients : txn[c].at = "checked" => txn[c].prim \in Passing
  /\ \A i \in DOMAIN committed : TransitiveTargets(committed[i]) \subseteq DraftSucc[i]

\* The query for a relatum to the draft itself always finds it.
LEMMA OwnTargetLeadsBack ==
  ASSUME NEW g, NEW p, NEW r, r.target = p.id
  PROVE  LeadsBack(g, p, r)
<1> DEFINE succ == TransitiveSucc(Unlinked(g, p))
<1>1. p.id \in DOMAIN succ
  BY DEF TransitiveSucc, Unlinked
<1> HIDE DEF succ
<1>2. p.id \in ReachFrom({p.id}, succ)
  BY <1>1 DEF ReachFrom
<1> QED BY <1>2 DEF LeadsBack, succ

\* What a draft that can pass relates to is among the relata of its id.
LEMMA PassingTargets ==
  ASSUME NEW p \in Passing
  PROVE  p.id \in Ids /\ TransitiveTargets(p) \subseteq DraftSucc[p.id]
<1>1. p.id \in Ids
  BY Neo4jDraftsAssumption DEF Passing, Primitive
<1>2. DraftSucc[p.id] = UNION {TransitiveTargets(d) : d \in {q \in Passing : q.id = p.id}}
  BY <1>1 DEF DraftSucc
<1> QED BY <1>1, <1>2

\* When the drafts are ordered, no draft that can pass closes a cycle over
\* what others have committed since.
LEMMA OrderedCheckHolds ==
  ASSUME DraftsOrdered, Neo4jInv, OrderedInv
  PROVE  \A c \in Clients : txn[c].at = "checked" => ~ClosesCycle(committed, txn[c].prim)
<1> SUFFICES ASSUME NEW c \in Clients, txn[c].at = "checked"
             PROVE  ~ClosesCycle(committed, txn[c].prim)
  OBVIOUS
<1> DEFINE p == txn[c].prim
           few == TransitiveSucc(Unlinked(committed, p))
<1>1. p \in Passing
  BY DEF OrderedInv
<1>2. p.id \in Ids /\ TransitiveTargets(p) \subseteq DraftSucc[p.id]
  BY <1>1, PassingTargets
<1> HIDE DEF p
<1>3. DOMAIN few = DOMAIN committed \cup {p.id} /\ DOMAIN DraftSucc = Ids
  BY DEF TransitiveSucc, Unlinked, DraftSucc
<1>4. DOMAIN few \subseteq DOMAIN DraftSucc
  BY <1>2, <1>3 DEF Neo4jInv, GraphOK, IsGraph
<1>5. ASSUME NEW i \in DOMAIN few PROVE few[i] \subseteq DraftSucc[i]
  <2>1. CASE i = p.id
    BY <1>3, <2>1 DEF TransitiveSucc, Unlinked, TransitiveTargets
  <2>2. CASE i # p.id
    <3>1. i \in DOMAIN committed
      BY <1>3, <2>2
    <3>2. few[i] = TransitiveTargets(committed[i])
      BY <2>2, <3>1 DEF TransitiveSucc, Unlinked
    <3> QED BY <3>1, <3>2 DEF OrderedInv
  <2> QED BY <2>1, <2>2
<1> HIDE DEF few
<1>6. ReachFrom(TransitiveTargets(p), few) \subseteq ReachFrom(TransitiveTargets(p), DraftSucc)
  BY <1>4, <1>5, ReachMonotone
<1>7. ReachFrom(TransitiveTargets(p), DraftSucc) \subseteq ReachFrom(DraftSucc[p.id], DraftSucc)
  BY <1>2, ReachFewer
<1>8. p.id \notin ReachFrom(DraftSucc[p.id], DraftSucc)
  BY <1>2 DEF DraftsOrdered
<1> QED BY <1>6, <1>7, <1>8 DEF ClosesCycle, few, p

\* A client is past its check only where it was, or has just passed it.
LEMMA CheckedPasses ==
  ASSUME Neo4jInv, OrderedInv, NEW c \in Clients, Step(c)
  PROVE  /\ txn'[c].at = "unlinked" =>
              \A r \in TransitiveRelata(txn'[c].prim) \ txn'[c].todo : r.target # txn'[c].prim.id
         /\ txn'[c].at = "checked" => txn'[c].prim \in Passing
<1>1. CASE txn'[c].at \notin {"unlinked", "checked"}
  BY <1>1
<1>2. CASE UnlinkedStep(c)
  BY <1>2, OwnTargetLeadsBack DEF UnlinkedStep, OrderedInv
<1>3. CASE CheckedStep(c)
  <2>1. txn'[c].at = "checked" /\ txn'[c].prim = txn[c].prim
    BY <1>3 DEF CheckedStep
  <2>2. CASE txn[c].at = "checked"
    BY <2>1, <2>2 DEF OrderedInv
  <2>3. CASE txn[c].at = "unlinked" /\ txn[c].todo = {}
    <3>1. \A r \in TransitiveRelata(txn[c].prim) : r.target # txn[c].prim.id
      BY <2>3 DEF OrderedInv
    <3>2. txn[c].prim.id \notin TransitiveTargets(txn[c].prim)
      BY <3>1 DEF TransitiveTargets, TransitiveRelata
    <3>3. txn[c].prim \in Drafts
      BY <2>3, RunningFacts
    <3> QED BY <2>1, <3>2, <3>3 DEF Passing
  <2> QED BY <1>3, <2>2, <2>3 DEF CheckedStep
<1> QED BY <1>1, <1>2, <1>3, TxnSteps

\* A step commits relata of a draft that passed its check, or takes relata away.
LEMMA CommittedStaysOrdered ==
  ASSUME Neo4jInv, OrderedInv, NEW c \in Clients, Step(c), NEW i \in DOMAIN committed'
  PROVE  TransitiveTargets(committed'[i]) \subseteq DraftSucc[i]
<1>1. CASE Commit(c)
  <2> DEFINE p == txn[c].prim
             made == txn[c].made
  <2>1. txn[c].at = "checked" /\ committed' = Overlaid(committed, p, made)
    BY <1>1 DEF Commit
  <2>2. p \in Passing /\ made \subseteq p.relata /\ p \in Primitive
    BY <2>1, RunningFacts DEF OrderedInv
  <2>3. CASE i # p.id
    BY <2>1, <2>3 DEF Overlaid, OrderedInv
  <2>4. CASE i = p.id
    <3>1. committed'[i] = [p EXCEPT !.relata = made]
      BY <2>1, <2>4 DEF Overlaid
    <3>2. committed'[i].relata = made
      BY <2>2, <3>1 DEF Primitive
    <3>3. TransitiveTargets(committed'[i]) \subseteq TransitiveTargets(p)
      BY <2>2, <3>2 DEF TransitiveTargets
    <3> QED BY <2>2, <2>4, <3>3, PassingTargets
  <2> QED BY <2>3, <2>4
<1>2. ASSUME NEW S, NEW answer, Detach(c, S, answer)
      PROVE  TransitiveTargets(committed'[i]) \subseteq DraftSucc[i]
  <2>1. i \in DOMAIN committed \ S
        /\ committed'[i] = [committed[i] EXCEPT !.relata = {r \in committed[i].relata : r.target \notin S}]
    BY <1>2 DEF Detach, Without
  <2>2. committed[i] \in Primitive
    BY <2>1 DEF Neo4jInv, GraphOK, IsGraph
  <2>3. committed'[i].relata \subseteq committed[i].relata
    BY <2>1, <2>2 DEF Primitive
  <2>4. TransitiveTargets(committed'[i]) \subseteq TransitiveTargets(committed[i])
    BY <2>3 DEF TransitiveTargets
  <2> QED BY <2>1, <2>4 DEF OrderedInv
<1>3. CASE committed' = committed
  BY <1>3 DEF OrderedInv
<1>4. committed' = committed \/ Commit(c) \/ ClearAll(c) \/ \E j \in Ids : Delete(c, j)
  BY DEF Step, StartSave, Retry, Abort, Query, Merge, DeleteRelationships, CheckCycles, Checked,
         Create, Skip
<1> QED BY <1>1, <1>2, <1>3, <1>4 DEF ClearAll, Delete

\* Whatever the drafts, what is stored relates only what they relate.
LEMMA OrderedInvariant == Spec => []OrderedInv
<1>1. Init => OrderedInv
  BY DEF Init, OrderedInv, Idle
<1>2. ASSUME Neo4jInv, OrderedInv, NEW c \in Clients, Step(c) PROVE OrderedInv'
  <2>1. \A d \in Clients :
          /\ txn'[d].at = "unlinked" =>
               \A r \in TransitiveRelata(txn'[d].prim) \ txn'[d].todo : r.target # txn'[d].prim.id
          /\ txn'[d].at = "checked" => txn'[d].prim \in Passing
    <3> TAKE d \in Clients
    <3>1. CASE d = c
      BY <1>2, <3>1, CheckedPasses
    <3>2. CASE d # c
      <4>1. txn'[d] = txn[d]
        BY <1>2, <3>2, OthersStay
      <4> QED BY <1>2, <4>1 DEF OrderedInv
    <3> QED BY <3>1, <3>2
  <2>2. \A i \in DOMAIN committed' : TransitiveTargets(committed'[i]) \subseteq DraftSucc[i]
    BY <1>2, CommittedStaysOrdered
  <2> QED BY <2>1, <2>2 DEF OrderedInv
<1>3. Neo4jInv /\ OrderedInv /\ [Next]_vars => OrderedInv'
  BY <1>2 DEF Next, vars, OrderedInv
<1> QED BY <1>1, <1>3, Neo4jInvariant, PTL DEF Spec

\* Writers whose transitive relata follow one order need no turns: however
\* their queries interleave, retry or are lost, they are the atomic calls of
\* the repository, cycle check included, on drafts without the relata that the
\* queries missed.
THEOREM Neo4jOrderedRefinesStore == ASSUME DraftsOrdered PROVE Spec => ImplementsStore
<1>1. Init => Store!Init
  BY DEF Init, Store!Init
<1>2. ASSUME Neo4jInv, OrderedInv, NEW c \in Clients, Step(c) PROVE StoreStep(PartialDrafts)
  <2>1. CASE Commit(c)
    <3>1. txn[c].at = "checked" /\ txn[c].made \in SUBSET txn[c].prim.relata /\ txn[c].prim \in Drafts
      BY <1>2, <2>1, RunningFacts DEF Commit
    <3>2. Call([txn[c].prim EXCEPT !.relata = txn[c].made])
      BY <1>2, <2>1, <3>1, OrderedCheckHolds, CommitSavesMade
    <3> QED BY <3>1, <3>2, PartialDraft DEF StoreStep
  <2>2. CASE ~Commit(c)
    BY <1>2, <2>2, QuietStepRefines, DraftsArePartial DEF StoreStep
  <2> QED BY <2>1, <2>2
<1>3. Neo4jInv /\ OrderedInv /\ [Next]_vars => [Store!Next]_(Store!vars)
  <2>1. UNCHANGED vars => StoreStep(PartialDrafts)
    BY DEF vars, StoreStep
  <2> QED BY <1>2, <2>1, PartialSteps DEF Next
<1> QED BY <1>1, <1>3, Neo4jInvariant, OrderedInvariant, PTL DEF Spec, ImplementsStore, Store!Spec

\* So racing saves of ordered drafts never close a cycle: the lines that the
\* check does not lock matter only to drafts that could close one.
THEOREM Neo4jOrderedAcyclic == ASSUME DraftsOrdered PROVE Spec => []Acyclic
<1>1. Calls!Spec => []Calls!Acyclic
  BY CallsAssumptions, Calls!StoreAcyclic, PTL
<1>2. Calls!Acyclic <=> Acyclic
  BY CallsAcyclic
<1>3. Spec => Calls!Spec
  BY CallsSpec, Neo4jOrderedRefinesStore DEF ImplementsStore
<1> QED BY <1>1, <1>2, <1>3, PTL

=============================================================================
