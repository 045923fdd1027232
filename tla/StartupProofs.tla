------------------------ MODULE StartupProofs ---------------------------
(***************************************************************************)
(* Theorems about the agent registry and the opening of a store, for any   *)
(* number of processes, builds, keys and identities.                       *)
(***************************************************************************)
EXTENDS Startup, TLAPS

\* Every open call that has not yet renamed its file carries readable contents.
Typed ==
  /\ file \in Contents
  /\ disk \in Contents
  /\ flushed = TRUE
  /\ \A p \in Procs : call[p] # Idle =>
       /\ call[p] \in [op : {"save", "written", "flushed", "replaced"},
                       key : Keys, id : Uuids, content : Contents]
       /\ call[p].id \in minted
  /\ call = [p \in Procs |-> call[p]]

\* Type correctness and a whole file: the fsync before the rename is what makes
\* this inductive, since it keeps "flushed" true at every step.
THEOREM AgentsTyped == AgentsSpec => []Typed
<1>1. AgentsInit => Typed
  BY DEF AgentsInit, Typed, NoEntries, Contents
<1>2. Typed /\ [AgentsNext]_agentVars => Typed'
  <2> SUFFICES ASSUME Typed, [AgentsNext]_agentVars PROVE Typed'
    OBVIOUS
  <2>1. ASSUME NEW p \in Procs, NEW k \in Keys, Hit(p, k) PROVE Typed'
    BY <2>1 DEF Typed, Hit
  <2>2. ASSUME NEW p \in Procs, NEW k \in Keys, Miss(p, k) PROVE Typed'
    <3>1. PICK u \in Uuids \ minted : /\ minted' = minted \cup {u}
                                      /\ Goto(p, [op |-> "save", key |-> k, id |-> u,
                                                  content |-> Added(file, k, u)])
      BY <2>2 DEF Miss
    <3>2. Added(file, k, u) \in Contents
      BY DEF Typed, Contents, Added
    <3> QED BY <2>2, <3>1, <3>2 DEF Typed, Miss, Goto
  <2>3. ASSUME NEW p \in Procs, WriteTemp(p) PROVE Typed'
    BY <2>3 DEF Typed, WriteTemp, Goto, Idle
  <2>4. ASSUME NEW p \in Procs, Flush(p) PROVE Typed'
    BY <2>4 DEF Typed, Flush, Goto, Idle
  <2>5. ASSUME NEW p \in Procs, Replace(p) PROVE Typed'
    BY <2>5 DEF Typed, Replace, Goto, Idle
  <2>6. ASSUME NEW p \in Procs, Return(p) PROVE Typed'
    BY <2>6 DEF Typed, Return, Goto
  <2>7. ASSUME NEW p \in Procs, Abandon(p) PROVE Typed'
    BY <2>7 DEF Typed, Abandon, Goto
  <2>8. CASE WriteDirectory
    BY <2>8 DEF Typed, WriteDirectory
  <2>9. CASE LosePower
    BY <2>9 DEF Typed, LosePower
  <2>10. CASE UNCHANGED agentVars
    BY <2>10 DEF Typed, agentVars
  <2> QED BY <2>1, <2>2, <2>3, <2>4, <2>5, <2>6, <2>7, <2>8, <2>9, <2>10 DEF AgentsNext, GetOrCreate
<1> QED BY <1>1, <1>2, PTL DEF AgentsSpec

\* Racing processes that die anywhere, and a machine that loses power anywhere,
\* leave a file that _load can read.
THEOREM AgentsNeverPartial == AgentsSpec => []NeverPartial
<1>1. Typed => NeverPartial
  BY TornAssumption DEF Typed, NeverPartial, Contents
<1> QED BY <1>1, AgentsTyped, PTL

-----------------------------------------------------------------------------

\* While calls stay apart: at most one is open, its copy is the file with
\* its own entry added, no uuid stands under two keys, and what was given out
\* is what the file says.
Faithful ==
  /\ \A p, q \in Procs : call[p] # Idle /\ call[q] # Idle => p = q
  /\ \A p \in Procs : call[p] # Idle /\ call[p].op # "replaced" =>
       /\ file[call[p].key] = Nobody
       /\ call[p].content = Added(file, call[p].key, call[p].id)
       /\ \A k \in Keys : file[k] # call[p].id
  /\ \A p \in Procs : call[p] # Idle /\ call[p].op = "replaced" => file[call[p].key] = call[p].id
  /\ \A k \in Keys : file[k] # Nobody => file[k] \in minted
  /\ \A k, l \in Keys : file[k] = file[l] /\ file[k] # Nobody => k = l
  /\ given \in [Keys -> SUBSET Uuids]
  /\ \A k \in Keys : \A u \in given[k] : file[k] = u

\* While calls stay apart, no process that dies and no later rewrite takes an
\* identity away from the key it was given for.
THEOREM AgentsGivenIsFound == AgentsSpec => []GivenIsFound
<1>1. AgentsInit => Faithful
  BY DEF AgentsInit, Faithful, NoEntries, Idle
<1>2. Typed /\ Typed' /\ Faithful /\ apart' /\ [AgentsNext]_agentVars => Faithful'
  <2> SUFFICES ASSUME Typed, Typed', Faithful, apart', [AgentsNext]_agentVars PROVE Faithful'
    OBVIOUS
  <2>1. ASSUME NEW p \in Procs, NEW k \in Keys, Hit(p, k) PROVE Faithful'
    <3>1. file[k] \in Uuids
      BY <2>1 DEF Hit, Typed, Contents
    <3> QED BY <2>1, <3>1 DEF Faithful, Hit, Give
  <2>2. ASSUME NEW p \in Procs, NEW k \in Keys, Miss(p, k) PROVE Faithful'
    <3>1. PICK u \in Uuids \ minted : /\ minted' = minted \cup {u}
                                      /\ Goto(p, [op |-> "save", key |-> k, id |-> u,
                                                  content |-> Added(file, k, u)])
      BY <2>2 DEF Miss
    <3>2. \A l \in Keys : file[l] # u
      BY <3>1, NobodyAssumption DEF Faithful
    <3>3. \A q \in Procs : call[q] = Idle
      BY <2>2 DEF Miss
    <3> QED BY <2>2, <3>1, <3>2, <3>3 DEF Faithful, Miss, Goto, Typed
  <2>3. ASSUME NEW p \in Procs, WriteTemp(p) PROVE Faithful'
    BY <2>3 DEF Faithful, WriteTemp, Goto, Idle, Typed
  <2>4. ASSUME NEW p \in Procs, Flush(p) PROVE Faithful'
    BY <2>4 DEF Faithful, Flush, Goto, Idle, Typed
  <2>5. ASSUME NEW p \in Procs, Replace(p) PROVE Faithful'
    <3> DEFINE key == call[p].key
               id == call[p].id
    <3>1. /\ call[p] # Idle
          /\ key \in Keys /\ id \in Uuids /\ id \in minted
          /\ file' = Added(file, key, id)
          /\ file[key] = Nobody
          /\ \A k \in Keys : file[k] # id
      BY <2>5 DEF Replace, Idle, Faithful, Typed
    <3>2. file'[key] = id /\ \A k \in Keys \ {key} : file'[k] = file[k]
      BY <3>1 DEF Added, Typed, Contents
    <3>3. /\ call'[p].op = "replaced" /\ call'[p].key = key /\ call'[p].id = id
          /\ \A q \in Procs \ {p} : call'[q] = Idle
          /\ UNCHANGED <<minted, given>>
      BY <2>5, <3>1 DEF Replace, Goto, Typed, Idle, Faithful
    <3>4. given[key] = {}
      BY <3>1, NobodyAssumption DEF Faithful
    <3> HIDE DEF key, id
    <3> QED BY <3>1, <3>2, <3>3, <3>4 DEF Faithful
  <2>6. ASSUME NEW p \in Procs, Return(p) PROVE Faithful'
    <3>1. call[p] # Idle /\ call[p].key \in Keys /\ call[p].id \in Uuids
      BY <2>6 DEF Return, Idle, Typed
    <3> QED BY <2>6, <3>1 DEF Faithful, Return, Goto, Give, Typed
  <2>7. ASSUME NEW p \in Procs, Abandon(p) PROVE Faithful'
    BY <2>7 DEF Faithful, Abandon, Goto, Typed
  <2>8. CASE WriteDirectory
    BY <2>8 DEF Faithful, WriteDirectory
  <2>9. CASE UNCHANGED agentVars
    BY <2>9 DEF Faithful, agentVars
  <2>10. CASE LosePower
    <3>1. disk = file
      BY <2>10, Zenon DEF LosePower
    <3>2. file' = file /\ UNCHANGED <<minted, given>> /\ \A p \in Procs : call'[p] = Idle
      BY <2>10, <3>1 DEF LosePower
    <3> QED BY <3>2 DEF Faithful
  <2> QED BY <2>1, <2>2, <2>3, <2>4, <2>5, <2>6, <2>7, <2>8, <2>9, <2>10 DEF AgentsNext, GetOrCreate
<1>3. [AgentsNext]_agentVars /\ apart' => apart
  BY DEF AgentsNext, GetOrCreate, Hit, Miss, WriteTemp, Flush, Replace, Return, Abandon,
         WriteDirectory, LosePower, agentVars
<1>4. Typed /\ (apart => Faithful) => GivenIsFound
  <2> SUFFICES ASSUME Typed, apart => Faithful, apart, NEW k \in Keys, NEW u \in given[k]
               PROVE  file # Torn /\ GetById(file, u) = {k}
    BY TornAssumption DEF Typed, GivenIsFound, Contents
  <2>1. u \in Uuids /\ file[k] = u /\ u # Nobody
    BY NobodyAssumption DEF Faithful
  <2> QED BY <2>1, TornAssumption DEF Typed, Contents, Faithful, GetById
<1> QED BY <1>1, <1>2, <1>3, <1>4, AgentsTyped, PTL DEF AgentsSpec

-----------------------------------------------------------------------------

\* With one opener between reading a fresh store and stamping it: what is open
\* was built for the stamp, which is missing while a store is fresh.
Stamped ==
  /\ stamp \in Nat
  /\ opener \in [Openers -> {"closed", "fresh", "open", "refused"}]
  /\ raced \in BOOLEAN
  /\ backend = "neo4j" => \A o \in Openers : opener[o] # "fresh"
  /\ ~raced =>
       /\ \A o \in Openers : opener[o] = "open" => stamp = Build[o]
       /\ \A o, p \in Openers : opener[o] = "fresh" /\ opener[p] = "fresh" => o = p
       /\ \A o \in Openers : opener[o] = "fresh" => stamp = 0

\* A step of the processes is a step of the registry or leaves it alone.
LEMMA StartupRefinesAgents == StartupSpec => AgentsSpec
<1>1. [StartupNext]_startupVars => [AgentsNext]_agentVars
  BY DEF StartupNext, startupVars, OpenStore, Identify, Refused, End, AgentsNext
<1> QED BY <1>1, PTL DEF StartupSpec, AgentsSpec, StartupInit

\* Any number of processes of any builds, opening and closing a store of either
\* kind in any order, work only on a store stamped with their own version.
THEOREM StartupOpenMatches == StartupSpec => []OpenMatches
<1>1. StartupInit => Stamped
  <2> SUFFICES ASSUME StampInit PROVE Stamped
    BY DEF StartupInit
  <2>1. \A o \in Openers : opener[o] = "closed"
    BY DEF StampInit
  <2> QED BY <2>1 DEF StampInit, Stamped
<1>2. Stamped /\ [StartupNext]_startupVars => Stamped'
  <2> SUFFICES ASSUME Stamped, [StartupNext]_startupVars PROVE Stamped'
    OBVIOUS
  <2>1. ASSUME NEW p \in Procs, OpenStore(p) PROVE Stamped'
    <3>1. CASE ReadVersion(p)
      BY <3>1, BuildAssumption, ProcsAssumption DEF ReadVersion, Become, Reconcile, Stamped
    <3>2. CASE Stamp(p)
      BY <3>2, BuildAssumption, ProcsAssumption DEF Stamp, Become, Stamped
    <3>3. CASE MergeMarker(p)
      BY <3>3, BuildAssumption, ProcsAssumption DEF MergeMarker, Become, Reconcile, Stamped
    <3> QED BY <2>1, <3>1, <3>2, <3>3 DEF OpenStore, Open
  <2>2. ASSUME NEW S, Close(S) PROVE Stamped'
    BY <2>2 DEF Close, Stamped
  <2>3. CASE UNCHANGED stampVars
    BY <2>3 DEF Stamped, stampVars
  <2> QED BY <2>1, <2>2, <2>3 DEF StartupNext, startupVars, Identify, Refused, End
<1>3. Stamped => OpenMatches
  BY DEF Stamped, OpenMatches
<1> QED BY <1>1, <1>2, <1>3, PTL DEF StartupSpec

\* The same of the processes that open the store first: no race, crash or power
\* loss leaves a partial agent file ...
THEOREM StartupNeverPartial == StartupSpec => []NeverPartial
BY StartupRefinesAgents, AgentsNeverPartial, PTL

\* ... and calls that stay apart lose no identity.
THEOREM StartupGivenIsFound == StartupSpec => []GivenIsFound
BY StartupRefinesAgents, AgentsGivenIsFound, PTL
=============================================================================
