---------------------------- MODULE SeedersProofs ----------------------------
(***************************************************************************)
(* What the seed scripts leave, for any number of runs, dying anywhere,    *)
(* and any deletes by others between their calls.                          *)
(*                                                                         *)
(* An id keeps the concept it was made for, so the rows of all runs fit    *)
(* together: one row for each concept, relata only as the scripts declare  *)
(* them, and the variables of a run agree with the rows as long as nobody  *)
(* else writes.  How the scripts are written is proved from their steps    *)
(* (ScriptsAreWritten), and so is what the finished graph then is: deep    *)
(* enough everywhere for the filesystem domain, with just the gaps         *)
(* intended for the demo.                                                  *)
(***************************************************************************)
EXTENDS Seeders, TLAPS, FiniteSetTheorems, WellFoundedInduction

-----------------------------------------------------------------------------
(* Reachability: the three facts that say ReachFrom is a least closed set *)

\* The start nodes are reached.
LEMMA ReachStart ==
  ASSUME NEW S, NEW succ
  PROVE  S \cap DOMAIN succ \subseteq ReachFrom(S, succ) /\ ReachFrom(S, succ) \subseteq DOMAIN succ
BY DEF ReachFrom

\* What a reached node leads to is reached.
LEMMA ReachClosed ==
  ASSUME NEW S, NEW succ, NEW i \in ReachFrom(S, succ)
  PROVE  succ[i] \cap DOMAIN succ \subseteq ReachFrom(S, succ)
BY DEF ReachFrom

\* A closed set that holds the start nodes holds all that is reached.
LEMMA ReachLeast ==
  ASSUME NEW S, NEW succ, NEW T \in SUBSET DOMAIN succ,
         S \cap DOMAIN succ \subseteq T,
         \A i \in T : succ[i] \cap DOMAIN succ \subseteq T
  PROVE  ReachFrom(S, succ) \subseteq T
BY DEF ReachFrom

-----------------------------------------------------------------------------
(* The search for a cycle *)

\* One ring of the search.
Ring(T, succ) == ((UNION {succ[i] : i \in T}) \cap DOMAIN succ) \ T

\* Another ring reaches nothing that would not be reached anyway, and without
\* one the search is complete.
LEMMA RingReaches ==
  ASSUME NEW succ, NEW T \in SUBSET DOMAIN succ
  PROVE  /\ T \cup Ring(T, succ) \in SUBSET DOMAIN succ
         /\ ReachFrom(T \cup Ring(T, succ), succ) = ReachFrom(T, succ)
         /\ Ring(T, succ) = {} => ReachFrom(T, succ) = T
<1> DEFINE R == Ring(T, succ)
           D == DOMAIN succ
<1>1. R \subseteq D /\ \A i \in T : succ[i] \cap D \subseteq T \cup R
  BY DEF Ring
<1>2. \A n \in R : \E i \in T : n \in succ[i] \cap D
  BY DEF Ring
<1> HIDE DEF R
<1>3. T \subseteq ReachFrom(T, succ) /\ ReachFrom(T, succ) \subseteq D
  BY ReachStart
<1>4. R \subseteq ReachFrom(T, succ)
  BY <1>2, <1>3, ReachClosed
<1>5. ReachFrom(T \cup R, succ) \subseteq ReachFrom(T, succ)
  <2>1. \A i \in ReachFrom(T, succ) : succ[i] \cap D \subseteq ReachFrom(T, succ)
    BY ReachClosed
  <2> QED BY <1>3, <1>4, <2>1, ReachLeast
<1>6. ReachFrom(T, succ) \subseteq ReachFrom(T \cup R, succ)
  <2>1. T \cup R \subseteq ReachFrom(T \cup R, succ) /\ ReachFrom(T \cup R, succ) \subseteq D
    BY <1>1, ReachStart
  <2>2. \A i \in ReachFrom(T \cup R, succ) : succ[i] \cap D \subseteq ReachFrom(T \cup R, succ)
    BY ReachClosed
  <2> QED BY <2>1, <2>2, ReachLeast
<1>7. ASSUME R = {} PROVE ReachFrom(T, succ) \subseteq T
  BY <1>1, <1>7, ReachLeast
<1> QED BY <1>1, <1>3, <1>5, <1>6, <1>7 DEF R

\* Some sets of subsets of a finite set have a largest one.
LEMMA LargestSubset ==
  ASSUME NEW D, IsFiniteSet(D), NEW B \in SUBSET SUBSET D, B # {}
  PROVE  \E T \in B : \A U \in B : T \subseteq U => U = T
<1> DEFINE C == {D \ T : T \in B}
           L == StrictSubsetOrdering(D)
<1>1. IsWellFoundedOn(L, FiniteSubsetsOf(D))
  BY FS_StrictSubsetOrderingWellFounded
<1>2. C \subseteq FiniteSubsetsOf(D) /\ C # {}
  <2>1. \A T \in B : D \ T \in FiniteSubsetsOf(D)
    BY FS_Difference DEF FiniteSubsetsOf
  <2>2. C \subseteq FiniteSubsetsOf(D)
    BY <2>1
  <2>3. PICK T \in B : TRUE
    OBVIOUS
  <2>4. D \ T \in C
    OBVIOUS
  <2> QED BY <2>2, <2>4
<1>3. PICK M \in C : \A N \in C : <<N, M>> \notin L
  <2> HIDE DEF C, L
  <2> QED BY <1>1, <1>2, WFMin
<1>4. PICK T \in B : M = D \ T
  OBVIOUS
<1>5. \A U \in B : T \subseteq U => U = T
  <2> SUFFICES ASSUME NEW U \in B, T \subseteq U, U # T PROVE FALSE
    OBVIOUS
  <2>1. D \ U \in C /\ D \ U \subseteq M /\ D \ U # M
    BY <1>4
  <2> QED BY <1>2, <1>3, <2>1 DEF StrictSubsetOrdering
<1> QED BY <1>5

\* The search computes the least closed set, on every finite graph: the least
\* closed sets solve its equation, and a largest set on which a solution
\* differs would have no ring left.
LEMMA ReachedIsReachFrom ==
  ASSUME NEW S, NEW succ, IsFiniteSet(DOMAIN succ)
  PROVE  Reached(S, succ) = ReachFrom(S, succ)
<1> DEFINE D == DOMAIN succ
           ring(T) == ((UNION {succ[i] : i \in T}) \cap D) \ T
           grow == CHOOSE f : f = [T \in SUBSET D |-> IF ring(T) = {} THEN T ELSE f[T \cup ring(T)]]
           least == [T \in SUBSET D |-> ReachFrom(T, succ)]
<1>1. Reached(S, succ) = grow[S \cap D]
  BY DEF Reached
<1>2. least = [T \in SUBSET D |-> IF ring(T) = {} THEN T ELSE least[T \cup ring(T)]]
  <2>1. ASSUME NEW T \in SUBSET D
        PROVE  least[T] = IF ring(T) = {} THEN T ELSE least[T \cup ring(T)]
    BY RingReaches DEF Ring
  <2> QED BY <2>1
<1> HIDE DEF least
<1>3. grow = [T \in SUBSET D |-> IF ring(T) = {} THEN T ELSE grow[T \cup ring(T)]]
  BY <1>2
<1> HIDE DEF grow
<1> DEFINE bad == {T \in SUBSET D : grow[T] # ReachFrom(T, succ)}
<1>4. bad = {}
  <2> SUFFICES ASSUME bad # {} PROVE FALSE
    OBVIOUS
  <2>1. PICK T \in bad : \A U \in bad : T \subseteq U => U = T
    <3>1. bad \in SUBSET SUBSET D
      OBVIOUS
    <3> HIDE DEF bad
    <3> QED BY <3>1, LargestSubset
  <2>2. grow[T] = IF ring(T) = {} THEN T ELSE grow[T \cup ring(T)]
    BY <1>3
  <2>3. /\ T \cup ring(T) \in SUBSET D
        /\ ReachFrom(T \cup ring(T), succ) = ReachFrom(T, succ)
        /\ ring(T) = {} => ReachFrom(T, succ) = T
    BY RingReaches DEF Ring
  <2>4. T \cup ring(T) # T => T \cup ring(T) \notin bad
    BY <2>1
  <2>5. T \cap ring(T) = {}
    OBVIOUS
  <2> HIDE DEF ring
  <2> QED BY <2>2, <2>3, <2>4, <2>5
<1>5. ReachFrom(S \cap D, succ) = ReachFrom(S, succ)
  BY DEF ReachFrom
<1> QED BY <1>1, <1>4, <1>5

-----------------------------------------------------------------------------
(* How the scripts are written *)

\* What n requires, by all scripts together.
DeclaredSucc ==
  [n \in Names |-> TransitiveTargets([relata |-> UNION {DeclaredRelata(s, n) : s \in DOMAIN Script}])]

\* The concepts whose variables a script has bound when it comes to its step k.
NamesBefore(s, k) == {n \in Names : \E j \in StepsOf(s, n) : j < k}

\* A step builds a concept of Names, once, and cites what is bound.
WellWritten(s, k) ==
  LET t == Script[s][k]
  IN  /\ t.op \in {"save", "upsert"}
      /\ t.name \in Names
      /\ t.new <=> t.name \notin NamesBefore(s, k)
      /\ t.new => t.depths \in [Level -> Content]
      /\ t.relata \subseteq [rel_type : RelationType, source_depth : Level,
                             target : NamesBefore(s, k), target_depth : Level]

-----------------------------------------------------------------------------
(* The rows of all runs *)

\* The rows any runs and deletes leave: a row stands under an id made for its
\* concept, one for each concept, and requires only what is declared.
RowsFit(g) ==
  /\ IsFiniteSet(DOMAIN g)
  /\ DOMAIN g \subseteq Ids
  /\ \A i \in DOMAIN g : g[i] \in Primitive /\ g[i].id = i /\ g[i].name = i[1]
  /\ \A i, j \in DOMAIN g : i[1] = j[1] => i = j
  /\ \A i \in DOMAIN g : \A r \in g[i].relata :
       /\ r.target \in DOMAIN g
       /\ r.rel_type \in TransitiveTypes => r.target[1] \in DeclaredSucc[i[1]]

\* A primitive to save under such an id, with declared relata.
Fits(p) ==
  /\ p \in Primitive
  /\ p.id[1] = p.name
  /\ \A r \in p.relata : r.rel_type \in TransitiveTypes => r.target[1] \in DeclaredSucc[p.name]

\* A save that is let through keeps the rows fitting, and stores what it is given.
LEMMA SavedFits ==
  ASSUME NEW g, RowsFit(g), NEW p, Fits(p), ~NameTaken(g, p), ~Dangles(g, p)
  PROVE  /\ RowsFit(Saved(g, p))
         /\ DOMAIN Saved(g, p) = DOMAIN g \cup {p.id}
         /\ Saved(g, p)[p.id] = p
         /\ \A i \in DOMAIN g \ {p.id} : Saved(g, p)[i] = g[i]
<1> DEFINE h == Saved(g, p)
<1>1. StoredRow(g, p) = p
  <2>1. {r \in p.relata : r.target \in DOMAIN g \cup {p.id}} = p.relata
    BY DEF Dangles
  <2> QED BY <2>1 DEF StoredRow, Fits, Primitive
<1>2. /\ DOMAIN h = DOMAIN g \cup {p.id}
      /\ h[p.id] = p
      /\ \A i \in DOMAIN g \ {p.id} : h[i] = g[i]
  BY <1>1 DEF Saved
<1> HIDE DEF h
<1>3. p.id \in Ids
  BY DEF Fits, Primitive
<1>4. IsFiniteSet(DOMAIN h)
  BY <1>2, FS_AddElement DEF RowsFit
<1>5. \A i \in DOMAIN g \ {p.id} : i[1] # p.name
  BY DEF NameTaken, RowsFit
<1>6. \A i, j \in DOMAIN h : i[1] = j[1] => i = j
  BY <1>2, <1>5 DEF RowsFit, Fits
<1>7. \A i \in DOMAIN h : h[i] \in Primitive /\ h[i].id = i /\ h[i].name = i[1]
  BY <1>2 DEF RowsFit, Fits
<1>8. \A i \in DOMAIN h : \A r \in h[i].relata :
        /\ r.target \in DOMAIN h
        /\ r.rel_type \in TransitiveTypes => r.target[1] \in DeclaredSucc[i[1]]
  BY <1>2 DEF RowsFit, Fits, Dangles
<1>9. RowsFit(h)
  BY <1>2, <1>3, <1>4, <1>6, <1>7, <1>8 DEF RowsFit
<1> QED BY <1>2, <1>9 DEF h

\* So does a delete, of one row or of all.
LEMMA WithoutFits ==
  ASSUME NEW g, RowsFit(g), NEW S
  PROVE  RowsFit(Without(g, S))
<1> DEFINE h == Without(g, S)
           row(i) == [g[i] EXCEPT !.relata = {r \in g[i].relata : r.target \notin S}]
<1>1. h = [i \in DOMAIN g \ S |-> row(i)]
  BY DEF Without
<1>2. \A i \in DOMAIN g : /\ row(i) \in Primitive /\ row(i).id = i /\ row(i).name = i[1]
                          /\ row(i).relata = {r \in g[i].relata : r.target \notin S}
  BY DEF RowsFit, Primitive
<1> HIDE DEF h, row
<1>3. IsFiniteSet(DOMAIN h)
  BY <1>1, FS_Difference DEF RowsFit
<1> QED BY <1>1, <1>2, <1>3 DEF RowsFit, h

-----------------------------------------------------------------------------
(* The scripts *)

\* A sequence of n elements.
OfLength(q, n) == q = [k \in 1..n |-> q[k]]

\* r is p and, after its m elements, q and its n elements.
Followed(r, p, m, q, n) ==
  /\ OfLength(r, m + n)
  /\ \A k \in 1..m : r[k] = p[k]
  /\ \A k \in 1..n : r[m + k] = q[k]

\* That is what concatenation does.
LEMMA Concatenated ==
  ASSUME NEW p, NEW m \in Nat, OfLength(p, m), NEW q, NEW n \in Nat, OfLength(q, n)
  PROVE  Followed(p \o q, p, m, q, n)
<1> DEFINE S == {p[k] : k \in 1..m} \cup {q[k] : k \in 1..n}
<1>1. p = [k \in 1..m |-> p[k]] /\ q = [k \in 1..n |-> q[k]]
  BY DEF OfLength
<1>2. (\A k \in 1..m : p[k] \in S) /\ (\A k \in 1..n : q[k] \in S)
  OBVIOUS
<1> HIDE DEF S
<1>3. [k \in 1..m |-> p[k]] \in Seq(S) /\ Len([k \in 1..m |-> p[k]]) = m
  BY <1>2
<1>4. [k \in 1..n |-> q[k]] \in Seq(S) /\ Len([k \in 1..n |-> q[k]]) = n
  BY <1>2
<1>5. p \in Seq(S) /\ Len(p) = m /\ q \in Seq(S) /\ Len(q) = n
  BY <1>1, <1>3, <1>4, Zenon
<1>6. p \o q \in Seq(S) /\ Len(p \o q) = m + n
  BY <1>5
<1>7. \A k \in 1..m : (p \o q)[k] = p[k]
  BY <1>5
<1>8. \A k \in 1..n : (p \o q)[m + k] = q[k]
  BY <1>5
<1> QED BY <1>6, <1>7, <1>8 DEF OfLength, Followed

\* The parts of the filesystem seeder, one after the other.
LEMMA SeederParts ==
  /\ OfLength(Domain!main, 42)
  /\ \A k \in 1..20 : Domain!main[k] = Domain!concepts[k]
  /\ \A k \in 1..7 : Domain!main[20 + k] = Domain!structure[k]
  /\ \A k \in 1..10 : Domain!main[27 + k] = Domain!constraints[k]
  /\ \A k \in 1..5 : Domain!main[37 + k] = Domain!consequences[k]
<1> DEFINE two == Domain!concepts \o Domain!structure
           three == two \o Domain!constraints
           four == three \o Domain!consequences
<1>1. OfLength(Domain!concepts, 20)
  BY DEF OfLength, Domain!concepts
<1>2. OfLength(Domain!structure, 7)
  BY DEF OfLength, Domain!structure
<1>3. OfLength(Domain!constraints, 10)
  BY DEF OfLength, Domain!constraints
<1>4. OfLength(Domain!consequences, 5)
  BY DEF OfLength, Domain!consequences
<1>5. /\ OfLength(two, 27)
      /\ \A k \in 1..20 : two[k] = Domain!concepts[k]
      /\ \A k \in 1..7 : two[20 + k] = Domain!structure[k]
  <2>1. Followed(Domain!concepts \o Domain!structure, Domain!concepts, 20, Domain!structure, 7)
    BY <1>1, <1>2, Concatenated
  <2>2. 20 + 7 = 27
    OBVIOUS
  <2> QED BY <2>1, <2>2 DEF Followed
<1> HIDE DEF two
<1>6. /\ OfLength(three, 37)
      /\ \A k \in 1..27 : three[k] = two[k]
      /\ \A k \in 1..10 : three[27 + k] = Domain!constraints[k]
  <2>1. Followed(two \o Domain!constraints, two, 27, Domain!constraints, 10)
    BY <1>3, <1>5, Concatenated
  <2>2. 27 + 10 = 37
    OBVIOUS
  <2> QED BY <2>1, <2>2 DEF Followed
<1> HIDE DEF three
<1>7. /\ OfLength(four, 42)
      /\ \A k \in 1..37 : four[k] = three[k]
      /\ \A k \in 1..5 : four[37 + k] = Domain!consequences[k]
  <2>1. Followed(three \o Domain!consequences, three, 37, Domain!consequences, 5)
    BY <1>4, <1>6, Concatenated
  <2>2. 37 + 5 = 42
    OBVIOUS
  <2> QED BY <2>1, <2>2 DEF Followed
<1> HIDE DEF four
<1>8. Domain!main = four
  BY DEF Domain!main, four, three, two
<1>9. \A k \in 1..20 : four[k] = Domain!concepts[k]
  BY <1>5, <1>6, <1>7
<1>10. \A k \in 1..7 : four[20 + k] = Domain!structure[k]
  <2> SUFFICES ASSUME NEW k \in 1..7 PROVE four[20 + k] = Domain!structure[k]
    OBVIOUS
  <2>1. 20 + k \in 1..27 /\ 20 + k \in 1..37
    OBVIOUS
  <2> QED BY <1>5, <1>6, <1>7, <2>1
<1>11. \A k \in 1..10 : four[27 + k] = Domain!constraints[k]
  <2> SUFFICES ASSUME NEW k \in 1..10 PROVE four[27 + k] = Domain!constraints[k]
    OBVIOUS
  <2>1. 27 + k \in 1..37
    OBVIOUS
  <2> QED BY <1>6, <1>7, <2>1
<1> QED BY <1>7, <1>8, <1>9, <1>10, <1>11

\* The steps of these parts.
SeederSteps ==
  {Domain!concepts[j] : j \in 1..20} \cup {Domain!structure[j] : j \in 1..7}
    \cup {Domain!constraints[j] : j \in 1..10} \cup {Domain!consequences[j] : j \in 1..5}

\* The seeder has no others.
LEMMA SeederStep ==
  ASSUME NEW k \in 1..42
  PROVE  Domain!main[k] \in SeederSteps
<1>1. CASE k \in 1..20
  BY <1>1, SeederParts DEF SeederSteps
<1>2. CASE k \in 21..27
  <2>1. k - 20 \in 1..7 /\ 20 + (k - 20) = k
    BY <1>2
  <2> QED BY <2>1, SeederParts DEF SeederSteps
<1>3. CASE k \in 28..37
  <2>1. k - 27 \in 1..10 /\ 27 + (k - 27) = k
    BY <1>3
  <2> QED BY <2>1, SeederParts DEF SeederSteps
<1>4. CASE k \in 38..42
  <2>1. k - 37 \in 1..5 /\ 37 + (k - 37) = k
    BY <1>4
  <2> QED BY <2>1, SeederParts DEF SeederSteps
<1> QED BY <1>1, <1>2, <1>3, <1>4

\* The filesystem seeder is a sequence of upserts.
LEMMA SeederUpserts == OfLength(Domain!main, 42) /\ \A k \in 1..42 : Domain!main[k].op = "upsert"
<1>1. ASSUME NEW name, NEW S, NEW relata PROVE Domain!Upsert(name, S, relata).op = "upsert"
  BY DEF Domain!Upsert, Domain!Seed
<1>2. ASSUME NEW name, NEW relata PROVE Domain!Update(name, relata).op = "upsert"
  BY DEF Domain!Update, Domain!Rewire
<1>3. \A k \in 1..20 : Domain!concepts[k].op = "upsert"
  BY <1>1 DEF Domain!concepts, Domain!seed_operating_system, Domain!seed_filesystem,
     Domain!seed_path, Domain!seed_permission, Domain!seed_ownership, Domain!seed_directory,
     Domain!seed_file, Domain!seed_symlink, Domain!seed_user, Domain!seed_group,
     Domain!seed_process, Domain!seed_create, Domain!seed_read, Domain!seed_write,
     Domain!seed_delete, Domain!seed_list, Domain!seed_move, Domain!seed_copy,
     Domain!seed_modify, Domain!seed_execute
<1>4. \A k \in 1..7 : Domain!structure[k].op = "upsert"
  BY <1>2 DEF Domain!structure
<1>5. \A k \in 1..10 : Domain!constraints[k].op = "upsert"
  BY <1>2 DEF Domain!constraints, Domain!Constrained
<1>6. \A k \in 1..5 : Domain!consequences[k].op = "upsert"
  BY <1>2 DEF Domain!consequences, Domain!Constrained
<1>7. \A t \in SeederSteps : t.op = "upsert"
  BY <1>3, <1>4, <1>5, <1>6 DEF SeederSteps
<1> QED BY <1>7, SeederStep, SeederParts

\* The scripts are sequences.
LEMMA ScriptsAreSequences ==
  ASSUME NEW s \in DOMAIN Script
  PROVE  Len(Script[s]) \in Nat \ {0} /\ DOMAIN Script[s] = 1..Len(Script[s])
<1>1. DOMAIN Script = {"gaps", "filesystem", "clear"}
  BY DEF Script
<1>2. CASE s = "gaps"
  <2>1. Script[s] = GapDemo!main
    BY <1>2 DEF Script
  <2> QED BY <2>1 DEF GapDemo!main
<1>3. CASE s = "filesystem"
  <2>1. Script[s] = Domain!main
    BY <1>3 DEF Script
  <2>2. Script[s] = [k \in 1..42 |-> Domain!main[k]]
    BY <2>1, SeederUpserts DEF OfLength
  <2>3. Len([k \in 1..42 |-> Domain!main[k]]) = 42
    OBVIOUS
  <2> QED BY <2>2, <2>3
<1>4. CASE s = "clear"
  BY <1>4 DEF Script
<1> QED BY <1>1, <1>2, <1>3, <1>4

\* The filesystem seeder never clears.
LEMMA SeederNeverClears ==
  \A k \in DOMAIN Script["filesystem"] : Script["filesystem"][k].op # "clear"
BY SeederUpserts DEF OfLength, Script

-----------------------------------------------------------------------------
(* The scripts are well written *)

\* The step at which the seeder builds each of its concepts.
DomainNames ==
  {"operating_system", "filesystem", "path", "permission", "ownership", "directory",
   "file", "symlink", "user", "group", "process", "create", "read", "write", "delete",
   "list", "move", "copy", "modify", "execute"}

DomainPlace == [n \in DomainNames |->
  CASE n = "operating_system" -> 1 [] n = "filesystem" -> 2 [] n = "path" -> 3
    [] n = "permission" -> 4 [] n = "ownership" -> 5 [] n = "directory" -> 6
    [] n = "file" -> 7 [] n = "symlink" -> 8 [] n = "user" -> 9 [] n = "group" -> 10
    [] n = "process" -> 11 [] n = "create" -> 12 [] n = "read" -> 13 [] n = "write" -> 14
    [] n = "delete" -> 15 [] n = "list" -> 16 [] n = "move" -> 17 [] n = "copy" -> 18
    [] n = "modify" -> 19 [] n = "execute" -> 20]

\* The same of the demo.
GapNames ==
  {"operating_system", "filesystem", "path", "permission", "directory", "file", "read",
   "list", "delete", "create"}

GapPlace == [n \in GapNames |->
  CASE n = "operating_system" -> 2 [] n = "filesystem" -> 3 [] n = "path" -> 4
    [] n = "permission" -> 5 [] n = "directory" -> 6 [] n = "file" -> 7 [] n = "read" -> 8
    [] n = "list" -> 9 [] n = "delete" -> 10 [] n = "create" -> 11]

LEMMA DomainPlaces ==
  /\ DOMAIN DomainPlace = DomainNames
  /\ DomainPlace["operating_system"] = 1 /\ DomainPlace["filesystem"] = 2 /\ DomainPlace["path"] = 3
  /\ DomainPlace["permission"] = 4 /\ DomainPlace["ownership"] = 5 /\ DomainPlace["directory"] = 6
  /\ DomainPlace["file"] = 7 /\ DomainPlace["symlink"] = 8 /\ DomainPlace["user"] = 9
  /\ DomainPlace["group"] = 10 /\ DomainPlace["process"] = 11 /\ DomainPlace["create"] = 12
  /\ DomainPlace["read"] = 13 /\ DomainPlace["write"] = 14 /\ DomainPlace["delete"] = 15
  /\ DomainPlace["list"] = 16 /\ DomainPlace["move"] = 17 /\ DomainPlace["copy"] = 18
  /\ DomainPlace["modify"] = 19 /\ DomainPlace["execute"] = 20
BY DEF DomainPlace, DomainNames

LEMMA GapPlaces ==
  /\ DOMAIN GapPlace = GapNames
  /\ GapPlace["operating_system"] = 2 /\ GapPlace["filesystem"] = 3 /\ GapPlace["path"] = 4
  /\ GapPlace["permission"] = 5 /\ GapPlace["directory"] = 6 /\ GapPlace["file"] = 7
  /\ GapPlace["read"] = 8 /\ GapPlace["list"] = 9 /\ GapPlace["delete"] = 10
  /\ GapPlace["create"] = 11
BY DEF GapPlace, GapNames

\* Requirements lead down these ranks.
Rank(n) ==
  CASE n = "operating_system" -> 0
    [] n \in {"filesystem", "ownership", "user", "group"} -> 1
    [] n \in {"path", "permission"} -> 2
    [] n \in {"directory", "file", "symlink", "process"} -> 3
    [] OTHER -> 4

\* Relata of a concept, cited at step k from what was built before.
CitesBefore(relata, name, place, k) == \A r \in relata :
  /\ r \in [rel_type : RelationType, source_depth : Level, target : DOMAIN place, target_depth : Level]
  /\ place[r.target] < k
  /\ r.rel_type \in TransitiveTypes => Rank(r.target) < Rank(name)

\* What is at step k: a concept that is built there, or one that was before.
Written(t, place, k) ==
  /\ t.op \in {"save", "upsert"}
  /\ t.name \in DOMAIN place
  /\ place[t.name] <= k
  /\ t.new <=> place[t.name] = k
  /\ t.new => t.depths \in [Level -> Content]
  /\ CitesBefore(t.relata, t.name, place, k)

\* A new concept at its place.
LEMMA NewIsWritten ==
  ASSUME NEW place, NEW name \in DOMAIN place, NEW k \in Nat, place[name] = k, NEW S, NEW relata,
         CitesBefore(relata, name, place, k)
  PROVE  /\ Written(Domain!Upsert(name, S, relata), place, k)
         /\ Written(GapDemo!Save(name, S, relata), place, k)
<1> DEFINE levels == [l \in 0..4 |-> IF l \in S THEN "authored"
                        ELSE IF l = 0 \/ \E r \in relata : r.source_depth = l THEN "empty" ELSE "absent"]
<1>1. levels \in [Level -> Content]
  BY DEF Level, Content
<1>2. ASSUME NEW t, NEW op \in {"save", "upsert"},
             t = [op |-> op, new |-> TRUE, name |-> name, relata |-> relata, depths |-> levels]
      PROVE  Written(t, place, k)
  <2>1. t.op = op /\ t.new = TRUE /\ t.name = name /\ t.relata = relata /\ t.depths = levels
    BY <1>2
  <2> HIDE DEF levels
  <2> QED BY <1>1, <2>1 DEF Written
<1>3. Domain!Upsert(name, S, relata)
        = [op |-> "upsert", new |-> TRUE, name |-> name, relata |-> relata, depths |-> levels]
  BY DEF Domain!Upsert, Domain!Seed
<1>4. GapDemo!Save(name, S, relata)
        = [op |-> "save", new |-> TRUE, name |-> name, relata |-> relata, depths |-> levels]
  BY DEF GapDemo!Save, GapDemo!Seed
<1> HIDE DEF levels
<1> QED BY <1>2, <1>3, <1>4

\* A concept built before, with more relata.
LEMMA UpdateIsWritten ==
  ASSUME NEW place, NEW name \in DOMAIN place, place[name] \in Nat, NEW k \in Nat, place[name] < k,
         NEW relata, CitesBefore(relata, name, place, k)
  PROVE  /\ Written(Domain!Update(name, relata), place, k)
         /\ Written(GapDemo!Rewire("save", name, relata), place, k)
<1>1. ASSUME NEW t, NEW op \in {"save", "upsert"},
             t = [op |-> op, new |-> FALSE, name |-> name, relata |-> relata]
      PROVE  Written(t, place, k)
  <2>1. t.op = op /\ t.new = FALSE /\ t.name = name /\ t.relata = relata
    BY <1>1
  <2> QED BY <2>1 DEF Written
<1>2. Domain!Update(name, relata) = [op |-> "upsert", new |-> FALSE, name |-> name, relata |-> relata]
  BY DEF Domain!Update, Domain!Rewire
<1>3. GapDemo!Rewire("save", name, relata)
        = [op |-> "save", new |-> FALSE, name |-> name, relata |-> relata]
  BY DEF GapDemo!Rewire
<1> QED BY <1>1, <1>2, <1>3

\* The steps that build the concepts of the seeder, in the order of their places.
LEMMA ConceptsAreWritten == \A k \in 1..20 : Written(Domain!concepts[k], DomainPlace, k)
<1> USE DomainPlaces DEF DomainNames
<1>1. Written(Domain!seed_operating_system, DomainPlace, 1)
  <2>1. CitesBefore({}, "operating_system", DomainPlace, 1)
    BY DEF CitesBefore, Rank, RelationType, Level, TransitiveTypes, Domain!At, Domain!AllAt
  <2> QED BY <2>1, NewIsWritten DEF Domain!seed_operating_system
<1>2. Written(Domain!seed_filesystem, DomainPlace, 2)
  <2>1. CitesBefore({Domain!At(2, "DEPENDS_ON", "operating_system", 2)}, "filesystem", DomainPlace, 2)
    BY DEF CitesBefore, Rank, RelationType, Level, TransitiveTypes, Domain!At, Domain!AllAt
  <2> QED BY <2>1, NewIsWritten DEF Domain!seed_filesystem
<1>3. Written(Domain!seed_path, DomainPlace, 3)
  <2>1. CitesBefore({Domain!At(2, "DEPENDS_ON", "filesystem", 1)}, "path", DomainPlace, 3)
    BY DEF CitesBefore, Rank, RelationType, Level, TransitiveTypes, Domain!At, Domain!AllAt
  <2> QED BY <2>1, NewIsWritten DEF Domain!seed_path
<1>4. Written(Domain!seed_permission, DomainPlace, 4)
  <2>1. CitesBefore({Domain!At(2, "DEPENDS_ON", "operating_system", 2)}, "permission", DomainPlace, 4)
    BY DEF CitesBefore, Rank, RelationType, Level, TransitiveTypes, Domain!At, Domain!AllAt
  <2> QED BY <2>1, NewIsWritten DEF Domain!seed_permission
<1>5. Written(Domain!seed_ownership, DomainPlace, 5)
  <2>1. CitesBefore({Domain!At(2, "DEPENDS_ON", "operating_system", 2)}, "ownership", DomainPlace, 5)
    BY DEF CitesBefore, Rank, RelationType, Level, TransitiveTypes, Domain!At, Domain!AllAt
  <2> QED BY <2>1, NewIsWritten DEF Domain!seed_ownership
<1>6. Written(Domain!seed_directory, DomainPlace, 6)
  <2>1. CitesBefore(Domain!Entity, "directory", DomainPlace, 6)
    BY DEF CitesBefore, Rank, RelationType, Level, TransitiveTypes, Domain!At, Domain!AllAt,
       Domain!Entity
  <2> QED BY <2>1, NewIsWritten DEF Domain!seed_directory
<1>7. Written(Domain!seed_file, DomainPlace, 7)
  <2>1. CitesBefore(Domain!Entity, "file", DomainPlace, 7)
    BY DEF CitesBefore, Rank, RelationType, Level, TransitiveTypes, Domain!At, Domain!AllAt,
       Domain!Entity
  <2> QED BY <2>1, NewIsWritten DEF Domain!seed_file
<1>8. Written(Domain!seed_symlink, DomainPlace, 8)
  <2>1. CitesBefore(Domain!Entity, "symlink", DomainPlace, 8)
    BY DEF CitesBefore, Rank, RelationType, Level, TransitiveTypes, Domain!At, Domain!AllAt,
       Domain!Entity
  <2> QED BY <2>1, NewIsWritten DEF Domain!seed_symlink
<1>9. Written(Domain!seed_user, DomainPlace, 9)
  <2>1. CitesBefore({Domain!At(2, "DEPENDS_ON", "operating_system", 2)}, "user", DomainPlace, 9)
    BY DEF CitesBefore, Rank, RelationType, Level, TransitiveTypes, Domain!At, Domain!AllAt
  <2> QED BY <2>1, NewIsWritten DEF Domain!seed_user
<1>10. Written(Domain!seed_group, DomainPlace, 10)
  <2>1. CitesBefore({Domain!At(2, "DEPENDS_ON", "operating_system", 2),
                     Domain!At(2, "INCLUDES", "user", 1)}, "group", DomainPlace, 10)
    BY DEF CitesBefore, Rank, RelationType, Level, TransitiveTypes, Domain!At, Domain!AllAt
  <2> QED BY <2>1, NewIsWritten DEF Domain!seed_group
<1>11. Written(Domain!seed_process, DomainPlace, 11)
  <2>1. CitesBefore({Domain!At(2, "DEPENDS_ON", "operating_system", 2),
                     Domain!At(3, "CONSTRAINED_BY", "operating_system", 2)}, "process", DomainPlace, 11)
    BY DEF CitesBefore, Rank, RelationType, Level, TransitiveTypes, Domain!At, Domain!AllAt
  <2> QED BY <2>1, NewIsWritten DEF Domain!seed_process
<1>12. Written(Domain!seed_create, DomainPlace, 12)
  <2>1. CitesBefore(Domain!AllAt(3, "APPLIES_TO", {"file", "directory"}, 2), "create", DomainPlace, 12)
    BY DEF CitesBefore, Rank, RelationType, Level, TransitiveTypes, Domain!At, Domain!AllAt
  <2> QED BY <2>1, NewIsWritten DEF Domain!seed_create
<1>13. Written(Domain!seed_read, DomainPlace, 13)
  <2>1. CitesBefore({Domain!At(2, "APPLIES_TO", "file", 2)}, "read", DomainPlace, 13)
    BY DEF CitesBefore, Rank, RelationType, Level, TransitiveTypes, Domain!At, Domain!AllAt
  <2> QED BY <2>1, NewIsWritten DEF Domain!seed_read
<1>14. Written(Domain!seed_write, DomainPlace, 14)
  <2>1. CitesBefore({Domain!At(3, "APPLIES_TO", "file", 2)}, "write", DomainPlace, 14)
    BY DEF CitesBefore, Rank, RelationType, Level, TransitiveTypes, Domain!At, Domain!AllAt
  <2> QED BY <2>1, NewIsWritten DEF Domain!seed_write
<1>15. Written(Domain!seed_delete, DomainPlace, 15)
  <2>1. CitesBefore(Domain!AllAt(3, "APPLIES_TO", {"file", "directory"}, 2), "delete", DomainPlace, 15)
    BY DEF CitesBefore, Rank, RelationType, Level, TransitiveTypes, Domain!At, Domain!AllAt
  <2> QED BY <2>1, NewIsWritten DEF Domain!seed_delete
<1>16. Written(Domain!seed_list, DomainPlace, 16)
  <2>1. CitesBefore({Domain!At(2, "APPLIES_TO", "directory", 2)}, "list", DomainPlace, 16)
    BY DEF CitesBefore, Rank, RelationType, Level, TransitiveTypes, Domain!At, Domain!AllAt
  <2> QED BY <2>1, NewIsWritten DEF Domain!seed_list
<1>17. Written(Domain!seed_move, DomainPlace, 17)
  <2>1. CitesBefore({Domain!At(2, "REQUIRES", "path", 1)}
                     \cup Domain!AllAt(3, "APPLIES_TO", {"file", "directory"}, 2),
                    "move", DomainPlace, 17)
    BY DEF CitesBefore, Rank, RelationType, Level, TransitiveTypes, Domain!At, Domain!AllAt
  <2> QED BY <2>1, NewIsWritten DEF Domain!seed_move
<1>18. Written(Domain!seed_copy, DomainPlace, 18)
  <2>1. CitesBefore({Domain!At(2, "REQUIRES", "path", 1)}
                     \cup Domain!AllAt(2, "APPLIES_TO", {"file", "directory"}, 2),
                    "copy", DomainPlace, 18)
    BY DEF CitesBefore, Rank, RelationType, Level, TransitiveTypes, Domain!At, Domain!AllAt
  <2> QED BY <2>1, NewIsWritten DEF Domain!seed_copy
<1>19. Written(Domain!seed_modify, DomainPlace, 19)
  <2>1. CitesBefore(Domain!AllAt(3, "APPLIES_TO", {"file", "directory", "symlink"}, 2),
                    "modify", DomainPlace, 19)
    BY DEF CitesBefore, Rank, RelationType, Level, TransitiveTypes, Domain!At, Domain!AllAt
  <2> QED BY <2>1, NewIsWritten DEF Domain!seed_modify
<1>20. Written(Domain!seed_execute, DomainPlace, 20)
  <2>1. CitesBefore({Domain!At(3, "APPLIES_TO", "file", 2)}, "execute", DomainPlace, 20)
    BY DEF CitesBefore, Rank, RelationType, Level, TransitiveTypes, Domain!At, Domain!AllAt
  <2> QED BY <2>1, NewIsWritten DEF Domain!seed_execute
<1> QED BY <1>1, <1>2, <1>3, <1>4, <1>5, <1>6, <1>7, <1>8, <1>9, <1>10, <1>11, <1>12, <1>13, <1>14,
   <1>15, <1>16, <1>17, <1>18, <1>19, <1>20 DEF Domain!concepts

\* So are those that add relata to them: they come when all are there.
LEMMA UpdatesAreWritten ==
  ASSUME NEW k \in 21..42
  PROVE  /\ \A j \in 1..7 : Written(Domain!structure[j], DomainPlace, k)
         /\ \A j \in 1..10 : Written(Domain!constraints[j], DomainPlace, k)
         /\ \A j \in 1..5 : Written(Domain!consequences[j], DomainPlace, k)
<1> DEFINE cites(relata, name) == CitesBefore(relata, name, DomainPlace, k)
<1>1. ASSUME NEW name \in DomainNames, NEW relata, cites(relata, name)
      PROVE  Written(Domain!Update(name, relata), DomainPlace, k)
  <2>1. name \in DOMAIN DomainPlace /\ DomainPlace[name] \in Nat /\ DomainPlace[name] < k
    BY DomainPlaces DEF DomainNames
  <2> QED BY <1>1, <2>1, UpdateIsWritten
<1>2. \A R, S, name : cites(R, name) /\ cites(S, name) => cites(R \cup S, name)
  BY DEF CitesBefore
<1>3. ASSUME NEW name \in {"read", "write", "delete", "create", "modify", "list", "move", "copy",
                          "execute", "process"},
             NEW by \in {"permission", "ownership"}
      PROVE  Written(Domain!Constrained(name, by), DomainPlace, k)
  <2>1. cites({Domain!At(3, "CONSTRAINED_BY", by, 1)}, name)
    BY DomainPlaces DEF DomainNames, CitesBefore, Rank, RelationType, Level, TransitiveTypes,
       Domain!At, Domain!AllAt
  <2> HIDE DEF cites
  <2> QED BY <1>1, <2>1 DEF Domain!Constrained, DomainNames
<1>4. /\ cites(Domain!AllAt(2, "INCLUDES", {"file", "directory", "symlink"}, 0), "filesystem")
      /\ cites({Domain!At(2, "DEPENDS_ON", "ownership", 1)}, "permission")
      /\ cites(Domain!AllAt(2, "APPLIES_TO", {"user", "group", "process", "symlink"}, 1), "permission")
      /\ cites(Domain!AllAt(2, "APPLIES_TO", {"read", "write", "delete", "create", "list", "move",
                                              "copy", "modify", "execute"}, 2), "permission")
  BY DomainPlaces DEF DomainNames, CitesBefore, Rank, RelationType, Level, TransitiveTypes,
     Domain!At, Domain!AllAt
<1>5. /\ cites(Domain!AllAt(2, "APPLIES_TO", {"file", "directory", "symlink", "user", "group"}, 1),
              "ownership")
      /\ \A name \in {"file", "directory", "symlink"} :
           cites({Domain!At(1, "REQUIRES", "ownership", 1)}, name)
      /\ cites({Domain!At(2, "INCLUDES", "process", 1)}, "user")
  BY DomainPlaces DEF DomainNames, CitesBefore, Rank, RelationType, Level, TransitiveTypes,
     Domain!At, Domain!AllAt
<1>6. /\ cites({Domain!At(3, "APPLIES_TO", "symlink", 2)}, "create")
      /\ cites({Domain!At(3, "APPLIES_TO", "symlink", 2)}, "delete")
      /\ cites(Domain!AllAt(4, "APPLIES_TO", {"symlink", "process"}, 1), "delete")
      /\ cites({Domain!At(2, "APPLIES_TO", "symlink", 2)}, "read")
      /\ cites({Domain!At(4, "APPLIES_TO", "process", 1), Domain!At(4, "APPLIES_TO", "file", 2)}, "execute")
  BY DomainPlaces DEF DomainNames, CitesBefore, Rank, RelationType, Level, TransitiveTypes,
     Domain!At, Domain!AllAt
<1> HIDE DEF cites
<1>7. \A j \in 1..7 : Written(Domain!structure[j], DomainPlace, k)
  <2>1. cites({Domain!At(2, "DEPENDS_ON", "ownership", 1)}
                \cup Domain!AllAt(2, "APPLIES_TO", {"user", "group", "process", "symlink"}, 1)
                \cup Domain!AllAt(2, "APPLIES_TO", {"read", "write", "delete", "create", "list", "move",
                                                   "copy", "modify", "execute"}, 2),
              "permission")
    BY <1>2, <1>4
  <2> QED BY <1>1, <1>4, <1>5, <2>1 DEF Domain!structure, DomainNames
<1>8. \A j \in 1..10 : Written(Domain!constraints[j], DomainPlace, k)
  BY <1>3 DEF Domain!constraints
<1>9. \A j \in 1..5 : Written(Domain!consequences[j], DomainPlace, k)
  BY <1>1, <1>2, <1>3, <1>6 DEF Domain!consequences, DomainNames
<1> QED BY <1>7, <1>8, <1>9

\* The steps of the demo after the clear.
LEMMA GapStepsAreWritten == \A k \in 2..12 : Written(GapDemo!main[k], GapPlace, k)
<1> USE GapPlaces DEF GapNames
<1>2. Written(GapDemo!seed_operating_system, GapPlace, 2)
  <2>1. CitesBefore({}, "operating_system", GapPlace, 2)
    BY DEF CitesBefore, Rank, RelationType, Level, TransitiveTypes, GapDemo!At, GapDemo!AllAt
  <2> QED BY <2>1, NewIsWritten DEF GapDemo!seed_operating_system
<1>3. Written(GapDemo!seed_filesystem, GapPlace, 3)
  <2>1. CitesBefore({GapDemo!At(2, "DEPENDS_ON", "operating_system", 2)}, "filesystem", GapPlace, 3)
    BY DEF CitesBefore, Rank, RelationType, Level, TransitiveTypes, GapDemo!At, GapDemo!AllAt
  <2> QED BY <2>1, NewIsWritten DEF GapDemo!seed_filesystem
<1>4. Written(GapDemo!seed_path, GapPlace, 4)
  <2>1. CitesBefore({GapDemo!At(2, "DEPENDS_ON", "filesystem", 1)}, "path", GapPlace, 4)
    BY DEF CitesBefore, Rank, RelationType, Level, TransitiveTypes, GapDemo!At, GapDemo!AllAt
  <2> QED BY <2>1, NewIsWritten DEF GapDemo!seed_path
<1>5. Written(GapDemo!seed_permission, GapPlace, 5)
  <2>1. CitesBefore({GapDemo!At(2, "DEPENDS_ON", "operating_system", 2)}, "permission", GapPlace, 5)
    BY DEF CitesBefore, Rank, RelationType, Level, TransitiveTypes, GapDemo!At, GapDemo!AllAt
  <2> QED BY <2>1, NewIsWritten DEF GapDemo!seed_permission
<1>6. Written(GapDemo!seed_directory, GapPlace, 6)
  <2>1. CitesBefore({GapDemo!At(1, "REQUIRES", "path", 1),
                     GapDemo!At(2, "DEPENDS_ON", "filesystem", 1),
                     GapDemo!At(3, "CONSTRAINED_BY", "permission", 1)}, "directory", GapPlace, 6)
    BY DEF CitesBefore, Rank, RelationType, Level, TransitiveTypes, GapDemo!At, GapDemo!AllAt
  <2> QED BY <2>1, NewIsWritten DEF GapDemo!seed_directory
<1>7. Written(GapDemo!seed_file, GapPlace, 7)
  <2>1. CitesBefore({GapDemo!At(1, "REQUIRES", "path", 1)}, "file", GapPlace, 7)
    BY DEF CitesBefore, Rank, RelationType, Level, TransitiveTypes, GapDemo!At, GapDemo!AllAt
  <2> QED BY <2>1, NewIsWritten DEF GapDemo!seed_file
<1>8. Written(GapDemo!seed_read, GapPlace, 8)
  <2>1. CitesBefore({GapDemo!At(2, "APPLIES_TO", "file", 2)}, "read", GapPlace, 8)
    BY DEF CitesBefore, Rank, RelationType, Level, TransitiveTypes, GapDemo!At, GapDemo!AllAt
  <2> QED BY <2>1, NewIsWritten DEF GapDemo!seed_read
<1>9. Written(GapDemo!seed_list, GapPlace, 9)
  <2>1. CitesBefore({GapDemo!At(2, "APPLIES_TO", "directory", 2)}, "list", GapPlace, 9)
    BY DEF CitesBefore, Rank, RelationType, Level, TransitiveTypes, GapDemo!At, GapDemo!AllAt
  <2> QED BY <2>1, NewIsWritten DEF GapDemo!seed_list
<1>10. Written(GapDemo!seed_delete, GapPlace, 10)
  <2>1. CitesBefore({}, "delete", GapPlace, 10)
    BY DEF CitesBefore, Rank, RelationType, Level, TransitiveTypes, GapDemo!At, GapDemo!AllAt
  <2> QED BY <2>1, NewIsWritten DEF GapDemo!seed_delete
<1>11. Written(GapDemo!seed_create, GapPlace, 11)
  <2>1. CitesBefore(GapDemo!AllAt(3, "APPLIES_TO", {"file", "directory"}, 2), "create", GapPlace, 11)
    BY DEF CitesBefore, Rank, RelationType, Level, TransitiveTypes, GapDemo!At, GapDemo!AllAt
  <2> QED BY <2>1, NewIsWritten DEF GapDemo!seed_create
<1>12. Written(GapDemo!includes, GapPlace, 12)
  <2>1. CitesBefore(GapDemo!AllAt(2, "INCLUDES", {"file", "directory"}, 0), "filesystem", GapPlace, 12)
    BY DEF CitesBefore, Rank, RelationType, Level, TransitiveTypes, GapDemo!At, GapDemo!AllAt
  <2> QED BY <2>1, UpdateIsWritten DEF GapDemo!includes
<1> QED BY <1>2, <1>3, <1>4, <1>5, <1>6, <1>7, <1>8, <1>9, <1>10, <1>11, <1>12 DEF GapDemo!main

\* The steps of a script stand at the places.
Placed(s, place) ==
  /\ \A n \in DOMAIN place : /\ place[n] \in DOMAIN Script[s]
                            /\ Script[s][place[n]].op # "clear"
                            /\ Script[s][place[n]].name = n
  /\ \A k \in DOMAIN Script[s] : Script[s][k].op # "clear" => Written(Script[s][k], place, k)

\* Such a script is well written.
LEMMA PlacedIsWellWritten ==
  ASSUME NEW s \in DOMAIN Script, NEW place, Placed(s, place)
  PROVE  \A k \in DOMAIN Script[s] : Script[s][k].op # "clear" => WellWritten(s, k)
<1> USE DEF Placed
<1>1. DOMAIN place \subseteq Names
  BY NamesAssumption
<1>2. DOMAIN Script[s] \subseteq Nat
  BY ScriptsAreSequences
<1>3. ASSUME NEW k \in DOMAIN Script[s] PROVE NamesBefore(s, k) = {n \in DOMAIN place : place[n] < k}
  <2>1. ASSUME NEW n \in NamesBefore(s, k) PROVE n \in DOMAIN place /\ place[n] < k
    <3>1. PICK j \in StepsOf(s, n) : j < k
      BY DEF NamesBefore
    <3>2. j \in DOMAIN Script[s] /\ Written(Script[s][j], place, j) /\ Script[s][j].name = n
      BY DEF StepsOf
    <3>3. n \in DOMAIN place /\ place[n] <= j
      BY <3>2 DEF Written
    <3> QED BY <1>2, <3>1, <3>2, <3>3
  <2>2. ASSUME NEW n \in DOMAIN place, place[n] < k PROVE n \in NamesBefore(s, k)
    <3>1. place[n] \in StepsOf(s, n)
      BY DEF StepsOf
    <3> QED BY <1>1, <2>2, <3>1 DEF NamesBefore
  <2> QED BY <2>1, <2>2
<1>4. ASSUME NEW k \in DOMAIN Script[s], Script[s][k].op # "clear" PROVE WellWritten(s, k)
  <2> DEFINE t == Script[s][k]
  <2>1. /\ t.op \in {"save", "upsert"} /\ t.name \in DOMAIN place /\ place[t.name] <= k
        /\ t.new <=> place[t.name] = k
        /\ t.new => t.depths \in [Level -> Content]
        /\ CitesBefore(t.relata, t.name, place, k)
    BY <1>4 DEF Written
  <2>2. place[t.name] \in Nat /\ k \in Nat
    BY <1>2, <2>1
  <2>3. t.new <=> t.name \notin NamesBefore(s, k)
    BY <1>3, <2>1, <2>2
  <2>4. ASSUME NEW r \in t.relata
        PROVE  r \in [rel_type : RelationType, source_depth : Level,
                      target : NamesBefore(s, k), target_depth : Level]
    <3>1. /\ r \in [rel_type : RelationType, source_depth : Level,
                   target : DOMAIN place, target_depth : Level]
          /\ place[r.target] < k
      BY <2>1 DEF CitesBefore
    <3>2. r.target \in NamesBefore(s, k)
      BY <1>3, <3>1
    <3> QED BY <3>1, <3>2
  <2> QED BY <1>1, <2>1, <2>3, <2>4 DEF WellWritten
<1> QED BY <1>4

\* What a step of any script cites lies lower in rank.
Descending(t) == \A r \in t.relata : r.rel_type \in TransitiveTypes => Rank(r.target) < Rank(t.name)

\* The three scripts.
LEMMA ScriptsAreWritten ==
  \A s \in DOMAIN Script : \A k \in DOMAIN Script[s] :
    /\ Script[s][k].op = "clear" => k = 1
    /\ Script[s][k].op # "clear" => WellWritten(s, k) /\ Descending(Script[s][k])
    /\ Script[s][k].op = "save" => Script[s][1].op = "clear"
<1>1. DOMAIN Script = {"gaps", "filesystem", "clear"}
  BY DEF Script
<1>2. ASSUME NEW t, NEW place, NEW k, Written(t, place, k)
      PROVE  t.op # "clear" /\ Descending(t)
  BY <1>2 DEF Written, CitesBefore, Descending
<1>3. /\ Script["gaps"] = GapDemo!main /\ DOMAIN GapDemo!main = 1..12
      /\ GapDemo!main[1].op = "clear"
  BY DEF Script, GapDemo!main, GapDemo!Clear
<1>4. \A k \in 1..12 : k = 1 \/ Written(GapDemo!main[k], GapPlace, k)
  BY GapStepsAreWritten
<1>5. \A n \in DOMAIN GapPlace : /\ GapPlace[n] \in 1..12 /\ GapDemo!main[GapPlace[n]].op # "clear"
                                 /\ GapDemo!main[GapPlace[n]].name = n
  <2>1. ASSUME NEW name, NEW S, NEW relata
        PROVE  GapDemo!Save(name, S, relata).op = "save" /\ GapDemo!Save(name, S, relata).name = name
    BY DEF GapDemo!Save, GapDemo!Seed
  <2>2. \A k \in 2..11 : GapDemo!main[k].op = "save"
    BY <2>1 DEF GapDemo!main, GapDemo!seed_operating_system, GapDemo!seed_filesystem,
       GapDemo!seed_path, GapDemo!seed_permission, GapDemo!seed_directory, GapDemo!seed_file,
       GapDemo!seed_read, GapDemo!seed_list, GapDemo!seed_delete, GapDemo!seed_create
  <2>3. /\ GapDemo!main[2].name = "operating_system" /\ GapDemo!main[3].name = "filesystem"
        /\ GapDemo!main[4].name = "path" /\ GapDemo!main[5].name = "permission"
        /\ GapDemo!main[6].name = "directory" /\ GapDemo!main[7].name = "file"
        /\ GapDemo!main[8].name = "read" /\ GapDemo!main[9].name = "list"
        /\ GapDemo!main[10].name = "delete" /\ GapDemo!main[11].name = "create"
    BY <2>1 DEF GapDemo!main, GapDemo!seed_operating_system, GapDemo!seed_filesystem,
       GapDemo!seed_path, GapDemo!seed_permission, GapDemo!seed_directory, GapDemo!seed_file,
       GapDemo!seed_read, GapDemo!seed_list, GapDemo!seed_delete, GapDemo!seed_create
  <2> QED BY <2>2, <2>3, GapPlaces DEF GapNames
<1>6. \A k \in DOMAIN Script["gaps"] : Script["gaps"][k].op # "clear" => WellWritten("gaps", k)
  <2>1. Placed("gaps", GapPlace)
    BY <1>3, <1>4, <1>5 DEF Placed
  <2> QED BY <1>1, <2>1, PlacedIsWellWritten
<1>7. Script["filesystem"] = Domain!main /\ DOMAIN Domain!main = 1..42
  BY SeederParts DEF Script, OfLength
<1>8. \A k \in 1..42 : Written(Domain!main[k], DomainPlace, k) /\ Domain!main[k].op = "upsert"
  <2> SUFFICES ASSUME NEW k \in 1..42 PROVE Written(Domain!main[k], DomainPlace, k)
    BY SeederUpserts
  <2>1. CASE k \in 1..20
    BY <2>1, SeederParts, ConceptsAreWritten
  <2>2. CASE k \in 21..27
    <3>1. k - 20 \in 1..7 /\ 20 + (k - 20) = k /\ k \in 21..42
      BY <2>2
    <3> QED BY <3>1, SeederParts, UpdatesAreWritten
  <2>3. CASE k \in 28..37
    <3>1. k - 27 \in 1..10 /\ 27 + (k - 27) = k /\ k \in 21..42
      BY <2>3
    <3> QED BY <3>1, SeederParts, UpdatesAreWritten
  <2>4. CASE k \in 38..42
    <3>1. k - 37 \in 1..5 /\ 37 + (k - 37) = k /\ k \in 21..42
      BY <2>4
    <3> QED BY <3>1, SeederParts, UpdatesAreWritten
  <2> QED BY <2>1, <2>2, <2>3, <2>4
<1>9. \A n \in DOMAIN DomainPlace : DomainPlace[n] \in 1..20 /\ Domain!concepts[DomainPlace[n]].name = n
  <2>1. ASSUME NEW name, NEW S, NEW relata PROVE Domain!Upsert(name, S, relata).name = name
    BY DEF Domain!Upsert, Domain!Seed
  <2>2. /\ Domain!concepts[1].name = "operating_system" /\ Domain!concepts[2].name = "filesystem"
        /\ Domain!concepts[3].name = "path" /\ Domain!concepts[4].name = "permission"
        /\ Domain!concepts[5].name = "ownership" /\ Domain!concepts[6].name = "directory"
        /\ Domain!concepts[7].name = "file" /\ Domain!concepts[8].name = "symlink"
        /\ Domain!concepts[9].name = "user" /\ Domain!concepts[10].name = "group"
        /\ Domain!concepts[11].name = "process" /\ Domain!concepts[12].name = "create"
        /\ Domain!concepts[13].name = "read" /\ Domain!concepts[14].name = "write"
        /\ Domain!concepts[15].name = "delete" /\ Domain!concepts[16].name = "list"
        /\ Domain!concepts[17].name = "move" /\ Domain!concepts[18].name = "copy"
        /\ Domain!concepts[19].name = "modify" /\ Domain!concepts[20].name = "execute"
    BY <2>1 DEF Domain!concepts, Domain!seed_operating_system, Domain!seed_filesystem,
       Domain!seed_path, Domain!seed_permission,
       Domain!seed_ownership, Domain!seed_directory, Domain!seed_file, Domain!seed_symlink,
       Domain!seed_user, Domain!seed_group, Domain!seed_process, Domain!seed_create,
       Domain!seed_read, Domain!seed_write, Domain!seed_delete, Domain!seed_list,
       Domain!seed_move, Domain!seed_copy, Domain!seed_modify, Domain!seed_execute
  <2> QED BY <2>2, DomainPlaces DEF DomainNames
<1>10. \A n \in DOMAIN DomainPlace : /\ DomainPlace[n] \in 1..42
                                     /\ Domain!main[DomainPlace[n]].name = n
  BY <1>9, SeederParts
<1>11. \A k \in DOMAIN Script["filesystem"] : WellWritten("filesystem", k)
  <2>1. Placed("filesystem", DomainPlace)
    BY <1>7, <1>8, <1>10 DEF Placed
  <2>2. \A k \in DOMAIN Script["filesystem"] : Script["filesystem"][k].op # "clear"
    BY <1>7, <1>8
  <2> QED BY <1>1, <2>1, <2>2, PlacedIsWellWritten
<1>12. DOMAIN Script["clear"] = {1} /\ Script["clear"][1].op = "clear"
  BY DEF Script, GapDemo!Clear
<1>13. \A k \in DOMAIN Script["gaps"] :
         k = 1 \/ (Script["gaps"][k].op # "clear" /\ Descending(Script["gaps"][k]))
  BY <1>2, <1>3, <1>4
<1>14. \A k \in DOMAIN Script["filesystem"] :
         Script["filesystem"][k].op = "upsert" /\ Descending(Script["filesystem"][k])
  BY <1>2, <1>7, <1>8
<1> QED BY <1>1, <1>3, <1>6, <1>11, <1>12, <1>13, <1>14

\* A rank is a number.
LEMMA RankIsNatural == \A n : Rank(n) \in Nat
BY DEF Rank

\* No concept requires itself, by all that the scripts declare.
LEMMA NoneRequiresItself == \A n \in Names : n \notin Reached(DeclaredSucc[n], DeclaredSucc)
<1>1. ASSUME NEW n \in Names, NEW m \in DeclaredSucc[n] PROVE Rank(m) < Rank(n)
  <2> DEFINE all == UNION {DeclaredRelata(s, n) : s \in DOMAIN Script}
  <2>1. DeclaredSucc[n] = TransitiveTargets([relata |-> all])
    BY DEF DeclaredSucc
  <2>2. PICK r \in all : r.rel_type \in TransitiveTypes /\ r.target = m
    BY <1>1, <2>1 DEF TransitiveTargets
  <2>3. PICK s \in DOMAIN Script : r \in DeclaredRelata(s, n)
    BY <2>2
  <2>4. PICK k \in StepsOf(s, n) : r \in Script[s][k].relata
    BY <2>3 DEF DeclaredRelata
  <2>5. k \in DOMAIN Script[s] /\ Script[s][k].op # "clear" /\ Script[s][k].name = n
    BY DEF StepsOf
  <2>6. Descending(Script[s][k])
    BY <2>5, ScriptsAreWritten
  <2> QED BY <2>2, <2>4, <2>5, <2>6 DEF Descending
<1> SUFFICES ASSUME NEW n \in Names PROVE n \notin Reached(DeclaredSucc[n], DeclaredSucc)
  OBVIOUS
<1> DEFINE lower == {m \in Names : Rank(m) < Rank(n)}
<1>2. DOMAIN DeclaredSucc = Names /\ IsFiniteSet(Names)
  BY NamesAssumption DEF DeclaredSucc
<1>3. DeclaredSucc[n] \cap Names \subseteq lower
  BY <1>1
<1>4. ASSUME NEW m \in lower, NEW j \in DeclaredSucc[m] \cap Names PROVE j \in lower
  <2>1. Rank(j) < Rank(m) /\ Rank(m) < Rank(n)
    BY <1>1, <1>4
  <2> QED BY <1>4, <2>1, RankIsNatural
<1>5. n \notin lower
  BY RankIsNatural
<1> HIDE DEF lower
<1>6. ReachFrom(DeclaredSucc[n], DeclaredSucc) \subseteq lower
  <2>1. lower \in SUBSET Names
    BY DEF lower
  <2> QED BY <1>2, <1>3, <1>4, <2>1, ReachLeast
<1> QED BY <1>2, <1>5, <1>6, ReachedIsReachFrom

-----------------------------------------------------------------------------
(* No run closes a cycle *)

\* On such rows nothing the scripts declare closes a cycle: what a concept
\* leads to are rows of concepts it requires, at last, by the declarations.
LEMMA NothingCloses ==
  ASSUME NEW g, RowsFit(g), NEW p, Fits(p)
  PROVE  p.id \notin Reached(TransitiveTargets(p), TransitiveSucc(Unlinked(g, p)))
<1> DEFINE succ == TransitiveSucc(Unlinked(g, p))
           D == DOMAIN g \cup {p.id}
           required == ReachFrom(DeclaredSucc[p.name], DeclaredSucc)
           T == {i \in D : i[1] \in required}
<1>1. DOMAIN succ = D /\ succ[p.id] = {} /\ \A i \in DOMAIN g \ {p.id} : succ[i] = TransitiveTargets(g[i])
  BY DEF TransitiveSucc, Unlinked, TransitiveTargets, Fits, Primitive
<1>2. p.name \in Names /\ DOMAIN DeclaredSucc = Names /\ D \subseteq Ids
  BY DEF Fits, Primitive, DeclaredSucc, RowsFit
<1>3. p.name \notin required
  BY <1>2, NamesAssumption, ReachedIsReachFrom, NoneRequiresItself
<1> HIDE DEF succ, required
<1>4. TransitiveTargets(p) \cap D \subseteq T
  <2>1. DeclaredSucc[p.name] \cap Names \subseteq required
    BY <1>2, ReachStart DEF required
  <2>2. \A i \in D : i[1] \in Names
    BY <1>2, UuidsAssumption
  <2> QED BY <2>1, <2>2 DEF TransitiveTargets, Fits
<1>5. \A i \in T : succ[i] \cap D \subseteq T
  <2> SUFFICES ASSUME NEW i \in T, NEW j \in succ[i] \cap D PROVE j[1] \in required
    OBVIOUS
  <2>1. i \in DOMAIN g /\ j \in TransitiveTargets(g[i])
    BY <1>1
  <2>2. j[1] \in DeclaredSucc[i[1]]
    BY <2>1 DEF TransitiveTargets, RowsFit
  <2>3. j[1] \in Names
    BY <1>2, UuidsAssumption
  <2> QED BY <1>2, <2>2, <2>3, ReachClosed DEF required
<1>6. IsFiniteSet(D)
  BY FS_AddElement DEF RowsFit
<1>7. Reached(TransitiveTargets(p), succ) = ReachFrom(TransitiveTargets(p), succ)
  BY <1>1, <1>6, ReachedIsReachFrom
<1>8. ReachFrom(TransitiveTargets(p), succ) \subseteq T
  <2>1. T \in SUBSET DOMAIN succ
    BY <1>1
  <2> HIDE DEF T
  <2> QED BY <1>1, <1>4, <1>5, <2>1, ReachLeast
<1> QED BY <1>3, <1>7, <1>8 DEF Fits, succ

\* What the steps before k declare of n.
RelataBefore(s, n, k) == UNION {Script[s][j].relata : j \in {i \in StepsOf(s, n) : i < k}}

\* What the step k adds to the declarations: the first of a concept gives its
\* levels, each its relata.
LEMMA StepDeclares ==
  ASSUME NEW s \in DOMAIN Script, NEW k \in DOMAIN Script[s], Script[s][k].op # "clear"
  PROVE  LET t == Script[s][k]
         IN  /\ WellWritten(s, k)
             /\ t.new => DeclaredDepths(s, t.name) = t.depths
             /\ t.new => RelataBefore(s, t.name, k) = {}
             /\ RelataBefore(s, t.name, k + 1) = RelataBefore(s, t.name, k) \cup t.relata
             /\ \A n \in Names \ {t.name} : RelataBefore(s, n, k + 1) = RelataBefore(s, n, k)
             /\ NamesBefore(s, k + 1) = NamesBefore(s, k) \cup {t.name}
<1> DEFINE t == Script[s][k]
<1>1. WellWritten(s, k)
  BY ScriptsAreWritten
<1>2. \A n : StepsOf(s, n) \subseteq DOMAIN Script[s]
  BY DEF StepsOf
<1>3. DOMAIN Script[s] \subseteq Nat
  BY ScriptsAreSequences
<1>4. t.name \in Names
  BY <1>1 DEF WellWritten
<1>5. k \in StepsOf(s, t.name) /\ \A n : n # t.name => k \notin StepsOf(s, n)
  BY DEF StepsOf
<1>6. ASSUME t.new, NEW j \in StepsOf(s, t.name), Script[s][j].new PROVE j = k
  <2>1. CASE j < k
    <3>1. t.name \in NamesBefore(s, k)
      BY <1>4, <2>1 DEF NamesBefore
    <3> QED BY <1>1, <1>6, <3>1 DEF WellWritten
  <2>2. CASE k < j
    <3>1. t.name \in NamesBefore(s, j)
      BY <1>4, <1>5, <2>2 DEF NamesBefore
    <3>2. WellWritten(s, j) /\ Script[s][j].name = t.name
      BY <1>2, ScriptsAreWritten DEF StepsOf
    <3> QED BY <1>6, <3>1, <3>2 DEF WellWritten
  <2> QED BY <1>2, <1>3, <2>1, <2>2
<1>7. t.new => DeclaredDepths(s, t.name) = t.depths
  <2> SUFFICES ASSUME t.new PROVE DeclaredDepths(s, t.name) = t.depths
    OBVIOUS
  <2>1. (CHOOSE j \in StepsOf(s, t.name) : Script[s][j].new) = k
    BY <1>5, <1>6
  <2> QED BY <2>1 DEF DeclaredDepths
<1>8. t.new => \A i \in StepsOf(s, t.name) : ~(i < k)
  BY <1>1, <1>4 DEF WellWritten, NamesBefore
<1>9. t.new => RelataBefore(s, t.name, k) = {}
  BY <1>8 DEF RelataBefore
<1>10. \A i \in DOMAIN Script[s] : i < k + 1 <=> i < k \/ i = k
  BY <1>3
<1>11. {i \in StepsOf(s, t.name) : i < k + 1} = {i \in StepsOf(s, t.name) : i < k} \cup {k}
  BY <1>2, <1>5, <1>10
<1>12. RelataBefore(s, t.name, k + 1) = RelataBefore(s, t.name, k) \cup t.relata
  BY <1>11 DEF RelataBefore
<1>13. ASSUME NEW n \in Names \ {t.name} PROVE RelataBefore(s, n, k + 1) = RelataBefore(s, n, k)
  <2>1. {i \in StepsOf(s, n) : i < k + 1} = {i \in StepsOf(s, n) : i < k}
    BY <1>2, <1>5, <1>10
  <2> QED BY <2>1 DEF RelataBefore
<1>14. NamesBefore(s, k + 1) = NamesBefore(s, k) \cup {t.name}
  BY <1>2, <1>4, <1>5, <1>10 DEF NamesBefore
<1> QED BY <1>1, <1>7, <1>9, <1>12, <1>13, <1>14

\* Before the first step and after a clear nothing is declared.
LEMMA NothingDeclared ==
  ASSUME NEW s \in DOMAIN Script
  PROVE  /\ NamesBefore(s, 1) = {}
         /\ \A k \in DOMAIN Script[s] : Script[s][k].op = "clear" => k = 1 /\ NamesBefore(s, k + 1) = {}
<1>1. \A n : StepsOf(s, n) \subseteq 1..Len(Script[s]) /\ Len(Script[s]) \in Nat
  BY ScriptsAreSequences DEF StepsOf
<1>2. NamesBefore(s, 1) = {}
  BY <1>1 DEF NamesBefore
<1>3. ASSUME NEW k \in DOMAIN Script[s], Script[s][k].op = "clear"
      PROVE  k = 1 /\ NamesBefore(s, k + 1) = {}
  <2>1. k = 1
    BY <1>3, ScriptsAreWritten
  <2>2. \A n : 1 \notin StepsOf(s, n)
    BY <1>3, <2>1 DEF StepsOf
  <2> QED BY <1>1, <2>1, <2>2 DEF NamesBefore
<1> QED BY <1>2, <1>3

\* After the last step all is declared.
LEMMA AllDeclared ==
  ASSUME NEW s \in DOMAIN Script
  PROVE  /\ NamesBefore(s, Len(Script[s]) + 1) = DeclaredNames(s)
         /\ \A n : RelataBefore(s, n, Len(Script[s]) + 1) = DeclaredRelata(s, n)
<1> DEFINE k == Len(Script[s]) + 1
<1>1. \A n : \A i \in StepsOf(s, n) : i < k
  BY ScriptsAreSequences DEF StepsOf
<1> HIDE DEF k
<1>2. NamesBefore(s, k) = DeclaredNames(s)
  BY <1>1 DEF NamesBefore, DeclaredNames
<1>3. ASSUME NEW n PROVE RelataBefore(s, n, k) = DeclaredRelata(s, n)
  <2>1. {i \in StepsOf(s, n) : i < k} = StepsOf(s, n)
    BY <1>1
  <2> QED BY <2>1 DEF RelataBefore, DeclaredRelata
<1> QED BY <1>2, <1>3 DEF k

\* What a step declares to be required is required by the declarations.
LEMMA DeclaredRequires ==
  ASSUME NEW s \in DOMAIN Script, NEW n \in Names, NEW k, NEW r \in RelataBefore(s, n, k),
         r.rel_type \in TransitiveTypes
  PROVE  r.target \in DeclaredSucc[n]
<1> DEFINE all == UNION {DeclaredRelata(z, n) : z \in DOMAIN Script}
<1>1. r \in DeclaredRelata(s, n)
  BY DEF RelataBefore, DeclaredRelata
<1>2. r \in all
  BY <1>1
<1>3. DeclaredSucc[n] = TransitiveTargets([relata |-> all])
  BY DEF DeclaredSucc
<1> HIDE DEF all
<1> QED BY <1>2, <1>3 DEF TransitiveTargets

-----------------------------------------------------------------------------
(* A run *)

\* A relatum with its target by name.
ByConcept(r) == [r EXCEPT !.target = r.target[1]]

\* The relata of p lead to the primitives bound.
Cites(p, b) == \A r \in p.relata : r.target[1] \in DOMAIN b /\ r.target = b[r.target[1]].id

\* What a script has bound when it comes to its step k is what it declared so far.
BoundAt(s, k, b) ==
  /\ DOMAIN b = NamesBefore(s, k)
  /\ \A n \in DOMAIN b :
       /\ b[n] \in Primitive /\ b[n].name = n /\ b[n].id[1] = n
       /\ b[n].depths = DeclaredDepths(s, n)
       /\ {ByConcept(r) : r \in b[n].relata} = RelataBefore(s, n, k)
       /\ Cites(b[n], b)

\* No other row has the name of a concept bound.
Own(g, b) == \A n \in DOMAIN b, i \in DOMAIN g : i[1] = n => i = b[n].id

\* The rows are what was bound.
Kept(g, b) == \A n \in DOMAIN b : b[n].id \in DOMAIN g /\ g[b[n].id] = b[n]

\* The state between two steps of a run.
AtStep ==
  /\ outcome = "running"
  /\ runs \in 1..MaxRuns
  /\ run.script \in DOMAIN Script
  /\ run.step \in DOMAIN Script[run.script]
  /\ BoundAt(run.script, run.step, run.bound)
  /\ Own(graph, run.bound)
  /\ alone => Kept(graph, run.bound)
  /\ alone /\ run.step > 1 /\ Script[run.script][1].op = "clear"
       => \A i \in DOMAIN graph : i[1] \in DOMAIN run.bound

\* A cited relatum is typed, and tells its concept.
LEMMA CitedRelatum ==
  ASSUME NEW N \in SUBSET Names, NEW i \in Ids,
         NEW r \in [rel_type : RelationType, source_depth : Level, target : N, target_depth : Level],
         i[1] = r.target
  PROVE  LET c == [rel_type |-> r.rel_type, source_depth |-> r.source_depth,
                   target |-> i, target_depth |-> r.target_depth]
         IN  c \in Relatum /\ c.target = i /\ ByConcept(c) = r
BY DEF Relatum, ByConcept

\* What a run saves: a primitive of the concept of the step, with all the
\* script declared of it so far, under the id its variable and its row have.
LEMMA CanonicalBuilds ==
  ASSUME RowsFit(graph), AtStep, Step.op # "clear"
  PROVE  LET p == Canonical(graph, Step)
         IN  /\ p \in Primitive /\ p.name = Step.name /\ p.id[1] = p.name
             /\ p.depths = DeclaredDepths(run.script, p.name)
             /\ {ByConcept(r) : r \in p.relata} = RelataBefore(run.script, p.name, run.step + 1)
             /\ Cites(p, run.bound)
             /\ p.name \in DOMAIN run.bound => p.id = run.bound[p.name].id
             /\ Step.op = "upsert" => HoldersOf(graph, p.name) \subseteq {p.id}
<1> DEFINE s == run.script
           k == run.step
           b == run.bound
           n == Step.name
           cite(r) == [rel_type |-> r.rel_type, source_depth |-> r.source_depth,
                       target |-> b[r.target].id, target_depth |-> r.target_depth]
           C == {cite(r) : r \in Step.relata}
           q == Built(Step)
           p == Canonical(graph, Step)
<1>1. /\ s \in DOMAIN Script /\ k \in DOMAIN Script[s] /\ Step = Script[s][k]
      /\ runs \in 1..MaxRuns
      /\ BoundAt(s, k, b)
  BY DEF AtStep, Step
<1>2. /\ WellWritten(s, k)
      /\ Step.new => DeclaredDepths(s, n) = Step.depths
      /\ Step.new => RelataBefore(s, n, k) = {}
      /\ RelataBefore(s, n, k + 1) = RelataBefore(s, n, k) \cup Step.relata
  BY <1>1, StepDeclares
<1>3. /\ Step.op \in {"save", "upsert"} /\ n \in Names
      /\ Step.new <=> n \notin DOMAIN b
      /\ Step.new => Step.depths \in [Level -> Content]
      /\ Step.relata \subseteq [rel_type : RelationType, source_depth : Level,
                               target : DOMAIN b, target_depth : Level]
  BY <1>1, <1>2 DEF WellWritten, BoundAt
<1>4. DOMAIN b \in SUBSET Names /\ \A m \in DOMAIN b : b[m].id \in Ids /\ b[m].id[1] = m
  BY <1>1 DEF BoundAt, NamesBefore, Primitive
<1>5. \A r \in Step.relata : /\ cite(r) \in Relatum /\ ByConcept(cite(r)) = r
                             /\ cite(r).target = b[r.target].id /\ r.target \in DOMAIN b
  BY <1>3, <1>4, CitedRelatum
<1>6. Cited(Step.relata) = C
  BY DEF Cited, Bound
<1>7. C \subseteq Relatum /\ {ByConcept(c) : c \in C} = Step.relata
  <2> HIDE DEF cite
  <2>1. \A c \in C : c \in Relatum /\ ByConcept(c) \in Step.relata
    BY <1>5
  <2>2. \A r \in Step.relata : cite(r) \in C /\ ByConcept(cite(r)) = r
    BY <1>5
  <2> HIDE DEF C
  <2> QED BY <2>1, <2>2
<1>8. \A c \in C : c.target[1] \in DOMAIN b /\ c.target = b[c.target[1]].id
  BY <1>4, <1>5
<1> HIDE DEF C, cite
<1>9. /\ q \in Primitive /\ q.name = n /\ q.id[1] = n
      /\ q.depths = DeclaredDepths(s, n)
      /\ {ByConcept(r) : r \in q.relata} = RelataBefore(s, n, k + 1)
      /\ Cites(q, b)
      /\ n \in DOMAIN b => q.id = b[n].id
  <2>1. CASE Step.new
    <3>1. q = [id |-> <<n, runs>>, name |-> n, depths |-> Step.depths, relata |-> C]
      BY <1>6, <2>1 DEF Built
    <3>2. <<n, runs>> \in Ids
      BY <1>1, <1>3, UuidsAssumption
    <3> QED BY <1>2, <1>3, <1>7, <1>8, <2>1, <3>1, <3>2 DEF Primitive, Cites
  <2>2. CASE ~Step.new
    <3>1. n \in DOMAIN b
      BY <1>3, <2>2
    <3>2. /\ b[n] \in Primitive /\ b[n].name = n /\ b[n].id[1] = n
          /\ b[n].depths = DeclaredDepths(s, n)
          /\ {ByConcept(r) : r \in b[n].relata} = RelataBefore(s, n, k)
          /\ Cites(b[n], b)
      BY <1>1, <3>1 DEF BoundAt
    <3>3. q = [b[n] EXCEPT !.relata = b[n].relata \cup C]
      BY <1>6, <2>2 DEF Built, Rewired, Bound
    <3>4. /\ q \in Primitive /\ q.name = n /\ q.id = b[n].id /\ q.depths = b[n].depths
          /\ q.relata = b[n].relata \cup C
      BY <1>7, <3>2, <3>3 DEF Primitive
    <3>5. {ByConcept(r) : r \in q.relata} = RelataBefore(s, n, k) \cup Step.relata
      BY <1>7, <3>2, <3>4
    <3> QED BY <1>2, <1>8, <3>2, <3>4, <3>5 DEF Cites
  <2> QED BY <2>1, <2>2
<1> HIDE DEF q
<1>10. CASE Step.op = "upsert" /\ HoldersOf(graph, n) # {}
  <2> DEFINE i == CHOOSE j \in HoldersOf(graph, n) : TRUE
  <2>1. i \in HoldersOf(graph, n)
    BY <1>10
  <2>2. p = [q EXCEPT !.id = i]
    BY <1>10 DEF Canonical, q
  <2>3. i \in DOMAIN graph /\ i \in Ids /\ i[1] = n
    BY <2>1 DEF HoldersOf, RowsFit
  <2>4. HoldersOf(graph, n) \subseteq {i}
    BY <2>3 DEF HoldersOf, RowsFit
  <2>5. n \in DOMAIN b => i = b[n].id
    BY <2>3 DEF AtStep, Own
  <2> HIDE DEF i
  <2>6. p \in Primitive /\ p.id = i /\ p.name = n /\ p.depths = q.depths /\ p.relata = q.relata
    BY <1>9, <2>2, <2>3 DEF Primitive
  <2> HIDE DEF p
  <2> QED BY <1>9, <2>3, <2>4, <2>5, <2>6 DEF Cites, p
<1>11. CASE ~(Step.op = "upsert" /\ HoldersOf(graph, n) # {})
  <2>1. p = q
    BY <1>11 DEF Canonical, q
  <2> QED BY <1>9, <1>11, <2>1
<1> QED BY <1>10, <1>11

\* The relata it saves are declared, so it fits the rows.
LEMMA CanonicalFits ==
  ASSUME RowsFit(graph), AtStep, Step.op # "clear"
  PROVE  Fits(Canonical(graph, Step))
<1> DEFINE p == Canonical(graph, Step)
           before_next == RelataBefore(run.script, p.name, run.step + 1)
<1>1. /\ p \in Primitive /\ p.id[1] = p.name
      /\ {ByConcept(r) : r \in p.relata} = before_next
  BY CanonicalBuilds
<1>2. run.script \in DOMAIN Script /\ p.name \in Names /\ p.relata \subseteq Relatum
  BY <1>1 DEF AtStep, Primitive
<1> HIDE DEF p
<1>3. ASSUME NEW r \in p.relata, r.rel_type \in TransitiveTypes
      PROVE  r.target[1] \in DeclaredSucc[p.name]
  <2>1. ByConcept(r).rel_type = r.rel_type /\ ByConcept(r).target = r.target[1]
    BY <1>2 DEF ByConcept, Relatum
  <2>2. ByConcept(r) \in before_next
    BY <1>1
  <2> QED BY <1>2, <1>3, <2>1, <2>2, DeclaredRequires
<1> QED BY <1>1, <1>3 DEF Fits, p

\* While nobody else writes, the repository refuses no step of a run.
LEMMA SaveGoesThrough ==
  ASSUME RowsFit(graph), AtStep, Step.op # "clear", alone
  PROVE  Answer(graph, Canonical(graph, Step)) = "ok"
<1> DEFINE p == Canonical(graph, Step)
           b == run.bound
<1>1. /\ p \in Primitive /\ p.name = Step.name /\ p.id[1] = p.name
      /\ Cites(p, b)
      /\ p.name \in DOMAIN b => p.id = b[p.name].id
      /\ Step.op = "upsert" => HoldersOf(graph, p.name) \subseteq {p.id}
  BY CanonicalBuilds
<1>2. Fits(p)
  BY CanonicalFits
<1> HIDE DEF p
<1>3. p.id \notin Reached(TransitiveTargets(p), TransitiveSucc(Unlinked(graph, p)))
  BY <1>2, NothingCloses
<1>4. ~Dangles(graph, p)
  BY <1>1 DEF Cites, Kept, AtStep, Dangles
<1>5. ~NameTaken(graph, p)
  <2> SUFFICES ASSUME NEW j \in DOMAIN graph \ {p.id}, graph[j].name = p.name PROVE FALSE
    BY DEF NameTaken
  <2>1. j[1] = p.name
    BY DEF RowsFit
  <2>2. CASE Step.op = "upsert"
    BY <1>1, <2>2 DEF HoldersOf
  <2>3. CASE p.name \in DOMAIN b
    BY <1>1, <2>1, <2>3 DEF AtStep, Own
  <2>4. CASE Step.op = "save" /\ p.name \notin DOMAIN b
    <3>1. run.script \in DOMAIN Script /\ run.step \in DOMAIN Script[run.script]
      BY DEF AtStep
    <3>2. Script[run.script][1].op = "clear"
      BY <2>4, <3>1, ScriptsAreWritten DEF Step
    <3>3. run.step > 1
      BY <3>1, <3>2, ScriptsAreSequences DEF Step
    <3> QED BY <2>1, <2>4, <3>2, <3>3 DEF AtStep
  <2>5. Step.op \in {"save", "upsert"}
    BY StepDeclares DEF AtStep, Step, WellWritten
  <2> QED BY <2>2, <2>3, <2>4, <2>5
<1> QED BY <1>3, <1>4, <1>5 DEF Answer, p

\* What a run has bound after a save.
BoundBy(b, p) == [n \in DOMAIN b \cup {p.name} |-> IF n = p.name THEN p ELSE b[n]]

\* A save that goes through leaves the variables, the rows and the steps so far
\* in agreement.
LEMMA SaveAgrees ==
  ASSUME RowsFit(graph), AtStep, Step.op # "clear",
         NEW p, p = Canonical(graph, Step), Answer(graph, p) = "ok"
  PROVE  LET g == Saved(graph, p)
             b == BoundBy(run.bound, p)
         IN  /\ RowsFit(g) /\ DOMAIN graph \subseteq DOMAIN g
             /\ BoundAt(run.script, run.step + 1, b)
             /\ Own(g, b)
             /\ alone => Kept(g, b)
             /\ alone /\ Script[run.script][1].op = "clear" => \A i \in DOMAIN g : i[1] \in DOMAIN b
<1> DEFINE g == Saved(graph, p)
           old == run.bound
           b == BoundBy(old, p)
           s == run.script
           k == run.step
<1>1. /\ p \in Primitive /\ p.name = Step.name /\ p.id[1] = p.name
      /\ p.depths = DeclaredDepths(s, p.name)
      /\ {ByConcept(r) : r \in p.relata} = RelataBefore(s, p.name, k + 1)
      /\ Cites(p, old)
      /\ p.name \in DOMAIN old => p.id = old[p.name].id
  BY CanonicalBuilds
<1>2. Fits(p) /\ ~NameTaken(graph, p) /\ ~Dangles(graph, p)
  BY CanonicalFits DEF Answer
<1>3. /\ RowsFit(g)
      /\ DOMAIN g = DOMAIN graph \cup {p.id}
      /\ g[p.id] = p
      /\ \A i \in DOMAIN graph \ {p.id} : g[i] = graph[i]
  <2>1. RowsFit(graph) /\ Fits(p) /\ ~NameTaken(graph, p) /\ ~Dangles(graph, p)
    BY <1>2
  <2> QED BY ONLY <2>1, SavedFits DEF g
<1> HIDE DEF g
<1>4. /\ s \in DOMAIN Script /\ k \in DOMAIN Script[s] /\ Step = Script[s][k]
      /\ BoundAt(s, k, old)
  BY DEF AtStep, Step
<1>5. /\ \A n \in Names \ {p.name} : RelataBefore(s, n, k + 1) = RelataBefore(s, n, k)
      /\ NamesBefore(s, k + 1) = NamesBefore(s, k) \cup {p.name}
  BY <1>1, <1>4, StepDeclares
<1>6. /\ DOMAIN b = DOMAIN old \cup {p.name}
      /\ b[p.name] = p
      /\ \A n \in DOMAIN old \ {p.name} : b[n] = old[n]
      /\ \A n \in DOMAIN old : b[n].id = old[n].id
  BY <1>1 DEF BoundBy
<1>7. DOMAIN old \subseteq Names
  BY <1>4 DEF BoundAt, NamesBefore
<1> HIDE DEF b
<1>8. \A z : Cites(z, old) => Cites(z, b)
  BY <1>6 DEF Cites
<1>9. BoundAt(s, k + 1, b)
  <2>1. DOMAIN b = NamesBefore(s, k + 1)
    BY <1>4, <1>5, <1>6 DEF BoundAt
  <2>2. ASSUME NEW n \in DOMAIN b
        PROVE  /\ b[n] \in Primitive /\ b[n].name = n /\ b[n].id[1] = n
               /\ b[n].depths = DeclaredDepths(s, n)
               /\ {ByConcept(r) : r \in b[n].relata} = RelataBefore(s, n, k + 1)
               /\ Cites(b[n], b)
    <3>1. CASE n = p.name
      BY <1>1, <1>6, <1>8, <3>1
    <3>2. CASE n # p.name
      <4>1. n \in DOMAIN old /\ b[n] = old[n] /\ n \in Names
        BY <1>6, <1>7, <3>2
      <4>2. RelataBefore(s, n, k + 1) = RelataBefore(s, n, k)
        BY <1>5, <3>2, <4>1
      <4> QED BY <1>4, <1>8, <4>1, <4>2 DEF BoundAt
    <3> QED BY <3>1, <3>2
  <2> QED BY <2>1, <2>2 DEF BoundAt
<1>10. Own(g, b)
  <2>1. \A i \in DOMAIN graph : i[1] = p.name => i = p.id
    BY <1>2 DEF NameTaken, RowsFit
  <2> QED BY <1>1, <1>3, <1>6, <2>1 DEF Own, AtStep
<1>11. ASSUME alone PROVE Kept(g, b)
  <2> SUFFICES ASSUME NEW n \in DOMAIN b PROVE b[n].id \in DOMAIN g /\ g[b[n].id] = b[n]
    BY DEF Kept
  <2>1. CASE n = p.name
    BY <1>3, <1>6, <2>1
  <2>2. CASE n # p.name
    <3>1. n \in DOMAIN old /\ b[n] = old[n] /\ old[n].id[1] = n
      BY <1>4, <1>6, <2>2 DEF BoundAt
    <3>2. old[n].id \in DOMAIN graph /\ graph[old[n].id] = old[n] /\ old[n].id # p.id
      BY <1>1, <1>11, <2>2, <3>1 DEF AtStep, Kept
    <3> QED BY <1>3, <3>1, <3>2
  <2> QED BY <2>1, <2>2
<1>12. ASSUME alone, Script[s][1].op = "clear" PROVE \A i \in DOMAIN g : i[1] \in DOMAIN b
  <2>1. k > 1
    BY <1>4, <1>12, ScriptsAreSequences
  <2>2. \A i \in DOMAIN graph : i[1] \in DOMAIN old
    BY <1>12, <2>1 DEF AtStep
  <2> QED BY <1>1, <1>3, <1>6, <2>2
<1> QED BY <1>3, <1>9, <1>10, <1>11, <1>12 DEF g, b

\* Rows that are what was bound after the last step are what is declared.
LEMMA BoundMatches ==
  ASSUME NEW g, RowsFit(g), NEW s \in DOMAIN Script, NEW b,
         BoundAt(s, Len(Script[s]) + 1, b), Kept(g, b)
  PROVE  Matches(g, s)
<1> SUFFICES ASSUME NEW n \in DeclaredNames(s)
             PROVE  \E i \in HoldersOf(g, n) :
                      g[i].depths = DeclaredDepths(s, n) /\ RelataByName(g, i) = DeclaredRelata(s, n)
  BY DEF Matches
<1>1. n \in DOMAIN b
  BY AllDeclared DEF BoundAt
<1>2. /\ b[n].name = n
      /\ b[n].depths = DeclaredDepths(s, n)
      /\ {ByConcept(r) : r \in b[n].relata} = DeclaredRelata(s, n)
  BY <1>1, AllDeclared DEF BoundAt
<1>3. b[n].id \in DOMAIN g /\ g[b[n].id] = b[n]
  BY <1>1 DEF Kept
<1>4. \A r \in b[n].relata : g[r.target].name = r.target[1]
  BY <1>3 DEF RowsFit
<1>5. RelataByName(g, b[n].id) = {ByConcept(r) : r \in b[n].relata}
  BY <1>3, <1>4 DEF RelataByName, ByConcept
<1>6. b[n].id \in HoldersOf(g, n)
  BY <1>2, <1>3 DEF HoldersOf
<1> QED BY <1>2, <1>3, <1>5, <1>6

-----------------------------------------------------------------------------
(* Any number of runs *)

\* The rows fit, the run is where its script says, and what it has shown so far
\* of the properties stays true.
SeedInv ==
  /\ RowsFit(graph)
  /\ runs \in 0..MaxRuns
  /\ run = [script |-> run.script, step |-> run.step, bound |-> run.bound]
  /\ IsRunning => AtStep
  /\ Completed(run.script) => run.script \in DOMAIN Script /\ Matches(graph, run.script)
  /\ \A i \in DOMAIN before : before[i].name = i[1]
  /\ IdsPreserved
  /\ NeverRefused

\* A step that leaves rows and variables in agreement leads to the next one, or
\* to the end of the script with all it declares.
LEMMA ProceedKeeps ==
  ASSUME SeedInv, IsRunning, NEW b, Proceed(b), UNCHANGED <<runs, before, alone>>,
         RowsFit(graph'), BoundAt(run.script, run.step + 1, b), Own(graph', b),
         alone => Kept(graph', b),
         alone /\ Script[run.script][1].op = "clear" => \A i \in DOMAIN graph' : i[1] \in DOMAIN b,
         run.script = "filesystem" => DOMAIN graph \subseteq DOMAIN graph'
  PROVE  SeedInv'
<1> DEFINE s == run.script
           k == run.step
<1>1. AtStep /\ s \in DOMAIN Script /\ k \in DOMAIN Script[s] /\ outcome = "running"
  BY DEF SeedInv, AtStep
<1>2. Len(Script[s]) \in Nat \ {0} /\ DOMAIN Script[s] = 1..Len(Script[s])
  BY <1>1, ScriptsAreSequences
<1>3. run = [script |-> s, step |-> k, bound |-> run.bound]
  BY DEF SeedInv
<1>4. run'.script = s
  BY <1>3 DEF Proceed, End
<1>5. IdsPreserved'
  <2> SUFFICES ASSUME s = "filesystem", alone, NEW i \in DOMAIN before
               PROVE  i \in DOMAIN graph' /\ graph'[i].name = before[i].name
    BY <1>4 DEF IdsPreserved
  <2>1. i \in DOMAIN graph
    BY DEF SeedInv, IdsPreserved
  <2> QED BY <2>1 DEF SeedInv, RowsFit
<1>6. CASE k = Len(Script[s])
  <2>1. run' = [script |-> s, step |-> 0, bound |-> << >>] /\ outcome' = "done"
    BY <1>3, <1>6 DEF Proceed, End
  <2>2. alone => Matches(graph', s)
    BY <1>1, <1>6, BoundMatches
  <2>3. Completed(run.script)' => run'.script \in DOMAIN Script /\ Matches(graph', run'.script)
    BY <1>1, <2>1, <2>2 DEF Completed
  <2>4. ~IsRunning' /\ NeverRefused'
    BY <2>1 DEF IsRunning, NeverRefused
  <2>5. run' = [script |-> run'.script, step |-> run'.step, bound |-> run'.bound]
    BY <2>1
  <2> QED BY <1>5, <2>3, <2>4, <2>5 DEF SeedInv
<1>7. CASE k # Len(Script[s])
  <2>1. run' = [script |-> s, step |-> k + 1, bound |-> b] /\ outcome' = "running"
    BY <1>1, <1>3, <1>7 DEF Proceed
  <2>2. k + 1 \in DOMAIN Script[s]
    BY <1>1, <1>2, <1>7
  <2>3. AtStep'
    BY <1>1, <2>1, <2>2 DEF AtStep
  <2>4. ~Completed(run.script)' /\ NeverRefused'
    BY <2>1 DEF Completed, NeverRefused
  <2>5. run' = [script |-> run'.script, step |-> run'.step, bound |-> run'.bound]
    BY <2>1
  <2> QED BY <1>5, <2>3, <2>4, <2>5 DEF SeedInv
<1> QED BY <1>6, <1>7

\* A run that starts finds rows of any past, and has bound nothing.
LEMMA BeginKeeps ==
  ASSUME SeedInv, NEW s \in Running, Begin(s)
  PROVE  SeedInv'
<1>1. /\ run' = [script |-> s, step |-> 1, bound |-> << >>] /\ runs' = runs + 1
      /\ runs < MaxRuns /\ outcome' = "running" /\ before' = graph /\ alone' /\ UNCHANGED graph
  BY DEF Begin
<1>2. s \in DOMAIN Script /\ 1 \in DOMAIN Script[s]
  BY RunningAssumption, ScriptsAreSequences
<1>3. runs' \in 1..MaxRuns
  BY <1>1, BoundsAssumption DEF SeedInv
<1>4. BoundAt(s, 1, << >>)
  BY <1>2, NothingDeclared DEF BoundAt
<1>5. AtStep'
  BY <1>1, <1>2, <1>3, <1>4 DEF AtStep, Own, Kept
<1>6. ~Completed(run.script)' /\ NeverRefused' /\ IdsPreserved'
  BY <1>1 DEF Completed, NeverRefused, IdsPreserved
<1>7. \A i \in DOMAIN before' : before'[i].name = i[1]
  BY <1>1 DEF SeedInv, RowsFit
<1>8. run' = [script |-> run'.script, step |-> run'.step, bound |-> run'.bound]
  BY <1>1
<1> QED BY <1>1, <1>3, <1>5, <1>6, <1>7, <1>8 DEF SeedInv

\* A clear comes first, when nothing is bound.
LEMMA ClearKeeps ==
  ASSUME SeedInv, ClearStep
  PROVE  SeedInv'
<1> DEFINE s == run.script
<1>1. AtStep /\ s \in DOMAIN Script /\ run.step \in DOMAIN Script[s] /\ Step = Script[s][run.step]
  BY DEF SeedInv, ClearStep, AtStep, Step
<1>2. Script[s][run.step].op = "clear"
  BY <1>1 DEF ClearStep
<1>3. DOMAIN run.bound = {} /\ NamesBefore(s, run.step + 1) = {}
  BY <1>1, <1>2, NothingDeclared DEF AtStep, BoundAt
<1>4. BoundAt(s, run.step + 1, run.bound)
  BY <1>3 DEF BoundAt
<1>5. DOMAIN graph' = {}
  BY DEF ClearStep, Without
<1>6. RowsFit(graph')
  BY WithoutFits DEF ClearStep, SeedInv
<1>7. s # "filesystem"
  BY <1>1, <1>2, SeederNeverClears
<1>8. Own(graph', run.bound) /\ Kept(graph', run.bound)
  BY <1>3 DEF Own, Kept
<1> QED BY <1>4, <1>5, <1>6, <1>7, <1>8, ProceedKeeps DEF ClearStep

\* A save goes through and agrees, or is refused because somebody else wrote.
LEMMA SaveKeeps ==
  ASSUME SeedInv, SaveStep
  PROVE  SeedInv'
<1> DEFINE p == Canonical(graph, Step)
<1>1. AtStep /\ RowsFit(graph) /\ IsRunning /\ Step.op # "clear" /\ UNCHANGED <<runs, before, alone>>
  BY DEF SeedInv, SaveStep
<1>2. CASE Answer(graph, p) = "ok"
  <2>1. graph' = Saved(graph, p) /\ Proceed(BoundBy(run.bound, p))
    BY <1>2 DEF SaveStep, BoundBy
  <2> QED BY <1>1, <1>2, <2>1, SaveAgrees, ProceedKeeps
<1>3. CASE Answer(graph, p) # "ok"
  <2>1. ~alone
    BY <1>1, <1>3, SaveGoesThrough
  <2>2. End(Answer(graph, p)) /\ UNCHANGED graph
    BY <1>3 DEF SaveStep
  <2>3. run' = [script |-> run.script, step |-> 0, bound |-> << >>]
    BY <2>2 DEF End, SeedInv
  <2>4. run' = [script |-> run'.script, step |-> run'.step, bound |-> run'.bound] /\ ~IsRunning'
    BY <2>3 DEF IsRunning
  <2> QED BY <1>1, <2>1, <2>2, <2>4 DEF SeedInv, Completed, IdsPreserved, NeverRefused
<1> QED BY <1>2, <1>3

\* A run that dies leaves the rows as they are.
LEMMA DieKeeps ==
  ASSUME SeedInv, Die
  PROVE  SeedInv'
<1>1. outcome' = "died" /\ UNCHANGED <<graph, runs, edits, before, alone>>
  BY DEF Die, End
<1>2. run' = [script |-> run.script, step |-> 0, bound |-> << >>]
  BY DEF Die, End, SeedInv
<1>3. /\ run' = [script |-> run'.script, step |-> run'.step, bound |-> run'.bound]
      /\ ~IsRunning' /\ run'.script = run.script
  BY <1>2 DEF IsRunning
<1> QED BY <1>1, <1>3 DEF SeedInv, Completed, IdsPreserved, NeverRefused

\* After a delete by somebody else the rows of the run need not be there any
\* more; those that are are still its own.
LEMMA DeleteKeeps ==
  ASSUME SeedInv, NEW i \in DOMAIN graph, DeleteByOther(i)
  PROVE  SeedInv'
<1>1. /\ graph' = Without(graph, {i}) /\ ~alone' /\ UNCHANGED <<run, runs, outcome, before>>
  BY DEF DeleteByOther
<1>2. RowsFit(graph')
  BY <1>1, WithoutFits DEF SeedInv
<1>3. DOMAIN graph' \subseteq DOMAIN graph
  BY <1>1 DEF Without
<1>4. ASSUME IsRunning PROVE AtStep'
  BY <1>1, <1>3, <1>4 DEF SeedInv, AtStep, Own
<1> QED BY <1>1, <1>2, <1>4 DEF SeedInv, IsRunning, Completed, IdsPreserved, NeverRefused

\* Every step keeps the invariant.
LEMMA NextKeeps == SeedInv /\ [Next]_vars => SeedInv'
<1> SUFFICES ASSUME SeedInv, [Next]_vars PROVE SeedInv'
  OBVIOUS
<1>1. CASE UNCHANGED vars
  BY <1>1 DEF vars, SeedInv, RowsFit, IsRunning, AtStep, BoundAt, Own, Kept, Completed, Matches,
              IdsPreserved, NeverRefused
<1> QED BY <1>1, BeginKeeps, ClearKeeps, SaveKeeps, DieKeeps, DeleteKeeps DEF Next, RunStep

\* It holds on the empty graph.
LEMMA InitSeedInv == Init => SeedInv
<1> SUFFICES ASSUME Init PROVE SeedInv
  OBVIOUS
<1>1. RowsFit(graph)
  BY FS_EmptySet DEF Init, RowsFit
<1>2. run = [script |-> "none", step |-> 0, bound |-> << >>] /\ ~IsRunning
  BY DEF Init, NoRun, IsRunning
<1>3. run = [script |-> run.script, step |-> run.step, bound |-> run.bound]
  BY <1>2
<1> QED BY <1>1, <1>2, <1>3, BoundsAssumption DEF Init, SeedInv, Completed, IdsPreserved, NeverRefused

\* The rows of all runs fit together, and a run is where its script says, after
\* any runs, deaths and deletes.
THEOREM SeedInvariant == Spec => []SeedInv
<1>1. SeedInv /\ [Next]_vars => SeedInv'
  BY NextKeeps
<1> QED BY InitSeedInv, <1>1, PTL DEF Spec

\* A script that ran to its end while nobody else wrote leaves exactly what its
\* steps declare, whatever other runs left behind, and wherever they died.
THEOREM SeedCompletedIsDeclared == Spec => []CompletedIsDeclared
<1>1. SeedInv => CompletedIsDeclared
  BY DEF SeedInv, CompletedIsDeclared, Completed
<1> QED BY <1>1, SeedInvariant, PTL

\* While nobody else writes, the repository refuses no save of a script: no
\* name is taken, no cycle closed, nothing dangles, whatever the past left.
THEOREM SeedNeverRefused == Spec => []NeverRefused
<1>1. SeedInv => NeverRefused
  BY DEF SeedInv
<1> QED BY <1>1, SeedInvariant, PTL

\* The filesystem seeder keeps the id and the name of every primitive it finds,
\* at every one of its steps.
THEOREM SeedIdsPreserved == Spec => []IdsPreserved
<1>1. SeedInv => IdsPreserved
  BY DEF SeedInv
<1> QED BY <1>1, SeedInvariant, PTL

-----------------------------------------------------------------------------
(* What the declarations say, and the rows that match them *)

\* A set of steps has a first one.
LEMMA FirstStep ==
  ASSUME NEW T, T \subseteq Nat, T # {}
  PROVE  \E k \in T : \A j \in T : k <= j
<1>1. PICK k \in T : \A j \in T : ~(<<j, k>> \in OpToRel(<, Nat))
  BY NatLessThanWellFounded, WFMin
<1>2. ASSUME NEW j \in T PROVE k <= j
  <2>1. <<j, k>> \in Nat \X Nat
    OBVIOUS
  <2>2. ~(j < k)
    BY <1>1, <2>1 DEF OpToRel
  <2> QED BY <2>2
<1> QED BY <1>2

\* The levels a script declares for a concept are those of the step that
\* builds it first.
LEMMA DeclaredByNewStep ==
  ASSUME NEW s \in DOMAIN Script, NEW n \in DeclaredNames(s)
  PROVE  \E k \in StepsOf(s, n) : Script[s][k].new /\ DeclaredDepths(s, n) = Script[s][k].depths
<1>1. StepsOf(s, n) \subseteq DOMAIN Script[s] /\ DOMAIN Script[s] \subseteq Nat
      /\ StepsOf(s, n) # {} /\ n \in Names
  BY ScriptsAreSequences DEF StepsOf, DeclaredNames
<1>2. PICK k \in StepsOf(s, n) : \A j \in StepsOf(s, n) : k <= j
  BY <1>1, FirstStep
<1>3. Script[s][k].name = n /\ Script[s][k].op # "clear" /\ k \in DOMAIN Script[s]
  BY DEF StepsOf
<1>4. n \notin NamesBefore(s, k)
  BY <1>1, <1>2 DEF NamesBefore
<1>5. Script[s][k].new
  BY <1>3, <1>4, ScriptsAreWritten DEF WellWritten
<1>6. DeclaredDepths(s, n) = Script[s][k].depths
  BY <1>3, <1>5, StepDeclares
<1> QED BY <1>5, <1>6

\* A row of a concept that s declares is what s declares of it.
LEMMA RowIsDeclared ==
  ASSUME NEW g, RowsFit(g), NEW s, Matches(g, s), NEW i \in DOMAIN g, i[1] \in DeclaredNames(s)
  PROVE  /\ g[i].depths = DeclaredDepths(s, i[1])
         /\ {ByConcept(r) : r \in g[i].relata} = DeclaredRelata(s, i[1])
<1>1. PICK j \in HoldersOf(g, i[1]) :
        g[j].depths = DeclaredDepths(s, i[1]) /\ RelataByName(g, j) = DeclaredRelata(s, i[1])
  BY DEF Matches
<1>2. j = i
  BY DEF HoldersOf, RowsFit
<1>3. \A r \in g[i].relata : g[r.target].name = r.target[1]
  BY DEF RowsFit
<1>4. RelataByName(g, i) = {ByConcept(r) : r \in g[i].relata}
  BY <1>3 DEF RelataByName, ByConcept
<1> QED BY <1>1, <1>2, <1>4

\* And every concept it declares has a row.
LEMMA DeclaredHasRow ==
  ASSUME NEW g, RowsFit(g), NEW s, Matches(g, s), NEW n \in DeclaredNames(s)
  PROVE  \E i \in DOMAIN g : i[1] = n
BY DEF Matches, HoldersOf, RowsFit

\* Levels without a hole are known.
LEMMA AuthoredIsKnown ==
  ASSUME NEW p, NEW k \in Level, p.depths[0] # "absent", \A l \in 1..k : p.depths[l] = "authored"
  PROVE  /\ ContiguousMaxDepth(p) \in k..4
         /\ k < 4 /\ p.depths[k + 1] = "absent" => ContiguousMaxDepth(p) = k
<1> DEFINE chain == {l \in Level \cup {None} : 0..l \subseteq GroundingLevels(p)}
           m == ContiguousMaxDepth(p)
<1>1. 0..k \subseteq GroundingLevels(p)
  BY DEF GroundingLevels, Grounds, Level
<1>2. chain \subseteq -1..4 /\ k \in chain
  BY <1>1 DEF Level, None
<1>3. \E n \in chain : \A l \in chain : l <= n
  <2> HIDE DEF chain
  <2>1. CASE 4 \in chain
    BY <1>2, <2>1
  <2>2. CASE 4 \notin chain /\ 3 \in chain
    BY <1>2, <2>2
  <2>3. CASE 4 \notin chain /\ 3 \notin chain /\ 2 \in chain
    BY <1>2, <2>3
  <2>4. CASE 4 \notin chain /\ 3 \notin chain /\ 2 \notin chain /\ 1 \in chain
    BY <1>2, <2>4
  <2>5. CASE 4 \notin chain /\ 3 \notin chain /\ 2 \notin chain /\ 1 \notin chain
    BY <1>2, <2>5 DEF Level
  <2> QED BY <2>1, <2>2, <2>3, <2>4, <2>5
<1>4. m = CHOOSE n \in chain : \A l \in chain : l <= n
  BY DEF ContiguousMaxDepth, ContiguousMax
<1>5. m \in chain /\ k <= m
  BY <1>2, <1>3, <1>4
<1>6. ASSUME k < 4, p.depths[k + 1] = "absent", m > k PROVE FALSE
  <2>1. k + 1 \in 0..m
    BY <1>2, <1>5, <1>6 DEF Level
  <2>2. k + 1 \in GroundingLevels(p)
    BY <1>5, <2>1
  <2> QED BY <1>6, <2>2 DEF GroundingLevels, Grounds
<1> QED BY <1>2, <1>5, <1>6 DEF Level

-----------------------------------------------------------------------------
(* The filesystem domain: how deep its concepts and relata go *)

\* The concepts with consequences.
Consequential == {"delete", "execute"}

\* What a step of the seeder builds goes to D3, and to D4 where there are
\* consequences; its relata stay within that, on both ends.
DeepStep(t) ==
  /\ t.new =>
       /\ t.depths[0] # "absent"
       /\ \A l \in 1..3 : t.depths[l] = "authored"
       /\ t.name \in Consequential => t.depths[4] = "authored"
  /\ \A r \in t.relata :
       /\ r.target_depth \in 0..3
       /\ r.source_depth \in 0..3 \/ (r.source_depth = 4 /\ t.name \in Consequential)

\* Relata that stay above the consequences at both ends.
Shallow(relata) == \A r \in relata : r.target_depth \in 0..3 /\ r.source_depth \in 0..3

\* Those of the seeder are put together from such relata.
LEMMA ShallowRelata ==
  /\ Shallow({})
  /\ \A l, d \in 0..3 : \A type, target : Shallow({Domain!At(l, type, target, d)})
  /\ \A l, d \in 0..3 : \A type, targets : Shallow(Domain!AllAt(l, type, targets, d))
  /\ \A R, S : Shallow(R) /\ Shallow(S) => Shallow(R \cup S)
  /\ \A e, f : Shallow({e}) /\ Shallow({f}) => Shallow({e, f})
  /\ Shallow(Domain!Entity)
BY DEF Shallow, Domain!At, Domain!AllAt, Domain!Entity

\* A new concept is deep when its levels and relata are.
LEMMA UpsertIsDeep ==
  ASSUME NEW name, NEW m \in {3, 4}, name \in Consequential => m = 4, NEW relata,
         Shallow(relata)
  PROVE  DeepStep(Domain!Upsert(name, 1..m, relata))
<1> DEFINE t == Domain!Upsert(name, 1..m, relata)
<1> SUFFICES DeepStep(t)
  OBVIOUS
<1>1. t.name = name /\ t.relata = relata
  BY DEF Domain!Upsert, Domain!Seed
<1>2. t.depths = [l \in 0..4 |-> IF l \in 1..m THEN "authored"
                    ELSE IF l = 0 \/ \E r \in relata : r.source_depth = l THEN "empty" ELSE "absent"]
  BY DEF Domain!Upsert, Domain!Seed
<1>3. t.depths[0] # "absent" /\ \A l \in 1..m : t.depths[l] = "authored"
  BY <1>2
<1> HIDE DEF t
<1>4. \A l \in 1..3 : t.depths[l] = "authored"
  BY <1>3
<1>5. t.name \in Consequential => t.depths[4] = "authored"
  BY <1>1, <1>3
<1>6. \A r \in t.relata : r.target_depth \in 0..3 /\ r.source_depth \in 0..3
  BY <1>1 DEF Shallow
<1> QED BY <1>3, <1>4, <1>5, <1>6 DEF DeepStep

\* So is one whose relata reach into the consequences it has.
LEMMA UpdateIsDeep ==
  ASSUME NEW name, NEW relata,
         \A r \in relata :
           /\ r.target_depth \in 0..3
           /\ r.source_depth \in 0..3 \/ (r.source_depth = 4 /\ name \in Consequential)
  PROVE  DeepStep(Domain!Update(name, relata))
<1> DEFINE t == Domain!Update(name, relata)
<1> SUFFICES DeepStep(t)
  OBVIOUS
<1>1. t.name = name /\ t.relata = relata /\ ~t.new
  BY DEF Domain!Update, Domain!Rewire
<1> HIDE DEF t
<1> QED BY <1>1 DEF DeepStep

\* Every concept the seeder builds is deep.
LEMMA ConceptsAreDeep == \A k \in 1..20 : DeepStep(Domain!concepts[k])
<1>1. /\ DeepStep(Domain!seed_operating_system)
      /\ DeepStep(Domain!seed_filesystem)
      /\ DeepStep(Domain!seed_path)
      /\ DeepStep(Domain!seed_permission)
      /\ DeepStep(Domain!seed_ownership)
  BY UpsertIsDeep, ShallowRelata DEF Consequential, Domain!seed_operating_system,
     Domain!seed_filesystem,
     Domain!seed_path,
     Domain!seed_permission,
     Domain!seed_ownership
<1>2. /\ DeepStep(Domain!seed_directory)
      /\ DeepStep(Domain!seed_file)
      /\ DeepStep(Domain!seed_symlink)
  BY UpsertIsDeep, ShallowRelata DEF Consequential, Domain!seed_directory,
     Domain!seed_file,
     Domain!seed_symlink
<1>3. /\ DeepStep(Domain!seed_user)
      /\ DeepStep(Domain!seed_group)
      /\ DeepStep(Domain!seed_process)
  <2>1. /\ Shallow({Domain!At(2, "DEPENDS_ON", "operating_system", 2)})
        /\ Shallow({Domain!At(2, "DEPENDS_ON", "operating_system", 2),
                    Domain!At(2, "INCLUDES", "user", 1)})
        /\ Shallow({Domain!At(2, "DEPENDS_ON", "operating_system", 2),
                    Domain!At(3, "CONSTRAINED_BY", "operating_system", 2)})
    BY DEF Shallow, Domain!At, Domain!AllAt
  <2> QED BY <2>1, UpsertIsDeep DEF Consequential, Domain!seed_user, Domain!seed_group,
     Domain!seed_process
<1>4. /\ DeepStep(Domain!seed_create)
      /\ DeepStep(Domain!seed_read)
      /\ DeepStep(Domain!seed_write)
      /\ DeepStep(Domain!seed_delete)
      /\ DeepStep(Domain!seed_list)
  BY UpsertIsDeep, ShallowRelata DEF Consequential, Domain!seed_create,
     Domain!seed_read,
     Domain!seed_write,
     Domain!seed_delete,
     Domain!seed_list
<1>5. /\ DeepStep(Domain!seed_move)
      /\ DeepStep(Domain!seed_copy)
      /\ DeepStep(Domain!seed_modify)
      /\ DeepStep(Domain!seed_execute)
  <2>1. /\ Shallow({Domain!At(2, "REQUIRES", "path", 1)}
                     \cup Domain!AllAt(3, "APPLIES_TO", {"file", "directory"}, 2))
        /\ Shallow({Domain!At(2, "REQUIRES", "path", 1)}
                     \cup Domain!AllAt(2, "APPLIES_TO", {"file", "directory"}, 2))
        /\ Shallow(Domain!AllAt(3, "APPLIES_TO", {"file", "directory", "symlink"}, 2))
        /\ Shallow({Domain!At(3, "APPLIES_TO", "file", 2)})
    BY DEF Shallow, Domain!At, Domain!AllAt
  <2> QED BY <2>1, UpsertIsDeep DEF Consequential, Domain!seed_move, Domain!seed_copy,
             Domain!seed_modify, Domain!seed_execute
<1> QED BY <1>1, <1>2, <1>3, <1>4, <1>5 DEF Domain!concepts

\* So is every relation it adds to one.
LEMMA UpdatesAreDeep ==
  /\ \A k \in 1..7 : DeepStep(Domain!structure[k])
  /\ \A k \in 1..10 : DeepStep(Domain!constraints[k])
  /\ \A k \in 1..5 : DeepStep(Domain!consequences[k])
<1>1. ASSUME NEW name, NEW relata, Shallow(relata) PROVE DeepStep(Domain!Update(name, relata))
  BY <1>1, UpdateIsDeep DEF Shallow
<1>2. ASSUME NEW name, NEW by PROVE DeepStep(Domain!Constrained(name, by))
  BY <1>1, ShallowRelata DEF Domain!Constrained
<1>3. \A k \in 1..7 : DeepStep(Domain!structure[k])
  <2>1. Shallow({Domain!At(2, "DEPENDS_ON", "ownership", 1)}
          \cup Domain!AllAt(2, "APPLIES_TO", {"user", "group", "process", "symlink"}, 1)
          \cup Domain!AllAt(2, "APPLIES_TO", {"read", "write", "delete", "create", "list", "move",
                                              "copy", "modify", "execute"}, 2))
    BY DEF Shallow, Domain!At, Domain!AllAt
  <2>2. /\ Shallow(Domain!AllAt(2, "INCLUDES", {"file", "directory", "symlink"}, 0))
        /\ Shallow(Domain!AllAt(2, "APPLIES_TO", {"file", "directory", "symlink", "user", "group"}, 1))
        /\ Shallow({Domain!At(1, "REQUIRES", "ownership", 1)})
        /\ Shallow({Domain!At(2, "INCLUDES", "process", 1)})
    BY DEF Shallow, Domain!At, Domain!AllAt
  <2> QED BY <1>1, <2>1, <2>2 DEF Domain!structure
<1>4. \A k \in 1..10 : DeepStep(Domain!constraints[k])
  BY <1>2 DEF Domain!constraints
<1>5. \A k \in 1..5 : DeepStep(Domain!consequences[k])
  <2>1. /\ Shallow({Domain!At(3, "APPLIES_TO", "symlink", 2)})
        /\ Shallow({Domain!At(2, "APPLIES_TO", "symlink", 2)})
    BY DEF Shallow, Domain!At, Domain!AllAt
  <2>2. DeepStep(Domain!Update("delete", {Domain!At(3, "APPLIES_TO", "symlink", 2)}
                   \cup Domain!AllAt(4, "APPLIES_TO", {"symlink", "process"}, 1)))
    BY UpdateIsDeep DEF Consequential, Domain!At, Domain!AllAt
  <2>3. DeepStep(Domain!Update("execute", {Domain!At(4, "APPLIES_TO", "process", 1),
                                           Domain!At(4, "APPLIES_TO", "file", 2)}))
    BY UpdateIsDeep DEF Consequential, Domain!At
  <2> QED BY <1>1, <1>2, <2>1, <2>2, <2>3 DEF Domain!consequences
<1> QED BY <1>3, <1>4, <1>5

\* What the whole seeder declares is deep.
LEMMA SeederIsDeep == \A k \in DOMAIN Script["filesystem"] : DeepStep(Script["filesystem"][k])
<1>1. \A t \in SeederSteps : DeepStep(t)
  BY ConceptsAreDeep, UpdatesAreDeep DEF SeederSteps
<1>2. Script["filesystem"] = Domain!main /\ DOMAIN Domain!main = 1..42
  BY SeederParts DEF Script, OfLength
<1> QED BY <1>1, <1>2, SeederStep

\* The concepts of the demo are concepts of the domain.
LEMMA DemoConcepts == DeclaredNames("gaps") \subseteq DeclaredNames("filesystem")
<1> SUFFICES ASSUME NEW n \in DeclaredNames("gaps") PROVE StepsOf("filesystem", n) # {}
  BY DEF DeclaredNames
<1>1. n \in {"operating_system", "filesystem", "path", "permission", "directory", "file",
             "read", "list", "delete", "create"}
  <2>1. PICK k \in DOMAIN GapDemo!main : GapDemo!main[k].op # "clear" /\ GapDemo!main[k].name = n
    BY DEF DeclaredNames, StepsOf, Script
  <2>2. k \in 1..12
    BY DEF GapDemo!main
  <2> QED BY <2>1, <2>2 DEF GapDemo!main, GapDemo!Clear, GapDemo!seed_operating_system,
        GapDemo!seed_filesystem, GapDemo!seed_path, GapDemo!seed_permission, GapDemo!seed_directory,
        GapDemo!seed_file, GapDemo!seed_read, GapDemo!seed_list, GapDemo!seed_delete,
        GapDemo!seed_create, GapDemo!includes, GapDemo!Save, GapDemo!Seed, GapDemo!Rewire
<1>2. \E k \in 1..20 : Domain!concepts[k].name = n
  <2>1. /\ Domain!concepts[1].name = "operating_system" /\ Domain!concepts[2].name = "filesystem"
        /\ Domain!concepts[3].name = "path" /\ Domain!concepts[4].name = "permission"
        /\ Domain!concepts[6].name = "directory" /\ Domain!concepts[7].name = "file"
        /\ Domain!concepts[12].name = "create" /\ Domain!concepts[13].name = "read"
        /\ Domain!concepts[15].name = "delete" /\ Domain!concepts[16].name = "list"
    BY DEF Domain!concepts, Domain!seed_operating_system, Domain!seed_filesystem, Domain!seed_path,
       Domain!seed_permission, Domain!seed_directory, Domain!seed_file, Domain!seed_create,
       Domain!seed_read, Domain!seed_delete, Domain!seed_list, Domain!Upsert, Domain!Seed
  <2> QED BY <1>1, <2>1
<1>3. PICK k \in 1..20 : Domain!concepts[k].name = n
  BY <1>2
<1>4. Domain!main[k].name = n /\ Domain!main[k].op = "upsert" /\ k \in DOMAIN Domain!main
  BY <1>3, SeederParts, SeederUpserts DEF OfLength
<1> QED BY <1>4 DEF StepsOf, Script

-----------------------------------------------------------------------------
(* The domain is grounded *)

\* Every row is one of a concept that the filesystem domain declares.
InDomain == \A i \in DOMAIN graph : i[1] \in DeclaredNames("filesystem")

\* A save of a script is one of a concept of the domain.
LEMMA SaveInDomain ==
  ASSUME SeedInv, InDomain, SaveStep
  PROVE  InDomain'
<1> DEFINE p == Canonical(graph, Step)
           s == run.script
           k == run.step
<1>1. RowsFit(graph) /\ AtStep /\ Step.op # "clear"
  BY DEF SeedInv, SaveStep
<1>2. p.name = Step.name /\ p.id[1] = p.name
  BY <1>1, CanonicalBuilds
<1> HIDE DEF p
<1>3. s \in DOMAIN Script /\ k \in DOMAIN Script[s] /\ Step = Script[s][k]
  BY <1>1 DEF AtStep, Step
<1>4. k \in StepsOf(s, Step.name) /\ Step.name \in Names
  BY <1>1, <1>3, StepDeclares DEF StepsOf, WellWritten
<1>5. Step.name \in DeclaredNames(s)
  BY <1>4 DEF DeclaredNames
<1>6. s \in {"gaps", "filesystem"}
  BY <1>3, <1>1 DEF Script, GapDemo!Clear
<1>7. p.id[1] \in DeclaredNames("filesystem")
  BY <1>2, <1>5, <1>6, DemoConcepts
<1>8. DOMAIN graph' \subseteq DOMAIN graph \cup {p.id}
  BY DEF SaveStep, Saved, p
<1> QED BY <1>7, <1>8 DEF InDomain

\* Whatever runs, dies and is deleted, only such rows are there.
LEMMA DomainInvariant == Spec => []InDomain
<1>1. Init => InDomain
  BY DEF Init, InDomain
<1>2. SeedInv /\ InDomain /\ [Next]_vars => InDomain'
  BY SaveInDomain DEF Next, RunStep, Begin, ClearStep, Die, DeleteByOther, Without, vars, InDomain
<1> QED BY <1>1, <1>2, SeedInvariant, PTL DEF Spec

\* A declared concept of the seeder is deep, and so are its relata.
LEMMA DeclaredIsDeep ==
  ASSUME NEW n \in DeclaredNames("filesystem")
  PROVE  /\ DeclaredDepths("filesystem", n)[0] # "absent"
         /\ \A l \in 1..3 : DeclaredDepths("filesystem", n)[l] = "authored"
         /\ n \in Consequential => DeclaredDepths("filesystem", n)[4] = "authored"
         /\ \A r \in DeclaredRelata("filesystem", n) :
              /\ r.target_depth \in 0..3
              /\ r.source_depth \in 0..3 \/ (r.source_depth = 4 /\ n \in Consequential)
<1>1. "filesystem" \in DOMAIN Script
  BY DEF Script
<1>2. \A k \in StepsOf("filesystem", n) :
        DeepStep(Script["filesystem"][k]) /\ Script["filesystem"][k].name = n
  BY SeederIsDeep DEF StepsOf
<1>3. PICK k \in StepsOf("filesystem", n) :
        /\ Script["filesystem"][k].new
        /\ DeclaredDepths("filesystem", n) = Script["filesystem"][k].depths
  BY <1>1, DeclaredByNewStep
<1>4. \A r \in DeclaredRelata("filesystem", n) :
        \E j \in StepsOf("filesystem", n) : r \in Script["filesystem"][j].relata
  BY DEF DeclaredRelata
<1>5. /\ DeclaredDepths("filesystem", n)[0] # "absent"
      /\ \A l \in 1..3 : DeclaredDepths("filesystem", n)[l] = "authored"
      /\ n \in Consequential => DeclaredDepths("filesystem", n)[4] = "authored"
  BY <1>2, <1>3 DEF DeepStep
<1> QED BY <1>2, <1>4, <1>5 DEF DeepStep

\* In rows that match the declarations every primitive is known to D3, and
\* every relatum hangs and points where it can be seen.
LEMMA MatchedIsGrounded ==
  ASSUME RowsFit(graph), InDomain, Matches(graph, "filesystem")
  PROVE  /\ \A i \in DOMAIN graph : ContiguousMaxDepth(graph[i]) >= 3
         /\ \A e \in Edges(graph) :
              /\ ContiguousMaxDepth(graph[e.source]) >= e.relatum.source_depth
              /\ ContiguousMaxDepth(graph[e.relatum.target]) >= e.relatum.target_depth
<1>1. ASSUME NEW i \in DOMAIN graph
      PROVE  /\ i[1] \in DeclaredNames("filesystem")
             /\ graph[i].depths = DeclaredDepths("filesystem", i[1])
             /\ {ByConcept(r) : r \in graph[i].relata} = DeclaredRelata("filesystem", i[1])
  BY RowIsDeclared DEF InDomain
<1>2. ASSUME NEW i \in DOMAIN graph PROVE ContiguousMaxDepth(graph[i]) \in 3..4
  <2>1. graph[i].depths[0] # "absent" /\ \A l \in 1..3 : graph[i].depths[l] = "authored"
    BY <1>1, DeclaredIsDeep
  <2> QED BY <2>1, AuthoredIsKnown DEF Level
<1>3. ASSUME NEW i \in DOMAIN graph, i[1] \in Consequential PROVE ContiguousMaxDepth(graph[i]) = 4
  <2>1. /\ graph[i].depths[0] # "absent" /\ \A l \in 1..3 : graph[i].depths[l] = "authored"
        /\ graph[i].depths[4] = "authored"
    BY <1>1, <1>3, DeclaredIsDeep
  <2>2. \A l \in 1..4 : graph[i].depths[l] = "authored"
    BY <2>1
  <2> QED BY <2>1, <2>2, AuthoredIsKnown DEF Level
<1>4. ASSUME NEW e \in Edges(graph)
      PROVE  /\ ContiguousMaxDepth(graph[e.source]) >= e.relatum.source_depth
             /\ ContiguousMaxDepth(graph[e.relatum.target]) >= e.relatum.target_depth
  <2>1. PICK i \in DOMAIN graph : \E x \in graph[i].relata : e = [source |-> i, relatum |-> x]
    BY <1>4 DEF Edges
  <2>2. PICK r \in graph[i].relata : e = [source |-> i, relatum |-> r]
    BY <2>1
  <2>3. e.source = i /\ e.relatum = r
    BY <2>2
  <2>4. r \in Relatum /\ r.target \in DOMAIN graph
    BY DEF RowsFit, Primitive
  <2>5. ByConcept(r) \in DeclaredRelata("filesystem", i[1]) /\ i[1] \in DeclaredNames("filesystem")
    BY <1>1
  <2>6. ByConcept(r).source_depth = r.source_depth /\ ByConcept(r).target_depth = r.target_depth
    BY <2>4 DEF ByConcept, Relatum
  <2>7. /\ r.target_depth \in 0..3
        /\ r.source_depth \in 0..3 \/ (r.source_depth = 4 /\ i[1] \in Consequential)
    BY <2>5, <2>6, DeclaredIsDeep
  <2>8. ContiguousMaxDepth(graph[i]) \in 3..4 /\ ContiguousMaxDepth(graph[r.target]) \in 3..4
    BY <1>2, <2>4
  <2> QED BY <1>3, <2>3, <2>4, <2>7, <2>8
<1> QED BY <1>2, <1>4

\* "Fully grounded filesystem domain - 20 primitives, all at D3+ with complete
\* relata": after a run that nobody disturbed, whatever rows of earlier runs or
\* of the demo were there before.
THEOREM SeedFullyGrounded == Spec => []FullyGrounded
<1>1. SeedInv /\ InDomain => FullyGrounded
  BY MatchedIsGrounded DEF SeedInv, FullyGrounded, Completed
<1> QED BY <1>1, SeedInvariant, DomainInvariant, PTL

-----------------------------------------------------------------------------
(* The gaps demo: what its steps declare *)

DemoEntities == {"operating_system", "filesystem", "path", "permission", "directory", "file"}
DemoActions == {"read", "list", "delete", "create"}

\* How deep each concept is known: the file is shallow, create lacks its D2,
\* and the relata of delete are left out.
DemoDepth(n) == IF n \in {"file", "create"} THEN 1 ELSE IF n \in {"read", "list", "delete"} THEN 2 ELSE 3

\* Relata lead to entities; only those of create hang deeper than it is known,
\* and only read asks more of its target than there is.
DemoRelata(n, relata) == \A r \in relata :
  /\ n # "delete"
  /\ r.target \in DemoEntities
  /\ n \in DemoActions => r.rel_type = "APPLIES_TO"
  /\ IF n = "create" THEN r.source_depth = 3
     ELSE /\ r.source_depth \in 1..DemoDepth(n)
          /\ \/ r.target_depth \in 0..DemoDepth(r.target)
             \/ n = "read" /\ r.target = "file" /\ r.target_depth = 2

\* Levels that end at a depth: known up to it, without a record above.
EndsAt(depths, m) ==
  depths[0] # "absent" /\ (\A l \in 1..m : depths[l] = "authored") /\ depths[m + 1] = "absent"

DemoStep(t) ==
  /\ t.op = "save"
  /\ t.name \in DemoEntities \cup DemoActions
  /\ t.new => EndsAt(t.depths, DemoDepth(t.name))
  /\ DemoRelata(t.name, t.relata)

\* A new concept of the demo.
LEMMA SaveIsDemo ==
  ASSUME NEW name \in DemoEntities \cup DemoActions, NEW m \in 1..3, m = DemoDepth(name),
         NEW S, S = 1..m, NEW relata, DemoRelata(name, relata),
         \A r \in relata : r.source_depth # m + 1
  PROVE  DemoStep(GapDemo!Save(name, S, relata))
<1> DEFINE t == GapDemo!Save(name, S, relata)
<1> SUFFICES DemoStep(t)
  OBVIOUS
<1>1. t.op = "save" /\ t.name = name /\ t.relata = relata
  BY DEF GapDemo!Save, GapDemo!Seed
<1>2. t.depths = [l \in 0..4 |-> IF l \in S THEN "authored"
                    ELSE IF l = 0 \/ \E r \in relata : r.source_depth = l THEN "empty" ELSE "absent"]
  BY DEF GapDemo!Save, GapDemo!Seed
<1>3. t.depths[0] # "absent" /\ (\A l \in 1..m : t.depths[l] = "authored")
  BY <1>2
<1>4. t.depths[m + 1] = "absent"
  <2>1. m + 1 \in 0..4 /\ m + 1 \notin S /\ m + 1 # 0
    OBVIOUS
  <2> QED BY <1>2, <2>1
<1> HIDE DEF t
<1> QED BY <1>1, <1>3, <1>4 DEF DemoStep, EndsAt

\* Every step after the clear is one of these, or adds such relata.
LEMMA DemoSteps == \A k \in 2..12 : DemoStep(GapDemo!main[k])
<1> USE DEF GapDemo!At, GapDemo!AllAt, DemoEntities, DemoActions, DemoDepth
<1>1. DemoStep(GapDemo!seed_operating_system)
  BY SaveIsDemo DEF GapDemo!seed_operating_system, DemoRelata
<1>2. DemoStep(GapDemo!seed_filesystem)
  BY SaveIsDemo DEF GapDemo!seed_filesystem, DemoRelata
<1>3. DemoStep(GapDemo!seed_path)
  BY SaveIsDemo DEF GapDemo!seed_path, DemoRelata
<1>4. DemoStep(GapDemo!seed_permission)
  BY SaveIsDemo DEF GapDemo!seed_permission, DemoRelata
<1>5. DemoStep(GapDemo!seed_directory)
  BY SaveIsDemo DEF GapDemo!seed_directory, DemoRelata
<1>6. DemoStep(GapDemo!seed_file)
  BY SaveIsDemo DEF GapDemo!seed_file, DemoRelata
<1>7. DemoStep(GapDemo!seed_read)
  BY SaveIsDemo DEF GapDemo!seed_read, DemoRelata
<1>8. DemoStep(GapDemo!seed_list)
  BY SaveIsDemo DEF GapDemo!seed_list, DemoRelata
<1>9. DemoStep(GapDemo!seed_delete)
  BY SaveIsDemo DEF GapDemo!seed_delete, DemoRelata
<1>10. DemoStep(GapDemo!seed_create)
  BY SaveIsDemo DEF GapDemo!seed_create, DemoRelata
<1>11. DemoStep(GapDemo!includes)
  BY DEF DemoStep, GapDemo!includes, GapDemo!Rewire, DemoRelata
<1> QED BY <1>1, <1>2, <1>3, <1>4, <1>5, <1>6, <1>7, <1>8, <1>9, <1>10, <1>11 DEF GapDemo!main

\* What the demo declares of a concept.
LEMMA DemoDeclared ==
  ASSUME NEW n \in DeclaredNames("gaps")
  PROVE  /\ n \in DemoEntities \cup DemoActions
         /\ EndsAt(DeclaredDepths("gaps", n), DemoDepth(n))
         /\ DemoRelata(n, DeclaredRelata("gaps", n))
<1>1. "gaps" \in DOMAIN Script /\ Script["gaps"] = GapDemo!main
  BY DEF Script
<1>2. DOMAIN GapDemo!main = 1..12 /\ GapDemo!main[1].op = "clear"
  BY DEF GapDemo!main, GapDemo!Clear
<1>3. StepsOf("gaps", n) \subseteq 2..12
  BY <1>1, <1>2 DEF StepsOf
<1>4. \A k \in StepsOf("gaps", n) : DemoStep(Script["gaps"][k]) /\ Script["gaps"][k].name = n
  BY <1>1, <1>3, DemoSteps DEF StepsOf
<1>5. PICK k \in StepsOf("gaps", n) :
        Script["gaps"][k].new /\ DeclaredDepths("gaps", n) = Script["gaps"][k].depths
  BY <1>1, DeclaredByNewStep
<1>6. n \in DemoEntities \cup DemoActions /\ EndsAt(DeclaredDepths("gaps", n), DemoDepth(n))
  BY <1>4, <1>5 DEF DemoStep
<1>7. \A r \in DeclaredRelata("gaps", n) : \E j \in StepsOf("gaps", n) : r \in Script["gaps"][j].relata
  BY DEF DeclaredRelata
<1>8. \A j \in StepsOf("gaps", n) : DemoRelata(n, Script["gaps"][j].relata)
  BY <1>4 DEF DemoStep
<1>9. DemoRelata(n, DeclaredRelata("gaps", n))
  BY <1>7, <1>8 DEF DemoRelata
<1> QED BY <1>6, <1>9

\* What an action is applied to: read and list as deep as they are known,
\* create above its missing level, delete to nothing.
DemoApplied ==
  /\ GapDemo!At(2, "APPLIES_TO", "file", 2) \in DeclaredRelata("gaps", "read")
  /\ GapDemo!At(2, "APPLIES_TO", "directory", 2) \in DeclaredRelata("gaps", "list")
  /\ GapDemo!At(3, "APPLIES_TO", "file", 2) \in DeclaredRelata("gaps", "create")
  /\ GapDemo!At(3, "APPLIES_TO", "directory", 2) \in DeclaredRelata("gaps", "create")

\* The demo declares its entities and actions, and what they are applied to.
LEMMA DemoDeclares ==
  /\ DemoApplied
  /\ {"file", "directory"} \cup DemoActions \subseteq DeclaredNames("gaps")
<1>1. "gaps" \in DOMAIN Script /\ Script["gaps"] = GapDemo!main /\ DOMAIN GapDemo!main = 1..12
  BY DEF Script, GapDemo!main
<1>2. ASSUME NEW k \in 1..12, NEW n, GapDemo!main[k].op = "save", GapDemo!main[k].name = n
      PROVE  n \in DeclaredNames("gaps") /\ GapDemo!main[k].relata \subseteq DeclaredRelata("gaps", n)
  <2>1. k \in StepsOf("gaps", n)
    BY <1>1, <1>2 DEF StepsOf
  <2>2. n \in Names
    BY <1>1, <1>2, StepDeclares DEF WellWritten
  <2> QED BY <1>1, <2>1, <2>2 DEF DeclaredNames, DeclaredRelata
<1>3. /\ GapDemo!main[6] = GapDemo!seed_directory /\ GapDemo!main[7] = GapDemo!seed_file
      /\ GapDemo!main[8] = GapDemo!seed_read /\ GapDemo!main[9] = GapDemo!seed_list
      /\ GapDemo!main[10] = GapDemo!seed_delete /\ GapDemo!main[11] = GapDemo!seed_create
  BY DEF GapDemo!main
<1>4. ASSUME NEW name, NEW S, NEW relata
      PROVE  /\ GapDemo!Save(name, S, relata).op = "save" /\ GapDemo!Save(name, S, relata).name = name
             /\ GapDemo!Save(name, S, relata).relata = relata
  BY DEF GapDemo!Save, GapDemo!Seed
<1>5. /\ GapDemo!seed_directory.op = "save" /\ GapDemo!seed_directory.name = "directory"
      /\ GapDemo!seed_file.op = "save" /\ GapDemo!seed_file.name = "file"
      /\ GapDemo!seed_delete.op = "save" /\ GapDemo!seed_delete.name = "delete"
  BY <1>4 DEF GapDemo!seed_directory, GapDemo!seed_file, GapDemo!seed_delete
<1>6. /\ GapDemo!seed_read.op = "save" /\ GapDemo!seed_read.name = "read"
      /\ GapDemo!At(2, "APPLIES_TO", "file", 2) \in GapDemo!seed_read.relata
  BY <1>4 DEF GapDemo!seed_read
<1>7. /\ GapDemo!seed_list.op = "save" /\ GapDemo!seed_list.name = "list"
      /\ GapDemo!At(2, "APPLIES_TO", "directory", 2) \in GapDemo!seed_list.relata
  BY <1>4 DEF GapDemo!seed_list
<1>8. /\ GapDemo!seed_create.op = "save" /\ GapDemo!seed_create.name = "create"
      /\ GapDemo!At(3, "APPLIES_TO", "file", 2) \in GapDemo!seed_create.relata
      /\ GapDemo!At(3, "APPLIES_TO", "directory", 2) \in GapDemo!seed_create.relata
  BY <1>4 DEF GapDemo!seed_create, GapDemo!AllAt
<1>9. DemoApplied
  BY <1>2, <1>3, <1>6, <1>7, <1>8 DEF DemoApplied
<1>10. {"file", "directory"} \cup DemoActions \subseteq DeclaredNames("gaps")
  BY <1>2, <1>3, <1>5, <1>6, <1>7, <1>8 DEF DemoActions
<1> QED BY <1>9, <1>10

\* The file and the directory require the path, a concept of the demo.
LEMMA DemoRequires ==
  ASSUME NEW n \in {"file", "directory"}
  PROVE  "path" \in DeclaredNames("gaps") /\ GapDemo!At(1, "REQUIRES", "path", 1) \in DeclaredRelata("gaps", n)
<1>1. "gaps" \in DOMAIN Script /\ Script["gaps"] = GapDemo!main /\ DOMAIN GapDemo!main = 1..12
  BY DEF Script, GapDemo!main
<1>2. ASSUME NEW k \in 1..12, NEW m, GapDemo!main[k].op = "save", GapDemo!main[k].name = m
      PROVE  m \in DeclaredNames("gaps") /\ GapDemo!main[k].relata \subseteq DeclaredRelata("gaps", m)
  <2>1. k \in StepsOf("gaps", m)
    BY <1>1, <1>2 DEF StepsOf
  <2>2. m \in Names
    BY <1>1, <1>2, StepDeclares DEF WellWritten
  <2> QED BY <1>1, <2>1, <2>2 DEF DeclaredNames, DeclaredRelata
<1>3. /\ GapDemo!main[4] = GapDemo!seed_path
      /\ GapDemo!main[6] = GapDemo!seed_directory /\ GapDemo!main[7] = GapDemo!seed_file
  BY DEF GapDemo!main
<1>4. ASSUME NEW name, NEW S, NEW relata
      PROVE  /\ GapDemo!Save(name, S, relata).op = "save" /\ GapDemo!Save(name, S, relata).name = name
             /\ GapDemo!Save(name, S, relata).relata = relata
  BY DEF GapDemo!Save, GapDemo!Seed
<1>5. GapDemo!seed_path.op = "save" /\ GapDemo!seed_path.name = "path"
  BY <1>4 DEF GapDemo!seed_path
<1>6. /\ GapDemo!seed_directory.op = "save" /\ GapDemo!seed_directory.name = "directory"
      /\ GapDemo!At(1, "REQUIRES", "path", 1) \in GapDemo!seed_directory.relata
  BY <1>4 DEF GapDemo!seed_directory
<1>7. /\ GapDemo!seed_file.op = "save" /\ GapDemo!seed_file.name = "file"
      /\ GapDemo!At(1, "REQUIRES", "path", 1) \in GapDemo!seed_file.relata
  BY <1>4 DEF GapDemo!seed_file
<1> QED BY <1>2, <1>3, <1>5, <1>6, <1>7

-----------------------------------------------------------------------------
(* The gaps demo: the rows it leaves *)

\* The row of a concept.
Row(n) == CHOOSE i \in DOMAIN graph : i[1] = n

Demo == DeclaredNames("gaps")

\* What the rows say once the demo is done.
DemoRows ==
  /\ \A n \in Demo : Row(n) \in DOMAIN graph /\ Row(n)[1] = n /\ HoldersOf(graph, n) = {Row(n)}
  /\ \A i \in DOMAIN graph : i[1] \in Demo =>
       /\ EndsAt(graph[i].depths, DemoDepth(i[1]))
       /\ \A r \in graph[i].relata :
            /\ r \in Relatum /\ r.target \in DOMAIN graph
            /\ r.target[1] \in Demo
            /\ DemoRelata(i[1], {ByConcept(r)})

LEMMA DemoLeavesRows ==
  ASSUME RowsFit(graph), Matches(graph, "gaps")
  PROVE  DemoRows
<1>1. ASSUME NEW n \in Demo
      PROVE  Row(n) \in DOMAIN graph /\ Row(n)[1] = n /\ HoldersOf(graph, n) = {Row(n)}
  <2>1. \E i \in DOMAIN graph : i[1] = n
    BY DeclaredHasRow DEF Demo
  <2>2. Row(n) \in DOMAIN graph /\ Row(n)[1] = n
    BY <2>1 DEF Row
  <2> HIDE DEF Row
  <2>3. \A i \in DOMAIN graph : graph[i].name = n <=> i = Row(n)
    BY <2>2 DEF RowsFit
  <2> QED BY <2>2, <2>3 DEF HoldersOf
<1>2. ASSUME NEW i \in DOMAIN graph, i[1] \in Demo
      PROVE  /\ EndsAt(graph[i].depths, DemoDepth(i[1]))
             /\ \A r \in graph[i].relata :
                  /\ r \in Relatum /\ r.target \in DOMAIN graph
                  /\ r.target[1] \in Demo
                  /\ DemoRelata(i[1], {ByConcept(r)})
  <2>1. /\ graph[i].depths = DeclaredDepths("gaps", i[1])
        /\ {ByConcept(r) : r \in graph[i].relata} = DeclaredRelata("gaps", i[1])
    BY <1>2, RowIsDeclared DEF Demo
  <2>2. EndsAt(graph[i].depths, DemoDepth(i[1])) /\ DemoRelata(i[1], DeclaredRelata("gaps", i[1]))
    BY <1>2, <2>1, DemoDeclared DEF Demo
  <2>3. ASSUME NEW r \in graph[i].relata
        PROVE  /\ r \in Relatum /\ r.target \in DOMAIN graph
               /\ r.target[1] \in Demo
               /\ DemoRelata(i[1], {ByConcept(r)})
    <3>1. r \in Relatum /\ r.target \in DOMAIN graph
      BY DEF RowsFit, Primitive
    <3>2. ByConcept(r) \in DeclaredRelata("gaps", i[1])
      BY <2>1
    <3>3. DemoRelata(i[1], {ByConcept(r)})
      BY <2>2, <3>2 DEF DemoRelata
    <3>4. ByConcept(r).target = r.target[1]
      BY <3>1 DEF ByConcept, Relatum
    <3>5. PICK k \in StepsOf("gaps", i[1]) : ByConcept(r) \in Script["gaps"][k].relata
      BY <3>2 DEF DeclaredRelata
    <3>6. k \in DOMAIN Script["gaps"] /\ Script["gaps"][k].op # "clear" /\ "gaps" \in DOMAIN Script
      BY DEF StepsOf, Script
    <3>7. r.target[1] \in NamesBefore("gaps", k)
      BY <3>4, <3>5, <3>6, StepDeclares DEF WellWritten
    <3>8. r.target[1] \in Demo
      BY <3>7 DEF NamesBefore, Demo, DeclaredNames
    <3> QED BY <3>1, <3>3, <3>8
  <2> QED BY <2>2, <2>3
<1> QED BY <1>1, <1>2 DEF DemoRows

\* A relatum that the demo declares leads from the row of the one concept to
\* that of the other.
LEMMA DeclaredRow ==
  ASSUME RowsFit(graph), Matches(graph, "gaps"), NEW v \in Demo, NEW n \in Demo, NEW l, NEW d, NEW t,
         GapDemo!At(l, t, n, d) \in DeclaredRelata("gaps", v)
  PROVE  \E r \in graph[Row(v)].relata :
           r.rel_type = t /\ r.target = Row(n) /\ r.source_depth = l /\ r.target_depth = d
<1>1. DemoRows
  BY DemoLeavesRows
<1>2. Row(v) \in DOMAIN graph /\ Row(v)[1] = v
  BY <1>1 DEF DemoRows
<1>3. {ByConcept(r) : r \in graph[Row(v)].relata} = DeclaredRelata("gaps", v)
  BY <1>2, RowIsDeclared DEF Demo
<1>4. PICK r \in graph[Row(v)].relata : ByConcept(r) = GapDemo!At(l, t, n, d)
  BY <1>3
<1>5. r \in Relatum /\ r.target \in DOMAIN graph
  BY <1>1, <1>2 DEF DemoRows
<1>6. r.rel_type = t /\ r.target[1] = n /\ r.source_depth = l /\ r.target_depth = d
  BY <1>4, <1>5 DEF ByConcept, Relatum, GapDemo!At
<1>7. r.target = Row(n)
  BY <1>1, <1>5, <1>6 DEF DemoRows, RowsFit
<1> QED BY <1>6, <1>7

-----------------------------------------------------------------------------
(* The gaps demo: what a query of an action on an entity resolves *)

\* The subgraph of the query <<v, n>>: entities and the action, known as deep
\* as declared, with relata among them.
View(s, v, n) ==
  /\ v \in DemoActions /\ n \in {"file", "directory"}
  /\ IsFiniteSet(DOMAIN s)
  /\ Row(v) \in DOMAIN s /\ Row(v)[1] = v
  /\ Row(n) \in DOMAIN s /\ Row(n)[1] = n
  /\ \A i \in DOMAIN s :
       /\ i[1] \in DemoEntities \cup {v}
       /\ i[1] = v => i = Row(v)
       /\ i[1] = n => i = Row(n)
       /\ s[i].name = i[1]
       /\ Known(s, i) = DemoDepth(i[1])
       /\ \A r \in s[i].relata :
            r \in Relatum /\ r.target \in DOMAIN s /\ DemoRelata(i[1], {ByConcept(r)})

\* The action is applied to the entity, from its level l.
Applied(s, v, n, l) ==
  \E r \in s[Row(v)].relata : r.target = Row(n) /\ r.source_depth = l /\ r.target_depth = 2

\* No transitive relatum leads out of the entities.
LEMMA EntitiesClosed ==
  ASSUME DemoRows, NEW i \in DOMAIN graph, i[1] \in Demo, NEW j \in TransitiveTargets(graph[i])
  PROVE  i[1] \notin DemoActions /\ j[1] \in DemoEntities
<1>1. PICK r \in graph[i].relata : r.target = j /\ r.rel_type \in TransitiveTypes
  BY DEF TransitiveTargets
<1>2. r \in Relatum /\ DemoRelata(i[1], {ByConcept(r)})
  BY DEF DemoRows
<1>3. ByConcept(r).target = j[1] /\ ByConcept(r).rel_type = r.rel_type
  BY <1>1, <1>2 DEF ByConcept, Relatum
<1> QED BY <1>1, <1>2, <1>3 DEF DemoRelata, TransitiveTypes

\* A row cut to the subgraph is known as deep as before.
LEMMA KnownIsDeclared ==
  ASSUME NEW p, NEW n, EndsAt(p.depths, DemoDepth(n))
  PROVE  ContiguousMaxDepth(p) = DemoDepth(n)
<1>1. DemoDepth(n) \in Level /\ DemoDepth(n) < 4 /\ DemoDepth(n) \in 1..3
  BY DEF DemoDepth, Level
<1>2. /\ p.depths[0] # "absent" /\ \A l \in 1..DemoDepth(n) : p.depths[l] = "authored"
      /\ p.depths[DemoDepth(n) + 1] = "absent"
  BY DEF EndsAt
<1> QED BY <1>1, <1>2, AuthoredIsKnown

\* The roots of the query, and what it resolves.
LEMMA DemoResolves ==
  ASSUME RowsFit(graph), Matches(graph, "gaps"), NEW v \in DemoActions, NEW n \in {"file", "directory"}
  PROVE  /\ Roots(graph, <<v, n>>) = {Row(v), Row(n)}
         /\ ExistenceGaps(graph, <<v, n>>) = {}
         /\ View(Subgraph(graph, <<v, n>>), v, n)
         /\ \A l : GapDemo!At(l, "APPLIES_TO", n, 2) \in DeclaredRelata("gaps", v)
                     => Applied(Subgraph(graph, <<v, n>>), v, n, l)
<1> DEFINE q == <<v, n>>
           s == Subgraph(graph, q)
           C == Collected(graph, q)
           succ == TransitiveSucc(graph)
           T == {i \in DOMAIN graph : i[1] \in Demo \cap (DemoEntities \cup {v})}
<1>1. DemoRows
  BY DemoLeavesRows
<1>2. v \in Demo /\ n \in Demo
  BY DemoDeclares DEF Demo
<1>3. /\ Row(v) \in DOMAIN graph /\ Row(v)[1] = v /\ HoldersOf(graph, v) = {Row(v)}
      /\ Row(n) \in DOMAIN graph /\ Row(n)[1] = n /\ HoldersOf(graph, n) = {Row(n)}
  BY <1>1, <1>2 DEF DemoRows
<1>4. Concepts(q) = {v, n}
  BY DEF Concepts
<1>5. Roots(graph, q) = {Row(v), Row(n)}
  BY <1>3, <1>4 DEF Roots, HoldersOf
<1>6. ExistenceGaps(graph, q) = {}
  BY <1>3, <1>4 DEF ExistenceGaps
<1>7. DOMAIN succ = DOMAIN graph /\ \A i \in DOMAIN graph : succ[i] = TransitiveTargets(graph[i])
  BY DEF TransitiveSucc
<1>8. Row(v) \in C /\ Row(n) \in C /\ C \subseteq DOMAIN graph
  BY <1>3, <1>5, <1>7, ReachStart DEF Collected
<1>9. C \subseteq T
  <2>1. Roots(graph, q) \cap DOMAIN graph \subseteq T
    BY <1>2, <1>3, <1>5 DEF DemoEntities
  <2>2. ASSUME NEW i \in T, NEW j \in succ[i] \cap DOMAIN graph PROVE j \in T
    <3>1. j \in TransitiveTargets(graph[i]) /\ i \in DOMAIN graph /\ i[1] \in Demo
      BY <1>7, <2>2
    <3>2. j[1] \in DemoEntities
      BY <1>1, <3>1, EntitiesClosed
    <3>3. j[1] \in Demo
      BY <1>1, <3>1 DEF TransitiveTargets, DemoRows
    <3> QED BY <2>2, <3>2, <3>3
  <2> HIDE DEF T
  <2>3. T \in SUBSET DOMAIN succ
    BY <1>7 DEF T
  <2> QED BY <1>7, <2>1, <2>2, <2>3, ReachLeast DEF Collected
<1>10. /\ DOMAIN s = C
       /\ \A i \in C : s[i] = [graph[i] EXCEPT !.relata = {r \in graph[i].relata : r.target \in C}]
  BY DEF Subgraph
<1> HIDE DEF s, C, T, succ
<1>11. ASSUME NEW i \in C
       PROVE  /\ s[i].depths = graph[i].depths /\ s[i].name = i[1]
              /\ s[i].relata = {r \in graph[i].relata : r.target \in C}
  <2>1. graph[i] \in Primitive /\ graph[i].name = i[1]
    BY <1>8 DEF RowsFit
  <2>2. s[i] = [graph[i] EXCEPT !.relata = {r \in graph[i].relata : r.target \in C}]
    BY <1>10
  <2> QED BY ONLY <2>1, <2>2 DEF Primitive
<1>12. IsFiniteSet(C)
  BY <1>8, FS_Subset DEF RowsFit
<1>13. ASSUME NEW i \in C
       PROVE  /\ i[1] \in DemoEntities \cup {v}
              /\ i[1] = v => i = Row(v)
              /\ i[1] = n => i = Row(n)
              /\ Known(s, i) = DemoDepth(i[1])
              /\ \A r \in s[i].relata :
                   r \in Relatum /\ r.target \in C /\ DemoRelata(i[1], {ByConcept(r)})
  <2>1. i \in DOMAIN graph /\ i[1] \in Demo /\ i[1] \in DemoEntities \cup {v}
    BY <1>9 DEF T
  <2>2. (i[1] = v => i = Row(v)) /\ (i[1] = n => i = Row(n))
    BY <1>3, <2>1 DEF RowsFit
  <2>3. EndsAt(s[i].depths, DemoDepth(i[1]))
    BY <1>1, <1>11, <2>1 DEF DemoRows
  <2>4. Known(s, i) = DemoDepth(i[1])
    BY <2>3, KnownIsDeclared DEF Known
  <2>5. \A r \in s[i].relata : r \in Relatum /\ r.target \in C /\ DemoRelata(i[1], {ByConcept(r)})
    BY <1>1, <1>11, <2>1 DEF DemoRows
  <2> QED BY <2>1, <2>2, <2>4, <2>5
<1>14. View(s, v, n)
  BY <1>3, <1>8, <1>10, <1>11, <1>12, <1>13 DEF View
<1>15. ASSUME NEW l, GapDemo!At(l, "APPLIES_TO", n, 2) \in DeclaredRelata("gaps", v)
       PROVE  Applied(s, v, n, l)
  <2>1. PICK r \in graph[Row(v)].relata : r.target = Row(n) /\ r.source_depth = l /\ r.target_depth = 2
    BY <1>2, <1>15, DeclaredRow
  <2>2. r \in s[Row(v)].relata
    BY <1>8, <1>11, <2>1
  <2> QED BY <2>1, <2>2 DEF Applied
<1> QED BY <1>5, <1>6, <1>14, <1>15 DEF s

\* The entity leads to another primitive of the view.
Joined(s, n) == \E r \in s[Row(n)].relata : r.target # Row(n)

\* The path that the entity requires is resolved with it.
LEMMA EntityIsJoined ==
  ASSUME RowsFit(graph), Matches(graph, "gaps"), NEW v \in DemoActions, NEW n \in {"file", "directory"}
  PROVE  Joined(Subgraph(graph, <<v, n>>), n)
<1> DEFINE C == Collected(graph, <<v, n>>)
           succ == TransitiveSucc(graph)
<1>1. DemoRows /\ n \in Demo /\ "path" \in Demo
  BY DemoLeavesRows, DemoDeclares, DemoRequires DEF Demo
<1>2. /\ Row(n) \in DOMAIN graph /\ Row(n)[1] = n
      /\ Row("path") \in DOMAIN graph /\ Row("path")[1] = "path"
  BY <1>1 DEF DemoRows
<1>3. PICK r \in graph[Row(n)].relata : r.rel_type = "REQUIRES" /\ r.target = Row("path")
  BY <1>1, DemoRequires, DeclaredRow
<1>4. DOMAIN succ = DOMAIN graph /\ Row("path") \in succ[Row(n)]
  <2>1. Row("path") \in TransitiveTargets(graph[Row(n)])
    BY <1>3 DEF TransitiveTargets, TransitiveTypes
  <2> QED BY <1>2, <2>1 DEF TransitiveSucc
<1> HIDE DEF succ
<1>5. Row(n) \in C /\ C \subseteq DOMAIN graph
  <2>1. Row(n) \in Roots(graph, <<v, n>>)
    BY DemoResolves
  <2> QED BY <1>2, <1>4, <2>1, ReachStart DEF Collected, succ
<1>6. Row("path") \in C
  BY <1>2, <1>4, <1>5, ReachClosed DEF Collected, succ
<1> HIDE DEF C
<1>7. Subgraph(graph, <<v, n>>)[Row(n)] = [graph[Row(n)] EXCEPT !.relata = {x \in graph[Row(n)].relata : x.target \in C}]
  BY <1>5 DEF Subgraph, C
<1>8. graph[Row(n)] \in Primitive
  BY <1>2 DEF RowsFit
<1>9. Subgraph(graph, <<v, n>>)[Row(n)].relata = {x \in graph[Row(n)].relata : x.target \in C}
  BY ONLY <1>7, <1>8 DEF Primitive
<1>10. r.target # Row(n)
  BY <1>2, <1>3
<1> QED BY <1>3, <1>6, <1>9, <1>10 DEF Joined

\* An edge of the view, told by its ends.
LEMMA ViewEdges ==
  ASSUME NEW s, NEW v, NEW n, View(s, v, n), NEW e \in Edges(s)
  PROVE  /\ e.source \in DOMAIN s /\ e.relatum \in s[e.source].relata
         /\ e.relatum.target \in DOMAIN s /\ e.relatum.target[1] \in DemoEntities
         /\ e.relatum.source_depth \in Level /\ e.relatum.target_depth \in Level
         /\ e.source[1] # "delete"
         /\ e.source[1] = "create" => e.relatum.source_depth = 3
         /\ e.source[1] # "create" =>
              /\ e.relatum.source_depth <= Known(s, e.source)
              /\ \/ e.relatum.target_depth <= Known(s, e.relatum.target)
                 \/ e.source[1] = "read" /\ e.relatum.target[1] = "file" /\ e.relatum.target_depth = 2
<1>1. PICK i \in DOMAIN s : \E x \in s[i].relata : e = [source |-> i, relatum |-> x]
  BY DEF Edges
<1>2. PICK r \in s[i].relata : e = [source |-> i, relatum |-> r]
  BY <1>1
<1>3. e.source = i /\ e.relatum = r
  BY <1>2
<1>4. /\ r \in Relatum /\ r.target \in DOMAIN s /\ DemoRelata(i[1], {ByConcept(r)})
      /\ Known(s, i) = DemoDepth(i[1]) /\ Known(s, r.target) = DemoDepth(r.target[1])
  BY DEF View
<1>5. /\ ByConcept(r).target = r.target[1] /\ ByConcept(r).source_depth = r.source_depth
      /\ ByConcept(r).target_depth = r.target_depth
      /\ r.source_depth \in Level /\ r.target_depth \in Level
  BY <1>4 DEF ByConcept, Relatum
<1>6. /\ i[1] # "delete"
      /\ r.target[1] \in DemoEntities
      /\ IF i[1] = "create" THEN r.source_depth = 3
         ELSE /\ r.source_depth \in 1..DemoDepth(i[1])
              /\ \/ r.target_depth \in 0..DemoDepth(r.target[1])
                 \/ i[1] = "read" /\ r.target[1] = "file" /\ r.target_depth = 2
  BY <1>4, <1>5 DEF DemoRelata
<1>7. \A m : DemoDepth(m) \in 1..3
  BY DEF DemoDepth
<1> QED BY <1>3, <1>4, <1>5, <1>6, <1>7


\* Only what create is applied to is gated, and everything there is known.
LEMMA ViewGates ==
  ASSUME NEW s, NEW v, NEW n, View(s, v, n)
  PROVE  /\ \A e \in Edges(s) : e \in GatedEdges(s) <=> e.source[1] = "create"
         /\ \A e \in Edges(s) : e \in VisibleEdges(s) <=> e.source[1] # "create"
         /\ GatedEdges(s) \subseteq Edges(s) /\ VisibleEdges(s) \subseteq Edges(s)
         /\ \A i \in DOMAIN s : Known(s, i) \in 1..3
<1>1. \A i \in DOMAIN s : Known(s, i) = DemoDepth(i[1])
  BY DEF View
<1>2. \A i \in DOMAIN s : Known(s, i) \in 1..3 /\ (i[1] = "create" => Known(s, i) = 1)
  BY <1>1 DEF DemoDepth
<1>3. ASSUME NEW e \in Edges(s)
      PROVE  Known(s, e.source) >= e.relatum.source_depth <=> e.source[1] # "create"
  <2>1. /\ e.source \in DOMAIN s /\ e.relatum.source_depth \in Level
        /\ e.source[1] = "create" => e.relatum.source_depth = 3
        /\ e.source[1] # "create" => e.relatum.source_depth <= Known(s, e.source)
    BY ViewEdges
  <2> QED BY <1>2, <2>1 DEF Level
<1> QED BY <1>2, <1>3 DEF VisibleEdges, GatedEdges

-----------------------------------------------------------------------------
(* The gaps demo: the gaps of each query *)

DemoRoots(v, n) == {Row(v), Row(n)}
DemoVisible(s, v, n) == FrontierVisible(s, DemoRoots(v, n))
DemoGated(s, v, n) == FrontierGated(s, DemoRoots(v, n))

\* Both roots are on the frontier, so what leaves them counts.
LEMMA ViewFrontier ==
  ASSUME NEW s, NEW v, NEW n, View(s, v, n)
  PROVE  /\ DemoVisible(s, v, n) \subseteq VisibleEdges(s) /\ DemoGated(s, v, n) \subseteq GatedEdges(s)
         /\ \A e \in VisibleEdges(s) : e.source \in DemoRoots(v, n) => e \in DemoVisible(s, v, n)
         /\ \A e \in GatedEdges(s) : e.source \in DemoRoots(v, n) => e \in DemoGated(s, v, n)
<1> DEFINE R == DemoRoots(v, n)
           succ == SuccOver(s, VisibleEdges(s))
<1>1. R \subseteq DOMAIN s
  BY DEF View, DemoRoots
<1>2. DOMAIN succ = DOMAIN s
  BY DEF SuccOver
<1>3. R \subseteq Frontier(s, R)
  BY <1>1, <1>2, ReachStart DEF Frontier
<1> QED BY <1>3 DEF DemoVisible, DemoGated, FrontierVisible, FrontierGated, LeavingOf

\* The relatum of the action to the entity, as an edge.
LEMMA AppliedEdge ==
  ASSUME NEW s, NEW v, NEW n, View(s, v, n), NEW l, Applied(s, v, n, l)
  PROVE  \E e \in Edges(s) : /\ e.source = Row(v) /\ e.relatum.target = Row(n)
                            /\ e.relatum.source_depth = l /\ e.relatum.target_depth = 2
<1>1. PICK r \in s[Row(v)].relata : r.target = Row(n) /\ r.source_depth = l /\ r.target_depth = 2
  BY DEF Applied
<1> DEFINE e == [source |-> Row(v), relatum |-> r]
<1>2. Row(v) \in DOMAIN s
  BY DEF View
<1>3. e \in Edges(s)
  BY <1>2 DEF Edges
<1>4. e.source = Row(v) /\ e.relatum = r
  OBVIOUS
<1> HIDE DEF e
<1> QED BY <1>1, <1>3, <1>4

\* The highest of a single demand.
LEMMA HighestOfOne == ASSUME NEW l \in Int PROVE Highest({l}) = l
BY DEF Highest

\* No floor: without a gated edge nothing asks for a depth.
LEMMA NoDepthGaps ==
  ASSUME NEW s, NEW v, NEW n, View(s, v, n), v # "create"
  PROVE  DepthGaps(s, DemoRoots(v, n), DemoGated(s, v, n), None) = {}
<1> DEFINE H == DemoGated(s, v, n)
<1>1. \A e \in Edges(s) : e.source[1] \in DemoEntities \cup {v}
  BY ViewEdges DEF View
<1>2. H = {}
  <2>1. \A e \in Edges(s) : e.source[1] # "create"
    BY <1>1 DEF DemoEntities
  <2> QED BY <2>1, ViewGates, ViewFrontier
<1>3. \A i \in DOMAIN s : ~(Known(s, i) < None)
  BY ViewGates DEF None
<1> HIDE DEF H
<1>4. \A i \in DOMAIN s : DepthDemands(s, DemoRoots(v, n), H, None, i) = {}
  BY <1>2, <1>3 DEF DepthDemands, LeavingOf
<1> QED BY <1>4 DEF DepthGaps, H

\* The gated relata of create ask one depth of it.
LEMMA CreateDepthGap ==
  ASSUME NEW s, NEW n, View(s, "create", n), Applied(s, "create", n, 3)
  PROVE  DepthGaps(s, DemoRoots("create", n), DemoGated(s, "create", n), None)
           = {DepthGap(s, Row("create"), 3)}
<1> DEFINE H == DemoGated(s, "create", n)
           c == Row("create")
           demands(i) == DepthDemands(s, DemoRoots("create", n), H, None, i)
<1>1. c \in DOMAIN s /\ c \in DemoRoots("create", n)
  BY DEF View, DemoRoots
<1>2. \A e \in H : e.source = c /\ e.relatum.source_depth = 3
  <2>1. \A e \in H : e \in Edges(s) /\ e.source[1] = "create"
    BY ViewGates, ViewFrontier
  <2>2. \A e \in H : e.source \in DOMAIN s /\ e.relatum.source_depth = 3
    BY <2>1, ViewEdges
  <2> QED BY <2>1, <2>2 DEF View
<1>3. PICK e \in Edges(s) : e.source = c
  BY AppliedEdge
<1>4. c[1] = "create"
  BY DEF View
<1>5. e \in H
  BY <1>1, <1>3, <1>4, ViewGates, ViewFrontier
<1>6. \A i \in DOMAIN s : ~(Known(s, i) < None)
  BY ViewGates DEF None
<1> HIDE DEF H, c
<1>7. \A i \in DOMAIN s : demands(i) = {x.relatum.source_depth : x \in LeavingOf(H, {i})}
  BY <1>6 DEF DepthDemands
<1>8. demands(c) = {3}
  BY <1>1, <1>2, <1>3, <1>5, <1>7 DEF LeavingOf
<1>9. \A i \in DOMAIN s : i # c => demands(i) = {}
  BY <1>2, <1>7 DEF LeavingOf
<1> HIDE DEF demands
<1>10. {i \in DOMAIN s : demands(i) # {}} = {c}
  BY <1>1, <1>8, <1>9
<1>11. Highest(demands(c)) = 3
  BY <1>8, HighestOfOne
<1>12. DepthGaps(s, DemoRoots("create", n), H, None)
         = {DepthGap(s, i, Highest(demands(i))) : i \in {j \in DOMAIN s : demands(j) # {}}}
  BY DEF DepthGaps, demands
<1>13. DepthGaps(s, DemoRoots("create", n), H, None) = {DepthGap(s, c, 3)}
  BY <1>10, <1>11, <1>12
<1> QED BY <1>13 DEF H, c

\* No visible relatum asks for more than its target has, but of read.
LEMMA NoRelationalGaps ==
  ASSUME NEW s, NEW v, NEW n, View(s, v, n), v # "read"
  PROVE  RelationalGaps(s, DemoVisible(s, v, n)) = {}
<1> DEFINE V == DemoVisible(s, v, n)
<1>1. \A e \in Edges(s) : e.source[1] # "read"
  <2>1. \A e \in Edges(s) : e.source[1] \in DemoEntities \cup {v}
    BY ViewEdges DEF View
  <2> QED BY <2>1 DEF DemoEntities
<1>2. \A e \in V : e \in Edges(s) /\ e.source[1] # "create"
  BY ViewGates, ViewFrontier
<1>3. \A e \in V : ~(Known(s, e.relatum.target) < e.relatum.target_depth)
  <2> TAKE e \in V
  <2>1. /\ e.relatum.target \in DOMAIN s /\ e.relatum.target_depth \in Level
        /\ e.relatum.target_depth <= Known(s, e.relatum.target)
    BY <1>1, <1>2, ViewEdges
  <2>2. Known(s, e.relatum.target) \in 1..3
    BY <2>1, ViewGates
  <2> QED BY <2>1, <2>2 DEF Level
<1> HIDE DEF V
<1>4. \A i, t : RelationalDemands(s, V, i, t) = {}
  BY <1>3 DEF RelationalDemands, LeavingOf
<1> QED BY <1>4 DEF RelationalGaps, V

\* read asks of the file one level more than it has, and nothing else does.
LEMMA ReadRelationalGap ==
  ASSUME NEW s, View(s, "read", "file"), Applied(s, "read", "file", 2)
  PROVE  RelationalGaps(s, DemoVisible(s, "read", "file"))
           = {RelationalGap(s, Row("read"), Row("file"), 2)}
<1> DEFINE V == DemoVisible(s, "read", "file")
           a == Row("read")
           b == Row("file")
           demands(i, t) == RelationalDemands(s, V, i, t)
<1>1. a \in DOMAIN s /\ b \in DOMAIN s /\ a \in DemoRoots("read", "file") /\ a[1] = "read"
  BY DEF View, DemoRoots
<1>2. Known(s, b) = 1
  BY DEF View, DemoDepth
<1>3. ASSUME NEW e \in V, Known(s, e.relatum.target) < e.relatum.target_depth
      PROVE  e.source = a /\ e.relatum.target = b /\ e.relatum.target_depth = 2
  <2>1. e \in Edges(s) /\ e.source[1] # "create"
    BY ViewGates, ViewFrontier
  <2>2. /\ e.source \in DOMAIN s /\ e.relatum.target \in DOMAIN s /\ e.relatum.target_depth \in Level
        /\ \/ e.relatum.target_depth <= Known(s, e.relatum.target)
           \/ e.source[1] = "read" /\ e.relatum.target[1] = "file" /\ e.relatum.target_depth = 2
    BY <2>1, ViewEdges
  <2>3. Known(s, e.relatum.target) \in 1..3
    BY <2>2, ViewGates
  <2>4. e.source[1] = "read" /\ e.relatum.target[1] = "file" /\ e.relatum.target_depth = 2
    BY <1>3, <2>2, <2>3 DEF Level
  <2> QED BY <2>2, <2>4 DEF View
<1>4. PICK e \in Edges(s) : e.source = a /\ e.relatum.target = b /\ e.relatum.target_depth = 2
  BY AppliedEdge
<1>5. e \in V
  BY <1>1, <1>4, ViewGates, ViewFrontier
<1> HIDE DEF V, a, b
<1>6. demands(a, b) = {2}
  BY <1>2, <1>3, <1>4, <1>5 DEF RelationalDemands, LeavingOf
<1>7. \A i, t : demands(i, t) # {} => i = a /\ t = b
  BY <1>3 DEF RelationalDemands, LeavingOf
<1> HIDE DEF demands
<1>8. {w \in (DOMAIN s) \X (DOMAIN s) : demands(w[1], w[2]) # {}} = {<<a, b>>}
  BY <1>1, <1>6, <1>7
<1>9. Highest(demands(a, b)) = 2
  BY <1>6, HighestOfOne
<1>10. RelationalGaps(s, V)
         = {RelationalGap(s, p[1], p[2], Highest(demands(p[1], p[2]))) :
              p \in {w \in (DOMAIN s) \X (DOMAIN s) : demands(w[1], w[2]) # {}}}
  BY DEF RelationalGaps, demands
<1>11. RelationalGaps(s, V) = {RelationalGap(s, a, b, 2)}
  <2> DEFINE gap(w) == RelationalGap(s, w[1], w[2], Highest(demands(w[1], w[2])))
  <2>1. RelationalGaps(s, V) = {gap(w) : w \in {<<a, b>>}}
    BY <1>8, <1>10
  <2>2. gap(<<a, b>>) = RelationalGap(s, a, b, 2)
    BY <1>9
  <2> HIDE DEF gap
  <2> QED BY <2>1, <2>2
<1> QED BY <1>11 DEF V, a, b

\* The component of a node is closed under the edges in both directions, and
\* is the least such set that holds it.
LEMMA ComponentClosed ==
  ASSUME NEW s, NEW V, NEW a \in DOMAIN s,
         \A e \in V : e.source \in DOMAIN s /\ e.relatum.target \in DOMAIN s
  PROVE  /\ Component(s, V, a) \subseteq DOMAIN s
         /\ a \in Component(s, V, a)
         /\ \A e \in V : e.source \in Component(s, V, a) <=> e.relatum.target \in Component(s, V, a)
         /\ \A S \in SUBSET DOMAIN s :
              a \in S /\ (\A e \in V : e.source \in S <=> e.relatum.target \in S)
                => Component(s, V, a) \subseteq S
<1> DEFINE nbrs == [j \in DOMAIN s |-> {e.relatum.target : e \in LeavingOf(V, {j})}
                                         \cup {e.source : e \in {f \in V : f.relatum.target = j}}]
           C == ReachFrom({a}, nbrs)
<1>1. Component(s, V, a) = C
  BY DEF Component
<1>2. DOMAIN nbrs = DOMAIN s
  OBVIOUS
<1>3. \A e \in V : e.relatum.target \in nbrs[e.source] /\ e.source \in nbrs[e.relatum.target]
  <2> TAKE e \in V
  <2>1. e \in LeavingOf(V, {e.source})
    BY DEF LeavingOf
  <2> QED BY <2>1
<1>4. \A j \in DOMAIN s : \A k \in nbrs[j] :
        \E e \in V : \/ e.source = j /\ e.relatum.target = k
                     \/ e.relatum.target = j /\ e.source = k
  BY DEF LeavingOf
<1> HIDE DEF nbrs
<1>5. C \subseteq DOMAIN s /\ a \in C
  BY <1>2, ReachStart
<1>6. \A e \in V : e.source \in C <=> e.relatum.target \in C
  BY <1>2, <1>3, ReachClosed
<1>7. ASSUME NEW S \in SUBSET DOMAIN s, a \in S,
             \A e \in V : e.source \in S <=> e.relatum.target \in S
      PROVE  C \subseteq S
  <2>1. \A j \in S : nbrs[j] \cap DOMAIN nbrs \subseteq S
    BY <1>4, <1>7
  <2> QED BY <1>2, <1>7, <2>1, ReachLeast
<1> HIDE DEF C
<1> QED BY <1>1, <1>5, <1>6, <1>7

\* Of two roots one is the anchor, that of the larger component.
LEMMA AnchorOfTwo ==
  ASSUME NEW s, NEW v, NEW n, View(s, v, n), NEW V,
         \A e \in V : e.source \in DOMAIN s /\ e.relatum.target \in DOMAIN s
  PROVE  /\ Anchor(s, DemoRoots(v, n), V, <<v, n>>) \in DemoRoots(v, n)
         /\ Cardinality(Component(s, V, Row(n))) > Cardinality(Component(s, V, Row(v)))
              => Anchor(s, DemoRoots(v, n), V, <<v, n>>) = Row(n)
         /\ Cardinality(DemoRoots(v, n)) > 1
<1> DEFINE a == Row(v)
           b == Row(n)
           R == DemoRoots(v, n)
           size == [i \in R |-> Cardinality(Component(s, V, i))]
           pos(i) == Position(s, <<v, n>>, i)
<1>1. /\ a \in DOMAIN s /\ b \in DOMAIN s /\ s[a].name = v /\ s[b].name = n
      /\ v # n /\ a # b /\ R = {a, b} /\ IsFiniteSet(DOMAIN s)
  BY DEF View, DemoRoots, DemoActions
<1>2. pos(a) = 1
  <2>1. pos(a) = CHOOSE k \in DOMAIN <<v, n>> :
                   <<v, n>>[k] = v /\ \A j \in 1..(k - 1) : <<v, n>>[j] # v
    BY <1>1 DEF Position
  <2>2. \A k \in DOMAIN <<v, n>> : <<v, n>>[k] = v <=> k = 1
    BY <1>1
  <2>3. 1 \in DOMAIN <<v, n>> /\ \A j \in 1..(1 - 1) : <<v, n>>[j] # v
    OBVIOUS
  <2> QED BY <2>1, <2>2, <2>3
<1>3. pos(b) = 2
  <2>1. pos(b) = CHOOSE k \in DOMAIN <<v, n>> :
                   <<v, n>>[k] = n /\ \A j \in 1..(k - 1) : <<v, n>>[j] # n
    BY <1>1 DEF Position
  <2>2. \A k \in DOMAIN <<v, n>> : <<v, n>>[k] = n <=> k = 2
    BY <1>1
  <2>3. 2 \in DOMAIN <<v, n>> /\ \A j \in 1..(2 - 1) : <<v, n>>[j] # n
    BY <1>1
  <2> QED BY <2>1, <2>2, <2>3
<1>4. size[a] \in Nat /\ size[b] \in Nat
  <2>1. \A i \in R : Component(s, V, i) \subseteq DOMAIN s
    BY <1>1, ComponentClosed
  <2>2. \A i \in R : IsFiniteSet(Component(s, V, i))
    BY <1>1, <2>1, FS_Subset
  <2> QED BY <1>1, <2>2, FS_CardinalityType
<1>5. Anchor(s, R, V, <<v, n>>) =
        CHOOSE i \in R : \A j \in R \ {i} : \/ size[i] > size[j]
                                            \/ size[i] = size[j] /\ pos(i) < pos(j)
  BY DEF Anchor
<1>6. Cardinality(R) > 1
  <2>1. Cardinality({a}) = 1 /\ IsFiniteSet({a})
    BY FS_Singleton
  <2>2. Cardinality({a} \cup {b}) = 2
    <3> DEFINE S == {a}
    <3>1. IsFiniteSet(S) /\ Cardinality(S) = 1 /\ b \notin S
      BY <1>1, <2>1
    <3> HIDE DEF S
    <3>2. Cardinality(S \cup {b}) = 2
      BY <3>1, FS_AddElement
    <3> QED BY <3>2 DEF S
  <2>3. R = {a} \cup {b}
    BY <1>1
  <2> QED BY <2>2, <2>3
<1>9. /\ size[a] = Cardinality(Component(s, V, Row(v)))
      /\ size[b] = Cardinality(Component(s, V, Row(n)))
  BY <1>1
<1> HIDE DEF size, pos, a, b, R
<1>7. \E i \in R : \A j \in R \ {i} : \/ size[i] > size[j]
                                      \/ size[i] = size[j] /\ pos(i) < pos(j)
  <2>1. CASE size[a] >= size[b]
    BY <1>1, <1>2, <1>3, <1>4, <2>1
  <2>2. CASE size[b] > size[a]
    BY <1>1, <2>2
  <2> QED BY <1>4, <2>1, <2>2
<1>8. /\ Anchor(s, R, V, <<v, n>>) \in R
      /\ size[b] > size[a] => Anchor(s, R, V, <<v, n>>) = b
  <2> DEFINE A == Anchor(s, R, V, <<v, n>>)
  <2>1. /\ A \in R
        /\ \A j \in R \ {A} : size[A] > size[j] \/ (size[A] = size[j] /\ pos(A) < pos(j))
    BY <1>5, <1>7
  <2> HIDE DEF A
  <2>2. size[b] > size[a] => A = b
    BY <1>1, <1>4, <2>1
  <2> QED BY <2>1, <2>2 DEF A
<1> QED BY <1>6, <1>8, <1>9 DEF R, b

\* An action whose relatum is visible is in one component with the entity.
LEMMA NoReachabilityGaps ==
  ASSUME NEW s, NEW v, NEW n, View(s, v, n), v # "create", NEW l, Applied(s, v, n, l)
  PROVE  ReachabilityGaps(s, DemoRoots(v, n), DemoVisible(s, v, n), <<v, n>>) = {}
<1> DEFINE V == DemoVisible(s, v, n)
           A == Anchor(s, DemoRoots(v, n), V, <<v, n>>)
<1>1. /\ Row(v) \in DOMAIN s /\ Row(v)[1] = v /\ Row(n) \in DOMAIN s
      /\ Row(v) \in DemoRoots(v, n) /\ DemoRoots(v, n) = {Row(v), Row(n)}
  BY DEF View, DemoRoots
<1>2. \A e \in V : e.source \in DOMAIN s /\ e.relatum.target \in DOMAIN s
  BY ViewEdges, ViewGates, ViewFrontier
<1>3. PICK e \in Edges(s) : e.source = Row(v) /\ e.relatum.target = Row(n)
  BY AppliedEdge
<1>4. e \in V
  BY <1>1, <1>3, ViewGates, ViewFrontier
<1>5. A \in DemoRoots(v, n)
  BY <1>2, AnchorOfTwo
<1> HIDE DEF A, V
<1>6. A \in DOMAIN s
  BY <1>1, <1>5
<1>7. A \in Component(s, V, A) /\ (Row(v) \in Component(s, V, A) <=> Row(n) \in Component(s, V, A))
  BY <1>2, <1>3, <1>4, <1>6, ComponentClosed
<1>8. DemoRoots(v, n) \subseteq Component(s, V, A)
  BY <1>1, <1>5, <1>7
<1>9. ReachabilityGaps(s, DemoRoots(v, n), V, <<v, n>>) = {}
  BY <1>8 DEF ReachabilityGaps, A
<1> QED BY <1>9 DEF V

\* An action without a visible relatum is alone in its component; the entity
\* is not, so it is the anchor, and the action is what is named.
LEMMA OneReachabilityGap ==
  ASSUME NEW s, NEW v, NEW n, View(s, v, n), v \in {"delete", "create"}, Joined(s, n)
  PROVE  ReachabilityGaps(s, DemoRoots(v, n), DemoVisible(s, v, n), <<v, n>>)
           = {[kind |-> "REACHABILITY", id |-> Row(v), name |-> v]}
<1> DEFINE V == DemoVisible(s, v, n)
           R == DemoRoots(v, n)
           A == Anchor(s, R, V, <<v, n>>)
           a == Row(v)
           b == Row(n)
<1>1. /\ a \in DOMAIN s /\ a[1] = v /\ s[a].name = v /\ b \in DOMAIN s /\ b[1] = n
      /\ R = {a, b} /\ a # b /\ n # "create" /\ IsFiniteSet(DOMAIN s)
  BY DEF View, DemoRoots, DemoActions
<1>2. \A e \in V : e.source \in DOMAIN s /\ e.relatum.target \in DOMAIN s
  BY ViewEdges, ViewGates, ViewFrontier
<1>3. \A e \in V : e.source # a /\ e.relatum.target # a
  <2> TAKE e \in V
  <2>1. e \in Edges(s) /\ e.source[1] # "create"
    BY ViewGates, ViewFrontier
  <2>2. e.source[1] # "delete" /\ e.relatum.target[1] \in DemoEntities
    BY <2>1, ViewEdges
  <2> QED BY <1>1, <2>1, <2>2 DEF DemoEntities
<1>4. PICK e \in V : e.source = b /\ e.relatum.target # b
  <2>1. PICK r \in s[b].relata : r.target # b
    BY DEF Joined
  <2> DEFINE x == [source |-> b, relatum |-> r]
  <2>2. x \in Edges(s) /\ x.source = b /\ x.relatum.target # b
    BY <1>1, <2>1 DEF Edges
  <2> HIDE DEF x
  <2>3. x.source[1] # "create" /\ x.source \in R
    BY <1>1, <2>2
  <2>4. x \in V
    BY <2>2, <2>3, ViewGates, ViewFrontier
  <2> QED BY <2>2, <2>4
<1> HIDE DEF a, b, R, V
<1>5. Component(s, V, a) = {a}
  <2>1. {a} \in SUBSET DOMAIN s /\ \A x \in V : x.source \in {a} <=> x.relatum.target \in {a}
    BY <1>1, <1>3
  <2>2. /\ a \in Component(s, V, a)
        /\ \A S \in SUBSET DOMAIN s :
             a \in S /\ (\A x \in V : x.source \in S <=> x.relatum.target \in S)
               => Component(s, V, a) \subseteq S
    BY <1>1, <1>2, ComponentClosed
  <2>3. Component(s, V, a) \subseteq {a}
    BY <2>1, <2>2
  <2> QED BY <2>2, <2>3
<1>6. a \notin Component(s, V, b)
  <2> DEFINE S == DOMAIN s \ {a}
  <2>1. S \in SUBSET DOMAIN s /\ b \in S /\ \A x \in V : x.source \in S <=> x.relatum.target \in S
    BY <1>1, <1>2, <1>3
  <2>2. a \notin S
    OBVIOUS
  <2> HIDE DEF S
  <2>3. Component(s, V, b) \subseteq S
    BY <1>1, <1>2, <2>1, ComponentClosed
  <2> QED BY <2>2, <2>3
<1>7. Cardinality(Component(s, V, b)) > Cardinality(Component(s, V, a))
  <2>1. b \in Component(s, V, b) /\ e.relatum.target \in Component(s, V, b)
    BY <1>1, <1>2, <1>4, ComponentClosed
  <2>2. IsFiniteSet(Component(s, V, b))
    BY <1>1, <1>2, ComponentClosed, FS_Subset
  <2>3. Cardinality({a}) = 1
    BY FS_Singleton
  <2> DEFINE B == {b}
             t == e.relatum.target
             D == B \cup {t}
  <2>4. IsFiniteSet(B) /\ Cardinality(B) = 1 /\ t \notin B
    BY <1>4, FS_Singleton
  <2>5. D \subseteq Component(s, V, b)
    BY <2>1
  <2> HIDE DEF B, t
  <2>6. Cardinality(B \cup {t}) = 2
    <3>1. Cardinality(B \cup {t}) = Cardinality(B) + 1
      BY <2>4, FS_AddElement
    <3> QED BY <2>4, <3>1
  <2> HIDE DEF D
  <2>7. Cardinality(D) <= Cardinality(Component(s, V, b)) /\ Cardinality(Component(s, V, b)) \in Nat
    BY <2>2, <2>5, FS_Subset, FS_CardinalityType
  <2>8. Cardinality(D) = 2
    BY <2>6 DEF D
  <2> QED BY <1>5, <2>3, <2>7, <2>8
<1>8. A = b /\ Cardinality(R) > 1
  BY <1>2, <1>7, AnchorOfTwo DEF a, b, R
<1> HIDE DEF A
<1>9. R \ Component(s, V, A) = {a}
  <2>1. b \in Component(s, V, b)
    BY <1>1, <1>2, ComponentClosed
  <2> QED BY <1>1, <1>6, <1>8, <2>1
<1>10. ReachabilityGaps(s, R, V, <<v, n>>)
         = {[kind |-> "REACHABILITY", id |-> i, name |-> s[i].name] : i \in R \ Component(s, V, A)}
  BY <1>8 DEF ReachabilityGaps, A
<1>11. ReachabilityGaps(s, R, V, <<v, n>>) = {[kind |-> "REACHABILITY", id |-> a, name |-> v]}
  BY <1>1, <1>9, <1>10
<1> QED BY <1>11 DEF a, R, V

-----------------------------------------------------------------------------
(* The gaps demo: what it prints *)

\* The gaps of a query of the demo are those of its subgraph.
LEMMA DemoQuery ==
  ASSUME RowsFit(graph), Matches(graph, "gaps"), NEW v \in DemoActions, NEW n \in {"file", "directory"}
  PROVE  LET s == Subgraph(graph, <<v, n>>)
         IN  Gaps(graph, <<v, n>>, None)
               = DepthGaps(s, DemoRoots(v, n), DemoGated(s, v, n), None)
                   \cup RelationalGaps(s, DemoVisible(s, v, n))
                   \cup ReachabilityGaps(s, DemoRoots(v, n), DemoVisible(s, v, n), <<v, n>>)
<1>1. Roots(graph, <<v, n>>) = DemoRoots(v, n) /\ ExistenceGaps(graph, <<v, n>>) = {}
  BY DemoResolves DEF DemoRoots
<1> QED BY <1>1 DEF Gaps, DemoVisible, DemoGated, FrontierVisible, FrontierGated

\* list on a directory is grounded.
LEMMA ListIsGrounded ==
  ASSUME RowsFit(graph), Matches(graph, "gaps")
  PROVE  Gaps(graph, <<"list", "directory">>, None) = {}
<1> DEFINE s == Subgraph(graph, <<"list", "directory">>)
<1>1. "list" \in DemoActions
  BY DEF DemoActions
<1>2. View(s, "list", "directory") /\ Applied(s, "list", "directory", 2)
  BY <1>1, DemoResolves, DemoDeclares DEF DemoApplied
<1>3. Gaps(graph, <<"list", "directory">>, None)
        = DepthGaps(s, DemoRoots("list", "directory"), DemoGated(s, "list", "directory"), None)
            \cup RelationalGaps(s, DemoVisible(s, "list", "directory"))
            \cup ReachabilityGaps(s, DemoRoots("list", "directory"),
                                  DemoVisible(s, "list", "directory"), <<"list", "directory">>)
  BY <1>1, DemoQuery
<1> HIDE DEF s
<1> QED BY <1>2, <1>3, NoDepthGaps, NoRelationalGaps, NoReachabilityGaps

\* The row of a concept of the demo has its name.
LEMMA RowName ==
  ASSUME RowsFit(graph), Matches(graph, "gaps"), NEW n \in DemoActions \cup {"file", "directory"}
  PROVE  graph[Row(n)].name = n
<1>1. Row(n) \in DOMAIN graph /\ Row(n)[1] = n
  BY DemoLeavesRows, DemoDeclares DEF DemoRows, Demo
<1> QED BY <1>1 DEF RowsFit

\* A query of one gap blames it alone.
LEMMA BlamedOfOne ==
  ASSUME NEW q, NEW p, Gaps(graph, q, None) = {p}, p.kind # "EXISTENCE"
  PROVE  Blamed(q) = {<<p.kind, graph[p.id].name>>}
BY DEF Blamed

\* read on a file asks the file for D2.
LEMMA ReadIsRelational ==
  ASSUME RowsFit(graph), Matches(graph, "gaps")
  PROVE  /\ Blamed(<<"read", "file">>) = {<<"RELATIONAL", "file">>}
         /\ \A p \in Gaps(graph, <<"read", "file">>, None) :
              graph[p.source].name = "read" /\ p.required = 2 /\ p.current = 1
<1> DEFINE s == Subgraph(graph, <<"read", "file">>)
           p == RelationalGap(s, Row("read"), Row("file"), 2)
<1>1. "read" \in DemoActions
  BY DEF DemoActions
<1>2. View(s, "read", "file") /\ Applied(s, "read", "file", 2)
  BY <1>1, DemoResolves, DemoDeclares DEF DemoApplied
<1>3. Gaps(graph, <<"read", "file">>, None)
        = DepthGaps(s, DemoRoots("read", "file"), DemoGated(s, "read", "file"), None)
            \cup RelationalGaps(s, DemoVisible(s, "read", "file"))
            \cup ReachabilityGaps(s, DemoRoots("read", "file"),
                                  DemoVisible(s, "read", "file"), <<"read", "file">>)
  BY <1>1, DemoQuery
<1> HIDE DEF s
<1>4. Known(s, Row("file")) = 1
  BY <1>2 DEF View, DemoDepth
<1>5. /\ p.kind = "RELATIONAL" /\ p.source = Row("read") /\ p.id = Row("file")
      /\ p.required = 2 /\ p.current = 1
  BY <1>4 DEF RelationalGap
<1> HIDE DEF p
<1>6. Gaps(graph, <<"read", "file">>, None) = {p}
  BY <1>2, <1>3, NoDepthGaps, ReadRelationalGap, NoReachabilityGaps DEF p
<1>7. graph[p.source].name = "read" /\ graph[p.id].name = "file"
  BY <1>1, <1>5, RowName
<1>8. Blamed(<<"read", "file">>) = {<<p.kind, graph[p.id].name>>}
  BY <1>5, <1>6, BlamedOfOne
<1> QED BY <1>5, <1>6, <1>7, <1>8

\* delete leads nowhere, and is what the engine names.
LEMMA DeleteIsUnreachable ==
  ASSUME RowsFit(graph), Matches(graph, "gaps"), NEW n \in {"file", "directory"}
  PROVE  Blamed(<<"delete", n>>) = {<<"REACHABILITY", "delete">>}
<1> DEFINE s == Subgraph(graph, <<"delete", n>>)
           p == [kind |-> "REACHABILITY", id |-> Row("delete"), name |-> "delete"]
<1>1. "delete" \in DemoActions
  BY DEF DemoActions
<1>2. View(s, "delete", n) /\ Joined(s, n)
  BY <1>1, DemoResolves, EntityIsJoined
<1>3. Gaps(graph, <<"delete", n>>, None)
        = DepthGaps(s, DemoRoots("delete", n), DemoGated(s, "delete", n), None)
            \cup RelationalGaps(s, DemoVisible(s, "delete", n))
            \cup ReachabilityGaps(s, DemoRoots("delete", n), DemoVisible(s, "delete", n), <<"delete", n>>)
  BY <1>1, DemoQuery
<1> HIDE DEF s
<1>4. Gaps(graph, <<"delete", n>>, None) = {p}
  BY <1>2, <1>3, NoDepthGaps, NoRelationalGaps, OneReachabilityGap
<1>5. p.kind = "REACHABILITY" /\ p.id = Row("delete")
  OBVIOUS
<1> HIDE DEF p
<1>6. graph[p.id].name = "delete"
  BY <1>1, <1>5, RowName
<1>7. Blamed(<<"delete", n>>) = {<<p.kind, graph[p.id].name>>}
  BY <1>4, <1>5, BlamedOfOne
<1> QED BY <1>5, <1>6, <1>7

\* create lacks the depth its relata hang on, and so leads nowhere.
LEMMA CreateIsGated ==
  ASSUME RowsFit(graph), Matches(graph, "gaps"), NEW n \in {"file", "directory"}
  PROVE  /\ Blamed(<<"create", n>>) = {<<"DEPTH", "create">>, <<"REACHABILITY", "create">>}
         /\ \A p \in Gaps(graph, <<"create", n>>, None) :
              p.kind = "DEPTH" => p.required = 3 /\ p.current = 1
<1> DEFINE s == Subgraph(graph, <<"create", n>>)
           gaps == Gaps(graph, <<"create", n>>, None)
           p == [kind |-> "REACHABILITY", id |-> Row("create"), name |-> "create"]
           d == DepthGap(s, Row("create"), 3)
<1>1. "create" \in DemoActions
  BY DEF DemoActions
<1>2. View(s, "create", n) /\ Applied(s, "create", n, 3) /\ Joined(s, n)
  BY <1>1, DemoResolves, DemoDeclares, EntityIsJoined DEF DemoApplied
<1>3. gaps = DepthGaps(s, DemoRoots("create", n), DemoGated(s, "create", n), None)
               \cup RelationalGaps(s, DemoVisible(s, "create", n))
               \cup ReachabilityGaps(s, DemoRoots("create", n), DemoVisible(s, "create", n), <<"create", n>>)
  BY <1>1, DemoQuery
<1> HIDE DEF s
<1>4. Known(s, Row("create")) = 1
  BY <1>2 DEF View, DemoDepth
<1>5. /\ d.kind = "DEPTH" /\ d.id = Row("create") /\ d.required = 3 /\ d.current = 1
      /\ p.kind = "REACHABILITY" /\ p.id = Row("create")
  BY <1>4 DEF DepthGap
<1>6. gaps = {d, p}
  <2>1. /\ DepthGaps(s, DemoRoots("create", n), DemoGated(s, "create", n), None) = {d}
        /\ RelationalGaps(s, DemoVisible(s, "create", n)) = {}
    BY <1>2, CreateDepthGap, NoRelationalGaps
  <2>2. ReachabilityGaps(s, DemoRoots("create", n), DemoVisible(s, "create", n), <<"create", n>>) = {p}
    BY <1>2, OneReachabilityGap
  <2> HIDE DEF d, gaps, p
  <2> QED BY <1>3, <2>1, <2>2
<1> HIDE DEF d, p
<1>7. graph[d.id].name = "create" /\ graph[p.id].name = "create"
  BY <1>1, <1>5, RowName
<1>8. Blamed(<<"create", n>>)
        = {<<g.kind, IF g.kind = "EXISTENCE" THEN g.name ELSE graph[g.id].name>> : g \in {d, p}}
  BY <1>6 DEF Blamed
<1>9. Blamed(<<"create", n>>) = {<<"DEPTH", "create">>, <<"REACHABILITY", "create">>}
  <2> DEFINE who(g) == <<g.kind, IF g.kind = "EXISTENCE" THEN g.name ELSE graph[g.id].name>>
  <2>1. who(d) = <<"DEPTH", "create">> /\ who(p) = <<"REACHABILITY", "create">>
    BY <1>5, <1>7
  <2>2. Blamed(<<"create", n>>) = {who(g) : g \in {d, p}}
    BY <1>8
  <2> HIDE DEF who
  <2> QED BY <2>1, <2>2
<1> HIDE DEF gaps
<1>10. \A g \in gaps : g.kind = "DEPTH" => g.required = 3 /\ g.current = 1
  BY <1>5, <1>6
<1> QED BY <1>9, <1>10 DEF gaps

\* "list directory" is grounded; "read file" asks the file for the D2 it lacks;
\* "delete" leads nowhere, and "create" lacks the depth its relata hang on and
\* so leads nowhere, and it is the action that both are blamed on: what
\* seed_gaps.py prints after a run that nobody disturbed, whatever the graph
\* held before and whichever runs died on the way.
THEOREM SeedDemoGaps == Spec => []DemoGaps
<1>1. ASSUME RowsFit(graph), Matches(graph, "gaps")
      PROVE  /\ Grounded(graph, <<"list", "directory">>, None)
             /\ Blamed(<<"read", "file">>) = {<<"RELATIONAL", "file">>}
             /\ \A p \in Gaps(graph, <<"read", "file">>, None) :
                  graph[p.source].name = "read" /\ p.required = 2 /\ p.current = 1
             /\ \A n \in {"file", "directory"} :
                  /\ Blamed(<<"delete", n>>) = {<<"REACHABILITY", "delete">>}
                  /\ Blamed(<<"create", n>>) = {<<"DEPTH", "create">>, <<"REACHABILITY", "create">>}
                  /\ \A p \in Gaps(graph, <<"create", n>>, None) :
                       p.kind = "DEPTH" => p.required = 3 /\ p.current = 1
  <2>1. Grounded(graph, <<"list", "directory">>, None)
    BY <1>1, ListIsGrounded DEF Grounded
  <2> QED BY <1>1, <2>1, ReadIsRelational, DeleteIsUnreachable, CreateIsGated
<1>2. SeedInv => DemoGaps
  BY <1>1 DEF SeedInv, DemoGaps, Completed
<1> QED BY <1>2, SeedInvariant, PTL

=============================================================================
