------------------------------- MODULE Tracing -------------------------------
(***************************************************************************)
(* The trace recorder: one TraceManager, whose suppress() blocks share one *)
(* flag, and the TraceWriter that appends a line to the file of the day.   *)
(* A line is handed to the system in one write, which a full disk may cut  *)
(* short; the file is the sequence of what the system accepted.            *)
(***************************************************************************)
EXTENDS Naturals, Sequences, FiniteSets

Seqs == INSTANCE SequencesExt

CONSTANT MaxNest    \* bound: suppress() blocks open at once

ASSUME MaxNestAssumption == MaxNest \in Nat

VARIABLES
  suppressed,   \* TraceManager._suppressed
  blocks,       \* the open suppress() blocks, oldest first: thread, and the flag it found
  pending,      \* what each thread has left to write
  file,         \* the pieces in the file; a piece that is not cut ends its line
  asked,        \* history: the checks, and whether a block was open
  dropped,      \* history: the entries whose write failed
  crossed       \* history: a block was left while one opened later was still open

traceVars == <<suppressed, blocks, pending, file, asked, dropped, crossed>>

TracesInit(threads) ==
  /\ suppressed = FALSE
  /\ blocks = << >>
  /\ pending = [t \in threads |-> << >>]
  /\ file = << >>
  /\ asked = {}
  /\ dropped = {}
  /\ crossed = FALSE

Outside(t) == pending[t] = << >>

-----------------------------------------------------------------------------
(* suppress() *)

Enter(t) ==
  /\ Outside(t)
  /\ Len(blocks) < MaxNest
  /\ blocks' = Append(blocks, [thread |-> t, found |-> suppressed])
  /\ suppressed' = TRUE
  /\ UNCHANGED <<pending, file, asked, dropped, crossed>>

\* The block a thread entered last, if it is in one.
Innermost(t, k) ==
  /\ k \in DOMAIN blocks /\ blocks[k].thread = t
  /\ \A l \in (k + 1)..Len(blocks) : blocks[l].thread # t

Leave(t, k, flag) ==
  /\ Outside(t)
  /\ Innermost(t, k)
  /\ suppressed' = flag
  /\ blocks' = Seqs!RemoveAt(blocks, k)
  /\ crossed' = (crossed \/ k # Len(blocks))
  /\ UNCHANGED <<pending, file, asked, dropped>>

\* Fault: the block switches tracing on.
ExitUnsuppressed(t) == \E k \in DOMAIN blocks : Leave(t, k, FALSE)

\* finally, also when the block raises: the flag is what it was at the entry.
Exit(t) == \E k \in DOMAIN blocks : Leave(t, k, blocks[k].found)

-----------------------------------------------------------------------------
(* write_check and TraceWriter.write *)

\* Fault: the newline is written after the entry.
EntryThenNewline(e) == <<[entry |-> e, cut |-> TRUE], [entry |-> e, cut |-> FALSE]>>

\* What the line of an entry is written as: entry and newline in one piece.
Pieces(e) == <<[entry |-> e, cut |-> FALSE]>>

\* The entry of the check that is traced next.
Entry == [number |-> Cardinality(asked), inside |-> blocks # << >>]

\* A check: no trace when the flag is set.
WriteCheck(t) ==
  /\ Outside(t)
  /\ asked' = asked \cup {Entry}
  /\ pending' = [pending EXCEPT ![t] = IF suppressed THEN << >> ELSE Pieces(Entry)]
  /\ UNCHANGED <<suppressed, blocks, file, dropped, crossed>>

\* The file is opened for appending: a write goes to its end.
WriteLine(t) ==
  /\ pending[t] # << >>
  /\ file' = Append(file, Head(pending[t]))
  /\ pending' = [pending EXCEPT ![t] = Tail(@)]
  /\ UNCHANGED <<suppressed, blocks, asked, dropped, crossed>>

\* The disk takes part of the line, or nothing; the error is logged and dropped.
RunOutOfSpace(t) ==
  /\ pending[t] # << >>
  /\ file' \in {file, Append(file, [Head(pending[t]) EXCEPT !.cut = TRUE])}
  /\ dropped' = dropped \cup {Head(pending[t]).entry}
  /\ pending' = [pending EXCEPT ![t] = << >>]
  /\ UNCHANGED <<suppressed, blocks, asked, crossed>>

-----------------------------------------------------------------------------

\* An entry written to its end is alone on its line, "Each line is
\* independently valid JSON", whatever other threads write at the same time; the
\* part of an entry that a full disk cut short is all that can precede it.
LinesAreEntries ==
  \A k \in 2..Len(file) : ~file[k].cut /\ file[k - 1].cut =>
    file[k - 1].entry \in dropped \cup {file[k].entry}

\* While blocks are left in the reverse order of their entry, by whichever
\* threads, exactly the checks made with a block open are kept from the writer:
\* every other one is in the file, or its write failed.
SuppressedExactlyInside ==
  ~crossed /\ (\A t \in DOMAIN pending : Outside(t)) =>
    {file[k].entry : k \in DOMAIN file} \cup dropped = {a \in asked : ~a.inside}

=============================================================================
