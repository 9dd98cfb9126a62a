-------------------------- MODULE TranscriptReader --------------------------
(***************************************************************************)
(* How the Owner reads the transcript that another process writes          *)
(* (SessionFileTranscriptReader of session-manager-transcript.ts): one     *)
(* cursor over the complete records of a file, shared by the refreshes     *)
(* that yield between chunks and by the reads that do not, while the       *)
(* writer appends, leaves a torn record, continues or replaces it, and     *)
(* while the file is rewritten or replaced as a whole.                     *)
(*                                                                         *)
(* A record is two cells with the same number, its start and its end; a    *)
(* chunk is Chunk cells.                                                   *)
(***************************************************************************)
EXTENDS Naturals, Sequences, SequencesExt

CONSTANTS Refreshes, \* refreshes that may be on their way at once
          Chunk,     \* cells read between two yields
          MaxWrites  \* steps of the writer

VARIABLES
  file,    \* the file at the path: inode, cells, stamp (its mtime)
  fresh,   \* the next record number
  reader,  \* state (entries), cursor, position, partial, anchor; the stat of the last #open
  source,  \* #pending: the cells of the open file and how far it is read, or Closed
  calls    \* calls[r]: "idle", "reading" or "failed"

vars == <<file, fresh, reader, source, calls>>

Closed == [open |-> FALSE, inode |-> 0, size |-> 0]
NoAnchor == <<>>
Blank == [state |-> <<>>, cursor |-> 0, position |-> 0, partial |-> <<>>, anchor |-> NoAnchor]
NoStat == [inode |-> 0, size |-> 0, stamp |-> 0]

Init ==
  /\ file = [inode |-> 1, cells |-> <<1, 1>>, stamp |-> 1, old |-> <<>>] /\ fresh = 2
  /\ reader = [begun |-> FALSE, stat |-> NoStat, r |-> Blank]
  /\ source = Closed
  /\ calls = [r \in Refreshes |-> "idle"]

Complete(cells) == [i \in 1 .. Len(cells) \div 2 |-> cells[2 * i]]

-----------------------------------------------------------------------------
(* The writer.                                                             *)

Write(cells, used) ==
  /\ file.stamp <= MaxWrites
  /\ file' = [file EXCEPT !.cells = cells, !.stamp = @ + 1]
  /\ fresh' = fresh + used
  /\ UNCHANGED <<reader, source, calls>>

Torn == Len(file.cells) % 2 = 1
Append1 == ~Torn /\ Write(file.cells \o <<fresh, fresh>>, 1)
Tear == ~Torn /\ Write(Append(file.cells, fresh), 1)
Continue == Torn /\ Write(Append(file.cells, Last(file.cells)), 0)
ReplaceTail == Torn /\ Write(Front(file.cells) \o <<fresh, fresh>>, 1)
\* The same file with other records.  Between two chunks of a reader this would go unnoticed
\* if it leaves fewer records than were to be read; Pi rewrites a session only when it opens it.
Rewrite == ~source.open /\ Write(<<fresh, fresh, fresh + 1, fresh + 1>>, 2)
\* Another file at the path; one that is open stays readable.
Rename ==
  /\ file.stamp <= MaxWrites
  /\ file' = [inode |-> file.inode + 1, cells |-> <<fresh, fresh>>, stamp |-> file.stamp + 1,
              old |-> IF source.open /\ source.inode = file.inode THEN file.cells
                      ELSE file.old]
  /\ fresh' = fresh + 1
  /\ UNCHANGED <<reader, source, calls>>

-----------------------------------------------------------------------------
(* The reader, as functions of what it knows.                              *)

Stat == [inode |-> file.inode, size |-> Len(file.cells), stamp |-> file.stamp]

\* #open: the file is read from the start again if it is another one, is shorter than what was
\* read, or no longer holds the last record that was read; a torn tail is always read again.
Replaced(k) ==
  \/ ~k.begun \/ Stat.inode # k.stat.inode
  \/ Stat.size < k.r.position \/ (Stat.size = k.stat.size /\ Stat.stamp # k.stat.stamp)
AnchorHolds(c) == c.cursor > 0 => SubSeq(file.cells, c.cursor - 1, c.cursor) = c.anchor
Restarted(c) == [c EXCEPT !.partial = <<>>, !.position = c.cursor]
\* Mutant of Opened: what was read is not compared with the file.
OpenedUnchecked(k) ==
  [begun |-> TRUE, stat |-> Stat, r |-> Restarted(IF Replaced(k) THEN Blank ELSE k.r)]
Opened(k) ==
  LET c == IF Replaced(k) THEN Blank ELSE k.r
  IN  [begun |-> TRUE, stat |-> Stat, r |-> Restarted(IF AnchorHolds(c) THEN c ELSE Blank)]
Unchanged(k) == k.begun /\ k.stat = Stat

\* #consume: up to n cells of an open file.  The complete records among them are kept; one
\* whose halves differ does not decode.
Cells(s) == IF s.inode = file.inode THEN file.cells ELSE file.old
Least(a, b) == IF a < b THEN a ELSE b
Consumed(c, s, n) ==
  LET end == Least(Least(s.size, c.position + n), Len(Cells(s)))
      bytes == c.partial \o SubSeq(Cells(s), c.position + 1, end)
      pairs == Len(bytes) \div 2
      bad == {i \in 1 .. pairs : bytes[2 * i - 1] # bytes[2 * i]}
      good == IF bad = {} THEN pairs ELSE (CHOOSE i \in bad : \A j \in bad : i <= j) - 1
      kept == [c EXCEPT !.state = @ \o [i \in 1 .. good |-> bytes[2 * i]],
                        !.cursor = @ + 2 * good,
                        !.anchor = IF good = 0 THEN @ ELSE <<bytes[2 * good], bytes[2 * good]>>]
  IN  [failed |-> bad # {},
       r |-> [kept EXCEPT !.partial = IF bad = {} THEN SubSeq(bytes, 2 * good + 1, Len(bytes))
                                      ELSE <<>>,
                          !.position = IF bad = {} THEN end ELSE kept.cursor]]
Finished(c, s) == c.position >= Least(s.size, Len(Cells(s)))

\* #start and a #step of n cells, from knowledge k and source s.
Started(k, s) ==
  IF s.open \/ Unchanged(k) THEN [k |-> k, s |-> s, failed |-> FALSE]
  ELSE [k |-> Opened(k), s |-> [open |-> TRUE, inode |-> Stat.inode, size |-> Stat.size],
        failed |-> FALSE]
Stepped(w, n) ==
  IF ~w.s.open \/ w.failed THEN w
  ELSE LET d == Consumed(w.k.r, w.s, n) IN
       [k |-> IF d.failed THEN [w.k EXCEPT !.r = d.r, !.stat.size = 0] ELSE [w.k EXCEPT !.r = d.r],
        s |-> IF d.failed \/ Finished(d.r, w.s) THEN Closed ELSE w.s,
        failed |-> d.failed]
Keep(w) == reader' = w.k /\ source' = w.s

Drained(w) == Stepped(w, Len(Cells(w.s)))

-----------------------------------------------------------------------------
\* refresh: it starts, and then takes a chunk per turn of the event loop.
Refresh(r) ==
  /\ calls[r] = "idle"
  /\ Keep(Stepped(Started(reader, source), Chunk))
  /\ calls' = [calls EXCEPT ![r] = IF Stepped(Started(reader, source), Chunk).failed
                                   THEN "failed" ELSE "reading"]
  /\ UNCHANGED <<file, fresh>>

\* A chunk; at the end of the source the path is looked at once more, and the refresh returns
\* if the file is still the one that was read.
Turn(r) ==
  /\ calls[r] = "reading"
  /\ LET w == Stepped([k |-> reader, s |-> source, failed |-> FALSE], Chunk)
         x == IF w.failed \/ w.s.open THEN w ELSE Started(w.k, w.s)
     IN /\ Keep(x)
        /\ calls' = [calls EXCEPT ![r] = IF w.failed THEN "failed"
                                         ELSE IF x.s.open THEN @ ELSE "idle"]
  /\ UNCHANGED <<file, fresh>>

\* The caller of a refresh that failed asks again.
Again(r) == calls[r] = "failed" /\ calls' = [calls EXCEPT ![r] = "idle"]
            /\ UNCHANGED <<file, fresh, reader, source>>

\* read: the cursor is drained, and the file once more, without a yield.
Read ==
  /\ LET w == Drained(Started(reader, source))
     IN  Keep(IF w.failed THEN w ELSE Drained(Started(w.k, w.s)))
  /\ UNCHANGED <<file, fresh, calls>>

Next == \/ Append1 \/ Tear \/ Continue \/ ReplaceTail \/ Rewrite \/ Rename
        \/ \E r \in Refreshes : Refresh(r) \/ Turn(r) \/ Again(r)
        \/ Read

Spec == Init /\ [][Next]_vars

-----------------------------------------------------------------------------
\* A refresh that returns has read every record that the file holds at that moment, and
\* nothing else, whoever moved the shared cursor meanwhile (refresh, #open).
RefreshIsCurrent ==
  [][\A r \in Refreshes : calls[r] = "reading" /\ calls'[r] = "idle"
       => reader'.r.state = Complete(file.cells)]_vars
=============================================================================
