----------------------------- MODULE AuditTrail ------------------------------
(***************************************************************************)
(* audit show and audit export: a union over three tables that the daemon  *)
(* goes on writing.  Each table is read by a statement of its own, outside *)
(* a transaction; what comes of the three reads is filtered, sorted by the *)
(* text of the time stamps, and cut.  A read that fails takes with it what *)
(* the reads before it brought.                                            *)
(*                                                                         *)
(* A row is stamped before it is written, so that rows of two writers may  *)
(* be written in the other order.  Alerts and taps are appended; a listing *)
(* that is sighted again keeps its row, with a new stamp, and once it has  *)
(* fired an alert it is a dropped one no more.                             *)
(***************************************************************************)
EXTENDS Integers, Sequences, FiniteSets, SequencesExt

CONSTANTS
  Limits,        \* the values of --last
  MaxWritten,    \* bound: rows of the tables, with those to be written
  MaxSecond      \* bound: the clock, in seconds

ASSUME AuditAssumption == Limits \subseteq Int /\ MaxWritten \in Nat /\ MaxSecond \in Nat

VARIABLES
  rows,          \* the rows of the three tables
  second,        \* the clock
  stamped,       \* rows that are stamped and not yet written
  reader,        \* the command: its options, how far it has read, what it has got
  before         \* ghost: the rows written before the reader began

trailVars == <<rows, second, stamped, reader, before>>

Types == {"alert", "callback", "dropped"}

\* A time stamp with no microseconds is written without a fraction, and "Z"
\* sorts after ".": within its second it comes last.
Stamp == [second : 0..MaxSecond, whole : BOOLEAN]

Earlier(s, t) == s.second < t.second \/ (s.second = t.second /\ ~s.whole /\ t.whole)

\* A sighting is a row of seen_listings, of a listing that was dropped or fired.
Sightings == {"dropped", "fired"}

Row == [type : Types \cup Sightings, id : 1..MaxWritten, stamp : Stamp]

\* The two are of one table and have one key there.
Same(r, q) == r.id = q.id /\ (r.type = q.type \/ {r.type, q.type} = Sightings)

HasFired(r) == \E q \in rows : q.type = "fired" /\ Same(r, q)

NoReader == [at |-> "off"]

AuditTypeOK ==
  /\ rows \subseteq Row /\ stamped \subseteq Row /\ before \subseteq Row
  /\ second \in 0..MaxSecond
  /\ reader \in {NoReader} \cup [at : Types \cup {"done"}, dropped : BOOLEAN, got : SUBSET Row, failed : BOOLEAN]

AuditInit ==
  /\ rows = {} /\ stamped = {} /\ before = {} /\ second = 0
  /\ reader = NoReader

(***************************************************************************)
(* The writers.  A listing is evaluated by one cycle at a time, so that    *)
(* one sighting of it is on its way.                                       *)
(***************************************************************************)
Stamps(type, id) ==
  /\ Cardinality(rows \cup stamped) < MaxWritten
  /\ \E whole \in BOOLEAN :
       LET row == [type |-> type, id |-> id, stamp |-> [second |-> second, whole |-> whole]]
       IN  /\ ~ \E q \in stamped : Same(row, q)
           /\ type \in Sightings \/ ~ \E q \in rows : Same(row, q)
           /\ stamped' = stamped \cup {row}
  /\ UNCHANGED <<rows, second, reader, before>>

\* What becomes of the row when it is written: what has fired stays fired.
Upserted(r) == IF HasFired(r) THEN [r EXCEPT !.type = "fired"] ELSE r

Writes(r) ==
  /\ r \in stamped
  /\ rows' = {q \in rows : ~Same(r, q)} \cup {Upserted(r)}
  /\ stamped' = stamped \ {r}
  /\ UNCHANGED <<second, reader, before>>

SecondPasses ==
  /\ second < MaxSecond
  /\ second' = second + 1
  /\ UNCHANGED <<rows, stamped, reader, before>>

(***************************************************************************)
(* The reader.                                                             *)
(***************************************************************************)
\* The tables are read in order, the sightings on request.  The other options
\* select from what was read, so that they need not be fixed before.
Begins ==
  /\ reader = NoReader
  /\ \E dropped \in BOOLEAN : reader' = [at |-> "alert", dropped |-> dropped, got |-> {}, failed |-> FALSE]
  /\ before' = rows
  /\ UNCHANGED <<rows, second, stamped>>

RowsOfType(type) == {r \in rows : r.type = type}

After(type) ==
  CASE type = "alert" -> "callback"
    [] type = "callback" -> IF reader.dropped THEN "dropped" ELSE "done"
    [] type = "dropped" -> "done"

ReadsTable ==
  /\ reader.at \in Types
  /\ reader' = [reader EXCEPT !.got = @ \cup RowsOfType(reader.at), !.at = After(reader.at)]
  /\ UNCHANGED <<rows, second, stamped, before>>

\* The command goes on as if the tables were empty, and exits with 0.
ReadFails ==
  /\ reader.at \in Types
  /\ reader' = [reader EXCEPT !.got = {}, !.at = "done", !.failed = TRUE]
  /\ UNCHANGED <<rows, second, stamped, before>>

Over ==
  /\ reader.at = "done"
  /\ reader' = NoReader /\ before' = {}
  /\ UNCHANGED <<rows, second, stamped>>

AuditNext ==
  \/ \E type \in Types \cup Sightings, id \in 1..MaxWritten : Stamps(type, id)
  \/ \E r \in stamped : Writes(r)
  \/ SecondPasses
  \/ Begins \/ ReadsTable \/ ReadFails \/ Over

TrailSpec == AuditInit /\ [][AuditNext]_trailVars

(***************************************************************************)
(* What is printed.                                                        *)
(***************************************************************************)
Options == [type : Types \cup {"any"}, since : 0..MaxSecond, last : Limits]

Filtered(type, since, got) ==
  {r \in got : type \in {"any", r.type} /\ r.stamp.second >= since}

CutTo(n, s) == SubSeq(s, 1, IF n < Len(s) THEN n ELSE Len(s))

\* The sequences that a sort by time stamp may make of a set: rows of one stamp
\* come in any order (in the program, in the order of the tables).
OldestFirst(S) == {s \in SetToSeqs(S) : \A i, j \in DOMAIN s : i < j => ~Earlier(s[j].stamp, s[i].stamp)}

NewestFirst(S) == {s \in SetToSeqs(S) : \A i, j \in DOMAIN s : i < j => ~Earlier(s[i].stamp, s[j].stamp)}

\* Mutant: the rows are cut before they are sorted newest first.
ShownCutFirst(options, got) ==
  IF options.last <= 0 THEN {<<>>}
  ELSE {Reverse(CutTo(options.last, s)) : s \in OldestFirst(Filtered(options.type, options.since, got))}

\* --last 0, or less, prints nothing.
Shown(options, got) ==
  IF options.last <= 0 THEN {<<>>}
  ELSE {CutTo(options.last, s) : s \in NewestFirst(Filtered(options.type, options.since, got))}

\* The export has alerts and taps, all of them.
Exported(since, got) == OldestFirst(Filtered("any", since, got))

(***************************************************************************)
(* Safety.                                                                 *)
(***************************************************************************)
\* The rows from before the reader began that it was asked for.  A listing that
\* has fired since is no dropped one to show.
Wanted(options) ==
  {r \in before : /\ r.type \in Types
                  /\ r.type = "dropped" => reader.dropped /\ ~HasFired(r)
                  /\ options.type \in {"any", r.type}
                  /\ r.stamp.second >= options.since}

\* The row is printed, or what a later sighting made of it.
Printed(r, shown) == \E q \in Range(shown) : Same(r, q)

\* What show prints are the newest rows, to the second, of those it was asked
\* for that were written before it began: it leaves out none that is newer than
\* one it prints, and prints --last of them if there are so many.
ShowsTheNewest ==
  reader.at = "done" /\ ~reader.failed =>
    \A options \in Options : \A shown \in Shown(options, reader.got) :
      \/ \A r \in Wanted(options) : Printed(r, shown)
      \/ /\ Len(shown) >= options.last
         /\ \A r \in Wanted(options), i \in DOMAIN shown :
              Printed(r, shown) \/ r.stamp.second <= shown[i].stamp.second

\* The export holds every alert and every tap that was written before it began
\* and is asked for, each once, in the order of their seconds.
ExportIsComplete ==
  reader.at = "done" /\ ~reader.dropped /\ ~reader.failed =>
    \A since \in 0..MaxSecond : \A lines \in Exported(since, reader.got) :
      /\ {r \in before : r.type \notin Sightings /\ r.stamp.second >= since} \subseteq Range(lines)
      /\ \A i, j \in DOMAIN lines :
           i < j => lines[i] # lines[j] /\ lines[i].stamp.second <= lines[j].stamp.second

\* A read that failed leaves nothing to print, rather than a part of the rows.
NoPartIsShown ==
  reader.at = "done" /\ reader.failed =>
    /\ \A options \in Options : Shown(options, reader.got) = {<<>>}
    /\ \A since \in 0..MaxSecond : Exported(since, reader.got) = {<<>>}

\* What either command prints is all that it was asked for of the rows that were
\* there when it began, up to --last, whatever the daemon writes, sights again or
\* fires between its reads; or, when a read failed, nothing at all.
AllOrNothingIsShown == ShowsTheNewest /\ ExportIsComplete /\ NoPartIsShown

\* Stated, and false: the export streams every audit row.  It exits with 0 and
\* prints none when a read failed.
EveryRowIsExported ==
  reader.at = "done" /\ ~reader.dropped =>
    \A since \in 0..MaxSecond : \A lines \in Exported(since, reader.got) :
      {r \in before : r.type \notin Sightings /\ r.stamp.second >= since} \subseteq Range(lines)
=============================================================================
