----------------------------- MODULE WatchProofs -----------------------------
(***************************************************************************)
(* Theorems about Watch, for any number of jobs, listings, entries, copies *)
(* and mishaps.                                                            *)
(*                                                                         *)
(* The invariants about alerts are not inductive.  They need the books of  *)
(* each pair: a mishap pays for as many lost audit rows or repeats as one  *)
(* search result lists the listing.  What is lost when a shutdown cancels  *)
(* a cycle or closes the store under it was paid for in advance, by the    *)
(* signal (Owed); what is still to be alerted of a listing already marked  *)
(* is what is left of the result that it was found in (Left).              *)
(***************************************************************************)
EXTENDS Watch, TLAPS

\* The groups that UNCHANGED names.
USE DEF tables, world, conns, lifeVars

One(b) == IF b THEN 1 ELSE 0

Handling == {"gate", "send", "snapshot", "seen", "drop"}

\* The copies of listing l that cycle c has in hand.
Held(c, l) == c.todo[l] + c.match[l] + c.drop[l] + One(c.at \in Handling /\ c.cur = l)

\* A cycle works through one result of its own market, one copy after the other.
Shape(j) ==
  /\ \A l \in Listings : Held(job[j], l) <= (IF l \in Market[j] THEN Copies ELSE 0)
  /\ job[j].at \in {"idle", "entry", "search"} =>
       job[j].todo = NoFinds /\ job[j].match = NoFinds /\ job[j].drop = NoFinds
  /\ job[j].at \in Handling => job[j].todo = NoFinds

\* A shutdown is under way while the main coroutine leaves; nothing runs after it.
Ending ==
  /\ main \in {"leaving", "cacheClosed", "exiting"} => drain # "none"
  /\ ~Alive => drain = "none" /\ \A j \in Jobs : job[j] = Idle

\* What a listing still has to show before it is marked as seen.
Declined(l) == \E e \in Entries : <<l, e>> \notin Fits

Settling(j) ==
  /\ job[j].at = "seen" => snaps[Pair(j)] > 0
  /\ job[j].at = "drop" => Declined(job[j].cur)
  /\ \A l \in Listings : job[j].drop[l] > 0 => Declined(l)

\* How many alerts job j may still send of pair p; whether its alert has no row
\* yet; whether it has no mark yet.
Left(j, p) ==
  IF job[j].at \in {"batch"} \cup Handling /\ p[2] = Entry(j)
    THEN job[j].todo[p[1]] + job[j].match[p[1]]
           + One(job[j].at \in {"gate", "send"} /\ job[j].cur = p[1])
    ELSE 0
Sent(j, p) == job[j].at = "snapshot" /\ p = Pair(j)
Kept(j, p) == job[j].at \in {"snapshot", "seen"} /\ p = Pair(j)

\* What the mishaps paid for, and what the shutdown under way will take of it.
Paid == Copies * mishaps
Owed == drain # "none"
Debt == IF Owed THEN Copies ELSE 0

Audit(j, p) ==
  /\ snaps[p] + One(Sent(j, p)) <= alerts[p]
  /\ IF storeOpen
       THEN alerts[p] + Debt <= snaps[p] + Paid + One(Sent(j, p))
       ELSE alerts[p] + Left(j, p) <= snaps[p] + Paid

Repeat(j, p) ==
  /\ storeOpen /\ p \in seen => alerts[p] + Left(j, p) + Debt <= Paid + Copies
  /\ storeOpen /\ p \notin seen => alerts[p] + Debt <= Paid + One(Kept(j, p))
  /\ ~storeOpen /\ p \in seen => alerts[p] + Left(j, p) <= Paid + Copies
  /\ ~storeOpen /\ p \notin seen => alerts[p] + Left(j, p) <= Paid

Books(j, p) == Audit(j, p) /\ Repeat(j, p)

\* The market of a pair is polled by one job at most.
Polled(j, p) == p[1] \in Market[j]

Unpolled(p) == (\A j \in Jobs : ~Polled(j, p)) => alerts[p] = 0 /\ snaps[p] = 0

IInv ==
  /\ TypeOK
  /\ \A j \in Jobs : Shape(j) /\ Settling(j)
  /\ Ending
  /\ SeenIsSettled
  /\ \A j \in Jobs, p \in Pairs : Polled(j, p) => Books(j, p)
  /\ \A p \in Pairs : Unpolled(p)

(***************************************************************************)
(* Types.                                                                  *)
(***************************************************************************)
\* A job at work is at an entry of the wishlist.
LEMMA EntryTyped ==
  ASSUME PollTypeOK, NEW j \in Jobs, job[j].pos <= Len(Wishlist)
  PROVE  Entry(j) \in Entries
<1>1. job[j].pos \in 1 .. Len(Wishlist)
  BY DEF PollTypeOK, Cycles
<1> QED BY <1>1, PollAssumption DEF Entry

\* A pair of the cycle's listing and entry is a pair of the tables.
LEMMA PairTyped ==
  ASSUME PollTypeOK, NEW j \in Jobs, job[j].at \in {"gate", "send", "snapshot", "seen", "drop"}
  PROVE  Pair(j) \in Pairs
<1>1. job[j].pos <= Len(Wishlist) /\ job[j].cur \in Listings
  BY DEF PollTypeOK
<1> QED BY <1>1, EntryTyped DEF Pair, Pairs

\* The cycle of a job at rest has its type.
LEMMA IdleTyped == Idle \in Cycles /\ NoFinds \in Finds
BY DEF Idle, Cycles, Stages, Finds, NoFinds

\* One copy less, or more, of one listing.
LEMMA OneLessEffect ==
  ASSUME NEW finds \in Finds, NEW l \in Listings, finds[l] > 0
  PROVE  /\ OneLess(finds, l) \in Finds
         /\ \A m \in Listings : OneLess(finds, l)[m] = finds[m] - One(m = l)
BY DEF OneLess, Finds, One

LEMMA OneMoreEffect ==
  ASSUME NEW finds \in Finds, NEW l \in Listings
  PROVE  /\ OneMore(finds, l) \in Finds
         /\ \A m \in Listings : OneMore(finds, l)[m] = finds[m] + One(m = l)
BY DEF OneMore, Finds, One

\* A result has no more than Copies of a listing, and none of another one.
LEMMA ResultTyped ==
  ASSUME NEW ls \in SUBSET Listings, NEW r \in Results(ls)
  PROVE  r \in Finds /\ \A l \in Listings : r[l] <= (IF l \in ls THEN Copies ELSE 0)
<1>1. PICK n \in [ls -> 1 .. Copies] : r = [l \in Listings |-> IF l \in ls THEN n[l] ELSE 0]
  BY DEF Results
<1> QED BY <1>1, PollAssumption DEF Finds

\* The cycles of the other jobs stay as they are.
Others(j) == \A i \in Jobs \ {j} : job'[i] = job[i]

\* Move changes the stage of one job and nothing else.
LEMMA MoveEffect ==
  ASSUME PollTypeOK, NEW j \in Jobs, NEW from, NEW to \in Stages, Move(j, from, to)
  PROVE  /\ job' \in [Jobs -> Cycles] /\ Others(j)
         /\ job[j].at = from /\ job'[j].at = to
         /\ job'[j].pos = job[j].pos /\ job'[j].cur = job[j].cur
         /\ job'[j].todo = job[j].todo /\ job'[j].match = job[j].match /\ job'[j].drop = job[j].drop
<1>1. job \in [Jobs -> Cycles] /\ job[j] \in Cycles
  BY DEF PollTypeOK
<1>2. [job[j] EXCEPT !.at = to] \in Cycles
  BY <1>1 DEF Cycles
<1>3. job' = [job EXCEPT ![j] = [job[j] EXCEPT !.at = to]]
  BY <1>1 DEF Move
<1> QED BY <1>1, <1>2, <1>3 DEF Move, Others, Cycles

\* NextEntry leaves the job at its next entry with no listing in hand.
LEMMA NextEntryEffect ==
  ASSUME PollTypeOK, NEW j \in Jobs, NextEntry(j)
  PROVE  /\ job' \in [Jobs -> Cycles] /\ Others(j)
         /\ job'[j].at = "entry"
         /\ job'[j].todo = NoFinds /\ job'[j].match = NoFinds /\ job'[j].drop = NoFinds
<1>1. job \in [Jobs -> Cycles] /\ job[j].pos + 1 \in Nat \ {0}
  BY DEF PollTypeOK, Cycles
<1> DEFINE r == [Idle EXCEPT !.at = "entry", !.pos = job[j].pos + 1]
<1>2. r \in Cycles
  BY <1>1, IdleTyped DEF Cycles, Stages
<1>3. r.at = "entry" /\ r.todo = NoFinds /\ r.match = NoFinds /\ r.drop = NoFinds
  BY DEF Idle
<1>4. job' = [job EXCEPT ![j] = r]
  BY DEF NextEntry
<1> HIDE DEF r
<1> QED BY <1>1, <1>2, <1>3, <1>4 DEF Others

\* The end of a cycle leaves the job with no listing in hand.
LEMMA IdleEffect ==
  ASSUME PollTypeOK, NEW j \in Jobs, job' = [job EXCEPT ![j] = Idle]
  PROVE  /\ job' \in [Jobs -> Cycles] /\ Others(j)
         /\ job'[j].at = "idle"
         /\ job'[j].todo = NoFinds /\ job'[j].match = NoFinds /\ job'[j].drop = NoFinds
BY IdleTyped DEF PollTypeOK, Others, Idle

\* A search that succeeds leaves its unseen listings to be evaluated.
LEMMA SearchEffect ==
  ASSUME PollTypeOK, NEW j \in Jobs, SearchOk(j)
  PROVE  /\ job' \in [Jobs -> Cycles] /\ Others(j)
         /\ job'[j].at = "batch" /\ job'[j].pos = job[j].pos /\ job'[j].cur = job[j].cur
         /\ \A l \in Listings :
              job'[j].todo[l] <= (IF l \in Unseen(Market[j] \cap onSale, Entry(j)) THEN Copies ELSE 0)
         /\ job'[j].match = job[j].match /\ job'[j].drop = job[j].drop
<1> DEFINE ls == Unseen(Market[j] \cap onSale, Entry(j))
<1>1. job \in [Jobs -> Cycles] /\ job[j] \in Cycles /\ ls \in SUBSET Listings
  BY PollAssumption DEF PollTypeOK, Unseen
<1>2. PICK r \in Results(ls) : job' = [job EXCEPT ![j].at = "batch", ![j].todo = r]
  BY DEF SearchOk
<1> HIDE DEF ls
<1>3. r \in Finds /\ \A l \in Listings : r[l] <= (IF l \in ls THEN Copies ELSE 0)
  BY <1>1, <1>2, ResultTyped
<1> DEFINE c == [job[j] EXCEPT !.at = "batch", !.todo = r]
<1>4. c \in Cycles
  BY <1>1, <1>3 DEF Cycles, Stages
<1>5. job' = [job EXCEPT ![j] = c]
  BY <1>1, <1>2
<1>6. job'[j] = c /\ Others(j) /\ job' \in [Jobs -> Cycles]
  BY <1>1, <1>4, <1>5 DEF Others
<1>7. c.at = "batch" /\ c.todo = r /\ c.pos = job[j].pos /\ c.cur = job[j].cur
      /\ c.match = job[j].match /\ c.drop = job[j].drop
  BY <1>1 DEF Cycles
<1> QED BY <1>3, <1>6, <1>7 DEF ls

\* A pick takes one copy off the matches or off the drops.
LEMMA PickEffect ==
  ASSUME PollTypeOK, NEW j \in Jobs, PickMatch(j) \/ PickDrop(j)
  PROVE  /\ job' \in [Jobs -> Cycles] /\ Others(j)
         /\ job[j].at = "batch" /\ job[j].todo = NoFinds
         /\ job'[j].pos = job[j].pos /\ job'[j].todo = NoFinds /\ job'[j].cur \in Listings
         /\ \/ /\ PickMatch(j)
               /\ job'[j].at = "gate" /\ job[j].match[job'[j].cur] > 0
               /\ job'[j].match = OneLess(job[j].match, job'[j].cur) /\ job'[j].drop = job[j].drop
            \/ /\ PickDrop(j)
               /\ job'[j].at = "drop" /\ job[j].drop[job'[j].cur] > 0
               /\ job'[j].match = job[j].match /\ job'[j].drop = OneLess(job[j].drop, job'[j].cur)
<1>1. job \in [Jobs -> Cycles] /\ job[j] \in Cycles /\ job[j].match \in Finds /\ job[j].drop \in Finds
  BY DEF PollTypeOK, Cycles
<1>2. CASE PickMatch(j)
  <2>1. PICK l \in Listings :
          /\ job[j].match[l] > 0
          /\ job' = [job EXCEPT ![j].at = "gate", ![j].cur = l, ![j].match = OneLess(@, l)]
    BY <1>2 DEF PickMatch
  <2>m. OneLess(job[j].match, l) \in Finds
    BY <1>1, <2>1, OneLessEffect
  <2> DEFINE less == OneLess(job[j].match, l)
             r    == [job[j] EXCEPT !.at = "gate", !.cur = l, !.match = less]
  <2>2. job' = [job EXCEPT ![j] = r]
    BY <1>1, <2>1
  <2>3. less \in Finds
    BY <2>m
  <2> HIDE DEF less
  <2>4. r \in Cycles
    BY <1>1, <2>3 DEF Cycles, Stages
  <2>5. job'[j] = r /\ Others(j) /\ job' \in [Jobs -> Cycles]
    BY <1>1, <2>2, <2>4 DEF Others
  <2>6. r.at = "gate" /\ r.cur = l /\ r.match = less
        /\ r.pos = job[j].pos /\ r.todo = job[j].todo /\ r.drop = job[j].drop
    BY <1>1 DEF Cycles
  <2>7. job[j].at = "batch" /\ job[j].todo = NoFinds
    BY <1>2 DEF PickMatch
  <2> QED BY <1>2, <2>1, <2>5, <2>6, <2>7 DEF less
<1>3. CASE PickDrop(j)
  <2>1. PICK l \in Listings :
          /\ job[j].drop[l] > 0
          /\ job' = [job EXCEPT ![j].at = "drop", ![j].cur = l, ![j].drop = OneLess(@, l)]
    BY <1>3 DEF PickDrop
  <2>m. OneLess(job[j].drop, l) \in Finds
    BY <1>1, <2>1, OneLessEffect
  <2> DEFINE less == OneLess(job[j].drop, l)
             r    == [job[j] EXCEPT !.at = "drop", !.cur = l, !.drop = less]
  <2>2. job' = [job EXCEPT ![j] = r]
    BY <1>1, <2>1
  <2>3. less \in Finds
    BY <2>m
  <2> HIDE DEF less
  <2>4. r \in Cycles
    BY <1>1, <2>3 DEF Cycles, Stages
  <2>5. job'[j] = r /\ Others(j) /\ job' \in [Jobs -> Cycles]
    BY <1>1, <2>2, <2>4 DEF Others
  <2>6. r.at = "drop" /\ r.cur = l /\ r.drop = less
        /\ r.pos = job[j].pos /\ r.todo = job[j].todo /\ r.match = job[j].match
    BY <1>1 DEF Cycles
  <2>7. job[j].at = "batch" /\ job[j].todo = NoFinds
    BY <1>3 DEF PickDrop
  <2> QED BY <1>3, <2>1, <2>5, <2>6, <2>7 DEF less
<1> QED BY <1>2, <1>3

\* An evaluation's verdict moves its copy.
LEMMA JudgedEffect ==
  ASSUME PollTypeOK, NEW j \in Jobs, NEW l \in Listings, CacheHit(j, l) \/ CacheMiss(j, l)
  PROVE  /\ job' \in [Jobs -> Cycles] /\ Others(j)
         /\ job[j].at = "batch" /\ job[j].todo[l] > 0
         /\ job'[j].at = job[j].at /\ job'[j].pos = job[j].pos /\ job'[j].cur = job[j].cur
         /\ job'[j].todo = OneLess(job[j].todo, l)
         /\ \/ job'[j].match = OneMore(job[j].match, l) /\ job'[j].drop = job[j].drop
            \/ job'[j].match = job[j].match /\ job'[j].drop = OneMore(job[j].drop, l) /\ Declined(l)
<1>1. job \in [Jobs -> Cycles] /\ job[j] \in Cycles
      /\ job[j].todo \in Finds /\ job[j].match \in Finds /\ job[j].drop \in Finds
  BY DEF PollTypeOK, Cycles
<1>3. PICK e \in Entries : Judged(j, l, <<l, e>> \in Fits)
  <2>1. CASE CacheHit(j, l)
    <3>1. cache[l] \in Entries
      BY <2>1 DEF CacheHit, PollTypeOK
    <3> QED BY <2>1, <3>1 DEF CacheHit
  <2>2. CASE CacheMiss(j, l)
    <3>1. Entry(j) \in Entries
      BY <2>2, EntryTyped DEF CacheMiss, PollTypeOK
    <3> QED BY <2>2, <3>1 DEF CacheMiss
  <2> QED BY <2>1, <2>2
<1>4. job[j].at = "batch" /\ job[j].todo[l] > 0
  BY DEF CacheHit, CacheMiss
<1> DEFINE less == OneLess(job[j].todo, l)
           fit  == OneMore(job[j].match, l)
           not  == OneMore(job[j].drop, l)
<1>t. less \in Finds /\ fit \in Finds /\ not \in Finds
  BY <1>1, <1>4, OneLessEffect, OneMoreEffect
<1>5. CASE <<l, e>> \in Fits
  <2> DEFINE r == [job[j] EXCEPT !.todo = less, !.match = fit, !.drop = job[j].drop]
  <2>1. job' = [job EXCEPT ![j] = r]
    BY <1>1, <1>3, <1>5 DEF Judged
  <2> HIDE DEF less, fit, not
  <2>2. r \in Cycles
    BY <1>1, <1>t DEF Cycles
  <2>3. job'[j] = r /\ Others(j) /\ job' \in [Jobs -> Cycles]
    BY <1>1, <2>1, <2>2 DEF Others
  <2>4. r.todo = less /\ r.match = fit /\ r.drop = job[j].drop
        /\ r.at = job[j].at /\ r.pos = job[j].pos /\ r.cur = job[j].cur
    BY <1>1 DEF Cycles
  <2> QED BY <1>4, <2>3, <2>4 DEF less, fit
<1>6. CASE <<l, e>> \notin Fits
  <2> DEFINE r == [job[j] EXCEPT !.todo = less, !.match = job[j].match, !.drop = not]
  <2>1. job' = [job EXCEPT ![j] = r]
    BY <1>1, <1>3, <1>6 DEF Judged
  <2> HIDE DEF less, fit, not
  <2>2. r \in Cycles
    BY <1>1, <1>t DEF Cycles
  <2>3. job'[j] = r /\ Others(j) /\ job' \in [Jobs -> Cycles]
    BY <1>1, <2>1, <2>2 DEF Others
  <2>4. r.todo = less /\ r.match = job[j].match /\ r.drop = not
        /\ r.at = job[j].at /\ r.pos = job[j].pos /\ r.cur = job[j].cur
    BY <1>1 DEF Cycles
  <2> QED BY <1>4, <1>6, <2>3, <2>4 DEF less, not, Declined
<1> QED BY <1>5, <1>6

\* A failed evaluation only takes its copy off.
LEMMA UnjudgedEffect ==
  ASSUME PollTypeOK, NEW j \in Jobs, NEW l \in Listings, EvaluationFails(j, l)
  PROVE  /\ job' \in [Jobs -> Cycles] /\ Others(j)
         /\ job[j].at = "batch" /\ job[j].todo[l] > 0
         /\ job'[j].at = job[j].at /\ job'[j].pos = job[j].pos /\ job'[j].cur = job[j].cur
         /\ job'[j].todo = OneLess(job[j].todo, l)
         /\ job'[j].match = job[j].match /\ job'[j].drop = job[j].drop
<1>1. job \in [Jobs -> Cycles] /\ job[j] \in Cycles /\ job[j].todo \in Finds
  BY DEF PollTypeOK, Cycles
<1>2. job[j].at = "batch" /\ job[j].todo[l] > 0
  BY DEF EvaluationFails
<1>3. OneLess(job[j].todo, l) \in Finds
  BY <1>1, <1>2, OneLessEffect
<1> DEFINE r == [job[j] EXCEPT !.todo = OneLess(job[j].todo, l)]
<1>4. r \in Cycles
  BY <1>1, <1>3 DEF Cycles
<1>5. job' = [job EXCEPT ![j] = r]
  BY <1>1 DEF EvaluationFails
<1> QED BY <1>1, <1>2, <1>4, <1>5 DEF Others, Cycles

\* The part of PollTypeOK about the cycles.
JobsTyped ==
  /\ job \in [Jobs -> Cycles]
  /\ \A j \in Jobs :
       /\ job[j].at \notin {"idle", "entry"} => job[j].pos <= Len(Wishlist)
       /\ job[j].at \in {"gate", "send", "snapshot", "seen", "drop"} => job[j].cur \in Listings

\* A move from a stage that has its entry, to one that needs no listing in hand
\* or from one that has it, leaves the cycles typed.
LEMMA MoveTyped ==
  ASSUME PollTypeOK, NEW j \in Jobs, NEW from, NEW to \in Stages, Move(j, from, to),
         job[j].pos <= Len(Wishlist),
         to = "batch" \/ to = "search" \/ job[j].cur \in Listings
  PROVE  JobsTyped'
<1>1. job' \in [Jobs -> Cycles] /\ Others(j)
      /\ job'[j].at = to /\ job'[j].pos = job[j].pos /\ job'[j].cur = job[j].cur
  BY MoveEffect
<1> SUFFICES ASSUME NEW i \in Jobs
             PROVE  /\ job'[i].at \notin {"idle", "entry"} => job'[i].pos <= Len(Wishlist)
                    /\ job'[i].at \in {"gate", "send", "snapshot", "seen", "drop"} => job'[i].cur \in Listings
  BY <1>1 DEF JobsTyped
<1>2. CASE i = j
  BY <1>1, <1>2
<1>3. CASE i # j
  BY <1>1, <1>3 DEF Others, PollTypeOK
<1> QED BY <1>2, <1>3

\* A step of a cycle keeps every variable of its type.
LEMMA TypeCycle ==
  ASSUME PollTypeOK, NEW j \in Jobs, CycleStep(j)
  PROVE  PollTypeOK'
<1> USE DEF PollTypeOK
<1>0. job[j] \in Cycles /\ Len(Wishlist) \in Nat
  BY PollAssumption
<1>m. ASSUME Mishap PROVE mishaps' \in 0 .. MaxMishaps
  BY <1>m, PollAssumption DEF Mishap
<1>r. ASSUME StatementRaises PROVE mishaps' \in 0 .. MaxMishaps
  BY <1>r, <1>m DEF StatementRaises
<1>1. CASE SkipSnoozed(j)
  BY <1>1, NextEntryEffect DEF SkipSnoozed, Others
<1>2. CASE EnterSearch(j)
  <2>1. JobsTyped'
    BY <1>2, MoveTyped DEF EnterSearch, Stages
  <2> QED BY <1>2, <2>1 DEF EnterSearch, JobsTyped
<1>3. CASE SearchOk(j)
  BY <1>3, SearchEffect, ZenonT(60) DEF SearchOk, Others
<1>4. CASE SearchFails(j)
  BY <1>4, NextEntryEffect DEF SearchFails, Others
<1>5. CASE EndCycle(j)
  BY <1>5, IdleEffect DEF EndCycle, Others
<1>6. CASE CycleRaises(j)
  BY <1>6, <1>r, IdleEffect DEF CycleRaises, Others
<1>7. CASE PickMatch(j) \/ PickDrop(j)
  <2>1. job'[j].cur \in Listings
    BY <1>7, PickEffect
  <2>2. job[j].pos <= Len(Wishlist)
    BY <1>7, PickEffect
  <2> QED BY <1>7, <2>1, <2>2, PickEffect, ZenonT(60) DEF PickMatch, PickDrop, Others
<1>9. CASE BatchDone(j)
  BY <1>9, NextEntryEffect DEF BatchDone, Others
<1>10. CASE SelectPhase(j)
  <2>1. Move(j, "gate", "send")
    BY <1>10 DEF SelectPhase
  <2>2. job' \in [Jobs -> Cycles] /\ Others(j) /\ job[j].at = "gate" /\ job'[j].at = "send"
        /\ job'[j].pos = job[j].pos /\ job'[j].cur = job[j].cur
    BY <2>1, MoveEffect DEF Stages
  <2> QED BY <1>10, <2>2 DEF SelectPhase, Others
<1>11. CASE Delivered(j)
  <2>1. Move(j, "send", "snapshot") /\ job[j].at = "send"
    BY <1>11 DEF Delivered, Move
  <2>2. alerts' \in [Pairs -> Nat]
    BY <1>11, <2>1, PairTyped DEF Delivered, Shown
  <2>3. JobsTyped'
    BY <2>1, MoveTyped DEF Stages
  <2> QED BY <1>11, <2>2, <2>3 DEF Delivered, JobsTyped
<1>12. CASE Undelivered(j)
  <2>1. Move(j, "send", "batch") /\ job[j].at = "send"
    BY <1>12 DEF Undelivered, Move
  <2>2. JobsTyped'
    BY <2>1, MoveTyped DEF Stages
  <2> QED BY <1>12, <2>2 DEF Undelivered, JobsTyped
<1>13. CASE Unconfirmed(j)
  <2>1. Move(j, "send", "send") \/ Move(j, "send", "batch")
    BY <1>13 DEF Unconfirmed
  <2>2. alerts' \in [Pairs -> Nat]
    BY <1>13, <2>1, PairTyped DEF Unconfirmed, Shown, Move
  <2>3. job[j].at = "send"
    BY <2>1 DEF Move
  <2>4. JobsTyped'
    BY <2>1, <2>3, MoveTyped DEF Stages
  <2> QED BY <1>13, <1>m, <2>2, <2>4 DEF Unconfirmed, JobsTyped
<1>14. CASE SnapshotStored(j)
  <2>1. Move(j, "snapshot", "seen") /\ job[j].at = "snapshot"
    BY <1>14 DEF SnapshotStored, Move
  <2>2. snaps' \in [Pairs -> Nat]
    BY <1>14, <2>1, PairTyped DEF SnapshotStored
  <2>3. JobsTyped'
    BY <2>1, MoveTyped DEF Stages
  <2> QED BY <1>14, <2>2, <2>3 DEF SnapshotStored, JobsTyped
<1>15. CASE SeenStored(j)
  <2>1. Move(j, "seen", "batch") \/ Move(j, "drop", "batch")
    BY <1>15 DEF SeenStored
  <2>2. seen' \subseteq Pairs
    BY <1>15, <2>1, PairTyped DEF SeenStored, Move
  <2>3. job[j].at \in {"seen", "drop"}
    BY <2>1 DEF Move
  <2>4. JobsTyped'
    BY <2>1, <2>3, MoveTyped DEF Stages
  <2> QED BY <1>15, <2>2, <2>4 DEF SeenStored, JobsTyped
<1>16. CASE PersistFails(j)
  <2>1. Move(j, "snapshot", "batch") \/ Move(j, "seen", "batch") \/ Move(j, "drop", "batch")
    BY <1>16 DEF PersistFails
  <2>2. job' \in [Jobs -> Cycles] /\ Others(j) /\ job[j].at \in {"snapshot", "seen", "drop"}
        /\ job'[j].at = "batch" /\ job'[j].pos = job[j].pos /\ job'[j].cur = job[j].cur
    BY <2>1, MoveEffect DEF Stages
  <2> QED BY <1>16, <1>r, <2>2 DEF PersistFails, Others
<1>17. ASSUME NEW l \in Listings, CacheHit(j, l) PROVE PollTypeOK'
  BY <1>17, JudgedEffect, ZenonT(60) DEF CacheHit, Others
<1>18. ASSUME NEW l \in Listings, CacheMiss(j, l) PROVE PollTypeOK'
  <2>1. Entry(j) \in Entries
    BY <1>18, EntryTyped DEF CacheMiss
  <2> QED BY <1>18, <2>1, JudgedEffect DEF CacheMiss, Others
<1>19. ASSUME NEW l \in Listings, EvaluationFails(j, l) PROVE PollTypeOK'
  BY <1>19, UnjudgedEffect, ZenonT(60) DEF EvaluationFails, Others
<1> QED BY <1>1, <1>2, <1>3, <1>4, <1>5, <1>6, <1>7, <1>9, <1>10, <1>11, <1>12, <1>13,
   <1>14, <1>15, <1>16, <1>17, <1>18, <1>19 DEF CycleStep

\* The steps of the process and of its environment.
ProcessStep ==
  \/ \E j \in Jobs : LoopStartsCycle(j) \/ LoopReturns(j)
  \/ Signal \/ ShutdownStep \/ Dies \/ Restart \/ Start \/ World

\* They keep every variable of its type.
LEMMA TypeProcess == ASSUME TypeOK, ProcessStep PROVE TypeOK'
<1> USE DEF TypeOK, PollTypeOK, LifeTypeOK
<1>m. ASSUME Mishap PROVE mishaps' \in 0 .. MaxMishaps
  BY <1>m, PollAssumption DEF Mishap
<1>1. ASSUME NEW j \in Jobs, LoopStartsCycle(j) PROVE TypeOK'
  <2>1. [Idle EXCEPT !.at = "entry"] \in Cycles /\ [Idle EXCEPT !.at = "entry"].at = "entry"
    BY IdleTyped DEF Idle, Cycles, Stages
  <2> QED BY <1>1, <2>1 DEF LoopStartsCycle, StartCycle
<1>2. ASSUME NEW j \in Jobs, LoopReturns(j) PROVE TypeOK'
  BY <1>2 DEF LoopReturns, pollVars
<1>3. CASE Signal
  BY <1>3, <1>m DEF Signal
<1>4. CASE ShutdownStep
  <2>1. CASE ExitCancels
    <3>1. Idle \in Cycles /\ Idle.at = "idle"
      BY IdleTyped DEF Idle
    <3> QED BY <2>1, <3>1 DEF ExitCancels
  <2> QED BY <1>4, <2>1 DEF ShutdownStep, ShutdownBegins, ShutdownDone, MainWakes, CloseCache,
          CloseStore, pollVars
<1>5. CASE Dies
  <2>1. Idle \in Cycles /\ Idle.at = "idle"
    BY IdleTyped DEF Idle
  <2> QED BY <1>5, <1>m, <2>1 DEF Dies
<1>6. CASE Restart \/ Start
  BY <1>6 DEF Restart, Start, Boot
<1>7. CASE World
  BY <1>7 DEF World, Environment, Posted, Sold, Snooze, SnoozeEnds, CacheExpires
<1> QED BY <1>1, <1>2, <1>3, <1>4, <1>5, <1>6, <1>7 DEF ProcessStep

\* Every step keeps every variable of its type; so does the start.
LEMMA TypeStep == TypeOK /\ [Next]_vars => TypeOK'
<1> SUFFICES ASSUME TypeOK, [Next]_vars PROVE TypeOK'
  OBVIOUS
<1>1. CASE ProcessStep
  BY <1>1, TypeProcess
<1>2. ASSUME NEW j \in Jobs, LoopRunsCycle(j) PROVE TypeOK'
  BY <1>2, TypeCycle DEF LoopRunsCycle, TypeOK, LifeTypeOK
<1>3. CASE UNCHANGED vars
  BY <1>3 DEF vars, pollVars, TypeOK, PollTypeOK, LifeTypeOK
<1> QED BY <1>1, <1>2, <1>3 DEF Next, LoopStep, ProcessStep

\* Every variable starts with its type.
LEMMA TypeInit == Init => TypeOK
<1>1. Idle \in Cycles /\ Idle.at = "idle"
  BY IdleTyped DEF Idle
<1> QED BY <1>1, PollAssumption DEF Init, PollInit, LifeInit, TypeOK, PollTypeOK, LifeTypeOK

\* Type correctness: at every stage a cycle has its entry and its listing.
THEOREM TypeCorrect == Spec => []TypeOK
BY TypeInit, TypeStep, PTL DEF Spec

(***************************************************************************)
(* The inductive invariant.  A step of a cycle first for its own job, then *)
(* for the others, whose listings are not its own.                         *)
(***************************************************************************)
\* A step has no mishap, or one.
Charge == mishaps' = mishaps \/ mishaps' = mishaps + 1

LEMMA PaidGrows ==
  ASSUME PollTypeOK, Charge
  PROVE  /\ Copies \in Nat \ {0} /\ Paid \in Nat /\ Paid' \in Nat /\ Paid' >= Paid
         /\ mishaps' = mishaps => Paid' = Paid
         /\ mishaps' = mishaps + 1 => Paid' = Paid + Copies
<1>1. Copies \in Nat \ {0} /\ mishaps \in Nat
  BY PollAssumption DEF PollTypeOK
<1>2. Copies * mishaps \in Nat /\ Copies * (mishaps + 1) = Copies * mishaps + Copies
  BY <1>1
<1> QED BY <1>1, <1>2 DEF Charge, Paid

\* A listing in hand is of the cycle's own market.
LEMMA HandledPolled ==
  ASSUME PollTypeOK, NEW j \in Jobs, Shape(j), job[j].at \in Handling
  PROVE  Pair(j) \in Pairs /\ Polled(j, Pair(j)) /\ job[j].cur \in Listings
<1>1. Pair(j) \in Pairs /\ job[j].cur \in Listings
  BY PairTyped DEF Handling, PollTypeOK
<1>2. /\ job[j].todo[job[j].cur] \in Nat /\ job[j].match[job[j].cur] \in Nat
      /\ job[j].drop[job[j].cur] \in Nat
  BY <1>1 DEF PollTypeOK, Cycles, Finds
<1>3. Held(job[j], job[j].cur) <= (IF job[j].cur \in Market[j] THEN Copies ELSE 0)
  BY <1>1 DEF Shape
<1>4. job[j].cur \in Market[j]
  BY <1>2, <1>3 DEF Held, One
<1> QED BY <1>1, <1>4 DEF Polled, Pair

\* What is left of a pair and what waits for its mark are copies of one result.
LEMMA LeftBound ==
  ASSUME PollTypeOK, NEW j \in Jobs, Shape(j), NEW p \in Pairs
  PROVE  /\ Left(j, p) \in Nat /\ Left(j, p) + One(Kept(j, p)) <= Copies
         /\ Sent(j, p) => Kept(j, p)
<1>1. p[1] \in Listings
  BY DEF Pairs
<1>2. /\ job[j].todo[p[1]] \in Nat /\ job[j].match[p[1]] \in Nat /\ job[j].drop[p[1]] \in Nat
  BY <1>1 DEF PollTypeOK, Cycles, Finds
<1>3. Held(job[j], p[1]) \in Nat /\ Copies \in Nat
  <2>1. Held(job[j], p[1]) \in Nat
    BY <1>2 DEF Held, One
  <2>2. Copies \in Nat
    BY PollAssumption
  <2> QED BY <2>1, <2>2
<1>4. Held(job[j], p[1]) <= Copies
  BY <1>1, <1>3 DEF Shape
<1>5. Kept(j, p) => job[j].cur = p[1] /\ job[j].at \in {"snapshot", "seen"}
  BY DEF Kept, Pair
<1>6. Sent(j, p) => Kept(j, p)
  BY DEF Sent, Kept
<1>7. Left(j, p) \in Nat
  BY <1>2 DEF Left, One
<1>8. CASE Kept(j, p)
  <2>1. Left(j, p) <= job[j].todo[p[1]] + job[j].match[p[1]]
    BY <1>2, <1>5, <1>8 DEF Left, One
  <2>2. job[j].todo[p[1]] + job[j].match[p[1]] + 1 <= Copies
    BY <1>2, <1>3, <1>4, <1>5, <1>8 DEF Held, One, Handling
  <2> QED BY <1>2, <1>3, <1>6, <1>7, <1>8, <2>1, <2>2 DEF One
<1>9. CASE ~Kept(j, p)
  <2>1. Left(j, p) <= Held(job[j], p[1])
    BY <1>2 DEF Left, Held, One, Handling
  <2> QED BY <1>3, <1>4, <1>6, <1>7, <1>9, <2>1 DEF One
<1> QED BY <1>8, <1>9

\* A step of job i's cycle leaves every pair outside its market alone.
LEMMA CycleFrame ==
  ASSUME PollTypeOK, NEW i \in Jobs, Shape(i), CycleStep(i)
  PROVE  /\ Others(i) /\ storeOpen' = storeOpen /\ Charge
         /\ \A p \in Pairs : ~Polled(i, p) =>
              alerts'[p] = alerts[p] /\ snaps'[p] = snaps[p] /\ (p \in seen' <=> p \in seen)
<1>2. job[i].at \in Handling => Pair(i) \in Pairs /\ Polled(i, Pair(i))
  BY HandledPolled
<1>m. ASSUME Mishap PROVE Charge
  BY <1>m DEF Mishap, Charge
<1>r. ASSUME StatementRaises PROVE Charge
  BY <1>r, <1>m DEF StatementRaises, Charge
<1>4. CASE Delivered(i) \/ Unconfirmed(i)
  <2>1. Move(i, "send", "snapshot") \/ Move(i, "send", "send") \/ Move(i, "send", "batch")
    BY <1>4 DEF Delivered, Unconfirmed
  <2>2. Others(i) /\ job[i].at \in Handling
    BY <2>1, MoveEffect DEF Stages, Handling
  <2>3. Charge
    BY <1>4, <1>m DEF Delivered, Unconfirmed, Charge
  <2> QED BY <1>2, <1>4, <2>2, <2>3 DEF Delivered, Unconfirmed, Shown, PollTypeOK
<1>5. CASE SnapshotStored(i)
  <2>1. Others(i) /\ job[i].at \in Handling
    BY <1>5, MoveEffect DEF SnapshotStored, Stages, Handling
  <2> QED BY <1>2, <1>5, <2>1 DEF SnapshotStored, PollTypeOK, Charge
<1>6. CASE SeenStored(i)
  <2>1. Move(i, "seen", "batch") \/ Move(i, "drop", "batch")
    BY <1>6 DEF SeenStored
  <2>2. Others(i) /\ job[i].at \in Handling
    BY <2>1, MoveEffect DEF Stages, Handling
  <2> QED BY <1>2, <1>6, <2>2 DEF SeenStored, PollTypeOK, Charge
<1>7. CASE SkipSnoozed(i) \/ SearchFails(i) \/ BatchDone(i)
  BY <1>7, NextEntryEffect DEF SkipSnoozed, SearchFails, BatchDone, Charge
<1>8. CASE EndCycle(i) \/ CycleRaises(i)
  BY <1>r, <1>8, IdleEffect DEF EndCycle, CycleRaises, Charge
<1>9. CASE EnterSearch(i) \/ SelectPhase(i) \/ Undelivered(i) \/ PersistFails(i)
  <2>1. \E from, to \in Stages : Move(i, from, to)
    BY <1>9 DEF EnterSearch, SelectPhase, Undelivered, PersistFails, Stages
  <2>2. Others(i)
    BY <2>1, MoveEffect
  <2> QED BY <1>r, <1>9, <2>2 DEF EnterSearch, SelectPhase, Undelivered, PersistFails, Charge
<1>10. CASE SearchOk(i) \/ PickMatch(i) \/ PickDrop(i)
  <2>1. Others(i)
    BY <1>10, SearchEffect, PickEffect
  <2>2. UNCHANGED <<tables, world, conns, mishaps>>
    BY <1>10 DEF SearchOk, PickMatch, PickDrop
  <2> QED BY <2>1, <2>2 DEF Charge
<1>11. ASSUME NEW l \in Listings, CacheHit(i, l) \/ CacheMiss(i, l) \/ EvaluationFails(i, l)
       PROVE  /\ Others(i) /\ UNCHANGED <<storeOpen, mishaps, alerts, snaps, seen>>
  BY <1>11, JudgedEffect, UnjudgedEffect DEF CacheHit, CacheMiss, EvaluationFails
<1> QED BY <1>4, <1>5, <1>6, <1>7, <1>8, <1>9, <1>10, <1>11 DEF CycleStep, Charge

\* A step of job i's cycle keeps the job's shape.
LEMMA ShapeStep ==
  ASSUME PollTypeOK, NEW j \in Jobs, Shape(j), CycleStep(j)
  PROVE  Shape(j)'
<1> DEFINE Room(l) == IF l \in Market[j] THEN Copies ELSE 0
<1>t. job[j].todo \in Finds /\ job[j].match \in Finds /\ job[j].drop \in Finds
  BY DEF PollTypeOK, Cycles
<1>n. \A l \in Listings : /\ job[j].todo[l] \in Nat /\ job[j].match[l] \in Nat
                          /\ job[j].drop[l] \in Nat /\ Room(l) \in Nat
  BY <1>t, PollAssumption DEF Finds
<1>0. ASSUME job'[j].at \notin Handling,
             job'[j].todo = NoFinds, job'[j].match = NoFinds, job'[j].drop = NoFinds
      PROVE  Shape(j)'
  BY <1>0, PollAssumption DEF Shape, Held, One, NoFinds
<1>1. CASE SkipSnoozed(j) \/ SearchFails(j) \/ BatchDone(j)
  BY <1>0, <1>1, NextEntryEffect DEF SkipSnoozed, SearchFails, BatchDone, Handling
<1>2. CASE EndCycle(j) \/ CycleRaises(j)
  BY <1>0, <1>2, IdleEffect DEF EndCycle, CycleRaises, Handling
<1>3. CASE EnterSearch(j)
  BY <1>0, <1>3, MoveEffect DEF EnterSearch, Stages, Shape, Handling
<1>4. CASE SearchOk(j)
  <2>1. job[j].at = "search"
    BY <1>4 DEF SearchOk
  <2>2. job'[j].at = "batch" /\ job'[j].match = NoFinds /\ job'[j].drop = NoFinds
        /\ \A l \in Listings :
             job'[j].todo[l] <= (IF l \in Unseen(Market[j] \cap onSale, Entry(j)) THEN Copies ELSE 0)
    BY <1>4, <2>1, SearchEffect DEF Shape
  <2>3. \A l \in Listings : job'[j].todo[l] \in Nat
    BY <1>4, SearchEffect DEF Cycles, Finds
  <2>4. \A l \in Listings : job'[j].todo[l] <= Room(l)
    <3> SUFFICES ASSUME NEW l \in Listings PROVE job'[j].todo[l] <= Room(l)
      OBVIOUS
    <3>1. CASE l \in Market[j]
      BY <2>2, <2>3, <3>1, PollAssumption
    <3>2. CASE l \notin Market[j]
      <4>1. l \notin Unseen(Market[j] \cap onSale, Entry(j))
        BY <3>2 DEF Unseen
      <4> QED BY <2>2, <3>2, <4>1
    <3> QED BY <3>1, <3>2
  <2> QED BY <2>2, <2>3, <2>4 DEF Shape, Held, One, Handling, NoFinds
<1>5. CASE PickMatch(j) \/ PickDrop(j)
  <2> DEFINE k == job'[j].cur
  <2>0. k \in Listings
    BY <1>5, PickEffect
  <2>1. job[j].at = "batch" /\ job[j].todo = NoFinds /\ job'[j].todo = NoFinds
        /\ job'[j].at \in {"gate", "drop"}
    BY <1>5, PickEffect
  <2>2. \A l \in Listings :
          \/ /\ job'[j].match[l] = job[j].match[l] - One(l = k)
             /\ job'[j].drop[l] = job[j].drop[l]
          \/ /\ job'[j].match[l] = job[j].match[l]
             /\ job'[j].drop[l] = job[j].drop[l] - One(l = k)
    BY <1>5, <1>t, PickEffect, OneLessEffect
  <2> HIDE DEF k
  <2>3. \A l \in Listings : job[j].match[l] + job[j].drop[l] <= Room(l)
    BY <1>n, <2>1 DEF Shape, Held, One, Handling, NoFinds
  <2>4. \A l \in Listings : job'[j].match[l] + job'[j].drop[l] + One(l = k) <= Room(l)
    BY <1>n, <2>2, <2>3 DEF One
  <2>5. \A l \in Listings : job'[j].match[l] + job'[j].drop[l] + One(job'[j].cur = l) <= Room(l)
    BY <2>4 DEF k, One
  <2>6. \A l \in Listings : job'[j].todo[l] = 0
    BY <2>1 DEF NoFinds
  <2>7. ASSUME NEW l \in Listings PROVE Held(job'[j], l) <= Room(l)
    BY <1>n, <2>1, <2>2, <2>5, <2>6 DEF Held, One, Handling
  <2> QED BY <2>1, <2>7 DEF Shape, Handling
<1>6. ASSUME NEW from \in Handling, NEW to \in {"batch", "send", "snapshot", "seen"},
             Move(j, from, to)
      PROVE  Shape(j)'
  <2>1. /\ job[j].at \in Handling /\ job'[j].at = to /\ job'[j].cur = job[j].cur
        /\ job'[j].todo = job[j].todo /\ job'[j].match = job[j].match /\ job'[j].drop = job[j].drop
    BY <1>6, MoveEffect DEF Stages, Handling
  <2>2. ASSUME NEW l \in Listings PROVE Held(job'[j], l) <= Room(l)
    <3>1. Held(job[j], l) <= Room(l)
      BY DEF Shape
    <3> QED BY <1>n, <2>1, <3>1 DEF Held, One
  <2> QED BY <2>1, <2>2 DEF Shape, Handling
<1>7. CASE \/ SelectPhase(j) \/ Delivered(j) \/ Undelivered(j) \/ Unconfirmed(j)
           \/ SnapshotStored(j) \/ SeenStored(j) \/ PersistFails(j)
  BY <1>6, <1>7 DEF SelectPhase, Delivered, Undelivered, Unconfirmed, SnapshotStored, SeenStored,
     PersistFails, Handling
<1>8. ASSUME NEW k \in Listings, CacheHit(j, k) \/ CacheMiss(j, k) \/ EvaluationFails(j, k)
      PROVE  Shape(j)'
  <2>1. /\ job[j].at = "batch" /\ job'[j].at = "batch" /\ job[j].todo[k] > 0
        /\ job'[j].todo = OneLess(job[j].todo, k)
        /\ \/ job'[j].match = OneMore(job[j].match, k) /\ job'[j].drop = job[j].drop
           \/ job'[j].match = job[j].match /\ job'[j].drop = OneMore(job[j].drop, k)
           \/ job'[j].match = job[j].match /\ job'[j].drop = job[j].drop
    BY <1>8, JudgedEffect, UnjudgedEffect
  <2>2. \A l \in Listings :
          /\ job'[j].todo[l] = job[j].todo[l] - One(l = k)
          /\ \/ job'[j].match[l] = job[j].match[l] + One(l = k) /\ job'[j].drop[l] = job[j].drop[l]
             \/ job'[j].match[l] = job[j].match[l] /\ job'[j].drop[l] = job[j].drop[l] + One(l = k)
             \/ job'[j].match[l] = job[j].match[l] /\ job'[j].drop[l] = job[j].drop[l]
    <3>1. \A l \in Listings : OneLess(job[j].todo, k)[l] = job[j].todo[l] - One(l = k)
      BY <1>t, <2>1, OneLessEffect
    <3>2. \A l \in Listings : /\ OneMore(job[j].match, k)[l] = job[j].match[l] + One(l = k)
                              /\ OneMore(job[j].drop, k)[l] = job[j].drop[l] + One(l = k)
      BY <1>t, OneMoreEffect
    <3> QED BY <2>1, <3>1, <3>2
  <2>3. ASSUME NEW l \in Listings PROVE Held(job'[j], l) <= Room(l)
    <3>1. Held(job[j], l) <= Room(l)
      BY DEF Shape
    <3>2. job[j].todo[l] + job[j].match[l] + job[j].drop[l] <= Room(l)
      BY <1>n, <2>1, <3>1 DEF Held, One, Handling
    <3>3. job'[j].todo[l] + job'[j].match[l] + job'[j].drop[l] <= Room(l)
      BY <1>n, <2>2, <3>2 DEF One
    <3> QED BY <1>n, <2>1, <2>2, <3>3 DEF Held, One, Handling
  <2> QED BY <2>1, <2>3 DEF Shape, Handling
<1> QED BY <1>1, <1>2, <1>3, <1>4, <1>5, <1>7, <1>8 DEF CycleStep

\* The books of a pair stay true while nothing is entered in them.
LEMMA BooksKept ==
  ASSUME PollTypeOK, NEW j \in Jobs, NEW p \in Pairs, Books(j, p), Charge,
         alerts'[p] = alerts[p], snaps'[p] = snaps[p], p \in seen' <=> p \in seen,
         storeOpen' = storeOpen, Owed' = Owed,
         Left(j, p) \in Nat, Left(j, p)' \in Nat, Left(j, p)' <= Left(j, p),
         Sent(j, p)' <=> Sent(j, p), Kept(j, p)' <=> Kept(j, p)
  PROVE  Books(j, p)'
<1>1. alerts[p] \in Nat /\ snaps[p] \in Nat
  BY DEF PollTypeOK
<1>2. Copies \in Nat /\ Paid \in Nat /\ Paid' \in Nat /\ Paid' >= Paid
  BY PaidGrows
<1>3. Audit(j, p)'
  BY <1>1, <1>2 DEF Books, Audit, One, Debt
<1>4. Repeat(j, p)'
  BY <1>1, <1>2 DEF Books, Repeat, One, Debt
<1> QED BY <1>3, <1>4 DEF Books

\* The pairs of another market, and the pairs of no market, are left alone.
LEMMA CycleOthers ==
  ASSUME PollTypeOK, NEW i \in Jobs, Shape(i), CycleStep(i), UNCHANGED lifeVars
  PROVE  /\ \A j \in Jobs \ {i} : Shape(j) => Shape(j)'
         /\ \A j \in Jobs \ {i} : Shape(j) /\ Settling(j) => Settling(j)'
         /\ \A j \in Jobs \ {i}, p \in Pairs : Shape(j) /\ Polled(j, p) /\ Books(j, p) => Books(j, p)'
         /\ \A p \in Pairs : Unpolled(p) => Unpolled(p)'
<1>1. /\ Others(i) /\ storeOpen' = storeOpen /\ Charge
      /\ \A p \in Pairs : ~Polled(i, p) =>
           alerts'[p] = alerts[p] /\ snaps'[p] = snaps[p] /\ (p \in seen' <=> p \in seen)
  BY CycleFrame
<1>2. alerts \in [Pairs -> Nat] /\ snaps \in [Pairs -> Nat]
  BY DEF PollTypeOK
<1>3. \A j \in Jobs \ {i} : job'[j] = job[j] /\ Pair(j)' = Pair(j) /\ Entry(j)' = Entry(j)
  BY <1>1 DEF Others, Pair, Entry
<1>4. \A j \in Jobs \ {i}, p \in Pairs : Polled(j, p) => ~Polled(i, p)
  BY PollAssumption DEF Polled
<1>5. ASSUME NEW j \in Jobs \ {i}, Shape(j) PROVE Shape(j)'
  BY <1>3, <1>5 DEF Shape
<1>6. ASSUME NEW j \in Jobs \ {i}, Shape(j), Settling(j) PROVE Settling(j)'
  <2>1. job[j].at = "seen" => Pair(j) \in Pairs /\ Polled(j, Pair(j))
    BY <1>6, HandledPolled DEF Handling
  <2> QED BY <1>1, <1>3, <1>4, <1>6, <2>1 DEF Settling, Declined
<1>7. ASSUME NEW j \in Jobs \ {i}, NEW p \in Pairs, Shape(j), Polled(j, p), Books(j, p)
      PROVE  Books(j, p)'
  <2>1. alerts'[p] = alerts[p] /\ snaps'[p] = snaps[p] /\ (p \in seen' <=> p \in seen)
    BY <1>1, <1>4, <1>7
  <2>2. Left(j, p)' = Left(j, p) /\ (Sent(j, p)' <=> Sent(j, p)) /\ (Kept(j, p)' <=> Kept(j, p))
    BY <1>3 DEF Left, Sent, Kept
  <2>3. Owed' = Owed
    BY DEF Owed
  <2>4. Left(j, p) \in Nat
    BY <1>7, LeftBound
  <2> QED BY <1>1, <1>7, <2>1, <2>2, <2>3, <2>4, BooksKept
<1>8. ASSUME NEW p \in Pairs, Unpolled(p) PROVE Unpolled(p)'
  BY <1>1, <1>8 DEF Unpolled, Polled
<1> QED BY <1>5, <1>6, <1>7, <1>8

\* A step of job j's cycle keeps what its listings have to show.
LEMMA SettlingStep ==
  ASSUME PollTypeOK, NEW j \in Jobs, Shape(j), Settling(j), SeenIsSettled, CycleStep(j)
  PROVE  Settling(j)' /\ SeenIsSettled'
<1> USE DEF Settling, SeenIsSettled, Declined
<1>p. job[j].at \in {"gate", "send", "snapshot", "seen", "drop"} =>
        Pair(j) \in Pairs /\ Pair(j)[1] = job[j].cur
  BY PairTyped DEF Pair
<1>s. snaps \in [Pairs -> Nat]
  BY DEF PollTypeOK
<1>d. job[j].drop \in Finds /\ \A l \in Listings : job[j].drop[l] \in Nat
  BY DEF PollTypeOK, Cycles, Finds
<1>n. \A l \in Listings : ~(NoFinds[l] > 0)
  BY DEF NoFinds
<1>1. CASE SkipSnoozed(j) \/ SearchFails(j) \/ BatchDone(j)
  BY <1>1, <1>n, NextEntryEffect DEF SkipSnoozed, SearchFails, BatchDone
<1>2. CASE EndCycle(j) \/ CycleRaises(j)
  BY <1>2, <1>n, IdleEffect DEF EndCycle, CycleRaises
<1>3. CASE EnterSearch(j)
  BY <1>3, MoveEffect DEF EnterSearch, Stages
<1>4. CASE SearchOk(j)
  <2>1. job'[j].at = "batch" /\ job'[j].drop = job[j].drop
    BY <1>4, SearchEffect
  <2> QED BY <1>4, <2>1 DEF SearchOk
<1>5. CASE PickMatch(j) \/ PickDrop(j)
  <2>1. UNCHANGED <<tables, world, conns, mishaps>>
    BY <1>5 DEF PickMatch, PickDrop
  <2>2. \A l \in Listings : job'[j].drop[l] > 0 => job[j].drop[l] > 0
    <3>1. \A l \in Listings, k \in Listings :
            job[j].drop[k] > 0 /\ OneLess(job[j].drop, k)[l] > 0 => job[j].drop[l] > 0
      BY <1>d, OneLessEffect DEF One
    <3> QED BY <1>5, <3>1, PickEffect
  <2>3. /\ job'[j].at \in {"gate", "drop"}
        /\ job'[j].at = "drop" => job'[j].cur \in Listings /\ job[j].drop[job'[j].cur] > 0
    BY <1>5, PickEffect
  <2> QED BY <2>1, <2>2, <2>3
<1>6. CASE SelectPhase(j) \/ Delivered(j) \/ Undelivered(j) \/ Unconfirmed(j) \/ PersistFails(j)
  <2>1. UNCHANGED tables
    BY <1>6 DEF SelectPhase, Delivered, Undelivered, Unconfirmed, PersistFails
  <2>2. \E from \in Stages, to \in {"send", "snapshot", "batch"} : Move(j, from, to)
    BY <1>6 DEF SelectPhase, Delivered, Undelivered, Unconfirmed, PersistFails, Stages
  <2>3. job'[j].at \in {"send", "snapshot", "batch"} /\ job'[j].drop = job[j].drop
    BY <2>2, MoveEffect DEF Stages
  <2> QED BY <2>1, <2>3
<1>7. CASE SnapshotStored(j)
  <2>1. job[j].at = "snapshot" /\ job'[j].at = "seen" /\ Pair(j)' = Pair(j) /\ job'[j].drop = job[j].drop
    BY <1>7, MoveEffect DEF SnapshotStored, Stages, Pair, Entry
  <2>2. snaps'[Pair(j)] > 0 /\ \A p \in Pairs : snaps[p] > 0 => snaps'[p] > 0
    BY <1>7, <1>p, <1>s, <2>1 DEF SnapshotStored
  <2>3. SeenIsSettled'
    BY <1>7, <2>2 DEF SnapshotStored, PollTypeOK
  <2> QED BY <2>1, <2>2, <2>3
<1>8. CASE SeenStored(j)
  <2>1. Move(j, "seen", "batch") \/ Move(j, "drop", "batch")
    BY <1>8 DEF SeenStored
  <2>2. job[j].at \in {"seen", "drop"} /\ job'[j].at = "batch" /\ job'[j].drop = job[j].drop
    BY <2>1, MoveEffect DEF Stages
  <2>3. snaps[Pair(j)] > 0 \/ \E e \in Entries : <<Pair(j)[1], e>> \notin Fits
    BY <2>2, <1>p
  <2> QED BY <1>8, <2>2, <2>3 DEF SeenStored
<1>9. ASSUME NEW l \in Listings, CacheHit(j, l) \/ CacheMiss(j, l)
      PROVE  Settling(j)' /\ SeenIsSettled'
  <2>1. UNCHANGED <<seen, snaps>>
    BY <1>9 DEF CacheHit, CacheMiss
  <2>2. /\ job[j].at = "batch" /\ job'[j].at = job[j].at
        /\ job'[j].drop = job[j].drop
           \/ (job'[j].drop = OneMore(job[j].drop, l) /\ Declined(l))
    BY <1>9, JudgedEffect
  <2>3. \A m \in Listings : m # l => OneMore(job[j].drop, l)[m] = job[j].drop[m]
    BY <1>d, OneMoreEffect DEF One
  <2> QED BY <2>1, <2>2, <2>3
<1>10. ASSUME NEW l \in Listings, EvaluationFails(j, l) PROVE Settling(j)' /\ SeenIsSettled'
  <2>1. job[j].at = "batch" /\ job'[j].at = "batch" /\ job'[j].drop = job[j].drop
    BY <1>10, UnjudgedEffect DEF EvaluationFails
  <2> QED BY <1>10, <2>1 DEF EvaluationFails
<1> QED BY <1>1, <1>2, <1>3, <1>4, <1>5, <1>6, <1>7, <1>8, <1>9, <1>10 DEF CycleStep

\* The deliveries and what follows them: the steps that enter something.
LEMMA BooksEntered ==
  ASSUME PollTypeOK, NEW j \in Jobs, Shape(j), UNCHANGED lifeVars,
         NEW p \in Pairs, Polled(j, p), Books(j, p),
         Delivered(j) \/ Unconfirmed(j) \/ SnapshotStored(j) \/ SeenStored(j) \/ PersistFails(j)
  PROVE  Books(j, p)'
<1>t. alerts \in [Pairs -> Nat] /\ snaps \in [Pairs -> Nat] /\ alerts[p] \in Nat /\ snaps[p] \in Nat
  BY DEF PollTypeOK
<1>f. storeOpen' = storeOpen /\ Charge
  BY CycleFrame DEF CycleStep
<1>c. /\ Copies \in Nat \ {0} /\ Paid \in Nat /\ Paid' \in Nat /\ Paid' >= Paid
      /\ mishaps' = mishaps => Paid' = Paid
      /\ mishaps' = mishaps + 1 => Paid' = Paid + Copies
  BY <1>f, PaidGrows
<1>m. \E from, to \in Stages :
        /\ Move(j, from, to) /\ from \in {"send", "snapshot", "seen", "drop"}
        /\ to \in {"send", "snapshot", "seen", "batch"}
  BY DEF Delivered, Unconfirmed, SnapshotStored, SeenStored, PersistFails, Stages
<1>1. /\ job[j].at \in {"send", "snapshot", "seen", "drop"}
      /\ job'[j].at \in {"send", "snapshot", "seen", "batch"}
      /\ job[j].todo = NoFinds /\ job'[j].todo = NoFinds /\ job'[j].match = job[j].match
      /\ job'[j].pos = job[j].pos /\ job'[j].cur = job[j].cur
      /\ Entry(j)' = Entry(j) /\ Pair(j)' = Pair(j)
  <2>1. /\ job[j].at \in {"send", "snapshot", "seen", "drop"}
        /\ job'[j].at \in {"send", "snapshot", "seen", "batch"}
        /\ job'[j].todo = job[j].todo /\ job'[j].match = job[j].match
        /\ job'[j].pos = job[j].pos /\ job'[j].cur = job[j].cur
    BY <1>m, MoveEffect
  <2>2. job[j].todo = NoFinds
    BY <2>1 DEF Shape, Handling
  <2> QED BY <2>1, <2>2 DEF Entry, Pair
<1>2. Pair(j) \in Pairs /\ Pair(j)[1] = job[j].cur /\ Pair(j)[2] = Entry(j)
  BY <1>1, HandledPolled DEF Handling, Pair
<1>o. Owed' = Owed
  BY DEF Owed
<1> DEFINE n == job[j].match[p[1]]
<1>n. n \in Nat /\ p[1] \in Listings /\ NoFinds[p[1]] = 0
  BY DEF PollTypeOK, Cycles, Finds, Pairs, NoFinds
<1>h. p = Pair(j) => n + 1 <= Copies
  <2>1. Held(job[j], p[1]) <= Copies
    <3>1. Held(job[j], p[1]) <= (IF p[1] \in Market[j] THEN Copies ELSE 0)
      BY <1>n DEF Shape
    <3> QED BY <3>1 DEF Polled
  <2>2. job[j].drop[p[1]] \in Nat
    BY <1>n DEF PollTypeOK, Cycles, Finds
  <2>3. p = Pair(j) => Held(job[j], p[1]) = n + job[j].drop[p[1]] + 1
    BY <1>1, <1>2, <1>n, <2>2 DEF Held, One, Handling
  <2> QED BY <1>c, <1>n, <2>1, <2>2, <2>3
<1>e. ASSUME p # Pair(j)
      PROVE  Left(j, p)' = Left(j, p) /\ Left(j, p) \in Nat
  <2>1. ~(p[2] = Entry(j) /\ job[j].cur = p[1])
    BY <1>e DEF Pair, Pairs
  <2> QED BY <1>1, <1>n, <2>1 DEF Left, One, Handling
<1>l. p = Pair(j) => /\ Left(j, p) = n + (IF job[j].at = "send" THEN 1 ELSE 0)
                     /\ Left(j, p)' = n + (IF job'[j].at = "send" THEN 1 ELSE 0)
  BY <1>1, <1>2, <1>n DEF Left, One, Handling
<1>3. CASE p # Pair(j)
  <2>1. alerts'[p] = alerts[p] /\ snaps'[p] = snaps[p] /\ (p \in seen' <=> p \in seen)
    BY <1>2, <1>t, <1>3 DEF Delivered, Unconfirmed, SnapshotStored, SeenStored, PersistFails, Shown
  <2>2. (Sent(j, p)' <=> Sent(j, p)) /\ (Kept(j, p)' <=> Kept(j, p))
    BY <1>1, <1>3 DEF Sent, Kept
  <2> QED BY <1>f, <1>o, <1>e, <1>3, <2>1, <2>2, BooksKept
<1>4. CASE p = Pair(j)
  <2> DEFINE a == alerts[p]
             b == snaps[p]
             d == Debt
             L == n + (IF job[j].at = "send" THEN 1 ELSE 0)
             M == n + (IF job'[j].at = "send" THEN 1 ELSE 0)
  <2>d. d \in Nat /\ Debt' = d
    BY <1>c, <1>o DEF Debt
  <2>k. /\ Sent(j, p) <=> job[j].at = "snapshot"
        /\ Sent(j, p)' <=> job'[j].at = "snapshot"
        /\ Kept(j, p) <=> job[j].at \in {"snapshot", "seen"}
        /\ Kept(j, p)' <=> job'[j].at \in {"snapshot", "seen"}
    BY <1>1, <1>4 DEF Sent, Kept
  <2>b. /\ b + (IF job[j].at = "snapshot" THEN 1 ELSE 0) <= a
        /\ storeOpen => a + d <= b + Paid + (IF job[j].at = "snapshot" THEN 1 ELSE 0)
        /\ ~storeOpen => a + L <= b + Paid
        /\ storeOpen /\ p \in seen => a + L + d <= Paid + Copies
        /\ storeOpen /\ p \notin seen => a + d <= Paid + (IF job[j].at \in {"snapshot", "seen"} THEN 1 ELSE 0)
        /\ ~storeOpen /\ p \in seen => a + L <= Paid + Copies
        /\ ~storeOpen /\ p \notin seen => a + L <= Paid
    BY <1>4, <1>l, <2>k DEF Books, Audit, Repeat, One
  <2>q. ASSUME
          /\ snaps'[p] + (IF job'[j].at = "snapshot" THEN 1 ELSE 0) <= alerts'[p]
          /\ storeOpen => alerts'[p] + d <= snaps'[p] + Paid' + (IF job'[j].at = "snapshot" THEN 1 ELSE 0)
          /\ ~storeOpen => alerts'[p] + M <= snaps'[p] + Paid'
          /\ storeOpen /\ p \in seen' => alerts'[p] + M + d <= Paid' + Copies
          /\ storeOpen /\ p \notin seen' =>
               alerts'[p] + d <= Paid' + (IF job'[j].at \in {"snapshot", "seen"} THEN 1 ELSE 0)
          /\ ~storeOpen /\ p \in seen' => alerts'[p] + M <= Paid' + Copies
          /\ ~storeOpen /\ p \notin seen' => alerts'[p] + M <= Paid'
        PROVE Books(j, p)'
    <3>1. Audit(j, p)'
      BY <1>f, <1>4, <1>l, <2>d, <2>k, <2>q DEF Audit, One
    <3>2. Repeat(j, p)'
      BY <1>f, <1>4, <1>l, <2>d, <2>k, <2>q DEF Repeat, One
    <3> QED BY <3>1, <3>2 DEF Books
  <2>h. n \in Nat /\ n + 1 <= Copies /\ a \in Nat /\ b \in Nat
    BY <1>h, <1>n, <1>t, <1>4
  <2> HIDE DEF n, d
  <2> USE <1>c, <2>b, <2>d, <2>h
  <2>1. CASE Delivered(j)
    <3>1. job[j].at = "send" /\ job'[j].at = "snapshot"
      BY <2>1, MoveEffect DEF Delivered, Stages
    <3>2. UNCHANGED <<snaps, seen, mishaps>> /\ alerts'[p] = alerts[p] + 1
      BY <1>4, <1>t, <2>1 DEF Delivered, Shown
    <3> QED BY <3>1, <3>2, <2>q
  <2>2. CASE Unconfirmed(j)
    <3>1. Move(j, "send", "send") \/ Move(j, "send", "batch")
      BY <2>2 DEF Unconfirmed
    <3>2. job[j].at = "send" /\ job'[j].at \in {"send", "batch"}
      BY <3>1, MoveEffect DEF Stages
    <3>3. UNCHANGED <<snaps, seen>> /\ alerts'[p] = alerts[p] + 1 /\ mishaps' = mishaps + 1
      BY <1>4, <1>t, <2>2 DEF Unconfirmed, Shown, Mishap
    <3> QED BY <3>2, <3>3, <2>q
  <2>3. CASE SnapshotStored(j)
    <3>1. job[j].at = "snapshot" /\ job'[j].at = "seen"
      BY <2>3, MoveEffect DEF SnapshotStored, Stages
    <3>2. UNCHANGED <<alerts, seen, mishaps>> /\ snaps'[p] = snaps[p] + 1 /\ storeOpen
      BY <1>4, <1>t, <2>3 DEF SnapshotStored
    <3> QED BY <3>1, <3>2, <2>q
  <2>4. CASE SeenStored(j)
    <3>1. Move(j, "seen", "batch") \/ Move(j, "drop", "batch")
      BY <2>4 DEF SeenStored
    <3>2. job[j].at \in {"seen", "drop"} /\ job'[j].at = "batch"
      BY <3>1, MoveEffect DEF Stages
    <3>3. UNCHANGED <<alerts, snaps, mishaps>> /\ p \in seen' /\ storeOpen
      BY <1>4, <2>4 DEF SeenStored
    <3> QED BY <3>2, <3>3, <2>q
  <2>5. CASE PersistFails(j)
    <3>1. Move(j, "snapshot", "batch") \/ Move(j, "seen", "batch") \/ Move(j, "drop", "batch")
      BY <2>5 DEF PersistFails
    <3>2. job[j].at \in {"snapshot", "seen", "drop"} /\ job'[j].at = "batch"
      BY <3>1, MoveEffect DEF Stages
    <3>3. UNCHANGED <<alerts, snaps, seen>> /\ (storeOpen => mishaps' = mishaps + 1)
      BY <2>5 DEF PersistFails, StatementRaises, Mishap
    <3> QED BY <3>2, <3>3, <2>q
  <2> QED BY <2>1, <2>2, <2>3, <2>4, <2>5
<1> QED BY <1>3, <1>4

\* A step of job j's cycle keeps the books of the pairs it polls.
LEMMA BooksStep ==
  ASSUME PollTypeOK, NEW j \in Jobs, Shape(j), CycleStep(j), UNCHANGED lifeVars,
         NEW p \in Pairs, Polled(j, p), Books(j, p)
  PROVE  Books(j, p)'
<1>f. storeOpen' = storeOpen /\ Charge /\ Owed' = Owed
  BY CycleFrame DEF Owed
<1>l. Left(j, p) \in Nat
  BY LeftBound
<1>z. p[1] \in Listings /\ NoFinds[p[1]] = 0
  BY DEF Pairs, NoFinds
<1>n. job[j].todo[p[1]] \in Nat /\ job[j].match[p[1]] \in Nat
      /\ job[j].todo \in Finds /\ job[j].match \in Finds
  BY <1>z DEF PollTypeOK, Cycles, Finds
<1>1. CASE Delivered(j) \/ Unconfirmed(j) \/ SnapshotStored(j) \/ SeenStored(j) \/ PersistFails(j)
  BY <1>1, BooksEntered
<1>2. CASE SkipSnoozed(j) \/ SearchFails(j) \/ BatchDone(j) \/ EndCycle(j) \/ CycleRaises(j)
  <2>1. UNCHANGED <<alerts, snaps, seen>> /\ job[j].at \in {"entry", "search", "batch", "gate"}
    BY <1>2 DEF SkipSnoozed, SearchFails, BatchDone, EndCycle, CycleRaises
  <2>2. job'[j].at \in {"entry", "idle"}
    BY <1>2, NextEntryEffect, IdleEffect
       DEF SkipSnoozed, SearchFails, BatchDone, EndCycle, CycleRaises
  <2>3. Left(j, p)' = 0 /\ ~Sent(j, p) /\ ~Sent(j, p)' /\ ~Kept(j, p) /\ ~Kept(j, p)'
    BY <2>1, <2>2 DEF Left, Sent, Kept, Handling
  <2> QED BY <1>f, <1>l, <2>1, <2>3, BooksKept
<1>3. CASE EnterSearch(j)
  <2>1. job[j].at = "entry" /\ job'[j].at = "search" /\ UNCHANGED <<alerts, snaps, seen>>
    BY <1>3, MoveEffect DEF EnterSearch, Stages
  <2>2. Left(j, p)' = 0 /\ ~Sent(j, p) /\ ~Sent(j, p)' /\ ~Kept(j, p) /\ ~Kept(j, p)'
    BY <2>1 DEF Left, Sent, Kept, Handling
  <2> QED BY <1>f, <1>l, <2>1, <2>2, BooksKept
<1>4. CASE SearchOk(j)
  <2>1. /\ job[j].at = "search" /\ storeOpen /\ UNCHANGED <<alerts, snaps, seen, mishaps>>
        /\ job'[j].at = "batch" /\ job'[j].match = NoFinds /\ Entry(j)' = Entry(j)
    BY <1>4, SearchEffect DEF SearchOk, Shape, Entry
  <2>2. job'[j].todo[p[1]] \in Nat
        /\ job'[j].todo[p[1]] <=
             (IF p[1] \in Unseen(Market[j] \cap onSale, Entry(j)) THEN Copies ELSE 0)
    BY <1>4, <1>z, SearchEffect DEF Cycles, Finds
  <2>3. p \in seen /\ p[2] = Entry(j) => p[1] \notin Unseen(Market[j] \cap onSale, Entry(j))
    BY DEF Unseen, Pairs
  <2>4. p \in seen => Left(j, p)' = 0
    BY <1>z, <2>1, <2>2, <2>3 DEF Left, One, Handling
  <2>5. Left(j, p) = 0 /\ ~Sent(j, p) /\ ~Sent(j, p)' /\ ~Kept(j, p) /\ ~Kept(j, p)'
    BY <2>1 DEF Left, Sent, Kept, Handling
  <2>6. Paid' = Paid /\ Debt' = Debt /\ storeOpen'
    BY <1>f, <2>1 DEF Paid, Debt
  <2>7. Audit(j, p)'
    BY <2>1, <2>5, <2>6 DEF Books, Audit, One
  <2>8. Repeat(j, p)'
    BY <2>1, <2>4, <2>5, <2>6 DEF Books, Repeat, One
  <2> QED BY <2>7, <2>8 DEF Books
<1>5. CASE PickMatch(j) \/ PickDrop(j)
  <2>1. UNCHANGED <<alerts, snaps, seen>>
    BY <1>5 DEF PickMatch, PickDrop
  <2>2. /\ Entry(j)' = Entry(j) /\ job[j].at = "batch" /\ job'[j].at \in {"gate", "drop"}
        /\ job[j].todo = NoFinds /\ job'[j].todo = NoFinds /\ job'[j].cur \in Listings
    BY <1>5, PickEffect DEF Entry
  <2>3. \/ /\ job'[j].at = "gate" /\ job[j].match[job'[j].cur] > 0
           /\ job'[j].match = OneLess(job[j].match, job'[j].cur)
        \/ job'[j].at = "drop" /\ job'[j].match = job[j].match
    BY <1>5, PickEffect
  <2>4. \/ /\ job'[j].at = "gate"
           /\ job'[j].match[p[1]] = job[j].match[p[1]] - One(p[1] = job'[j].cur)
           /\ job[j].match[job'[j].cur] > 0
        \/ job'[j].at = "drop" /\ job'[j].match[p[1]] = job[j].match[p[1]]
    BY <1>n, <1>z, <2>2, <2>3, OneLessEffect
  <2>5. Left(j, p)' \in Nat /\ Left(j, p)' <= Left(j, p)
    BY <1>n, <1>z, <2>2, <2>4 DEF Left, One, Handling
  <2>6. ~Sent(j, p) /\ ~Sent(j, p)' /\ ~Kept(j, p) /\ ~Kept(j, p)'
    BY <2>2 DEF Sent, Kept
  <2> QED BY <1>f, <1>l, <2>1, <2>5, <2>6, BooksKept
<1>6. CASE SelectPhase(j) \/ Undelivered(j)
  <2>1. UNCHANGED <<alerts, snaps, seen>>
    BY <1>6 DEF SelectPhase, Undelivered
  <2>2. Move(j, "gate", "send") \/ Move(j, "send", "batch")
    BY <1>6 DEF SelectPhase, Undelivered
  <2>3. /\ job[j].at \in {"gate", "send"} /\ job'[j].at \in {"send", "batch"}
        /\ job'[j].todo = job[j].todo /\ job'[j].match = job[j].match /\ job'[j].cur = job[j].cur
        /\ Entry(j)' = Entry(j)
    BY <2>2, MoveEffect DEF Stages, Entry
  <2>4. Left(j, p)' \in Nat /\ Left(j, p)' <= Left(j, p)
    BY <1>n, <2>3 DEF Left, One, Handling
  <2>5. ~Sent(j, p) /\ ~Sent(j, p)' /\ ~Kept(j, p) /\ ~Kept(j, p)'
    BY <2>3 DEF Sent, Kept
  <2> QED BY <1>f, <1>l, <2>1, <2>4, <2>5, BooksKept
<1>7. ASSUME NEW l \in Listings, CacheHit(j, l) \/ CacheMiss(j, l) \/ EvaluationFails(j, l)
      PROVE  Books(j, p)'
  <2>1. UNCHANGED <<alerts, snaps, seen>> /\ job[j].at = "batch"
    BY <1>7 DEF CacheHit, CacheMiss, EvaluationFails
  <2>2. /\ job'[j].at = "batch" /\ Entry(j)' = Entry(j) /\ job[j].todo[l] > 0
        /\ job'[j].todo = OneLess(job[j].todo, l)
        /\ job'[j].match = job[j].match \/ job'[j].match = OneMore(job[j].match, l)
    BY <1>7, <2>1, JudgedEffect, UnjudgedEffect DEF Entry
  <2>3. job'[j].todo[p[1]] = job[j].todo[p[1]] - One(p[1] = l)
    BY <1>n, <1>z, <2>2, OneLessEffect
  <2>4. \/ job'[j].match[p[1]] = job[j].match[p[1]]
        \/ job'[j].match[p[1]] = job[j].match[p[1]] + One(p[1] = l)
    BY <1>n, <1>z, <2>2, OneMoreEffect
  <2>5. Left(j, p)' \in Nat /\ Left(j, p)' <= Left(j, p)
    BY <1>n, <2>1, <2>2, <2>3, <2>4 DEF Left, One, Handling
  <2>6. ~Sent(j, p) /\ ~Sent(j, p)' /\ ~Kept(j, p) /\ ~Kept(j, p)'
    BY <2>1, <2>2 DEF Sent, Kept
  <2> QED BY <1>f, <1>l, <2>1, <2>5, <2>6, BooksKept
<1> QED BY <1>1, <1>2, <1>3, <1>4, <1>5, <1>6, <1>7 DEF CycleStep

\* A cycle with nothing in memory.
Blank(c) ==
  c.at \in {"idle", "entry"} /\ c.todo = NoFinds /\ c.match = NoFinds /\ c.drop = NoFinds

\* The process and its environment never touch an alert, an audit row or a seen
\* mark; a cycle either goes on or loses what it had in memory.
LEMMA ProcessFrame ==
  ASSUME TypeOK, ProcessStep
  PROVE  /\ UNCHANGED <<alerts, snaps, seen>>
         /\ \A j \in Jobs : job'[j] = job[j] \/ Blank(job'[j])
         /\ Charge
<1> USE DEF TypeOK, PollTypeOK, Blank, Charge
<1>2. ASSUME NEW j \in Jobs, LoopStartsCycle(j)
      PROVE  \A i \in Jobs : job'[i] = job[i] \/ Blank(job'[i])
  <2>1. Blank([Idle EXCEPT !.at = "entry"])
    BY DEF Idle
  <2> QED BY <1>2, <2>1 DEF LoopStartsCycle, StartCycle
<1>3. Blank(Idle)
  BY DEF Idle
<1>4. ASSUME NEW j \in Jobs, LoopStartsCycle(j) \/ LoopReturns(j)
      PROVE  UNCHANGED <<alerts, snaps, seen, mishaps>> /\ (LoopReturns(j) => UNCHANGED job)
  BY <1>4 DEF LoopStartsCycle, StartCycle, LoopReturns, pollVars
<1>5. CASE Signal
  BY <1>5 DEF Signal, Mishap
<1>6. CASE ExitCancels
  BY <1>3, <1>6 DEF ExitCancels
<1>7. CASE ShutdownBegins \/ ShutdownDone \/ MainWakes \/ CloseCache \/ CloseStore
  BY <1>7 DEF ShutdownBegins, ShutdownDone, MainWakes, CloseCache, CloseStore, pollVars
<1>8. CASE Dies
  BY <1>3, <1>8 DEF Dies, Mishap
<1>9. CASE Restart \/ Start
  BY <1>9 DEF Restart, Start, Boot
<1>10. CASE World
  BY <1>10 DEF World, Environment, Posted, Sold, Snooze, SnoozeEnds, CacheExpires
<1> QED BY <1>2, <1>4, <1>5, <1>6, <1>7, <1>8, <1>9, <1>10 DEF ProcessStep, ShutdownStep

\* Every step keeps the account of where the shutdown stands.
LEMMA EndingStep == ASSUME TypeOK, Ending, [Next]_vars PROVE Ending'
<1> USE DEF Ending, Alive
<1>1. ASSUME NEW j \in Jobs, LoopStep(j) PROVE Ending'
  BY <1>1 DEF LoopStep, LoopStartsCycle, LoopRunsCycle, LoopReturns
<1>2. CASE Signal
  BY <1>2 DEF Signal
<1>3. CASE ShutdownStep
  BY <1>3 DEF ShutdownStep, ShutdownBegins, ShutdownDone, MainWakes, CloseCache, CloseStore,
     ExitCancels, Stopping, pollVars
<1>4. CASE Dies
  BY <1>4 DEF Dies
<1>5. CASE Restart \/ Start
  BY <1>5 DEF Restart, Start, Boot
<1>6. CASE World \/ UNCHANGED vars
  BY <1>6 DEF World, Environment, Posted, Sold, Snooze, SnoozeEnds, CacheExpires, vars, pollVars
<1> QED BY <1>1, <1>2, <1>3, <1>4, <1>5, <1>6 DEF Next

\* A signal pays for what a shutdown loses, a crash for what it loses itself.
LEMMA ProcessBooks ==
  ASSUME TypeOK, Ending, NEW j \in Jobs, Shape(j), NEW p \in Pairs, Books(j, p), ProcessStep
  PROVE  Books(j, p)'
<1>t. alerts[p] \in Nat /\ snaps[p] \in Nat
  BY DEF TypeOK, PollTypeOK
<1>u. UNCHANGED <<alerts, snaps, seen>> /\ Charge
  BY ProcessFrame
<1>c. /\ Copies \in Nat \ {0} /\ Paid \in Nat /\ Paid' \in Nat /\ Paid' >= Paid
      /\ mishaps' = mishaps => Paid' = Paid
      /\ mishaps' = mishaps + 1 => Paid' = Paid + Copies
  BY <1>u, PaidGrows DEF TypeOK
<1>b. job'[j] # job[j] => Left(j, p)' = 0 /\ ~Sent(j, p)' /\ ~Kept(j, p)'
  BY ProcessFrame DEF Blank, Left, Sent, Kept, Handling
<1>s. job'[j] = job[j] => /\ Left(j, p)' = Left(j, p)
                          /\ Sent(j, p)' <=> Sent(j, p)
                          /\ Kept(j, p)' <=> Kept(j, p)
  BY DEF Left, Sent, Kept, Entry, Pair
<1>x. /\ Left(j, p) \in Nat /\ Left(j, p) + One(Kept(j, p)) <= Copies
      /\ Sent(j, p) => Kept(j, p)
  BY LeftBound DEF TypeOK
<1>q. ASSUME Audit(j, p)', Repeat(j, p)' PROVE Books(j, p)'
  BY <1>q DEF Books
<1> HIDE DEF Left, Sent, Kept
<1> USE <1>t, <1>u, <1>c, <1>b, <1>s, <1>x DEF Books, Audit, Repeat, One, Owed, Debt
<1>1. ASSUME NEW i \in Jobs, LoopStartsCycle(i) PROVE Books(j, p)'
  <2>1. job[j] = job'[j] \/ job[j].at = "idle"
    BY <1>1 DEF LoopStartsCycle, StartCycle, TypeOK, PollTypeOK
  <2>2. job[j].at = "idle" => Left(j, p) = 0 /\ ~Sent(j, p) /\ ~Kept(j, p)
    BY DEF Left, Sent, Kept, Handling
  <2>3. UNCHANGED <<storeOpen, mishaps, drain>>
    BY <1>1 DEF LoopStartsCycle, StartCycle
  <2> QED BY <1>q, <2>1, <2>2, <2>3
<1>2. ASSUME NEW i \in Jobs, LoopReturns(i) PROVE Books(j, p)'
  BY <1>2, <1>q DEF LoopReturns, pollVars
<1>3. CASE Signal
  <2>1. UNCHANGED <<job, storeOpen>> /\ drain = "none" /\ drain' # "none" /\ mishaps' = mishaps + 1
    BY <1>3 DEF Signal, Mishap
  <2> QED BY <1>q, <2>1
<1>4. CASE ShutdownBegins \/ ShutdownDone \/ MainWakes \/ CloseCache
  <2>1. UNCHANGED <<job, storeOpen, mishaps>> /\ (drain' = "none" <=> drain = "none")
    BY <1>4 DEF ShutdownBegins, ShutdownDone, MainWakes, CloseCache, pollVars
  <2> QED BY <1>q, <2>1
<1>5. CASE CloseStore
  <2>1. UNCHANGED <<job, mishaps, drain>> /\ drain # "none" /\ ~storeOpen'
    BY <1>5 DEF CloseStore, Ending
  <2> QED BY <1>q, <2>1
<1>6. CASE ExitCancels
  <2>1. UNCHANGED <<storeOpen, mishaps>> /\ drain # "none" /\ drain' = "none"
    BY <1>6 DEF ExitCancels, Ending
  <2>2. Left(j, p)' = 0 /\ ~Sent(j, p)' /\ ~Kept(j, p)'
    BY <1>6 DEF ExitCancels, Idle, Left, Sent, Kept, Handling
  <2> QED BY <1>q, <2>1, <2>2
<1>7. CASE Dies
  <2>1. mishaps' = mishaps + 1 /\ ~storeOpen'
    BY <1>7 DEF Dies, Mishap
  <2>2. Left(j, p)' = 0 /\ ~Sent(j, p)' /\ ~Kept(j, p)'
    BY <1>7 DEF Dies, Idle, Left, Sent, Kept, Handling
  <2> QED BY <1>q, <2>1, <2>2
<1>8. CASE Restart \/ Start
  <2>1. UNCHANGED <<job, mishaps, drain>> /\ drain = "none" /\ storeOpen' /\ job[j] = Idle
    BY <1>8 DEF Restart, Start, Boot, Ending, Alive
  <2>2. Left(j, p) = 0 /\ ~Sent(j, p) /\ ~Kept(j, p)
    BY <2>1 DEF Idle, Left, Sent, Kept, Handling
  <2> QED BY <1>q, <2>1, <2>2
<1>9. CASE World
  <2>1. UNCHANGED <<job, storeOpen, mishaps, drain>>
    BY <1>9 DEF World, Environment, Posted, Sold, Snooze, SnoozeEnds, CacheExpires
  <2> QED BY <1>q, <2>1
<1> QED BY <1>1, <1>2, <1>3, <1>4, <1>5, <1>6, <1>7, <1>8, <1>9 DEF ProcessStep, ShutdownStep

\* The inductive invariant holds at the start.
LEMMA InvInit == Init => IInv
<1> SUFFICES ASSUME Init PROVE IInv
  OBVIOUS
<1>1. TypeOK
  BY TypeInit
<1>2. \A j \in Jobs : job[j] = Idle
  BY DEF Init, PollInit
<1>3. \A p \in Pairs : alerts[p] = 0 /\ snaps[p] = 0
  BY DEF Init, PollInit
<1>4. \A j \in Jobs : Shape(j) /\ Settling(j)
  <2>1. Idle.at = "idle" /\ Idle.todo = NoFinds /\ Idle.match = NoFinds /\ Idle.drop = NoFinds
    BY DEF Idle
  <2>2. \A j \in Jobs, l \in Listings : Held(job[j], l) <= (IF l \in Market[j] THEN Copies ELSE 0)
    <3>1. Copies \in Nat
      BY PollAssumption
    <3>2. \A l \in Listings : Held(Idle, l) = 0
      BY <2>1 DEF Held, One, Handling, NoFinds
    <3> QED BY <1>2, <3>1, <3>2
  <2>3. \A j \in Jobs, l \in Listings : ~(job[j].drop[l] > 0)
    BY <1>2, <2>1 DEF NoFinds
  <2>4. \A j \in Jobs : Shape(j)
    BY <1>2, <2>1, <2>2 DEF Shape, Handling
  <2>5. \A j \in Jobs : Settling(j)
    BY <1>2, <2>1, <2>3 DEF Settling
  <2> QED BY <2>4, <2>5
<1>5. Ending /\ SeenIsSettled
  BY DEF Ending, Alive, SeenIsSettled, Init, PollInit, LifeInit
<1>6. ASSUME NEW j \in Jobs, NEW p \in Pairs PROVE Books(j, p)
  <2>1. Left(j, p) = 0 /\ ~Sent(j, p) /\ ~Kept(j, p)
    BY <1>2 DEF Left, Sent, Kept, Idle, Handling
  <2>2. storeOpen /\ drain = "none" /\ Paid = 0
    BY PollAssumption DEF Init, PollInit, LifeInit, Paid
  <2>3. p \notin seen
    BY DEF Init, PollInit
  <2> QED BY <1>3, <2>1, <2>2, <2>3 DEF Books, Audit, Repeat, One, Owed, Debt
<1> QED BY <1>1, <1>3, <1>4, <1>5, <1>6 DEF IInv, Unpolled

\* Every step keeps the inductive invariant.
LEMMA InvStep == IInv /\ [Next]_vars => IInv'
<1> SUFFICES ASSUME IInv, [Next]_vars PROVE IInv'
  OBVIOUS
<1>1. TypeOK' /\ Ending'
  BY TypeStep, EndingStep DEF IInv
<1>2. ASSUME NEW i \in Jobs, LoopRunsCycle(i) PROVE IInv'
  <2>1. PollTypeOK /\ CycleStep(i) /\ UNCHANGED lifeVars
    BY <1>2 DEF IInv, TypeOK, LoopRunsCycle
  <2>2. Shape(i) /\ Settling(i) /\ SeenIsSettled
    BY DEF IInv
  <2>3. \A j \in Jobs : Shape(j)'
    BY <2>1, <2>2, ShapeStep, CycleOthers DEF IInv
  <2>4. (\A j \in Jobs : Settling(j)') /\ SeenIsSettled'
    BY <2>1, <2>2, SettlingStep, CycleOthers DEF IInv
  <2>5. ASSUME NEW j \in Jobs, NEW p \in Pairs, Polled(j, p) PROVE Books(j, p)'
    <3>1. Shape(j) /\ Books(j, p)
      BY <2>5 DEF IInv
    <3>2. CASE j = i
      BY <2>1, <2>2, <2>5, <3>1, <3>2, BooksStep
    <3>3. CASE j # i
      BY <2>1, <2>2, <2>5, <3>1, <3>3, CycleOthers
    <3> QED BY <3>2, <3>3
  <2>6. \A p \in Pairs : Unpolled(p)'
    BY <2>1, <2>2, CycleOthers DEF IInv
  <2>7. \A j \in Jobs, p \in Pairs : Polled(j, p)' <=> Polled(j, p)
    BY DEF Polled
  <2> QED BY <1>1, <2>3, <2>4, <2>5, <2>6, <2>7 DEF IInv
<1>3. CASE ProcessStep
  <2>1. /\ UNCHANGED <<alerts, snaps, seen>>
        /\ \A j \in Jobs : job'[j] = job[j] \/ Blank(job'[j])
    BY <1>3, ProcessFrame DEF IInv
  <2>2. ASSUME NEW j \in Jobs PROVE Shape(j)' /\ Settling(j)'
    <3>1. Shape(j) /\ Settling(j)
      BY DEF IInv
    <3>2. CASE job'[j] = job[j]
      BY <2>1, <3>1, <3>2 DEF Shape, Settling, Pair, Entry, Declined
    <3>3. CASE Blank(job'[j])
      <4>1. \A l \in Listings : Held(job'[j], l) = 0
        BY <3>3 DEF Blank, Held, One, Handling, NoFinds
      <4>2. Copies \in Nat
        BY PollAssumption
      <4> QED BY <3>3, <4>1, <4>2 DEF Shape, Settling, Blank, Handling, NoFinds
    <3> QED BY <2>1, <3>2, <3>3
  <2>3. ASSUME NEW j \in Jobs, NEW p \in Pairs, Polled(j, p) PROVE Books(j, p)'
    BY <1>3, <2>3, ProcessBooks DEF IInv
  <2>4. SeenIsSettled' /\ \A p \in Pairs : Unpolled(p)'
    BY <2>1 DEF IInv, SeenIsSettled, Unpolled, Polled
  <2>5. \A j \in Jobs, p \in Pairs : Polled(j, p)' <=> Polled(j, p)
    BY DEF Polled
  <2> QED BY <1>1, <2>2, <2>3, <2>4, <2>5 DEF IInv
<1>4. CASE UNCHANGED vars
  <2>1. UNCHANGED <<job, seen, snaps, alerts, storeOpen, mishaps, drain>>
    BY <1>4 DEF vars, pollVars
  <2>2. ASSUME NEW j \in Jobs PROVE Shape(j)' /\ Settling(j)'
    <3>1. Shape(j) /\ Settling(j)
      BY DEF IInv
    <3> QED BY <2>1, <3>1 DEF Shape, Settling, Pair, Entry, Declined
  <2>3. ASSUME NEW j \in Jobs, NEW p \in Pairs, Polled(j, p) PROVE Books(j, p)'
    <3>1. Books(j, p)
      BY <2>3 DEF IInv
    <3> QED BY <2>1, <3>1
            DEF Books, Audit, Repeat, Left, Sent, Kept, Owed, Debt, Paid, Pair, Entry
  <2>4. SeenIsSettled' /\ \A p \in Pairs : Unpolled(p)'
    BY <2>1 DEF IInv, SeenIsSettled, Unpolled, Polled
  <2>5. \A j \in Jobs, p \in Pairs : Polled(j, p)' <=> Polled(j, p)
    BY DEF Polled
  <2> QED BY <1>1, <2>2, <2>3, <2>4, <2>5 DEF IInv
<1> QED BY <1>2, <1>3, <1>4 DEF Next, LoopStep, ProcessStep

\* The inductive invariant: shapes, the shutdown's account, the books of every pair.
THEOREM Invariance == Spec => []IInv
BY InvInit, InvStep, PTL DEF Spec

\* Nothing is marked as seen that was neither alerted on record nor declined.
THEOREM Settled == Spec => []SeenIsSettled
<1>1. IInv => SeenIsSettled
  BY DEF IInv
<1> QED BY <1>1, Invariance, PTL

\* What the books of a pair say once it is known who polls it, if anyone does.
LEMMA BooksOf ==
  ASSUME IInv, NEW p \in Pairs
  PROVE  /\ Copies \in Nat \ {0} /\ Paid \in Nat /\ Debt \in Nat
         /\ alerts[p] \in Nat /\ snaps[p] \in Nat
         /\ \A j \in Jobs : Left(j, p) \in Nat
         /\ \/ \E j \in Jobs : Books(j, p)
            \/ alerts[p] = 0 /\ snaps[p] = 0
<1>1. mishaps \in Nat /\ alerts[p] \in Nat /\ snaps[p] \in Nat
  BY PollAssumption DEF IInv, TypeOK, PollTypeOK
<1>2. Copies \in Nat \ {0}
  BY PollAssumption
<1>3. Paid \in Nat /\ Debt \in Nat
  BY <1>1, <1>2 DEF Paid, Debt
<1>4. \A j \in Jobs : Left(j, p) \in Nat
  BY LeftBound DEF IInv, TypeOK
<1> QED BY <1>1, <1>2, <1>3, <1>4 DEF IInv, Unpolled

\* The audit log matches the user's screen up to what mishaps cost.
THEOREM Audited == Spec => []AlertsAreAudited
<1>1. ASSUME IInv, NEW p \in Pairs
      PROVE  /\ snaps[p] <= alerts[p]
             /\ alerts[p] <= snaps[p] + Paid + (IF InFlight(p) THEN 1 ELSE 0)
  <2>1. CASE \E j \in Jobs : Books(j, p)
    <3>1. PICK j \in Jobs : Books(j, p)
      BY <2>1
    <3>2. Sent(j, p) => InFlight(p)
      BY DEF Sent, InFlight
    <3> QED BY <1>1, <3>1, <3>2, BooksOf DEF Books, Audit, One
  <2> QED BY <1>1, <2>1, BooksOf
<1>2. IInv => AlertsAreAudited
  BY <1>1 DEF AlertsAreAudited, Paid
<1> QED BY <1>2, Invariance, PTL

\* A pair is alerted no more often than one result lists it, and as often again
\* for each mishap.
THEOREM Repeated == Spec => []RepeatsNeedMishaps
<1>1. ASSUME IInv, NEW p \in Pairs PROVE alerts[p] <= Copies * (1 + mishaps)
  <2>1. alerts[p] <= Paid + Copies
    <3>1. CASE \E j \in Jobs : Books(j, p)
      BY <1>1, <3>1, BooksOf DEF Books, Repeat, One
    <3> QED BY <1>1, <3>1, BooksOf
  <2>2. Copies \in Nat /\ mishaps \in Nat
    BY <1>1, PollAssumption DEF IInv, TypeOK, PollTypeOK
  <2>3. Copies * (1 + mishaps) = Paid + Copies
    BY <2>2 DEF Paid
  <2> QED BY <2>1, <2>3
<1>2. IInv => RepeatsNeedMishaps
  BY <1>1 DEF RepeatsNeedMishaps
<1> QED BY <1>2, Invariance, PTL
==============================================================================
