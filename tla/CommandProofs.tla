---------------------------- MODULE CommandProofs ---------------------------
(***************************************************************************)
(* Proofs about the commands of the operator that read or write while      *)
(* something else does: phase2 enable and disable (WishlistFile),          *)
(* test-search (TestSearch), and audit show and export (AuditTrail).       *)
(***************************************************************************)
EXTENDS WishlistFile, TestSearch, AuditTrail, SequenceTheorems, FiniteSetTheorems, TLAPS

(***************************************************************************)
(* wishlist.yaml: what a save, and a save caught halfway, make of a        *)
(* document.                                                               *)
(***************************************************************************)
\* A document is a function on an interval.
LEMMA DocumentShape ==
  ASSUME NEW doc \in Seq(Entry)
  PROVE  Len(doc) \in Nat /\ DOMAIN doc = 1..Len(doc) /\ \A i \in DOMAIN doc : doc[i] \in Entry
BY LenProperties, ElementOfSeq

\* save_wishlist keeps the entries, and enables at most the one it is about.
LEMMA SyncedKeeps ==
  ASSUME NEW doc \in Seq(Entry), NEW key \in Nat, NEW on \in BOOLEAN
  PROVE  /\ Synced(doc, key, on) \in Seq(Entry)
         /\ KeysOf(Synced(doc, key, on)) = KeysOf(doc)
         /\ EnabledIn(Synced(doc, key, on)) \subseteq EnabledIn(doc) \cup (IF on THEN {key} ELSE {})
<1> DEFINE new == Synced(doc, key, on)
<1>1. DOMAIN new = DOMAIN doc /\ DOMAIN doc = 1..Len(doc) /\ Len(doc) \in Nat
  BY DocumentShape DEF Synced
<1>2. \A i \in DOMAIN doc :
        /\ new[i] \in Entry /\ new[i].key = doc[i].key
        /\ new[i].enabled => doc[i].enabled \/ (on /\ doc[i].key = key)
  <2> SUFFICES ASSUME NEW i \in DOMAIN doc
               PROVE  /\ new[i] \in Entry /\ new[i].key = doc[i].key
                      /\ new[i].enabled => doc[i].enabled \/ (on /\ doc[i].key = key)
    OBVIOUS
  <2>1. new[i] = IF doc[i].key = key THEN [doc[i] EXCEPT !.enabled = on] ELSE doc[i]
    BY DEF Synced
  <2>2. doc[i] \in Entry
    BY DocumentShape
  <2> HIDE DEF new
  <2>3. CASE doc[i].key = key
    <3>1. new[i] = [doc[i] EXCEPT !.enabled = on]
      BY <2>1, <2>3
    <3>2. new[i] \in Entry /\ new[i].key = doc[i].key /\ new[i].enabled = on
      BY <2>2, <3>1 DEF Entry
    <3> QED BY <2>3, <3>2
  <2>4. CASE doc[i].key # key
    BY <2>1, <2>2, <2>4
  <2> QED BY <2>3, <2>4
<1>3. new \in [1..Len(doc) -> Entry]
  BY <1>1, <1>2 DEF Synced
<1>4. new \in Seq(Entry)
  BY <1>1, <1>3, SeqDef
<1> HIDE DEF new
<1>5. KeysOf(new) = KeysOf(doc)
  BY <1>1, <1>2 DEF KeysOf
<1>6. EnabledIn(new) \subseteq EnabledIn(doc) \cup (IF on THEN {key} ELSE {})
  BY <1>1, <1>2 DEF EnabledIn
<1> QED BY <1>4, <1>5, <1>6 DEF new

\* A document one entry longer has the keys of both.
LEMMA AppendedKeys ==
  ASSUME NEW doc \in Seq(Entry), NEW e \in Entry
  PROVE  /\ Append(doc, e) \in Seq(Entry)
         /\ KeysOf(doc) \cup {e.key} \subseteq KeysOf(Append(doc, e))
         /\ EnabledIn(Append(doc, e)) \subseteq EnabledIn(doc) \cup (IF e.enabled THEN {e.key} ELSE {})
<1> DEFINE new == Append(doc, e)
<1>1. new \in Seq(Entry) /\ Len(new) = Len(doc) + 1
      /\ (\A i \in 1..Len(doc) : new[i] = doc[i]) /\ new[Len(doc) + 1] = e
  BY AppendProperties
<1>2. Len(doc) \in Nat /\ DOMAIN doc = 1..Len(doc) /\ DOMAIN new = 1..(Len(doc) + 1)
  BY <1>1, DocumentShape
<1> HIDE DEF new
<1>3. \A i \in DOMAIN new : i \in DOMAIN doc \/ i = Len(doc) + 1
  BY <1>2
<1>4. KeysOf(doc) \cup {e.key} \subseteq KeysOf(new)
  BY <1>1, <1>2 DEF KeysOf
<1>5. EnabledIn(new) \subseteq EnabledIn(doc) \cup (IF e.enabled THEN {e.key} ELSE {})
  BY <1>1, <1>2, <1>3 DEF EnabledIn
<1> QED BY <1>1, <1>4, <1>5 DEF new

\* The first entries of a document are a document, and enable nothing else.
LEMMA PrefixKeys ==
  ASSUME NEW doc \in Seq(Entry), NEW n \in 0..Len(doc)
  PROVE  SubSeq(doc, 1, n) \in Seq(Entry) /\ EnabledIn(SubSeq(doc, 1, n)) \subseteq EnabledIn(doc)
<1> DEFINE new == SubSeq(doc, 1, n)
<1>1. Len(doc) \in Nat /\ DOMAIN doc = 1..Len(doc) /\ \A i \in DOMAIN doc : doc[i] \in Entry
  BY DocumentShape
<1>2. new \in Seq(Entry) /\ Len(new) = n /\ \A i \in 1..n : new[i] = doc[i]
  <2>1. \A i \in 1..n : doc[i] \in Entry
    BY <1>1
  <2>2. /\ SubSeq(doc, 1, n) \in Seq(Entry)
        /\ Len(SubSeq(doc, 1, n)) = IF 1 <= n THEN n - 1 + 1 ELSE 0
        /\ \A i \in 1..n - 1 + 1 : SubSeq(doc, 1, n)[i] = doc[1 + i - 1]
    BY <1>1, <2>1, SubSeqProperties
  <2> QED BY <1>1, <2>2
<1>3. DOMAIN new = 1..n
  BY <1>2, DocumentShape
<1> HIDE DEF new
<1>4. EnabledIn(new) \subseteq EnabledIn(doc)
  BY <1>1, <1>2, <1>3 DEF EnabledIn
<1> QED BY <1>2, <1>4 DEF new

\* What a file is halfway through a save is a document that enables nothing
\* that the saved one does not.
LEMMA PartialEnablesNoMore ==
  ASSUME NEW doc \in Seq(Entry), NEW p \in Partial(doc)
  PROVE  p \in Contents /\ EnabledIn(p.doc) \subseteq EnabledIn(doc)
<1>0. Len(doc) \in Nat /\ DOMAIN doc = 1..Len(doc) /\ \A i \in DOMAIN doc : doc[i] \in Entry
  BY DocumentShape
<1>1. CASE p = [torn |-> TRUE, doc |-> <<>>]
  <2>1. <<>> \in Seq(Entry) /\ DOMAIN <<>> = {}
    BY EmptySeq
  <2>2. EnabledIn(<<>>) = {}
    BY <2>1 DEF EnabledIn
  <2> QED BY <1>1, <2>1, <2>2 DEF Contents
<1>2. ASSUME NEW n \in 0..Len(doc), p = File(SubSeq(doc, 1, n))
      PROVE  p \in Contents /\ EnabledIn(p.doc) \subseteq EnabledIn(doc)
  BY <1>2, PrefixKeys DEF File, Contents
<1>3. ASSUME NEW n \in DOMAIN doc, NEW e \in CutShort(doc[n]), p = File(Append(SubSeq(doc, 1, n - 1), e))
      PROVE  p \in Contents /\ EnabledIn(p.doc) \subseteq EnabledIn(doc)
  <2> DEFINE first == SubSeq(doc, 1, n - 1)
  <2>1. n - 1 \in 0..Len(doc)
    BY <1>0
  <2>2. first \in Seq(Entry) /\ EnabledIn(first) \subseteq EnabledIn(doc)
    BY <2>1, PrefixKeys
  <2>3. e \in Entry /\ e.key = doc[n].key /\ (e.enabled => doc[n].enabled)
    BY <1>0 DEF CutShort, Entry
  <2> HIDE DEF first
  <2>4. Append(first, e) \in Seq(Entry)
        /\ EnabledIn(Append(first, e)) \subseteq EnabledIn(first) \cup (IF e.enabled THEN {e.key} ELSE {})
    BY <2>2, <2>3, AppendedKeys
  <2>5. e.enabled => e.key \in EnabledIn(doc)
    BY <2>3 DEF EnabledIn
  <2>6. p = [torn |-> FALSE, doc |-> Append(first, e)]
    BY <1>3 DEF File, first
  <2> QED BY <2>2, <2>4, <2>5, <2>6 DEF Contents
<1> QED BY <1>1, <1>2, <1>3 DEF Partial

(***************************************************************************)
(* The commands that load and save.  A document - in the file, or in the   *)
(* hands of a command - enables nothing that was not confirmed.  Until a   *)
(* save is killed or read halfway, the file has every entry put in it that *)
(* no save overwrote unread, and a document in hand has them too, but for  *)
(* those edited in since it was loaded.                                    *)
(***************************************************************************)
WishlistInv ==
  /\ WishlistTypeOK
  /\ EnabledIn(text.doc) \subseteq confirmed
  /\ \A c \in Commands : EnabledIn(command[c].doc) \subseteq confirmed
  /\ ~spoiled =>
       /\ ~Writing => promised \subseteq KeysOf(text.doc)
       /\ \A c \in Commands :
            /\ command[c].at # "off" => promised \subseteq KeysOf(command[c].doc) \cup unread[c]
            /\ command[c].at = "write" => promised \subseteq KeysOf(command[c].doc)

\* What a command has in hand, and what it makes of the file, is of its type.
LEMMA HandsAndContents ==
  /\ Away \in Hand /\ Away.at = "off" /\ Away.doc = <<>> /\ EnabledIn(<<>>) = {}
  /\ \A at \in {"ask", "write"}, key \in Nat, doc \in Seq(Entry) :
       [at |-> at, key |-> key, doc |-> doc] \in Hand
  /\ \A doc \in Seq(Entry) : File(doc) \in Contents /\ File(doc).doc = doc
BY EmptySeq DEF Away, Hand, File, Contents, EnabledIn

\* The file as it is at first, and the commands that have not been run.
LEMMA WishlistStarts == WishlistInit => WishlistInv
<1> SUFFICES ASSUME WishlistInit PROVE WishlistInv
  OBVIOUS
<1>1. Original \in Seq(Entry) /\ text = File(Original) /\ command = [c \in Commands |-> Away]
      /\ confirmed = EnabledIn(Original) /\ spoiled = FALSE
      /\ promised = KeysOf(Original) /\ unread = [c \in Commands |-> {}]
  BY WishlistAssumption DEF WishlistInit
<1>2. \A i \in DOMAIN Original : Original[i].key \in Nat
  BY <1>1, DocumentShape DEF Entry
<1>3. EnabledIn(Original) \subseteq Nat /\ KeysOf(Original) \subseteq Nat
  BY <1>2 DEF EnabledIn, KeysOf
<1>4. WishlistTypeOK
  BY <1>1, <1>3, HandsAndContents DEF WishlistTypeOK
<1> QED BY <1>1, <1>4, HandsAndContents DEF WishlistInv

\* What a command does, whatever the others have in hand.
LEMMA CommandKeeps ==
  ASSUME WishlistInv, NEW c \in Commands,
         CommandLoads(c) \/ CommandTruncates(c) \/ CommandWrites(c) \/ CommandEnds(c)
  PROVE  WishlistInv'
<1>1. /\ text \in Contents /\ command \in [Commands -> Hand]
      /\ confirmed \subseteq Nat /\ spoiled \in BOOLEAN
      /\ promised \subseteq Nat /\ unread \in [Commands -> SUBSET Nat]
  BY DEF WishlistInv, WishlistTypeOK
<1>2. command[c] \in Hand
  BY <1>1
<1>3. text.doc \in Seq(Entry) /\ command[c].doc \in Seq(Entry) /\ command[c].key \in Nat
  BY <1>1, <1>2 DEF Contents, Hand
<1>4. CASE CommandLoads(c)
  <2> PICK key \in KeysOf(text.doc) : command' = [command EXCEPT ![c] = [at |-> "ask", key |-> key, doc |-> text.doc]]
    BY <1>4 DEF CommandLoads
  <2> DEFINE hand == [at |-> "ask", key |-> key, doc |-> text.doc]
  <2>1. key \in Nat
    BY <1>3, DocumentShape DEF KeysOf, Entry
  <2>2. hand \in Hand /\ hand.doc = text.doc
    BY <1>3, <2>1, HandsAndContents
  <2>3. UNCHANGED <<text, confirmed, promised, unread>> /\ spoiled' = (spoiled \/ Writing)
        /\ command[c] = Away
    BY <1>4 DEF CommandLoads
  <2>4. command' = [command EXCEPT ![c] = hand] /\ hand.at = "ask"
    OBVIOUS
  <2> HIDE DEF hand
  <2>5. command' \in [Commands -> Hand] /\ \A d \in Commands : command'[d] = IF d = c THEN hand ELSE command[d]
    BY <1>1, <2>2, <2>4
  <2>6. WishlistTypeOK'
    BY <1>1, <2>3, <2>5 DEF WishlistTypeOK
  <2>7. Writing => Writing'
    BY <2>3, <2>5, HandsAndContents DEF Writing
  <2> QED BY <2>2, <2>3, <2>5, <2>6, <2>7 DEF WishlistInv
<1>5. CASE CommandTruncates(c)
  <2> DEFINE doc == Synced(command[c].doc, command[c].key, c \in WantsOn)
             hand == [command[c] EXCEPT !.at = "write", !.doc = doc]
  <2>1. doc \in Seq(Entry) /\ KeysOf(doc) = KeysOf(command[c].doc)
        /\ EnabledIn(doc) \subseteq EnabledIn(command[c].doc) \cup (IF c \in WantsOn THEN {command[c].key} ELSE {})
    <3>1. (c \in WantsOn) \in BOOLEAN
      OBVIOUS
    <3> QED BY <1>3, <3>1, SyncedKeeps, Zenon
  <2>2. EnabledIn(doc) \subseteq confirmed' /\ confirmed \subseteq confirmed' /\ confirmed' \subseteq Nat
    BY <1>1, <1>3, <1>5, <2>1 DEF CommandTruncates, WishlistInv
  <2>3. command' = [command EXCEPT ![c] = [command[c] EXCEPT !.at = "write", !.doc = doc]]
    BY <1>5, Zenon DEF CommandTruncates
  <2>4. text' \in Partial(command'[c].doc) /\ command[c].at = "ask" /\ UNCHANGED spoiled
    BY <1>5 DEF CommandTruncates
  <2> HIDE DEF doc
  <2>5. command' = [command EXCEPT ![c] = hand]
    BY <2>3
  <2>6. hand \in Hand /\ hand.doc = doc /\ hand.at = "write"
    BY <1>2, <2>1 DEF Hand
  <2> HIDE DEF hand
  <2>7. command' \in [Commands -> Hand] /\ \A d \in Commands : command'[d] = IF d = c THEN hand ELSE command[d]
    BY <1>1, <2>5, <2>6
  <2>8. text' \in Contents /\ EnabledIn(text'.doc) \subseteq EnabledIn(doc)
    <3>1. text' \in Partial(doc)
      BY <2>4, <2>6, <2>7
    <3> QED BY <2>1, <3>1, PartialEnablesNoMore
  <2>9. WishlistTypeOK'
    BY <1>1, <1>5, <2>2, <2>4, <2>7, <2>8 DEF WishlistTypeOK, CommandTruncates, Overwritten
  <2>10. Writing'
    BY <2>6, <2>7 DEF Writing
  <2>p. promised' = promised \ (unread[c] \ KeysOf(command[c].doc)) /\ UNCHANGED unread
    BY <1>5 DEF CommandTruncates, Overwritten
  <2>11. ~spoiled => promised' \subseteq KeysOf(doc) /\ promised' \subseteq promised
    BY <2>1, <2>4, <2>p DEF WishlistInv
  <2>12. (EnabledIn(text.doc) \subseteq confirmed)'
    BY <2>2, <2>8
  <2>13. ASSUME NEW d \in Commands PROVE EnabledIn(command'[d].doc) \subseteq confirmed'
    BY <2>2, <2>6, <2>7 DEF WishlistInv
  <2>14. ASSUME NEW d \in Commands, ~spoiled', command'[d].at # "off"
         PROVE  /\ promised' \subseteq KeysOf(command'[d].doc) \cup unread'[d]
                /\ command'[d].at = "write" => promised' \subseteq KeysOf(command'[d].doc)
    BY <2>4, <2>6, <2>7, <2>11, <2>14, <2>p DEF WishlistInv
  <2> QED BY <2>9, <2>10, <2>12, <2>13, <2>14 DEF WishlistInv
<1>6. CASE CommandWrites(c)
  <2>1. text' = File(command[c].doc) /\ command[c].at = "write"
        /\ UNCHANGED <<confirmed, spoiled, promised>> /\ unread' = [unread EXCEPT ![c] = {}]
        /\ command' = [command EXCEPT ![c] = Away]
    BY <1>6 DEF CommandWrites
  <2>2. text' \in Contents /\ text'.doc = command[c].doc
    BY <1>3, <2>1, HandsAndContents
  <2>3. command' \in [Commands -> Hand] /\ \A d \in Commands : command'[d] = IF d = c THEN Away ELSE command[d]
    BY <1>1, <2>1, HandsAndContents
  <2>4. WishlistTypeOK'
    BY <1>1, <2>1, <2>2, <2>3 DEF WishlistTypeOK
  <2>5. ~spoiled => promised \subseteq KeysOf(text'.doc)
    BY <2>1, <2>2 DEF WishlistInv
  <2>6. \A d \in Commands : d # c => unread'[d] = unread[d]
    BY <1>1, <2>1
  <2> QED BY <2>1, <2>2, <2>3, <2>4, <2>5, <2>6, HandsAndContents DEF WishlistInv
<1>7. CASE CommandEnds(c)
  <2>1. UNCHANGED <<text, confirmed, promised>> /\ spoiled' = (spoiled \/ command[c].at = "write")
        /\ unread' = [unread EXCEPT ![c] = {}] /\ command' = [command EXCEPT ![c] = Away]
    BY <1>7 DEF CommandEnds
  <2>2. command' \in [Commands -> Hand] /\ \A d \in Commands : command'[d] = IF d = c THEN Away ELSE command[d]
    BY <1>1, <2>1, HandsAndContents
  <2>3. WishlistTypeOK'
    BY <1>1, <2>1, <2>2 DEF WishlistTypeOK
  <2>4. ~spoiled' /\ Writing => Writing'
    BY <2>1, <2>2 DEF Writing
  <2>5. \A d \in Commands : d # c => unread'[d] = unread[d]
    BY <1>1, <2>1
  <2> QED BY <2>1, <2>2, <2>3, <2>4, <2>5, HandsAndContents DEF WishlistInv
<1> QED BY <1>4, <1>5, <1>6, <1>7

\* The invariant is inductive.
LEMMA WishlistSteps == WishlistInv /\ [WishlistNext]_wishlistVars => WishlistInv'
<1> SUFFICES ASSUME WishlistInv, [WishlistNext]_wishlistVars PROVE WishlistInv'
  OBVIOUS
<1>1. ASSUME NEW c \in Commands,
             CommandLoads(c) \/ CommandTruncates(c) \/ CommandWrites(c) \/ CommandEnds(c)
      PROVE  WishlistInv'
  BY <1>1, CommandKeeps
<1>2. CASE EditAdds
  <2> PICK e \in Flawed :
        /\ text' = File(Append(text.doc, e))
        /\ confirmed' = IF e.enabled THEN confirmed \cup {e.key} ELSE confirmed
        /\ promised' = promised \cup {e.key}
        /\ unread' = [c \in Commands |-> IF command[c] = Away THEN {} ELSE unread[c] \cup {e.key}]
    BY <1>2 DEF EditAdds
  <2>1. text.doc \in Seq(Entry) /\ e \in Entry
    BY WishlistAssumption DEF WishlistInv, WishlistTypeOK, Contents
  <2>2. /\ Append(text.doc, e) \in Seq(Entry)
        /\ KeysOf(text.doc) \subseteq KeysOf(Append(text.doc, e))
        /\ EnabledIn(Append(text.doc, e)) \subseteq EnabledIn(text.doc) \cup (IF e.enabled THEN {e.key} ELSE {})
    BY <2>1, AppendedKeys
  <2>3. UNCHANGED <<command, spoiled>> /\ ~Writing /\ text' \in Contents /\ text'.doc = Append(text.doc, e)
    BY <1>2, <2>2, HandsAndContents DEF EditAdds
  <2>4. e.key \in Nat /\ confirmed \subseteq confirmed' /\ EnabledIn(text'.doc) \subseteq confirmed'
    BY <2>1, <2>2, <2>3 DEF Entry, WishlistInv
  <2>5. WishlistTypeOK'
    BY <2>3, <2>4 DEF WishlistInv, WishlistTypeOK
  <2>6. e.key \in KeysOf(Append(text.doc, e))
    BY <2>1, AppendedKeys
  <2>7. ~spoiled => promised' \subseteq KeysOf(text'.doc)
    BY <2>2, <2>3, <2>6 DEF WishlistInv
  <2>8. ASSUME NEW c \in Commands, ~spoiled, command[c].at # "off"
        PROVE  promised' \subseteq KeysOf(command[c].doc) \cup unread'[c]
    <3>1. command[c] # Away
      BY <2>8, HandsAndContents
    <3> QED BY <2>8, <3>1 DEF WishlistInv
  <2> QED BY <2>2, <2>3, <2>4, <2>5, <2>7, <2>8 DEF WishlistInv, Writing
<1>3. CASE UNCHANGED wishlistVars
  BY <1>3 DEF wishlistVars, WishlistInv, WishlistTypeOK, Writing
<1> QED BY <1>1, <1>2, <1>3 DEF WishlistNext

\* In every state.
LEMMA WishlistInvariance == WishlistSpec => []WishlistInv
BY WishlistStarts, WishlistSteps, PTL DEF WishlistSpec

\* Whichever saves of wishlist.yaml overlap, are killed or are read halfway, what
\* load_wishlist returns enables Phase 2 for no entry whose enabling the operator
\* did not confirm.
THEOREM LoadsWereConfirmed == WishlistSpec => []EnabledWasConfirmed
<1>1. WishlistInv => EnabledWasConfirmed
  BY DEF WishlistInv, EnabledWasConfirmed
<1> QED BY <1>1, WishlistInvariance, PTL

\* Whatever saves overlap, an entry of wishlist.yaml is lost only to a save that was
\* killed or read halfway, or that wrote back a document loaded before the entry was
\* edited in.
THEOREM NoEntryIsLost == WishlistSpec => []EntriesSurvive
<1>1. WishlistInv => EntriesSurvive
  BY DEF WishlistInv, EntriesSurvive
<1> QED BY <1>1, WishlistInvariance, PTL

(***************************************************************************)
(* test-search.  A target goes without its listings only together with a   *)
(* note of its name; the notes are set once, before the first target.      *)
(***************************************************************************)
GapsInv ==
  /\ stage = "start" => gaps = {}
  /\ \A m \in gaps : \E note \in notes : note[1] = m

\* A run of test-search that ends with 0 has a note of every target that was
\* passed over, and of every one whose search failed.
THEOREM EveryGapIsSaid == TestSearchSpec => []GapsAreSaid
<1>1. TestSearchInit => GapsInv
  BY DEF TestSearchInit, GapsInv
<1>2. GapsInv /\ [TestSearchNext]_testSearchVars => GapsInv'
  <2> SUFFICES ASSUME GapsInv, [TestSearchNext]_testSearchVars PROVE GapsInv'
    OBVIOUS
  <2>1. CASE Parses
    BY <2>1 DEF Parses, GapsInv
  <2>2. CASE Opens
    <3>1. CASE Head(left) \in there
      BY <2>2, <3>1 DEF Opens, GapsInv
    <3>2. CASE Head(left) \notin there
      <4>1. notes' = notes \cup {<<Head(left), "skipped">>} /\ gaps' = gaps \cup {Head(left)} /\ stage' = "market"
        BY <2>2, <3>2 DEF Opens
      <4>2. <<Head(left), "skipped">>[1] = Head(left)
        OBVIOUS
      <4> QED BY <4>1, <4>2 DEF GapsInv
    <3> QED BY <3>1, <3>2
  <2>3. CASE Searches
    <3> PICK outcome \in SearchOutcomes(Head(left)) :
          CASE outcome = "listings" -> stage' = "judge" /\ UNCHANGED <<notes, gaps>>
            [] outcome = "unexpected" -> stage' = "over" /\ UNCHANGED <<notes, gaps>>
            [] OTHER -> /\ notes' = notes \cup {<<Head(left), outcome>>} /\ gaps' = gaps \cup {Head(left)}
                        /\ stage' = "market"
      BY <2>3 DEF Searches
    <3>1. stage = "search"
      BY <2>3 DEF Searches
    <3>2. CASE outcome \in {"listings", "unexpected"}
      BY <3>1, <3>2 DEF GapsInv
    <3>3. CASE outcome \notin {"listings", "unexpected"}
      <4>1. notes' = notes \cup {<<Head(left), outcome>>} /\ gaps' = gaps \cup {Head(left)} /\ stage' = "market"
        BY <3>3
      <4>2. <<Head(left), outcome>>[1] = Head(left)
        OBVIOUS
      <4> QED BY <4>1, <4>2 DEF GapsInv
    <3> QED BY <3>2, <3>3
  <2>4. CASE Judges
    BY <2>4 DEF Judges, GapsInv
  <2>5. CASE LeavesMarket
    BY <2>5 DEF LeavesMarket, GapsInv
  <2>6. CASE Prints
    BY <2>6 DEF Prints, GapsInv
  <2>7. CASE UNCHANGED testSearchVars
    BY <2>7 DEF testSearchVars, GapsInv
  <2> QED BY <2>1, <2>2, <2>3, <2>4, <2>5, <2>6, <2>7 DEF TestSearchNext
<1>3. GapsInv => GapsAreSaid
  BY DEF GapsInv, GapsAreSaid
<1> QED BY <1>1, <1>2, <1>3, PTL DEF TestSearchSpec

(***************************************************************************)
(* audit show and audit export.  First, what a sort makes of a finite set: *)
(* at least one sequence, and each of them has every row of the set, once. *)
(***************************************************************************)
\* A sorted sequence has the rows of the set, each once.
LEMMA OrderingShape ==
  ASSUME NEW S, IsFiniteSet(S), NEW s \in SetToSeqs(S)
  PROVE  /\ Cardinality(S) \in Nat /\ Len(s) = Cardinality(S) /\ DOMAIN s = 1..Len(s)
         /\ s \in Seq(S) /\ Range(s) = S
         /\ \A i, j \in DOMAIN s : i # j => s[i] # s[j]
<1> DEFINE n == Cardinality(S)
<1>1. n \in Nat
  BY FS_CardinalityType
<1> HIDE DEF n
<1>2. s \in [1..n -> S] /\ \A i, j \in 1..n : i # j => s[i] # s[j]
  BY DEF SetToSeqs, n
<1>3. s \in Seq(S)
  BY <1>1, <1>2, SeqDef
<1>4. DOMAIN s = 1..Len(s) /\ Len(s) = n
  BY <1>1, <1>2, <1>3, LenProperties
<1>5. s \in Injection(1..n, S)
  BY <1>2 DEF Injection, IsInjective
<1>6. IsFiniteSet(1..n) /\ Cardinality(1..n) = n
  BY <1>1, FS_Interval
<1>7. s \in Surjection(1..n, S)
  BY <1>5, <1>6, FS_Injection DEF n
<1>8. Range(s) = S
  BY <1>2, <1>7 DEF Surjection, Range
<1> QED BY <1>1, <1>2, <1>3, <1>4, <1>8 DEF n

\* Of a finite set of rows, one is as new as any.
LEMMA NewestOf ==
  ASSUME NEW S \in SUBSET Row, IsFiniteSet(S), S # {}
  PROVE  \E r \in S : \A q \in S : ~Earlier(r.stamp, q.stamp)
<1> DEFINE Bad == {T \in FiniteSubsetsOf(Row) : T # {} /\ \A r \in T : \E q \in T : Earlier(r.stamp, q.stamp)}
<1>1. SUFFICES ASSUME S \in Bad PROVE FALSE
  BY DEF FiniteSubsetsOf
<1>2. PICK T \in Bad : \A U \in Bad : <<U, T>> \notin StrictSubsetOrdering(Row)
  BY <1>1, FS_StrictSubsetOrderingWellFounded, WFMin
<1>3. PICK r \in T : TRUE
  BY <1>2
<1> DEFINE U == {q \in T : Earlier(r.stamp, q.stamp)}
<1>4. \A q \in T : q \in Row /\ q.stamp.second \in Nat /\ q.stamp.whole \in BOOLEAN
  BY <1>2, AuditAssumption DEF FiniteSubsetsOf, Row, Stamp
<1>5. U # {} /\ r \notin U /\ U \subseteq T
  BY <1>2, <1>3, <1>4 DEF Earlier
<1>6. U \in FiniteSubsetsOf(Row)
  BY <1>2, <1>5, FS_Subset DEF FiniteSubsetsOf
<1>7. ASSUME NEW q \in U PROVE \E p \in U : Earlier(q.stamp, p.stamp)
  <2>1. PICK p \in T : Earlier(q.stamp, p.stamp)
    BY <1>2, <1>5
  <2>2. Earlier(r.stamp, p.stamp)
    BY <1>3, <1>4, <1>7, <2>1 DEF Earlier
  <2> QED BY <2>1, <2>2
<1>8. <<U, T>> \in StrictSubsetOrdering(Row)
  BY <1>2, <1>3, <1>5 DEF FiniteSubsetsOf, StrictSubsetOrdering
<1> QED BY <1>2, <1>5, <1>6, <1>7, <1>8

\* A finite set of rows can be sorted, newest first: what show prints is there.
LEMMA SomethingNewestFirst ==
  ASSUME NEW S \in SUBSET Row, IsFiniteSet(S)
  PROVE  NewestFirst(S) # {}
<1> DEFINE Bad == {T \in FiniteSubsetsOf(Row) : NewestFirst(T) = {}}
<1>1. SUFFICES ASSUME S \in Bad PROVE FALSE
  BY DEF FiniteSubsetsOf
<1>2. PICK T \in Bad : \A U \in Bad : <<U, T>> \notin StrictSubsetOrdering(Row)
  BY <1>1, FS_StrictSubsetOrderingWellFounded, WFMin
<1>3. T \in SUBSET Row /\ IsFiniteSet(T) /\ NewestFirst(T) = {}
  BY <1>2 DEF FiniteSubsetsOf
<1>4. T # {}
  <2>1. Cardinality({}) = 0 /\ 1..0 = {}
    BY FS_EmptySet
  <2>2. <<>> \in [1..0 -> {}] /\ DOMAIN <<>> = {}
    BY <2>1
  <2>3. <<>> \in NewestFirst({})
    BY <2>1, <2>2 DEF NewestFirst, SetToSeqs
  <2> QED BY <1>3, <2>3
<1>5. PICK r \in T : \A q \in T : ~Earlier(r.stamp, q.stamp)
  BY <1>3, <1>4, NewestOf
<1> DEFINE U == T \ {r}
           n == Cardinality(U)
<1>6. U \in FiniteSubsetsOf(Row) /\ IsFiniteSet(U) /\ n \in Nat /\ Cardinality(T) = n + 1
  <2>1. IsFiniteSet(U) /\ Cardinality(U) = Cardinality(T) - 1
    BY <1>3, <1>5, FS_RemoveElement
  <2>2. Cardinality(U) \in Nat /\ Cardinality(T) \in Nat
    BY <1>3, <2>1, FS_CardinalityType
  <2> QED BY <1>3, <2>1, <2>2 DEF FiniteSubsetsOf
<1>7. <<U, T>> \in StrictSubsetOrdering(Row)
  BY <1>3, <1>5 DEF StrictSubsetOrdering
<1>8. PICK s \in NewestFirst(U) : TRUE
  BY <1>2, <1>6, <1>7
<1> HIDE DEF n
<1>9. s \in [1..n -> U] /\ \A i, j \in 1..n : (i # j => s[i] # s[j]) /\ (i < j => ~Earlier(s[i].stamp, s[j].stamp))
  BY <1>8 DEF NewestFirst, SetToSeqs, n
<1> DEFINE t == [i \in 1..(n + 1) |-> IF i = 1 THEN r ELSE s[i - 1]]
<1>10. \A i \in 1..(n + 1) : i = 1 \/ (i - 1 \in 1..n /\ s[i - 1] \in U)
  BY <1>6, <1>9
<1>11. t \in [1..(n + 1) -> T]
  BY <1>5, <1>10
<1>12. \A i, j \in 1..(n + 1) :
         (i # j => t[i] # t[j]) /\ (i < j => ~Earlier(t[i].stamp, t[j].stamp))
  <2> SUFFICES ASSUME NEW i \in 1..(n + 1), NEW j \in 1..(n + 1)
               PROVE  (i # j => t[i] # t[j]) /\ (i < j => ~Earlier(t[i].stamp, t[j].stamp))
    OBVIOUS
  <2>1. t[i] = (IF i = 1 THEN r ELSE s[i - 1]) /\ t[j] = (IF j = 1 THEN r ELSE s[j - 1])
    OBVIOUS
  <2> HIDE DEF t
  <2>2. CASE i = 1
    BY <1>5, <1>6, <1>10, <2>1, <2>2
  <2>3. CASE i # 1 /\ j = 1
    BY <1>6, <1>10, <2>1, <2>3
  <2>4. CASE i # 1 /\ j # 1
    <3>1. i - 1 \in 1..n /\ j - 1 \in 1..n /\ (i # j => i - 1 # j - 1) /\ (i < j => i - 1 < j - 1)
      BY <1>6, <1>10, <2>4
    <3> QED BY <1>9, <2>1, <2>4, <3>1
  <2> QED BY <2>2, <2>3, <2>4
<1>13. t \in NewestFirst(T)
  BY <1>6, <1>11, <1>12 DEF NewestFirst, SetToSeqs
<1> QED BY <1>3, <1>13

\* And so it can oldest first: what export prints is there.
LEMMA SomethingOldestFirst ==
  ASSUME NEW S \in SUBSET Row, IsFiniteSet(S)
  PROVE  OldestFirst(S) # {}
<1> DEFINE n == Cardinality(S)
<1>1. n \in Nat
  BY FS_CardinalityType
<1>2. PICK s \in NewestFirst(S) : TRUE
  BY SomethingNewestFirst
<1>3. s \in [1..n -> S] /\ \A i, j \in 1..n : (i # j => s[i] # s[j]) /\ (i < j => ~Earlier(s[i].stamp, s[j].stamp))
  BY <1>2 DEF NewestFirst, SetToSeqs
<1> HIDE DEF n
<1> DEFINE t == [i \in 1..n |-> s[n + 1 - i]]
<1>4. \A i \in 1..n : n + 1 - i \in 1..n
  BY <1>1
<1>5. t \in [1..n -> S]
  BY <1>3, <1>4
<1>6. \A i, j \in 1..n : (i # j => t[i] # t[j]) /\ (i < j => ~Earlier(t[j].stamp, t[i].stamp))
  <2> SUFFICES ASSUME NEW i \in 1..n, NEW j \in 1..n
               PROVE  (i # j => t[i] # t[j]) /\ (i < j => ~Earlier(t[j].stamp, t[i].stamp))
    OBVIOUS
  <2>1. t[i] = s[n + 1 - i] /\ t[j] = s[n + 1 - j]
    OBVIOUS
  <2>2. n + 1 - i \in 1..n /\ n + 1 - j \in 1..n
        /\ (i # j => n + 1 - i # n + 1 - j) /\ (i < j => n + 1 - j < n + 1 - i)
    BY <1>1
  <2> HIDE DEF t
  <2> QED BY <1>3, <2>1, <2>2
<1>7. t \in OldestFirst(S)
  BY <1>5, <1>6 DEF OldestFirst, SetToSeqs, n
<1> QED BY <1>7

(***************************************************************************)
(* The reader.  What was written before it began is still there, or what a *)
(* later sighting made of it; and it is with the reader once its table is  *)
(* read, unless the listing has fired.  Sightings are written in the order *)
(* of their stamps, each listing's one at a time.                          *)
(***************************************************************************)
IsRead(type) ==
  CASE type = "alert"    -> reader.at \in {"callback", "dropped", "done"}
    [] type = "callback" -> reader.at \in {"dropped", "done"}
    [] type = "dropped"  -> reader.at = "done" /\ reader.dropped

Follows(q, r) == Same(r, q) /\ r.stamp.second <= q.stamp.second

Stamped ==
  /\ \A r \in rows \cup stamped : r.stamp.second <= second
  /\ \A r, q \in stamped : Same(r, q) => r = q
  /\ \A r \in stamped, q \in rows : Same(r, q) => r.type \in Sightings /\ Follows(r, q)

Traced ==
  \A r \in before : /\ r.type \notin Sightings => r \in rows
                    /\ r.type \in Sightings => \E q \in rows : Follows(q, r)

Got ==
  IF reader.failed THEN reader.at = "done" /\ reader.got = {}
  ELSE \A r \in before : r.type \in Types /\ IsRead(r.type) =>
         /\ r.type \notin Sightings => r \in reader.got
         /\ r.type \in Sightings => HasFired(r) \/ \E q \in reader.got : q.type = "dropped" /\ Follows(q, r)

TrailInv ==
  /\ AuditTypeOK /\ IsFiniteSet(rows) /\ IsFiniteSet(stamped)
  /\ Stamped /\ Traced
  /\ reader # NoReader => Got /\ IsFiniteSet(reader.got)

\* What the reader is, when it is there.
LEMMA ReaderShape ==
  ASSUME TrailInv
  PROVE  \/ reader = NoReader /\ reader.at = "off"
         \/ /\ reader \in [at : Types \cup {"done"}, dropped : BOOLEAN, got : SUBSET Row, failed : BOOLEAN]
            /\ reader # NoReader /\ reader.at # "off"
BY DEF TrailInv, AuditTypeOK, NoReader, Types

\* Two rows of one key are both sightings, or neither, and have that key with a third.
LEMMA SameRows ==
  ASSUME NEW r \in Row, NEW q \in Row, NEW p \in Row
  PROVE  /\ Same(r, r)
         /\ Same(r, q) => Same(q, r) /\ (r.type \in Sightings <=> q.type \in Sightings)
         /\ Same(r, q) /\ Same(q, p) => Same(r, p)
<1>1. r.type \in {"alert", "callback", "dropped", "fired"} /\ q.type \in {"alert", "callback", "dropped", "fired"}
      /\ p.type \in {"alert", "callback", "dropped", "fired"}
  BY DEF Row, Types, Sightings
<1>2. \A x, y : {x, y} = {"dropped", "fired"} <=> (x = "dropped" /\ y = "fired") \/ (x = "fired" /\ y = "dropped")
  OBVIOUS
<1>3. \A x \in {r, q, p}, y \in {r, q, p} :
        Same(x, y) <=> x.id = y.id /\ (x.type = y.type \/ (x.type = "dropped" /\ y.type = "fired")
                                       \/ (x.type = "fired" /\ y.type = "dropped"))
  BY <1>2 DEF Same, Sightings
<1> QED BY <1>1, <1>3 DEF Sightings

\* A row that is stamped is as new as any, and the only one of its key on the way.
LEMMA StampsKeeps ==
  TrailInv /\ (\E type \in Types \cup Sightings, id \in 1..MaxWritten : Stamps(type, id)) => TrailInv'
<1> SUFFICES ASSUME TrailInv, NEW type \in Types \cup Sightings, NEW id \in 1..MaxWritten, Stamps(type, id)
             PROVE  TrailInv'
  OBVIOUS
<1>1. PICK whole \in BOOLEAN :
        LET row == [type |-> type, id |-> id, stamp |-> [second |-> second, whole |-> whole]]
        IN  /\ ~ \E q \in stamped : Same(row, q)
            /\ type \in Sightings \/ ~ \E q \in rows : Same(row, q)
            /\ stamped' = stamped \cup {row}
  BY DEF Stamps
<1> DEFINE row == [type |-> type, id |-> id, stamp |-> [second |-> second, whole |-> whole]]
<1>2. UNCHANGED <<rows, second, reader, before>>
  BY DEF Stamps
<1>3. row \in Row /\ row.type = type /\ row.stamp.second = second /\ second \in Int
  BY AuditAssumption DEF Row, Stamp, TrailInv, AuditTypeOK
<1>4. /\ ~ \E q \in stamped : Same(row, q)
      /\ type \in Sightings \/ ~ \E q \in rows : Same(row, q)
      /\ stamped' = stamped \cup {row}
  BY <1>1
<1> HIDE DEF row
<1>5. rows \subseteq Row /\ stamped \subseteq Row
  BY DEF TrailInv, AuditTypeOK
<1>6. IsFiniteSet(stamped') /\ stamped' \subseteq Row
  BY <1>3, <1>4, <1>5, FS_AddElement DEF TrailInv
<1>7. Stamped'
  <2>1. \A r \in (rows \cup stamped)' : r.stamp.second <= second'
    BY <1>2, <1>3, <1>4 DEF TrailInv, Stamped
  <2>2. \A r, q \in stamped' : Same(r, q) => r = q
    BY <1>3, <1>4, <1>5, SameRows DEF TrailInv, Stamped
  <2>3. ASSUME NEW q \in rows, Same(row, q) PROVE row.type \in Sightings /\ Follows(row, q)
    BY <1>3, <1>4, <1>5, <2>3, SameRows DEF TrailInv, Stamped, Follows
  <2> QED BY <1>2, <1>4, <2>1, <2>2, <2>3 DEF TrailInv, Stamped
<1> QED BY <1>2, <1>6, <1>7 DEF TrailInv, AuditTypeOK, IsRead, Traced, Got, HasFired

\* A row that is written takes the place of the sighting it follows, and of no other row.
LEMMA WritesKeeps == TrailInv /\ (\E r \in stamped : Writes(r)) => TrailInv'
<1> SUFFICES ASSUME TrailInv, NEW s \in stamped, Writes(s) PROVE TrailInv'
  OBVIOUS
<1> DEFINE w == Upserted(s)
<1>1. /\ rows' = {q \in rows : ~Same(s, q)} \cup {w} /\ stamped' = stamped \ {s}
      /\ UNCHANGED <<second, reader, before>>
  BY DEF Writes
<1>2. rows \subseteq Row /\ stamped \subseteq Row /\ before \subseteq Row /\ s \in Row /\ Stamped /\ Traced
  BY DEF TrailInv, AuditTypeOK
<1>3. \A q \in Row : q.stamp.second \in Int
  BY DEF Row, Stamp
<1>4. \A q \in rows : Same(s, q) => s.type \in Sightings /\ q.type \in Sightings /\ Same(q, s)
                                    /\ q.stamp.second <= s.stamp.second
  BY <1>2, SameRows DEF Stamped, Follows
<1>5. w \in Row /\ w.stamp = s.stamp /\ w.id = s.id /\ Same(s, w) /\ (w.type \in Sightings <=> s.type \in Sightings)
      /\ (HasFired(s) => w.type = "fired")
  <2>1. CASE HasFired(s)
    <3>1. w = [s EXCEPT !.type = "fired"] /\ s.type \in Sightings
      BY <1>4, <2>1 DEF Upserted, HasFired
    <3>2. w \in Row /\ w.type = "fired" /\ w.stamp = s.stamp /\ w.id = s.id
      BY <1>2, <3>1 DEF Row, Sightings
    <3>3. s.type = "dropped" \/ s.type = "fired"
      BY <3>1 DEF Sightings
    <3> HIDE DEF w
    <3>4. Same(s, w)
      BY <3>2, <3>3 DEF Same, Sightings
    <3> QED BY <3>1, <3>2, <3>4 DEF Sightings
  <2>2. CASE ~HasFired(s)
    <3>1. w = s
      BY <2>2 DEF Upserted
    <3> QED BY <1>2, <2>2, <3>1, SameRows
  <2> QED BY <2>1, <2>2
<1> HIDE DEF w
<1>6. IsFiniteSet(rows') /\ IsFiniteSet(stamped') /\ rows' \subseteq Row /\ stamped' \subseteq Row
  <2>1. IsFiniteSet({q \in rows : ~Same(s, q)})
    BY FS_Subset DEF TrailInv
  <2> QED BY <1>1, <1>2, <1>5, <2>1, FS_AddElement, FS_RemoveElement DEF TrailInv
\* What a row was followed by, something still follows.
<1>7. ASSUME NEW r \in Row, NEW q \in rows, Follows(q, r) PROVE \E p \in rows' : Follows(p, r)
  <2>1. CASE ~Same(s, q)
    BY <1>1, <1>7, <2>1
  <2>2. CASE Same(s, q)
    <3>1. Same(r, q) /\ Same(q, s) /\ Same(s, w) /\ q \in Row
      BY <1>2, <1>4, <1>5, <1>7, <2>2 DEF Follows
    <3>2. Same(r, w)
      BY <1>2, <1>5, <3>1, SameRows
    <3>3. r.stamp.second <= w.stamp.second
      BY <1>2, <1>3, <1>4, <1>5, <1>7, <2>2, <3>1 DEF Follows
    <3> QED BY <1>1, <3>2, <3>3 DEF Follows
  <2> QED BY <2>1, <2>2
<1>8. ASSUME NEW r \in Row, HasFired(r) PROVE HasFired(r)'
  <2>1. PICK q \in rows : q.type = "fired" /\ Same(r, q)
    BY <1>8 DEF HasFired
  <2>2. CASE ~Same(s, q)
    BY <1>1, <2>1, <2>2 DEF HasFired
  <2>3. CASE Same(s, q)
    <3>1. w.type = "fired"
      BY <1>5, <2>1, <2>3 DEF HasFired
    <3>2. Same(r, w)
      BY <1>2, <1>4, <1>5, <2>1, <2>3, SameRows
    <3> QED BY <1>1, <3>1, <3>2 DEF HasFired
  <2> QED BY <2>2, <2>3
<1>9. Stamped'
  <2>1. \A r \in (rows \cup stamped)' : r.stamp.second <= second'
    BY <1>1, <1>2, <1>5 DEF Stamped
  <2>2. \A r, q \in stamped' : Same(r, q) => r = q
    BY <1>1, <1>2 DEF Stamped
  <2>3. ASSUME NEW r \in stamped', NEW q \in rows', Same(r, q) PROVE r.type \in Sightings /\ Follows(r, q)
    <3>1. q # w
      BY <1>1, <1>2, <1>5, <2>3, SameRows DEF Stamped
    <3> QED BY <1>1, <1>2, <2>3, <3>1 DEF Stamped
  <2> QED BY <2>1, <2>2, <2>3 DEF Stamped
<1>10. Traced'
  <2> SUFFICES ASSUME NEW r \in before
               PROVE  /\ r.type \notin Sightings => r \in rows'
                      /\ r.type \in Sightings => \E q \in rows' : Follows(q, r)
    BY <1>1 DEF Traced
  <2>1. r.type \notin Sightings => r \in rows'
    BY <1>1, <1>2, <1>4 DEF Traced
  <2>2. r.type \in Sightings => \E q \in rows' : Follows(q, r)
    BY <1>2, <1>7 DEF Traced
  <2> QED BY <2>1, <2>2
<1>11. (reader # NoReader => Got /\ IsFiniteSet(reader.got))'
  <2> SUFFICES ASSUME reader # NoReader, Got, IsFiniteSet(reader.got) PROVE Got' /\ IsFiniteSet(reader'.got)
    BY <1>1 DEF TrailInv
  <2>1. reader' = reader /\ before' = before
    BY <1>1
  <2>2. \A type : IsRead(type)' <=> IsRead(type)
    BY <2>1 DEF IsRead
  <2>3. \A r \in before : HasFired(r) => HasFired(r)'
    BY <1>2, <1>8
  <2> QED BY <2>1, <2>2, <2>3 DEF Got
<1> QED BY <1>1, <1>6, <1>9, <1>10, <1>11 DEF TrailInv, AuditTypeOK

\* What the table has of the rows from before is with the reader that read it.
LEMMA ReadsKeeps == TrailInv /\ ReadsTable => TrailInv'
<1> SUFFICES ASSUME TrailInv, ReadsTable PROVE TrailInv'
  OBVIOUS
<1>1. reader.at \in Types /\ UNCHANGED <<rows, second, stamped, before>>
  BY DEF ReadsTable
<1>2. reader \in [at : Types \cup {"done"}, dropped : BOOLEAN, got : SUBSET Row, failed : BOOLEAN] /\ reader # NoReader
  BY <1>1, ReaderShape DEF Types
<1>3. reader' = [reader EXCEPT !.got = @ \cup RowsOfType(reader.at), !.at = After(reader.at)]
  BY DEF ReadsTable
<1>4. After(reader.at) \in Types \cup {"done"} /\ RowsOfType(reader.at) \subseteq rows /\ rows \subseteq Row
  BY <1>1 DEF After, RowsOfType, Types, TrailInv, AuditTypeOK
<1>5. /\ reader' \in [at : Types \cup {"done"}, dropped : BOOLEAN, got : SUBSET Row, failed : BOOLEAN]
      /\ reader'.at = After(reader.at) /\ reader'.dropped = reader.dropped /\ reader'.failed = reader.failed
      /\ reader'.got = reader.got \cup RowsOfType(reader.at)
  BY <1>2, <1>3, <1>4
<1>6. \A type \in Types : IsRead(type)' => IsRead(type) \/ type = reader.at
  BY <1>1, <1>5 DEF IsRead, After, Types
<1>7. IsFiniteSet(reader.got) /\ IsFiniteSet(RowsOfType(reader.at)) /\ Got
  <2>1. IsFiniteSet(rows) /\ IsFiniteSet(reader.got) /\ Got
    BY <1>2 DEF TrailInv
  <2>2. IsFiniteSet(RowsOfType(reader.at))
    BY <1>4, <2>1, FS_Subset
  <2> QED BY <2>1, <2>2
<1>8. IsFiniteSet(reader'.got)
  <2>1. IsFiniteSet(reader.got \cup RowsOfType(reader.at))
    BY <1>7, FS_Union
  <2> QED BY <1>5, <2>1
<1>9. Stamped' /\ Traced'
  BY <1>1 DEF TrailInv, Stamped, Traced, Follows
<1>10. CASE ~reader.failed
  <2> SUFFICES ASSUME NEW r \in before, r.type \in Types, IsRead(r.type)'
               PROVE  /\ r.type \notin Sightings => r \in reader'.got
                      /\ r.type \in Sightings =>
                           HasFired(r) \/ \E q \in reader'.got : q.type = "dropped" /\ Follows(q, r)
    BY <1>1, <1>2, <1>5, <1>8, <1>9, <1>10, <1>4 DEF TrailInv, AuditTypeOK, Got, HasFired
  <2>1. CASE IsRead(r.type)
    BY <1>5, <1>7, <1>10, <2>1 DEF Got
  <2>2. CASE r.type = reader.at
    <3>1. r.type \notin Sightings => r \in RowsOfType(reader.at)
      BY <2>2 DEF TrailInv, Traced, RowsOfType
    <3>2. ASSUME r.type \in Sightings
          PROVE  HasFired(r) \/ \E q \in RowsOfType(reader.at) : q.type = "dropped" /\ Follows(q, r)
      <4>1. PICK q \in rows : Follows(q, r)
        BY <3>2 DEF TrailInv, Traced
      <4>2. r.type = "dropped" /\ r \in Row /\ q \in Row
        BY <3>2, <1>4 DEF Sightings, Types, TrailInv, AuditTypeOK
      <4>3. q.type \in Sightings
        BY <3>2, <4>1, <4>2, SameRows DEF Follows
      <4>4. CASE q.type = "fired"
        BY <4>1, <4>4 DEF HasFired, Follows
      <4>5. CASE q.type = "dropped"
        BY <2>2, <4>1, <4>2, <4>5 DEF RowsOfType
      <4> QED BY <4>3, <4>4, <4>5 DEF Sightings
    <3> QED BY <1>5, <3>1, <3>2
  <2> QED BY <1>6, <2>1, <2>2
<1>11. CASE reader.failed
  BY <1>1, <1>7, <1>11 DEF Got, Types
<1> QED BY <1>10, <1>11

\* The invariant is inductive.
LEMMA TrailSteps == TrailInv /\ [AuditNext]_trailVars => TrailInv'
<1> SUFFICES ASSUME TrailInv, [AuditNext]_trailVars PROVE TrailInv'
  OBVIOUS
<1>1. CASE \E type \in Types \cup Sightings, id \in 1..MaxWritten : Stamps(type, id)
  BY <1>1, StampsKeeps
<1>2. CASE \E r \in stamped : Writes(r)
  BY <1>2, WritesKeeps
<1>3. CASE SecondPasses
  <2>1. second' \in 0..MaxSecond /\ second' = second + 1 /\ second \in Int /\ UNCHANGED <<rows, stamped, reader, before>>
    BY <1>3, AuditAssumption DEF SecondPasses, TrailInv, AuditTypeOK
  <2>2. \A r \in rows \cup stamped : r.stamp.second \in Int /\ r.stamp.second <= second
    BY DEF TrailInv, AuditTypeOK, Row, Stamp, Stamped
  <2>3. Stamped'
    BY <2>1, <2>2 DEF TrailInv, Stamped, Follows
  <2> QED BY <2>1, <2>3 DEF TrailInv, AuditTypeOK, IsRead, Traced, Got, HasFired, Follows
<1>4. CASE Begins
  <2> PICK dropped \in BOOLEAN : reader' = [at |-> "alert", dropped |-> dropped, got |-> {}, failed |-> FALSE]
    BY <1>4 DEF Begins
  <2>1. before' = rows /\ UNCHANGED <<rows, second, stamped>>
    BY <1>4 DEF Begins
  <2>2. /\ reader' \in [at : Types \cup {"done"}, dropped : BOOLEAN, got : SUBSET Row, failed : BOOLEAN]
        /\ reader'.at = "alert" /\ reader'.got = {} /\ ~reader'.failed
    BY DEF Types
  <2>3. \A type \in Types : ~IsRead(type)'
    BY <2>2 DEF IsRead, Types
  <2>4. \A r \in rows : r \in Row /\ r.stamp.second \in Int
    BY DEF TrailInv, AuditTypeOK, Row, Stamp
  <2>5. Traced'
    BY <2>1, <2>4, SameRows DEF Traced, Follows
  <2>6. Got' /\ IsFiniteSet(reader'.got)
    BY <2>2, <2>3, FS_EmptySet DEF Got
  <2>7. Stamped'
    BY <2>1 DEF TrailInv, Stamped, Follows
  <2> QED BY <2>1, <2>2, <2>5, <2>6, <2>7 DEF TrailInv, AuditTypeOK
<1>5. CASE ReadsTable
  BY <1>5, ReadsKeeps
<1>6. CASE ReadFails
  <2>1. reader.at \in Types /\ UNCHANGED <<rows, second, stamped, before>>
        /\ reader' = [reader EXCEPT !.got = {}, !.at = "done", !.failed = TRUE]
    BY <1>6 DEF ReadFails
  <2>2. reader \in [at : Types \cup {"done"}, dropped : BOOLEAN, got : SUBSET Row, failed : BOOLEAN]
    BY <2>1, ReaderShape DEF Types
  <2>3. /\ reader' \in [at : Types \cup {"done"}, dropped : BOOLEAN, got : SUBSET Row, failed : BOOLEAN]
        /\ reader'.failed /\ reader'.got = {} /\ reader'.at = "done"
    BY <2>1, <2>2
  <2>4. Got' /\ IsFiniteSet(reader'.got)
    BY <2>3, FS_EmptySet DEF Got
  <2> QED BY <2>1, <2>3, <2>4 DEF TrailInv, AuditTypeOK, Stamped, Traced, Follows
<1>7. CASE Over
  BY <1>7 DEF Over, TrailInv, AuditTypeOK, Stamped, Traced, Follows
<1>8. CASE UNCHANGED trailVars
  BY <1>8 DEF trailVars, TrailInv, AuditTypeOK, IsRead, Stamped, Traced, Got, HasFired, Follows
<1> QED BY <1>1, <1>2, <1>3, <1>4, <1>5, <1>6, <1>7, <1>8 DEF AuditNext

\* A reader that is done has what its options ask for of the rows from before,
\* or what a later sighting made of it.
LEMMA ReadIsComplete ==
  ASSUME TrailInv, reader.at = "done", NEW since \in 0..MaxSecond, NEW type \in Types \cup {"any"}
  PROVE  /\ IsFiniteSet(Filtered(type, since, reader.got)) /\ Filtered(type, since, reader.got) \subseteq Row
         /\ \A r \in before :
              /\ ~reader.failed /\ r.type \in Types /\ (r.type = "dropped" => reader.dropped /\ ~HasFired(r))
              /\ type \in {"any", r.type} /\ r.stamp.second >= since
              => /\ r.type \notin Sightings => r \in Filtered(type, since, reader.got)
                 /\ \E q \in Filtered(type, since, reader.got) : Follows(q, r)
<1>1. reader # NoReader /\ reader.got \subseteq Row /\ IsFiniteSet(reader.got) /\ Got
  BY ReaderShape DEF TrailInv
<1>2. IsFiniteSet(Filtered(type, since, reader.got)) /\ Filtered(type, since, reader.got) \subseteq Row
  BY <1>1, FS_Subset DEF Filtered
<1>3. ASSUME NEW r \in before, ~reader.failed, r.type \in Types, r.type = "dropped" => reader.dropped /\ ~HasFired(r),
             type \in {"any", r.type}, r.stamp.second >= since
      PROVE  /\ r.type \notin Sightings => r \in Filtered(type, since, reader.got)
             /\ \E q \in Filtered(type, since, reader.got) : Follows(q, r)
  <2>1. IsRead(r.type)
    BY <1>3 DEF IsRead, Types
  <2>2. r \in Row /\ \A q \in Row : q.stamp.second \in Int
    BY DEF TrailInv, AuditTypeOK, Row, Stamp
  <2>3. since \in Int
    OBVIOUS
  <2>4. CASE r.type \notin Sightings
    <3>1. r \in Filtered(type, since, reader.got)
      BY <1>1, <1>3, <2>1, <2>4 DEF Got, Filtered
    <3> QED BY <2>2, <2>4, <3>1, SameRows DEF Follows
  <2>5. CASE r.type \in Sightings
    <3>1. r.type = "dropped"
      BY <1>3, <2>5 DEF Types, Sightings
    <3>2. PICK q \in reader.got : q.type = "dropped" /\ Follows(q, r)
      BY <1>1, <1>3, <2>1, <2>5, <3>1 DEF Got
    <3>3. q.stamp.second >= since
      BY <1>1, <1>3, <2>2, <2>3, <3>2 DEF Follows
    <3>4. q \in Filtered(type, since, reader.got)
      BY <1>3, <3>1, <3>2, <3>3 DEF Filtered
    <3> QED BY <2>5, <3>2, <3>4
  <2> QED BY <2>4, <2>5
<1> QED BY <1>2, <1>3

\* What is cut of a sequence is its beginning.
LEMMA CutShape ==
  ASSUME NEW S, NEW s \in Seq(S), NEW n \in Nat
  PROVE  /\ CutTo(n, s) \in Seq(S) /\ Len(CutTo(n, s)) = (IF n < Len(s) THEN n ELSE Len(s))
         /\ DOMAIN CutTo(n, s) = 1..Len(CutTo(n, s))
         /\ \A i \in DOMAIN CutTo(n, s) : i \in DOMAIN s /\ CutTo(n, s)[i] = s[i]
<1> DEFINE m == IF n < Len(s) THEN n ELSE Len(s)
<1>1. Len(s) \in Nat /\ DOMAIN s = 1..Len(s) /\ \A i \in 1..Len(s) : s[i] \in S
  BY LenProperties, ElementOfSeq
<1>2. m \in Nat /\ m <= Len(s)
  BY <1>1
<1> HIDE DEF m
<1>3. \A i \in 1..m : i \in 1..Len(s) /\ s[i] \in S
  BY <1>1, <1>2
<1>4. SubSeq(s, 1, m) \in Seq(S) /\ Len(SubSeq(s, 1, m)) = m /\ \A i \in 1..m : SubSeq(s, 1, m)[i] = s[i]
  <2>1. /\ SubSeq(s, 1, m) \in Seq(S)
        /\ Len(SubSeq(s, 1, m)) = IF 1 <= m THEN m - 1 + 1 ELSE 0
        /\ \A i \in 1..m - 1 + 1 : SubSeq(s, 1, m)[i] = s[1 + i - 1]
    BY <1>2, <1>3, SubSeqProperties
  <2> QED BY <1>2, <2>1
<1>5. DOMAIN SubSeq(s, 1, m) = 1..m
  BY <1>4, LenProperties
<1>6. CutTo(n, s) = SubSeq(s, 1, m)
  BY DEF CutTo, m
<1> QED BY <1>1, <1>3, <1>4, <1>5, <1>6 DEF m

\* The invariant holds in every state.
LEMMA TrailInvariance == TrailSpec => []TrailInv
<1>1. AuditInit => TrailInv
  BY FS_EmptySet, AuditAssumption DEF AuditInit, TrailInv, AuditTypeOK, Stamped, Traced
<1> QED BY <1>1, TrailSteps, PTL DEF TrailSpec

\* What show prints are the newest of the rows it was asked for.
LEMMA NewestAreShown == TrailInv => ShowsTheNewest
<1> SUFFICES ASSUME TrailInv, reader.at = "done", ~reader.failed, NEW options \in Options,
                    NEW shown \in Shown(options, reader.got)
             PROVE  \/ \A r \in Wanted(options) : Printed(r, shown)
                    \/ /\ Len(shown) >= options.last
                       /\ \A r \in Wanted(options), i \in DOMAIN shown :
                            Printed(r, shown) \/ r.stamp.second <= shown[i].stamp.second
  BY DEF ShowsTheNewest
<1> DEFINE S == Filtered(options.type, options.since, reader.got)
<1>1. options.type \in Types \cup {"any"} /\ options.since \in 0..MaxSecond /\ options.last \in Int
  BY AuditAssumption DEF Options
<1>2. IsFiniteSet(S) /\ S \subseteq Row /\ \A r \in Wanted(options) : \E q \in S : Follows(q, r)
  BY <1>1, ReadIsComplete DEF Wanted
<1> HIDE DEF S
<1>3. CASE options.last <= 0
  <2>1. shown = <<>> /\ DOMAIN <<>> = {} /\ Len(<<>>) = 0
    BY <1>3 DEF Shown
  <2> QED BY <1>1, <1>3, <2>1
<1>4. CASE ~(options.last <= 0)
  <2>1. options.last \in Nat
    BY <1>1, <1>4
  <2>2. PICK s \in NewestFirst(S) : shown = CutTo(options.last, s)
    BY <1>4 DEF Shown, S
  <2>3. /\ s \in Seq(S) /\ DOMAIN s = 1..Len(s) /\ Len(s) \in Nat /\ Range(s) = S
        /\ \A i, j \in DOMAIN s : i < j => ~Earlier(s[i].stamp, s[j].stamp)
    BY <1>2, OrderingShape DEF NewestFirst
  <2>4. /\ DOMAIN shown = 1..Len(shown) /\ Len(shown) = (IF options.last < Len(s) THEN options.last ELSE Len(s))
        /\ \A i \in DOMAIN shown : i \in DOMAIN s /\ shown[i] = s[i]
    BY <2>1, <2>2, <2>3, CutShape
  <2>5. ASSUME NEW r \in Wanted(options), ~Printed(r, shown), NEW i \in DOMAIN shown
        PROVE  r.stamp.second <= shown[i].stamp.second
    <3>1. PICK j \in DOMAIN s : Follows(s[j], r)
      BY <1>2, <2>3 DEF Range
    <3>2. j \notin DOMAIN shown
      BY <2>4, <2>5, <3>1 DEF Range, Printed, Follows
    <3>3. i < j
      BY <2>1, <2>3, <2>4, <3>1, <3>2
    <3>4. ~Earlier(s[i].stamp, s[j].stamp) /\ s[i] \in Row /\ s[j] \in Row
      BY <1>2, <2>3, <2>4, <3>1, <3>3 DEF Range
    <3>5. s[j].stamp.second <= s[i].stamp.second
      BY <3>4, AuditAssumption DEF Earlier, Row, Stamp
    <3>6. r \in Row
      BY DEF Wanted, TrailInv, AuditTypeOK
    <3>7. r.stamp.second \in Int /\ s[i].stamp.second \in Int /\ s[j].stamp.second \in Int
          /\ r.stamp.second <= s[j].stamp.second
      BY <3>1, <3>4, <3>6 DEF Row, Stamp, Follows
    <3>8. r.stamp.second <= s[i].stamp.second
      BY <3>5, <3>7
    <3> QED BY <2>4, <3>8
  <2>6. CASE options.last < Len(s)
    BY <2>1, <2>4, <2>5, <2>6
  <2>7. CASE ~(options.last < Len(s))
    <3>1. DOMAIN shown = DOMAIN s
      BY <2>3, <2>4, <2>7
    <3>2. Range(shown) = S
      BY <2>3, <2>4, <3>1 DEF Range
    <3> QED BY <1>2, <3>2 DEF Printed, Follows
  <2> QED BY <2>6, <2>7
<1> QED BY <1>3, <1>4

\* What export prints is complete, and in the order of the seconds.
LEMMA ExportsAreComplete == TrailInv => ExportIsComplete
<1> SUFFICES ASSUME TrailInv, reader.at = "done", ~reader.dropped, ~reader.failed,
                    NEW since \in 0..MaxSecond, NEW lines \in Exported(since, reader.got)
             PROVE  /\ {r \in before : r.type \notin Sightings /\ r.stamp.second >= since} \subseteq Range(lines)
                    /\ \A i, j \in DOMAIN lines :
                         i < j => lines[i] # lines[j] /\ lines[i].stamp.second <= lines[j].stamp.second
  BY DEF ExportIsComplete
<1> DEFINE S == Filtered("any", since, reader.got)
<1>1. /\ IsFiniteSet(S) /\ S \subseteq Row
      /\ \A r \in before : r.type \notin Sightings /\ r.stamp.second >= since => r \in S
  <2>1. \A r \in before : r.type \in Types \cup Sightings
    BY DEF TrailInv, AuditTypeOK, Row
  <2>2. \A r \in before : r.type \notin Sightings => r.type \in Types /\ r.type # "dropped"
    BY <2>1 DEF Sightings
  <2> QED BY <2>2, ReadIsComplete
<1> HIDE DEF S
<1>2. lines \in OldestFirst(S)
  BY DEF Exported, S
<1>3. /\ DOMAIN lines = 1..Len(lines) /\ Range(lines) = S /\ Len(lines) \in Nat
      /\ \A i, j \in DOMAIN lines : i # j => lines[i] # lines[j]
      /\ \A i, j \in DOMAIN lines : i < j => ~Earlier(lines[j].stamp, lines[i].stamp)
  BY <1>1, <1>2, OrderingShape DEF OldestFirst
<1>4. ASSUME NEW i \in DOMAIN lines, NEW j \in DOMAIN lines, i < j
      PROVE  lines[i] # lines[j] /\ lines[i].stamp.second <= lines[j].stamp.second
  <2>1. i # j /\ ~Earlier(lines[j].stamp, lines[i].stamp)
    BY <1>3, <1>4
  <2>2. lines[i] \in Row /\ lines[j] \in Row
    BY <1>1, <1>3 DEF Range
  <2>3. lines[i].stamp.second <= lines[j].stamp.second
    BY <2>1, <2>2, AuditAssumption DEF Earlier, Row, Stamp
  <2> QED BY <1>3, <2>1, <2>3
<1> QED BY <1>1, <1>3, <1>4

\* A read that failed leaves nothing to sort.
LEMMA FailureShowsNothing == TrailInv => NoPartIsShown
<1> SUFFICES ASSUME TrailInv, reader.at = "done", reader.failed PROVE
      /\ \A options \in Options : Shown(options, reader.got) = {<<>>}
      /\ \A since \in 0..MaxSecond : Exported(since, reader.got) = {<<>>}
  BY DEF NoPartIsShown
<1>1. reader.got = {}
  BY ReaderShape DEF TrailInv, Got
<1>2. \A type, since : Filtered(type, since, reader.got) = {}
  BY <1>1 DEF Filtered
<1>3. Cardinality({}) = 0 /\ IsFiniteSet({}) /\ {} \in SUBSET Row
  BY FS_EmptySet
<1>4. SetToSeqs({}) \subseteq {<<>>}
  BY <1>3 DEF SetToSeqs
<1>5. NewestFirst({}) = {<<>>} /\ OldestFirst({}) = {<<>>}
  BY <1>3, <1>4, SomethingNewestFirst, SomethingOldestFirst DEF NewestFirst, OldestFirst
<1>6. ASSUME NEW n \in Int, ~(n <= 0) PROVE CutTo(n, <<>>) = <<>>
  BY <1>6 DEF CutTo
<1>7. \A options \in Options : options.last \in Int
  BY AuditAssumption DEF Options
<1> QED BY <1>2, <1>5, <1>6, <1>7 DEF Shown, Exported

\* What audit show and audit export print is all that they were asked for of the
\* rows that were there when they began, up to --last, whatever the daemon writes,
\* sights again or fires between their reads, and in whatever order rows of one
\* stamp come; or, when a read failed, nothing at all.
THEOREM NoPartPassesForAll == TrailSpec => []AllOrNothingIsShown
<1>1. TrailInv => AllOrNothingIsShown
  BY NewestAreShown, ExportsAreComplete, FailureShowsNothing DEF AllOrNothingIsShown
<1> QED BY <1>1, TrailInvariance, PTL

\* There is something that AllOrNothingIsShown is said of: show and export always
\* have an order to print their rows in.
THEOREM SomethingIsPrinted ==
  TrailSpec => [](reader.at = "done" =>
                    /\ \A options \in Options : Shown(options, reader.got) # {}
                    /\ \A since \in 0..MaxSecond : Exported(since, reader.got) # {})
<1>1. ASSUME TrailInv, reader.at = "done", NEW options \in Options
      PROVE  Shown(options, reader.got) # {}
  <2> DEFINE S == Filtered(options.type, options.since, reader.got)
  <2>1. options.type \in Types \cup {"any"} /\ options.since \in 0..MaxSecond
    BY DEF Options
  <2>2. IsFiniteSet(S) /\ S \in SUBSET Row
    BY <1>1, <2>1, ReadIsComplete
  <2> HIDE DEF S
  <2>3. NewestFirst(S) # {}
    BY <2>2, SomethingNewestFirst
  <2> QED BY <2>3 DEF Shown, S
<1>2. ASSUME TrailInv, reader.at = "done", NEW since \in 0..MaxSecond
      PROVE  Exported(since, reader.got) # {}
  BY <1>2, ReadIsComplete, SomethingOldestFirst DEF Exported
<1>3. TrailInv => (reader.at = "done" =>
                     /\ \A options \in Options : Shown(options, reader.got) # {}
                     /\ \A since \in 0..MaxSecond : Exported(since, reader.got) # {})
  BY <1>1, <1>2
<1> QED BY <1>3, TrailInvariance, PTL
=============================================================================
