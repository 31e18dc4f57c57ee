---------------------------- MODULE WishlistFile ----------------------------
(***************************************************************************)
(* wishlist.yaml: load_wishlist, save_wishlist, and the commands phase2    *)
(* enable and disable that load it, ask, and save it - in place, so that a *)
(* load may come between the truncation and the end of the write, and so   *)
(* that two commands may overlap, or one be killed halfway.  Nothing locks *)
(* the file, and what is saved is the document loaded before the prompt:   *)
(* an edit saved meanwhile is overwritten.                                 *)
(*                                                                         *)
(* A document is the sequence of its entries; comments and quoting, which  *)
(* the save keeps, are left out.                                           *)
(***************************************************************************)
EXTENDS Naturals, Sequences

CONSTANTS
  Commands,       \* the runs of phase2 enable and disable
  WantsOn,        \* those of them that enable
  Original,       \* the document the operator begins with
  Flawed          \* an entry that an edit may add

Entry == [key : Nat, valid : BOOLEAN, forbidden : BOOLEAN, enabled : BOOLEAN]

ASSUME WishlistAssumption == Original \in Seq(Entry) /\ Flawed \subseteq Entry

VARIABLES
  text,           \* the file: its document, or torn where it does not parse
  command,        \* command[c]: where it stands, the entry it is about, its document
  confirmed,      \* ghost: the entries whose enabling the operator confirmed
  spoiled,        \* ghost: a save was killed, or a document was loaded during one
  promised,       \* ghost: the keys put in the file that no save overwrote unread
  unread          \* ghost: unread[c]: keys edited in since c loaded its document

wishlistVars == <<text, command, confirmed, spoiled, promised, unread>>

(***************************************************************************)
(* load_wishlist.  A forbidden field is found before the types are looked  *)
(* at, and anywhere in the document; two entries may not share a key.      *)
(***************************************************************************)
Forbids(doc) == \E i \in DOMAIN doc : doc[i].forbidden

KeysUnique(doc) == \A i, j \in DOMAIN doc : doc[i].key = doc[j].key => i = j

TypesHold(doc) == (\A i \in DOMAIN doc : doc[i].valid) /\ KeysUnique(doc)

LoadOutcome(t) ==
  CASE t.torn             -> "WishlistParseError"
    [] Forbids(t.doc)     -> "WishlistScopeError"
    [] ~TypesHold(t.doc)  -> "WishlistValidationError"
    [] OTHER              -> "loaded"

KeysOf(doc)    == {doc[i].key : i \in DOMAIN doc}
EnabledIn(doc) == {doc[i].key : i \in {n \in DOMAIN doc : doc[n].enabled}}

\* Mutant: the value is written to the first entry, whichever it is about.
SyncedFirst(doc, key, on) ==
  [i \in DOMAIN doc |-> IF i = 1 THEN [doc[i] EXCEPT !.enabled = on] ELSE doc[i]]

\* Mutant: an entry is dropped for its enabled value.
SyncedDropping(doc, key, on) == SelectSeq(doc, LAMBDA e : e.key = key \/ e.enabled = on)

\* save_wishlist writes through only the cells whose typed value differs.
Synced(doc, key, on) ==
  [i \in DOMAIN doc |-> IF doc[i].key = key THEN [doc[i] EXCEPT !.enabled = on] ELSE doc[i]]

(***************************************************************************)
(* What a file is while doc is being written to it: nothing yet, some of   *)
(* the entries, the last of them cut short - which leaves it invalid, or   *)
(* its phase2 block at the default - or something that does not parse.     *)
(***************************************************************************)
File(doc) == [torn |-> FALSE, doc |-> doc]

CutShort(e) == {[e EXCEPT !.valid = FALSE], [e EXCEPT !.enabled = FALSE]}

Partial(doc) ==
  {[torn |-> TRUE, doc |-> <<>>]}
    \cup {File(SubSeq(doc, 1, n)) : n \in 0..Len(doc)}
    \cup UNION {{File(Append(SubSeq(doc, 1, n - 1), e)) : e \in CutShort(doc[n])} : n \in DOMAIN doc}

Away == [at |-> "off", key |-> 0, doc |-> <<>>]

Contents == [torn : BOOLEAN, doc : Seq(Entry)]

Hand == [at : {"off", "ask", "write"}, key : Nat, doc : Seq(Entry)]

WishlistInit ==
  /\ text = File(Original)
  /\ command = [c \in Commands |-> Away]
  /\ confirmed = EnabledIn(Original) /\ spoiled = FALSE
  /\ promised = KeysOf(Original) /\ unread = [c \in Commands |-> {}]

WishlistTypeOK ==
  /\ text \in Contents /\ command \in [Commands -> Hand]
  /\ confirmed \subseteq Nat /\ spoiled \in BOOLEAN
  /\ promised \subseteq Nat /\ unread \in [Commands -> SUBSET Nat]

Writing == \E c \in Commands : command[c].at = "write"

\* An entry that the document does not have ends the command, and so does a
\* document that does not load.
CommandLoads(c) ==
  /\ command[c] = Away
  /\ LoadOutcome(text) = "loaded"
  /\ \E key \in KeysOf(text.doc) : command' = [command EXCEPT ![c] = [at |-> "ask", key |-> key, doc |-> text.doc]]
  /\ spoiled' = (spoiled \/ Writing)
  /\ UNCHANGED <<text, confirmed, promised, unread>>

Overwritten(c) == unread[c] \ KeysOf(command[c].doc)

\* The operator answers the prompt, if there is one; the file is truncated.
CommandTruncates(c) ==
  /\ command[c].at = "ask"
  /\ confirmed' = IF c \in WantsOn THEN confirmed \cup {command[c].key} ELSE confirmed
  /\ command' = [command EXCEPT ![c].at = "write",
                                ![c].doc = Synced(@, command[c].key, c \in WantsOn)]
  /\ text' \in Partial(command'[c].doc)
  /\ promised' = promised \ Overwritten(c)
  /\ UNCHANGED <<spoiled, unread>>

CommandWrites(c) ==
  /\ command[c].at = "write"
  /\ text' = File(command[c].doc)
  /\ command' = [command EXCEPT ![c] = Away]
  /\ unread' = [unread EXCEPT ![c] = {}]
  /\ UNCHANGED <<confirmed, spoiled, promised>>

\* The operator cancels or the token is wrong; or the command is killed.
CommandEnds(c) ==
  /\ command[c] # Away
  /\ command' = [command EXCEPT ![c] = Away]
  /\ spoiled' = (spoiled \/ command[c].at = "write")
  /\ unread' = [unread EXCEPT ![c] = {}]
  /\ UNCHANGED <<text, confirmed, promised>>

\* The operator adds an entry to a document that is there, while a command waits
\* at its prompt or none does; one that the operator writes enabled is as good as
\* confirmed.  An edit between the truncation and the end of a write is left out.
EditAdds ==
  /\ ~Writing
  /\ ~text.torn /\ Len(text.doc) = Len(Original)
  /\ \E e \in Flawed :
       /\ text' = File(Append(text.doc, e))
       /\ confirmed' = IF e.enabled THEN confirmed \cup {e.key} ELSE confirmed
       /\ promised' = promised \cup {e.key}
       /\ unread' = [c \in Commands |-> IF command[c] = Away THEN {} ELSE unread[c] \cup {e.key}]
  /\ UNCHANGED <<command, spoiled>>

WishlistNext ==
  \/ \E c \in Commands :
       CommandLoads(c) \/ CommandTruncates(c) \/ CommandWrites(c) \/ CommandEnds(c)
  \/ EditAdds

WishlistSpec == WishlistInit /\ [][WishlistNext]_wishlistVars

(***************************************************************************)
(* Safety.                                                                 *)
(***************************************************************************)
\* What load_wishlist returns - to a daemon that starts meanwhile, say - has
\* Phase 2 enabled only for entries whose enabling was confirmed, whichever
\* saves overlap, are killed, or are read halfway.
EnabledWasConfirmed == LoadOutcome(text) = "loaded" => EnabledIn(text.doc) \subseteq confirmed

\* A save loses no entry of the file but those that were edited in after its
\* command had loaded the document it writes back - whichever saves overlap, and
\* whatever was edited before - unless a save was killed or read halfway.
EntriesSurvive == ~spoiled /\ ~Writing => promised \subseteq KeysOf(text.doc)

(***************************************************************************)
(* What save_wishlist says and the code does not do: it writes through     *)
(* only the fields that diverge from the YAML cell.  Here it takes back an *)
(* entry that was edited in while its command waited at the prompt.        *)
(***************************************************************************)
EditsAreKept == ~spoiled => \A c \in Commands : command[c].at = "write" => Overwritten(c) = {}
=============================================================================
