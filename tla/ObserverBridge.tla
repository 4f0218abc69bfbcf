--------------------------- MODULE ObserverBridge ---------------------------
(***************************************************************************)
(* server-observers.ts: a document is kept twice, as a tree (XmlFragment,  *)
(* which the WYSIWYG editor changes) and as text (Y.Text, which the source *)
(* editor changes and which is stored).  Observer A brings changes of the  *)
(* tree to the text, observer B those of the text to the tree; they run    *)
(* when a batch of transactions has drained (afterAllTransactions), and    *)
(* what they write drains in a batch of its own, nested in the first.      *)
(* The document is the set of its paragraphs, each inserted at most once.  *)
(* Bytes that differ only within normalizeBridge's tolerance are equal.    *)
(***************************************************************************)
EXTENDS Naturals, FiniteSets

CONSTANTS
  Piece,
  MaxSyncFaults   \* bound: observers that throw

ASSUME ObserverAssumption == MaxSyncFaults \in Nat

VARIABLES
  fragment, text,       \* the tree and the text
  baseline,             \* lastSyncedXmlMd
  xmlDirty, textDirty,
  turn,                 \* what runs: nothing, a transaction, or an observer
  wanted,               \* history: what the edits and writes so far add up to
  used,                 \* history: the paragraphs that were ever there
  apart,                \* history: a batch began with tree and text different
  mixed,                \* history: a batch changed both
  missed,               \* history: observer A threw
  syncFaults

sides     == <<fragment, text>>
observing == <<baseline, xmlDirty, textDirty, turn>>
told      == <<wanted, used, apart, mixed, missed>>
observerVars == <<sides, observing, told, syncFaults>>

ObserverTypeOK ==
  /\ fragment \subseteq Piece /\ text \subseteq Piece /\ baseline \subseteq Piece
  /\ xmlDirty \in BOOLEAN /\ textDirty \in BOOLEAN
  /\ turn \in {"rest", "batch", "a", "b"}
  /\ wanted \subseteq used /\ used \subseteq Piece
  /\ apart \in BOOLEAN /\ mixed \in BOOLEAN /\ missed \in BOOLEAN
  /\ syncFaults \in 0 .. MaxSyncFaults
  /\ turn = "rest" => ~xmlDirty /\ ~textDirty
  /\ turn \in {"a", "b"} => ~xmlDirty
  /\ turn = "b" => ~textDirty

(* setupServerObservers, on a document just loaded.                        *)
ObserverInit ==
  /\ fragment \in SUBSET Piece /\ text = fragment /\ baseline = fragment
  /\ xmlDirty = FALSE /\ textDirty = FALSE /\ turn = "rest"
  /\ wanted = fragment /\ used = fragment
  /\ apart = FALSE /\ mixed = FALSE /\ missed = FALSE
  /\ syncFaults = 0

-----------------------------------------------------------------------------
(* Clients.  One update may carry changes of both sides: all that a client *)
(* did while it was offline arrives as one.                                *)

Inserts(p, side) == p \notin used /\ side' = side \cup {p}
                    /\ wanted' = wanted \cup {p} /\ used' = used \cup {p}
Deletes(p, side) == p \in side /\ side' = side \ {p}
                    /\ wanted' = wanted \ {p} /\ UNCHANGED used
InBatch == turn \in {"rest", "batch"} /\ turn' = "batch"
FromApart == apart' = (apart \/ (turn = "rest" /\ fragment # text))

EditTree(p) ==
  /\ InBatch /\ FromApart
  /\ Inserts(p, fragment) \/ Deletes(p, fragment)
  /\ xmlDirty' = TRUE /\ mixed' = (mixed \/ textDirty)
  /\ UNCHANGED <<text, baseline, textDirty, missed, syncFaults>>

EditText(p) ==
  /\ InBatch /\ FromApart
  /\ Inserts(p, text) \/ Deletes(p, text)
  /\ textDirty' = TRUE /\ mixed' = (mixed \/ xmlDirty)
  /\ UNCHANGED <<fragment, baseline, xmlDirty, missed, syncFaults>>

(* Mutant of PairedWrite: the observers take it for settled as it is.      *)
PairedWriteUnnoticed(new) ==
  /\ turn = "rest"
  /\ fragment' = new /\ text' = new
  /\ wanted' = new /\ used' = used \cup new
  /\ UNCHANGED <<observing, apart, mixed, missed, syncFaults>>

(* An agent, the file watcher or a rollback writes both in one transaction *)
(* with a paired origin.  The batch has nothing dirty.                     *)
PairedWrite(new) ==
  /\ turn = "rest"
  /\ fragment' = new /\ text' = new /\ baseline' = new
  /\ wanted' = new /\ used' = used \cup new
  /\ UNCHANGED <<xmlDirty, textDirty, turn, apart, mixed, missed, syncFaults>>

-----------------------------------------------------------------------------
(* The batch drains: afterAll.                                             *)

(* Mutant of Drain: the text is looked at first.                           *)
DrainTextFirst ==
  /\ turn = "batch"
  /\ IF textDirty THEN turn' = "b" /\ textDirty' = FALSE /\ UNCHANGED xmlDirty
     ELSE turn' = "a" /\ xmlDirty' = FALSE /\ UNCHANGED textDirty
  /\ UNCHANGED <<sides, baseline, told, syncFaults>>

Drain ==
  /\ turn = "batch"
  /\ IF xmlDirty THEN turn' = "a" /\ xmlDirty' = FALSE /\ UNCHANGED textDirty
     ELSE turn' = "b" /\ textDirty' = FALSE /\ UNCHANGED xmlDirty
  /\ UNCHANGED <<sides, baseline, told, syncFaults>>

(* Observer A has written nothing: it is observer B's turn, if need be.    *)
BIsNext == turn' = (IF textDirty THEN "b" ELSE "rest") /\ textDirty' = FALSE

(* mergeThreeWay *)
Merged3(base, ours, theirs) ==
  (base \cap ours \cap theirs) \cup (ours \ base) \cup (theirs \ base)

(* Path A, and path B: the text has changes of its own.                    *)
Synced == IF text = baseline THEN fragment ELSE Merged3(baseline, fragment, text)

(* runObserverASync.  Its write drains in turn, and that drain, which has  *)
(* only the observers' own transactions, clears both dirty flags: observer *)
(* B does not run.                                                         *)
ObserverA ==
  /\ turn = "a"
  /\ \/ fragment \in {baseline, text} /\ baseline' = fragment /\ BIsNext /\ UNCHANGED text
     \/ /\ fragment \notin {baseline, text}
        /\ text' = Synced /\ baseline' = text' /\ turn' = "rest"
        /\ textDirty' = FALSE
  /\ UNCHANGED <<fragment, xmlDirty, told, syncFaults>>

(* The tree cannot be serialized: the baseline is the text as it is.       *)
ObserverAThrows ==
  /\ turn = "a"
  /\ syncFaults < MaxSyncFaults /\ syncFaults' = syncFaults + 1
  /\ baseline' = text /\ missed' = TRUE
  /\ BIsNext
  /\ UNCHANGED <<sides, xmlDirty, wanted, used, apart, mixed>>

(* runObserverBSync *)
ObserverB ==
  /\ turn = "b" /\ turn' = "rest"
  /\ fragment' = IF baseline = text THEN fragment ELSE text
  /\ baseline' = text
  /\ UNCHANGED <<text, xmlDirty, textDirty, told, syncFaults>>

(* The text cannot be made a tree: the baseline is the tree as it is.      *)
ObserverBThrows ==
  /\ turn = "b" /\ turn' = "rest" /\ baseline # text
  /\ syncFaults < MaxSyncFaults /\ syncFaults' = syncFaults + 1
  /\ baseline' = fragment
  /\ UNCHANGED <<sides, xmlDirty, textDirty, told>>

-----------------------------------------------------------------------------
ObserverNext ==
  \/ Drain \/ ObserverA \/ ObserverAThrows \/ ObserverB \/ ObserverBThrows
  \/ \E p \in Piece : EditTree(p) \/ EditText(p)
  \/ \E new \in SUBSET Piece : PairedWrite(new)

ObserverSpec == ObserverInit /\ [][ObserverNext]_observerVars

-----------------------------------------------------------------------------
(* Whatever is typed in either editor is in the text when the batch has    *)
(* drained, and nothing deleted comes back, even if one batch changes both *)
(* sides; unless observer A threw, or an earlier batch left the two apart. *)
TypedReachesText == turn = "rest" => missed \/ apart \/ text = wanted

(* The same without the exception for the two sides being apart.           *)
NoContentLoss == turn = "rest" => missed \/ syncFaults > 0 \/ text = wanted

(* Tree and text are the same between batches, unless a batch changed both *)
(* or an observer threw.                                                   *)
SidesAgree == turn = "rest" => mixed \/ syncFaults > 0 \/ fragment = text
=============================================================================
