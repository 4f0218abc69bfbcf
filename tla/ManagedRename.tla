---------------------------- MODULE ManagedRename ----------------------------
(***************************************************************************)
(* Renaming a document, or a folder of documents, rewrites every document  *)
(* that links to it and moves the files.  A journal of what they all said  *)
(* (managed-rename-journal.ts) is written before and removed after; a      *)
(* server that starts and finds one puts everything back.  This is one     *)
(* rename (_performManagedRenameForDocs), with edits and stores of the     *)
(* same documents, failures, and a server killed at any point and started  *)
(* again.  ProcessLock has the rule that one server runs at a time.        *)
(***************************************************************************)
EXTENDS Naturals, FiniteSets

CONSTANTS
  Moved,          \* the documents that are moved
  Linker,       \* other documents, with links to them
  Absent,       \* there is no file of this name
  Torn,         \* what is left of a file whose writing was cut short
  Closed,       \* the document is not open
  NoJournal,
  MaxTyped, MaxCrashes, MaxFaults   \* bounds

ASSUME RenameAssumption ==
  /\ MaxTyped \in Nat /\ MaxCrashes \in Nat /\ MaxFaults \in Nat
  /\ Moved # {} /\ Moved \cap Linker = {}

From(d) == <<d, "from">>
To(d)   == <<d, "to">>
Sources == {From(d) : d \in Moved}
Targets == {To(d) : d \in Moved}
Linkers == {<<l, "linker">> : l \in Linker}
Name    == Sources \cup Targets \cup Linkers

(* What matters of a text: the edit it holds, and which names it links to. *)
Text == [edit : 0 .. MaxTyped, links : {"old", "new"}]
ASSUME AbsenceAssumption ==
  /\ {Absent, Torn, Closed} \cap Text = {}
  /\ NoJournal \notin [Sources \cup Linkers -> Text]

Rewritten(text) == [text EXCEPT !.links = "new"]

VARIABLES
  file,      \* the files
  journal,   \* managed-rename.json: what each document said
  stage,     \* of the server: how far the start or the rename has got
  pending,   \* names the present loop has not come to yet
  live,      \* the open documents
  unstored,  \* those with a store pending
  captured,  \* liveContents of captureAndCloseDocuments
  removed,   \* recentlyRemovedDocs has the old names
  landed,    \* history: the edit of each document that is to be on disk
  early,     \* history: one was opened before a recovery, or at its new place during the rename
  revived,   \* history: a store of an old name came after the move
  stacked,   \* history: a rename began while the journal of another was there
  keystrokes, crashes, faults

onDisk   == <<file, journal>>
memory   == <<live, unstored, captured, removed>>
history  == <<landed, early, revived, stacked>>
budget == <<keystrokes, crashes, faults>>
renameVars == <<onDisk, stage, pending, memory, history, budget>>

Stage == {"down", "boot", "restore", "clean", "idle", "rewrite", "move", "capture", "unload",
          "log", "sync", "clear"}

RenameTypeOK ==
  /\ file \in [Name -> Text \cup {Absent, Torn}]
  /\ journal \in [Sources \cup Linkers -> Text] \cup {NoJournal}
  /\ stage \in Stage /\ pending \in SUBSET Name
  /\ live \in [Name -> Text \cup {Closed}] /\ unstored \in SUBSET Name
  /\ captured \in [Moved -> Text \cup {Closed}] /\ removed \in BOOLEAN
  /\ landed \in [Moved \cup Linker -> 0 .. MaxTyped]
  /\ early \in BOOLEAN /\ revived \in BOOLEAN /\ stacked \in BOOLEAN
  /\ keystrokes \in 0 .. MaxTyped /\ crashes \in 0 .. MaxCrashes /\ faults \in 0 .. MaxFaults

RenameInit ==
  /\ file = [n \in Name |-> IF n \in Targets THEN Absent ELSE [edit |-> 0, links |-> "old"]]
  /\ journal = NoJournal /\ stage = "down" /\ pending = {}
  /\ live = [n \in Name |-> Closed] /\ unstored = {}
  /\ captured = [d \in Moved |-> Closed] /\ removed = FALSE
  /\ landed = [d \in Moved \cup Linker |-> 0]
  /\ early = FALSE /\ revived = FALSE /\ stacked = FALSE
  /\ keystrokes = 0 /\ crashes = 0 /\ faults = 0

Goes(s) == stage' = s
Write(n, text) == file' = [file EXCEPT ![n] = text]
Up == stage \notin {"down"}
Current(n) == IF live[n] # Closed THEN live[n] ELSE file[n]

-----------------------------------------------------------------------------
(* recoverPendingManagedRename, at every start.                            *)

Boot ==
  /\ stage = "down" /\ Goes("boot")
  /\ UNCHANGED <<onDisk, pending, memory, history, budget>>

ReadJournal ==
  /\ stage = "boot"
  /\ IF journal = NoJournal THEN Goes("idle") /\ UNCHANGED pending
     ELSE Goes("restore") /\ pending' = DOMAIN journal
  /\ UNCHANGED <<onDisk, memory, history, budget>>

Restore(n) ==
  /\ stage = "restore" /\ n \in pending
  /\ Write(n, journal[n])
  /\ pending' = pending \ {n}
  /\ UNCHANGED <<journal, stage, memory, history, budget>>

Restored ==
  /\ stage = "restore" /\ pending = {}
  /\ Goes("clean") /\ pending' = Targets
  /\ UNCHANGED <<onDisk, memory, history, budget>>

Clean(n) ==
  /\ stage = "clean" /\ n \in pending
  /\ Write(n, Absent)
  /\ pending' = pending \ {n}
  /\ UNCHANGED <<journal, stage, memory, history, budget>>

Before(x) == IF x \in Moved THEN From(x) ELSE <<x, "linker">>

(* Mutant of Recovered: the journal goes before the destinations do.       *)
RecoveredEarly ==
  /\ stage = "clean" /\ pending = Targets
  /\ journal' = NoJournal /\ Goes("idle") /\ pending' = {}
  /\ UNCHANGED <<file, memory, history, budget>>

Recovered ==
  /\ stage = "clean" /\ pending = {}
  /\ journal' = NoJournal /\ Goes("idle")
  /\ landed' = [x \in Moved \cup Linker |-> journal[Before(x)].edit]
  /\ UNCHANGED <<file, pending, memory, early, revived, stacked, budget>>

(* A file cannot be written or removed: the rest of the loop is done, the  *)
(* journal stays, and the server serves all the same.                      *)
RecoveryFails ==
  /\ stage \in {"restore", "clean"} /\ pending # {}
  /\ faults < MaxFaults /\ faults' = faults + 1
  /\ \E failed \in pending :
       file' = [n \in Name |->
         IF n \notin pending \ {failed} THEN file[n]
         ELSE IF stage = "restore" THEN journal[n] ELSE Absent]
  /\ Goes("idle") /\ pending' = {}
  /\ UNCHANGED <<journal, memory, history, keystrokes, crashes>>

-----------------------------------------------------------------------------
(* Clients.                                                                *)

(* The stages at which the rename, or the start, is awaiting something:    *)
(* all the others run in one turn, in which nobody opens, types or stores. *)
Awaiting == stage \in {"boot", "idle", "move", "capture", "unload"}

(* A document is opened, which nothing delays until the recovery is over.  *)
(* The old name of a renamed document is redirected.  A document with      *)
(* text stays open.                                                        *)
Open(n) ==
  /\ Awaiting /\ live[n] = Closed /\ file[n] \in Text
  /\ ~(removed /\ n \in Sources)
  /\ live' = [live EXCEPT ![n] = file[n]]
  /\ early' = \/ early
              \/ stage = "boot" /\ journal # NoJournal
              \/ stage \in {"capture", "unload"} /\ n \in Targets
  /\ UNCHANGED <<onDisk, stage, pending, unstored, captured, removed, landed, revived, stacked,
                 budget>>

Type(n) ==
  /\ Awaiting /\ live[n] # Closed
  /\ keystrokes < MaxTyped /\ keystrokes' = keystrokes + 1
  /\ live' = [live EXCEPT ![n].edit = keystrokes + 1]
  /\ unstored' = unstored \cup {n}
  /\ UNCHANGED <<onDisk, stage, pending, captured, removed, history, crashes, faults>>

(* onStoreDocument.                                                        *)
StoreName(n) ==
  /\ Awaiting /\ n \in unstored
  /\ Write(n, live[n])
  /\ unstored' = unstored \ {n}
  /\ landed' = [landed EXCEPT ![n[1]] = live[n].edit]
  /\ revived' = (revived \/ (n \in Sources /\ file[n] = Absent))
  /\ UNCHANGED <<journal, stage, pending, live, captured, removed, early, stacked, budget>>

-----------------------------------------------------------------------------
(* _performManagedRenameForDocs *)

Texts == [n \in Sources \cup Linkers |-> Current(n)]

(* Everything is looked at and the journal put in place, in one turn.      *)
BeginRename ==
  /\ stage = "idle"
  /\ \A d \in Moved : file[From(d)] \in Text /\ file[To(d)] = Absent
  /\ \A n \in Linkers : file[n] \in Text
  /\ journal' = Texts
  /\ stacked' = (stacked \/ journal # NoJournal)
  /\ Goes("rewrite") /\ pending' = Linkers
  /\ UNCHANGED <<file, memory, landed, early, revived, budget>>

(* An open document is rewritten in memory and written out.                *)
Rewrite(n) ==
  /\ stage = "rewrite" /\ n \in pending
  /\ LET text == IF live[n] # Closed THEN live[n] ELSE journal[n] IN
       IF text.links = "new" THEN UNCHANGED <<file, live, unstored>>
       ELSE /\ Write(n, Rewritten(text))
            /\ live' = IF live[n] = Closed THEN live ELSE [live EXCEPT ![n] = Rewritten(text)]
            /\ unstored' = unstored \ {n}
  /\ pending' = pending \ {n}
  /\ UNCHANGED <<journal, stage, captured, removed, history, budget>>

(* The old names are redirected from here on; git mv, or rename, follows.  *)
AllRewritten ==
  /\ stage = "rewrite" /\ pending = {}
  /\ removed' = TRUE /\ Goes("move")
  /\ UNCHANGED <<onDisk, pending, live, unstored, captured, history, budget>>

Move ==
  /\ stage = "move"
  /\ file' = [n \in Name |-> IF n \in Sources THEN Absent
                             ELSE IF n \in Targets THEN file[From(n[1])] ELSE file[n]]
  /\ Goes("capture")
  /\ UNCHANGED <<journal, pending, memory, history, budget>>

(* captureAndCloseDocuments: the texts are taken, then sessions and        *)
(* connections are closed, which is awaited, and the documents unloaded.   *)
Capture ==
  /\ stage = "capture"
  /\ captured' = [d \in Moved |-> live[From(d)]]
  /\ Goes("unload")
  /\ UNCHANGED <<onDisk, pending, live, unstored, removed, history, budget>>

UnloadSources ==
  /\ stage = "unload"
  /\ live' = [n \in Name |-> IF n \in Sources THEN Closed ELSE live[n]]
  /\ unstored' = unstored \ Sources
  /\ Goes("log")
  /\ UNCHANGED <<onDisk, pending, captured, removed, history, budget>>

(* appendRenameLogEntry                                                    *)
AppendLog ==
  /\ stage = "log"
  /\ Goes("sync") /\ pending' = Targets
  /\ UNCHANGED <<onDisk, memory, history, budget>>

(* Mutant of SyncMoved: what was typed since the journal is not looked at. *)
SyncMovedFromJournal(n) ==
  /\ stage = "sync" /\ n \in pending
  /\ Write(n, Rewritten(journal[From(n[1])]))
  /\ pending' = pending \ {n}
  /\ UNCHANGED <<journal, stage, memory, history, budget>>

(* syncRenamedDocsToDisk                                                   *)
SyncMoved(n) ==
  /\ stage = "sync" /\ n \in pending
  /\ LET d == n[1]
         text == IF captured[d] # Closed THEN captured[d] ELSE journal[From(d)]
     IN Write(n, Rewritten(text))
  /\ pending' = pending \ {n}
  /\ UNCHANGED <<journal, stage, memory, history, budget>>

AllSynced ==
  /\ stage = "sync" /\ pending = {}
  /\ Goes("clear")
  /\ UNCHANGED <<onDisk, pending, memory, history, budget>>

(* clearManagedRenameJournal                                               *)
Clear ==
  /\ stage = "clear"
  /\ journal' = NoJournal /\ Goes("idle")
  /\ captured' = [d \in Moved |-> Closed]
  /\ landed' = [x \in Moved \cup Linker |->
       IF x \in Moved /\ file[To(x)] \in Text /\ file[To(x)].edit > landed[x]
         THEN file[To(x)].edit ELSE landed[x]]
  /\ UNCHANGED <<file, pending, live, unstored, removed, early, revived, stacked, budget>>

(* Something in the operation throws: the journal is left, and the server  *)
(* goes on with what is done so far.                                       *)
OperationFails ==
  /\ stage \in {"rewrite", "move", "log", "sync"}
  /\ faults < MaxFaults /\ faults' = faults + 1
  /\ Goes("idle") /\ pending' = {}
  /\ captured' = [d \in Moved |-> Closed]
  /\ UNCHANGED <<onDisk, live, unstored, removed, history, keystrokes, crashes>>

(* The server is killed; a file being written just then is torn.           *)
Crash ==
  /\ Up /\ crashes < MaxCrashes /\ crashes' = crashes + 1
  /\ \/ UNCHANGED file
     \/ stage \in {"restore", "rewrite", "sync"} /\ \E n \in pending : Write(n, Torn)
  /\ Goes("down") /\ pending' = {}
  /\ live' = [n \in Name |-> Closed] /\ unstored' = {}
  /\ captured' = [d \in Moved |-> Closed] /\ removed' = FALSE
  /\ UNCHANGED <<journal, history, keystrokes, faults>>

-----------------------------------------------------------------------------
RenameNext ==
  \/ Boot \/ ReadJournal \/ Restored \/ Recovered \/ RecoveryFails
  \/ BeginRename \/ AllRewritten \/ Move \/ Capture \/ UnloadSources \/ AppendLog \/ AllSynced
  \/ Clear \/ OperationFails \/ Crash
  \/ \E n \in Name :
       \/ Restore(n) \/ Clean(n) \/ Rewrite(n) \/ SyncMoved(n)
       \/ Open(n) \/ Type(n) \/ StoreName(n)

RenameSpec == RenameInit /\ [][RenameNext]_renameVars

-----------------------------------------------------------------------------
(* No rename is under way, and none was left unfinished.                   *)
Quiet == journal = NoJournal /\ stage \in {"down", "boot", "idle"}

Has(n, links) == file[n] \in Text /\ file[n].links = links
NotRenamed ==
  /\ \A d \in Moved : Has(From(d), "old") /\ file[To(d)] = Absent
  /\ \A n \in Linkers : Has(n, "old")
Renamed ==
  /\ \A d \in Moved : file[From(d)] = Absent /\ Has(To(d), "new")
  /\ \A n \in Linkers : Has(n, "new")

(* All or nothing: whatever fails and wherever the server is killed, once  *)
(* there is no journal every document is at its old place and linked to    *)
(* there, or every one at its new place.  Excepted are a document that     *)
(* was opened before the recovery, a store of the old name after the move, *)
(* and a rename begun over the journal of one that failed.                 *)
AllOrNothing ==
  Quiet => early \/ revived \/ stacked \/ NotRenamed \/ Renamed

(* No text that was stored, by a client's edit or by the finished rename,  *)
(* is replaced by an older one, but that a recovery goes back to what the  *)
(* documents were when the rename began.                                   *)
StoredTextKept ==
  Quiet => \/ early \/ revived \/ stacked
           \/ \A x \in Moved \cup Linker :
                \E n \in Name : n[1] = x /\ file[n] \in Text /\ file[n].edit >= landed[x]
=============================================================================
