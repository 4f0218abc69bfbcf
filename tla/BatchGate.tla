------------------------------ MODULE BatchGate ------------------------------
(***************************************************************************)
(* What a git batch does to one document.  While the shared flag           *)
(* (batchInProgress, here gate) is up, stores are deferred and disk events *)
(* buffered; the HEAD watcher's callbacks (server-factory.ts) raise and    *)
(* lower it, park the document when a batch begins and, when the branch    *)
(* has changed, reset it to the new branch and restore what was parked     *)
(* there.  The sync engine raises and lowers the same flag.                *)
(*                                                                         *)
(* A text is a set of paragraphs, <<branch it was written on, number>>;    *)
(* paragraphs are added, never rewritten.  DiskBridge has the finer texts  *)
(* and the races of one store with the watcher, left out here.             *)
(***************************************************************************)
EXTENDS HeadWatcher, Naturals, Sequences, FiniteSets

CONSTANTS
  Holder,        \* what the sync engine may do under the flag: pull, push, resolve
  NoFile,        \* the file is not in the working tree
  Undefined,     \* no reconciled base
  Idle,          \* no store in flight
  FinalNewline,  \* the file ends in a newline, which readParkedState trims
  MayLack,       \* branches that may not have the file
  MaxEdits,      \* bound: paragraphs written, by anyone
  MaxGit,        \* bound: git commands run beside the server
  MaxHolds,      \* bound: cycles of the sync engine
  MaxFailures    \* bound: failed stores and failed parks

ASSUME GateAssumption ==
  /\ MaxEdits \in Nat /\ MaxGit \in Nat /\ MaxHolds \in Nat /\ MaxFailures \in Nat
  /\ FinalNewline \in BOOLEAN /\ MayLack \subseteq Branch

Paragraph == Branch \X (0 .. MaxEdits + 1)
Text      == SUBSET Paragraph
ParkedDoc == [branch : Branch, markdown : Text, diskSnapshot : Text]
ASSUME NoFileAssumption == \A text \in Text : text # NoFile /\ text # Undefined
ASSUME ParkedAssumption == None \notin ParkedDoc

Channel   == {"hook", "drain"}     \* a store of Hocuspocus, one of the drain

VARIABLES
  tree, disk,    \* the file: committed on each branch; in the working tree
  checkout,      \* the branch whose files a running checkout has written
  known,         \* the watcher's lastKnownHash has the path
  fileEvent,     \* the file changed and the watcher was not yet called
  gate,          \* batchInProgress
  holders,       \* cycles of the sync engine between raising and lowering it
  active, base,  \* activeBranch; reconciledBaseByBranch
  loaded, doc,   \* the document, if hocuspocus.documents has it
  tombstone,     \* its lifecycle status is "deleted-upstream"
  storeTimer,    \* its debounced onStoreDocument is pending
  inflight,      \* markdown of the stores between snapshot and rename
  deferred,      \* deferredStores
  draining,      \* deferredStoreDrainInFlight
  nextFlush,     \* pendingDeferredStoreFlushMode
  buffer,        \* eventBuffer
  task,          \* how far each of the HEAD watcher's callbacks has got
  parked,        \* refs/wip/<branch>/<service writer>
  typed,         \* history: paragraphs typed into the document
  atRisk,        \* history: those the code makes no provision for
  leak,          \* history: a store ran with the gate down across a checkout
  mixed,         \* history: the file was read as the active branch's and was another's
  edits, gitOps, holds, failures

git      == <<tree, disk, checkout, known, fileEvent>>
document == <<loaded, doc, tombstone, storeTimer>>
stores   == <<inflight, deferred, draining, nextFlush>>
ghosts   == <<typed, atRisk, leak, mixed>>
counters == <<edits, gitOps, holds, failures>>
gateVars == <<gate, holders, active, base, buffer, task, parked>>
vars == <<headVars, git, document, stores, gateVars, ghosts, counters>>

NoTask    == [at |-> "none", park |-> None]
InTask(c, at) == task[c].at = at
Base      == base[active]
BaseText  == IF Base = Undefined THEN {} ELSE Base
DiskText  == IF disk = NoFile THEN {} ELSE disk

(* The branch the files in the working tree are of.                        *)
Worktree == IF checkout = None THEN head ELSE checkout
Misplaced == ~gate /\ active # Worktree

-----------------------------------------------------------------------------
(* reconcile() over sets of paragraphs: a side that changed a paragraph    *)
(* decides.                                                                *)
MergeTexts(bs, ours, theirs) ==
  {p \in bs \cup ours \cup theirs :
     IF (p \in ours) = (p \in bs) THEN p \in theirs ELSE p \in ours}

(* handleDiskEvent, on the document's part of the state.                   *)
Doc == [loaded |-> loaded, doc |-> doc, base |-> Base, tombstone |-> tombstone,
        storeTimer |-> storeTimer, deferred |-> deferred, atRisk |-> atRisk,
        mixed |-> mixed]

HandleUpdate(st, event) ==
  LET bs  == IF st.base = Undefined THEN {} ELSE st.base
      new == MergeTexts(bs, st.doc, event.text)
  IN IF event.text = bs THEN st
     ELSE [st EXCEPT !.doc = new, !.base = new,
                     !.atRisk = @ \cup (typed \cap ((st.doc \cup new) \ event.text)),
                     !.mixed = @ \/ event.branch # active]

(* The document is unloaded; a store of it, deferred or not, is refused.   *)
HandleDelete(st) ==
  [loaded |-> FALSE, doc |-> {}, base |-> Undefined, tombstone |-> FALSE,
   storeTimer |-> FALSE, deferred |-> None,
   atRisk |-> st.atRisk \cup (typed \cap st.doc), mixed |-> st.mixed]

HandleEvent(st, event) ==
  IF ~st.loaded \/ event.kind = "create" THEN st
  ELSE IF event.kind = "delete" THEN HandleDelete(st)
  ELSE HandleUpdate(st, event)

(* drainEventBuffer: the buffered events in their order.                   *)
After[i \in 0 .. Len(buffer)] ==
  IF i = 0 THEN Doc ELSE HandleEvent(After[i - 1], buffer[i])

Becomes(st) ==
  /\ loaded' = st.loaded /\ doc' = st.doc /\ tombstone' = st.tombstone
  /\ base' = [base EXCEPT ![active] = st.base]
  /\ storeTimer' = st.storeTimer /\ deferred' = st.deferred
  /\ atRisk' = st.atRisk /\ mixed' = st.mixed

-----------------------------------------------------------------------------
Init ==
  /\ HeadInit
  /\ \E absent \in SUBSET MayLack :
       tree = [b \in Branch |-> IF b \in absent THEN NoFile ELSE {<<b, 0>>}]
  /\ disk = tree[head] /\ checkout = None
  /\ known = (disk # NoFile) /\ fileEvent = FALSE
  /\ gate = FALSE /\ holders = {}
  /\ active = head /\ base = [b \in Branch |-> Undefined]
  /\ loaded = FALSE /\ doc = {} /\ tombstone = FALSE /\ storeTimer = FALSE
  /\ inflight = [ch \in Channel |-> Idle]
  /\ deferred = None /\ draining = FALSE /\ nextFlush = "none"
  /\ buffer = <<>> /\ task = [c \in Call |-> NoTask]
  /\ \/ parked = [b \in Branch |-> None] /\ typed = {}
     \/ \E b \in Branch \ (Detached \cup {head}) : \* parked before the server was last started
          LET draft == <<b, MaxEdits + 1>> IN
            /\ tree[b] # NoFile /\ typed = {draft}
            /\ parked = [other \in Branch |-> IF other # b THEN None ELSE
                 [branch |-> b, markdown |-> tree[b] \cup {draft}, diskSnapshot |-> tree[b]]]
  /\ atRisk = {} /\ leak = FALSE /\ mixed = FALSE
  /\ edits = 0 /\ gitOps = 0 /\ holds = 0 /\ failures = 0

-----------------------------------------------------------------------------
(* Clients.                                                                *)

(* What the file of the branch has, and the one read in its place has not. *)
Misread(b) ==
  IF b = Worktree \/ tree[b] = NoFile THEN {} ELSE typed \cap (tree[b] \ DiskText)

(* onLoadDocument *)
Load ==
  /\ ~loaded
  /\ loaded' = TRUE /\ doc' = DiskText /\ tombstone' = FALSE /\ storeTimer' = FALSE
  /\ base' = IF disk = NoFile THEN base ELSE [base EXCEPT ![active] = disk]
  /\ mixed' = (mixed \/ (disk # NoFile /\ active # Worktree))
  /\ atRisk' = atRisk \cup Misread(active)
  /\ UNCHANGED <<headVars, git, stores, gate, holders, active, buffer, task, parked,
                 typed, leak, counters>>

(* shouldUnloadDocument: only an empty document without a base is closed   *)
(* when its last client leaves.                                            *)
Unload ==
  /\ loaded /\ ~storeTimer /\ inflight["hook"] = Idle
  /\ Base = Undefined /\ doc = {}
  /\ loaded' = FALSE /\ tombstone' = FALSE
  /\ UNCHANGED <<headVars, git, doc, storeTimer, stores, gateVars, ghosts, counters>>

(* Between the snapshot that is parked and the end of the batch, what is   *)
(* typed belongs to no branch yet: nothing keeps it through a switch.      *)
Unparked ==
  \/ gate \/ tombstone \/ active \in Detached
  \/ inBatch /\ ~\E c \in Call : InTask(c, "commit")

UserEdit ==
  /\ loaded /\ edits < MaxEdits
  /\ LET p == <<active, edits + 1>> IN
       /\ doc' = doc \cup {p} /\ typed' = typed \cup {p}
       /\ atRisk' = IF Unparked THEN atRisk \cup {p} ELSE atRisk
  /\ edits' = edits + 1
  /\ storeTimer' = TRUE
  /\ UNCHANGED <<headVars, git, loaded, tombstone, stores, gateVars, leak, mixed, gitOps, holds,
                 failures>>

-----------------------------------------------------------------------------
(* Stores: onStoreDocument and flushDeferredStores.                        *)

NothingToStore(text, bs) ==
  \/ bs # Undefined /\ text = bs
  \/ bs = Undefined /\ text = {}

StoreDue == loaded /\ storeTimer /\ inflight["hook"] = Idle

(* Mutant of DeferStore: the branch is not recorded.                       *)
DeferStoreUnscoped ==
  /\ StoreDue /\ gate
  /\ storeTimer' = FALSE
  /\ deferred' = "store"
  /\ UNCHANGED <<headVars, git, loaded, doc, tombstone, inflight, draining, nextFlush,
                 gateVars, ghosts, counters>>

(* Under the flag the store is put off: a later one of the document takes  *)
(* its place.                                                              *)
DeferStore ==
  /\ StoreDue /\ gate
  /\ storeTimer' = FALSE
  /\ deferred' = active
  /\ UNCHANGED <<headVars, git, loaded, doc, tombstone, inflight, draining, nextFlush,
                 gateVars, ghosts, counters>>

(* Nothing to write, or the document is marked deleted upstream.           *)
SkipStore ==
  /\ StoreDue /\ ~gate
  /\ tombstone \/ NothingToStore(doc, Base)
  /\ storeTimer' = FALSE
  /\ UNCHANGED <<headVars, git, loaded, doc, tombstone, stores, gateVars, ghosts, counters>>

(* Mutant of BeginStore: the flag is not looked at.                        *)
BeginStoreUngated ==
  /\ StoreDue /\ ~tombstone /\ ~NothingToStore(doc, Base)
  /\ storeTimer' = FALSE
  /\ inflight' = [inflight EXCEPT !["hook"] = doc]
  /\ leak' = (leak \/ Misplaced)
  /\ UNCHANGED <<headVars, git, loaded, doc, tombstone, deferred, draining, nextFlush,
                 gateVars, typed, atRisk, mixed, counters>>

(* storeDocumentNow up to its first await: the text is taken.              *)
BeginStore ==
  /\ StoreDue /\ ~gate
  /\ ~tombstone /\ ~NothingToStore(doc, Base)
  /\ storeTimer' = FALSE
  /\ inflight' = [inflight EXCEPT !["hook"] = doc]
  /\ leak' = (leak \/ Misplaced)
  /\ UNCHANGED <<headVars, git, loaded, doc, tombstone, deferred, draining, nextFlush,
                 gateVars, typed, atRisk, mixed, counters>>

(* One round of the drain, up to its first await: the entry is taken, and  *)
(* stored if it is wanted, is of the active branch, and is not on disk.    *)
DrainRound(mode, bs) ==
  /\ deferred' = None /\ nextFlush' = "none"
  /\ IF mode = "within" /\ deferred = active /\ ~tombstone /\ ~NothingToStore(doc, bs)
       THEN /\ draining' = TRUE
            /\ inflight' = [inflight EXCEPT !["drain"] = doc]
            /\ leak' = (leak \/ active # Worktree)
       ELSE /\ draining' = FALSE
            /\ inflight' = [inflight EXCEPT !["drain"] = Idle]
            /\ UNCHANGED leak

(* flushDeferredStores: a drain under way takes the stronger mode over.    *)
FlushDeferredStores(mode) ==
  IF draining
    THEN /\ nextFlush' = IF nextFlush = "discard" THEN "discard" ELSE mode
         /\ UNCHANGED <<inflight, deferred, draining, leak>>
    ELSE DrainRound(mode, Base)

(* What has landed is no longer at risk, unless the document was closed or *)
(* changed since, or the snapshot to be parked has been taken before.      *)
Landed(text) ==
  /\ disk' = text /\ known' = TRUE
  /\ base' = [base EXCEPT ![active] = text]
  /\ LET safe == IF Unparked \/ active # Worktree THEN {}
                 ELSE {p \in text \cap doc : p[1] = active}
     IN  atRisk' = (atRisk \ safe) \cup (typed \cap (DiskText \ text))
  /\ UNCHANGED <<headVars, tree, checkout, fileEvent, document, gate, holders, active,
                 buffer, task, parked, typed, mixed, edits, gitOps, holds, failures>>

(* The rename and what follows it in the same turn.                        *)
FinishStore ==
  /\ inflight["hook"] # Idle
  /\ Landed(inflight["hook"])
  /\ inflight' = [inflight EXCEPT !["hook"] = Idle]
  /\ UNCHANGED <<deferred, draining, nextFlush, leak>>

NextRound(bs) ==
  IF deferred = None /\ nextFlush = "none"
    THEN /\ draining' = FALSE /\ inflight' = [inflight EXCEPT !["drain"] = Idle]
         /\ UNCHANGED <<deferred, nextFlush, leak>>
    ELSE DrainRound(IF nextFlush = "none" THEN "within" ELSE nextFlush, bs)

(* The drain's store has landed; what was deferred meanwhile is next.      *)
FinishDrain ==
  /\ inflight["drain"] # Idle
  /\ Landed(inflight["drain"])
  /\ NextRound(inflight["drain"])

Failing == failures < MaxFailures /\ failures' = failures + 1

(* The write threw.  Nothing retries it; the drain goes on.                *)
FailStore(ch) ==
  /\ Failing /\ inflight[ch] # Idle
  /\ atRisk' = atRisk \cup (typed \cap inflight[ch])
  /\ IF ch = "drain" THEN NextRound(Base)
     ELSE /\ inflight' = [inflight EXCEPT !["hook"] = Idle]
          /\ UNCHANGED <<deferred, draining, nextFlush, leak>>
  /\ UNCHANGED <<headVars, git, document, gateVars, typed, mixed, edits, gitOps, holds>>

-----------------------------------------------------------------------------
(* The file watcher, and the world outside.                                *)

(* onDiskEvent: buffered under the flag.                                   *)
DiskEvent ==
  /\ fileEvent /\ fileEvent' = FALSE
  /\ known' = (disk # NoFile)
  /\ LET event == [kind |-> IF disk = NoFile THEN "delete"
                            ELSE IF known THEN "update" ELSE "create",
                   text |-> DiskText, branch |-> Worktree]
     IN IF disk = NoFile /\ ~known
          THEN UNCHANGED <<document, deferred, base, atRisk, mixed, buffer>>
        ELSE IF gate
          THEN buffer' = Append(buffer, event)
               /\ UNCHANGED <<document, deferred, base, atRisk, mixed>>
          ELSE Becomes(HandleEvent(Doc, event)) /\ UNCHANGED buffer
  /\ UNCHANGED <<headVars, tree, disk, checkout, inflight, draining, nextFlush,
                 gate, holders, active, task, parked, typed, leak, counters>>

WorldMoves == UNCHANGED <<document, stores, gateVars, typed, atRisk, mixed, failures>>
GitOp == gitOps < MaxGit /\ gitOps' = gitOps + 1 /\ checkout = None /\ UNCHANGED holds

(* Another program adds a paragraph to the file.                           *)
ForeignWrite ==
  /\ disk # NoFile /\ edits < MaxEdits /\ edits' = edits + 1
  /\ disk' = disk \cup {<<Worktree, edits + 1>>} /\ fileEvent' = TRUE
  /\ UNCHANGED <<headVars, tree, checkout, known, leak, gitOps, holds>>
  /\ WorldMoves

(* A command that takes index.lock: git status, or git commit.             *)
GitCommit ==
  /\ GitOp
  /\ tree' \in {tree, [tree EXCEPT ![head] = disk]}
  /\ Signal /\ HeadUnchanged
  /\ UNCHANGED <<disk, checkout, known, fileEvent, leak, edits>>
  /\ WorldMoves

(* git checkout refuses to overwrite a file that was not committed.  It    *)
(* writes the files, then HEAD.                                            *)
CheckoutFiles(b) ==
  /\ GitOp /\ b # head /\ disk = tree[head]
  /\ checkout' = b /\ disk' = tree[b] /\ fileEvent' = TRUE
  /\ leak' = (leak \/ \E ch \in Channel : inflight[ch] # Idle)
  /\ Signal /\ HeadUnchanged
  /\ UNCHANGED <<tree, known, edits>>
  /\ WorldMoves

CheckoutHead ==
  /\ checkout # None /\ checkout' = None
  /\ MoveHead(checkout)
  /\ UNCHANGED <<tree, disk, known, fileEvent, leak, counters>>
  /\ WorldMoves

-----------------------------------------------------------------------------
(* onBatchBegin and onBatchEnd of server-factory.ts.                       *)

Step(c, t) == task' = [task EXCEPT ![c] = t]
Now(at)    == [at |-> at, park |-> None]

GitEventJoins ==
  /\ JoinBatch
  /\ UNCHANGED <<git, document, stores, gateVars, ghosts, counters>>

(* Pending stores are run now (StoreDue); the commit is flushed, awaited.  *)
BeginBatch(c) ==
  /\ OpenBatch(c)
  /\ Step(c, Now("commit"))
  /\ UNCHANGED <<git, document, stores, gate, holders, active, base, buffer, parked,
                 ghosts, counters>>

(* Mutant of RaiseGate: the document is parked as the branch to come.      *)
RaiseGateForNewBranch(c) ==
  /\ InTask(c, "commit")
  /\ gate' = TRUE
  /\ Step(c, [at |-> "park",
              park |-> IF loaded
                         THEN [branch |-> head, markdown |-> doc,
                               diskSnapshot |-> IF Base = Undefined THEN doc ELSE Base]
                         ELSE None])
  /\ atRisk' = IF loaded /\ Base = Undefined THEN atRisk \cup (typed \cap doc) ELSE atRisk
  /\ UNCHANGED <<headVars, git, document, stores, holders, active, base, buffer, parked,
                 typed, leak, mixed, counters>>

(* The flag goes up and the document's text is taken, in one turn.         *)
RaiseGate(c) ==
  /\ InTask(c, "commit")
  /\ gate' = TRUE
  /\ Step(c, [at |-> "park",
              park |-> IF loaded
                         THEN [branch |-> active, markdown |-> doc,
                               diskSnapshot |-> IF Base = Undefined THEN doc ELSE Base]
                         ELSE None])
  /\ atRisk' = IF loaded /\ Base = Undefined THEN atRisk \cup (typed \cap doc) ELSE atRisk
  /\ UNCHANGED <<headVars, git, document, stores, holders, active, base, buffer, parked,
                 typed, leak, mixed, counters>>

(* parkBranch moves the branch's ref, or fails; the begin returns.         *)
ParkDone(c) ==
  /\ InTask(c, "park")
  /\ BeginReturns(c) /\ Step(c, NoTask)
  /\ LET park == task[c].park IN
       IF park = None THEN UNCHANGED <<parked, atRisk, failures>>
       ELSE \/ parked' = [parked EXCEPT ![park.branch] = park]
               /\ UNCHANGED <<atRisk, failures>>
            \/ /\ Failing
               /\ atRisk' = atRisk \cup (typed \cap park.markdown)
               /\ UNCHANGED parked
  /\ UNCHANGED <<git, document, stores, gate, holders, active, base, buffer, typed, leak,
                 mixed, edits, gitOps, holds>>

NoBatchToEnd(e) ==
  /\ EndNothing(e) \/ AwaitBegin(e)
  /\ UNCHANGED <<git, document, stores, gateVars, ghosts, counters>>

(* Mutant of EndWithinBranch: the flag stays up.                           *)
EndWithinBranchGated(e) ==
  /\ EndBatch(e) /\ BatchKind(lastKnownBranch, head) = "within-branch"
  /\ Becomes(After[Len(buffer)]) /\ buffer' = <<>>
  /\ Step(e, Now("drain"))
  /\ UNCHANGED <<git, inflight, draining, nextFlush, gate, holders, active, parked, typed,
                 leak, counters>>

(* Mutant of EndWithinBranch: the buffered events are left there.          *)
EndWithinBranchUndrained(e) ==
  /\ EndBatch(e) /\ BatchKind(lastKnownBranch, head) = "within-branch"
  /\ gate' = FALSE
  /\ Step(e, Now("drain"))
  /\ UNCHANGED <<git, document, stores, holders, active, base, buffer, parked, ghosts,
                 counters>>

(* The branch is the same: the flag goes down, the events are handled.     *)
EndWithinBranch(e) ==
  /\ EndBatch(e) /\ BatchKind(lastKnownBranch, head) = "within-branch"
  /\ gate' = FALSE
  /\ Becomes(After[Len(buffer)]) /\ buffer' = <<>>
  /\ Step(e, Now("drain"))
  /\ UNCHANGED <<git, inflight, draining, nextFlush, holders, active, parked, typed, leak,
                 counters>>

FlushWithinBranch(e) ==
  /\ InTask(e, "drain")
  /\ FlushDeferredStores("within")
  /\ Step(e, Now("flush"))
  /\ UNCHANGED <<headVars, git, document, gate, holders, active, base, buffer, parked, typed,
                 atRisk, mixed, counters>>

(* Mutant of EndOtherBranch: the base scope stays on the old branch.       *)
EndOtherBranchOldScope(e) ==
  /\ EndBatch(e) /\ BatchKind(lastKnownBranch, head) # "within-branch"
  /\ buffer' = <<>>
  /\ IF ~loaded THEN UNCHANGED <<doc, tombstone, base>>
     ELSE IF disk = NoFile
       THEN tombstone' = TRUE /\ UNCHANGED <<doc, base>>
       ELSE doc' = disk /\ base' = [base EXCEPT ![active] = disk] /\ UNCHANGED tombstone
  /\ Step(e, Now("rebuild"))
  /\ UNCHANGED <<git, loaded, storeTimer, stores, gate, holders, active, parked, ghosts,
                 counters>>

(* The branch is another: buffered events are dropped, the base scope      *)
(* follows, and an open document is reset to its file, or marked deleted   *)
(* (its text checkpointed) if it has none there.                           *)
EndOtherBranch(e) ==
  /\ EndBatch(e) /\ BatchKind(lastKnownBranch, head) # "within-branch"
  /\ buffer' = <<>> /\ active' = head
  /\ IF ~loaded THEN UNCHANGED <<doc, tombstone, base>>
     ELSE IF disk = NoFile
       THEN tombstone' = TRUE /\ UNCHANGED <<doc, base>>
       ELSE doc' = disk /\ base' = [base EXCEPT ![head] = disk] /\ UNCHANGED tombstone
  /\ mixed' = (mixed \/ head # Worktree)
  /\ atRisk' = IF loaded THEN atRisk \cup Misread(head) ELSE atRisk
  /\ Step(e, Now("rebuild"))
  /\ UNCHANGED <<git, loaded, storeTimer, stores, gate, holders, parked, typed, leak, counters>>

(* readParkedState trims both texts, so they differ from a file that ends  *)
(* in a newline even when nothing else was changed.                        *)
ToRestore(park) ==
  /\ loaded /\ park # None /\ BaseText # {}
  /\ park.markdown # park.diskSnapshot
  /\ FinalNewline \/ park.diskSnapshot # Base

(* After the indices are rebuilt: what was parked on the branch is merged  *)
(* with the base, not with the document, and becomes the base too.         *)
RestoreParked(e) ==
  /\ InTask(e, "rebuild")
  /\ LET park == IF BatchKind(call[e].old, call[e].new) = "cross-branch"
                   THEN parked[call[e].new] ELSE None
         text == MergeTexts(park.diskSnapshot, park.markdown, Base)
     IN IF ToRestore(park)
          THEN /\ doc' = text /\ base' = [base EXCEPT ![active] = text]
               /\ atRisk' = atRisk \cup (typed \cap (text \ DiskText))
          ELSE /\ UNCHANGED <<doc, base>>
               /\ atRisk' = IF (loaded /\ BaseText # {}) \/ parked[active] = None THEN atRisk
                            ELSE atRisk \cup (typed \cap parked[active].markdown)
  /\ Step(e, Now("reopen"))
  /\ UNCHANGED <<headVars, git, loaded, tombstone, storeTimer, stores, gate, holders, active,
                 buffer, parked, typed, leak, mixed, counters>>

(* What was parked on a detached commit that was left is removed, the flag *)
(* goes down, deferred stores, of whatever branch, are dropped.            *)
Reopen(e) ==
  /\ InTask(e, "reopen")
  /\ gate' = FALSE
  /\ parked' = IF call[e].old \in Detached THEN [parked EXCEPT ![call[e].old] = None]
               ELSE parked
  /\ FlushDeferredStores("discard")
  /\ Step(e, Now("flush"))
  /\ UNCHANGED <<headVars, git, document, holders, active, base, buffer, typed, atRisk,
                 mixed, counters>>

(* The drain is over and the upstream import committed: the end returns.   *)
EndDone(e) ==
  /\ InTask(e, "flush") /\ ~draining
  /\ EndReturns(e) /\ Step(e, NoTask)
  /\ UNCHANGED <<git, document, stores, gate, holders, active, base, buffer, parked, ghosts,
                 counters>>

-----------------------------------------------------------------------------
(* The sync engine, as far as the flag goes: a cycle raises it, runs git,  *)
(* and lowers it whatever the HEAD watcher or another cycle is doing.      *)
SyncHolds(h) ==
  /\ h \notin holders /\ holds < MaxHolds /\ holds' = holds + 1
  /\ holders' = holders \cup {h} /\ gate' = TRUE
  /\ UNCHANGED <<headVars, git, document, stores, active, base, buffer, task, parked, ghosts,
                 edits, gitOps, failures>>

(* Dirty files are committed, then the upstream branch is merged.          *)
SyncMerges(h) ==
  /\ h \in holders /\ checkout = None /\ disk # NoFile
  /\ edits < MaxEdits /\ edits' = edits + 1
  /\ disk' = disk \cup {<<head, edits + 1>>}
  /\ tree' = [tree EXCEPT ![head] = disk'] /\ fileEvent' = TRUE
  /\ Signal /\ HeadUnchanged
  /\ UNCHANGED <<checkout, known, leak, gitOps, holds>>
  /\ WorldMoves

(* Mutant of SyncReleases: the deferred stores are not flushed.            *)
SyncReleasesOnly(h) ==
  /\ h \in holders /\ holders' = holders \ {h} /\ gate' = FALSE
  /\ UNCHANGED <<headVars, git, document, stores, active, base, buffer, task, parked, ghosts,
                 counters>>

SyncReleases(h) ==
  /\ h \in holders /\ holders' = holders \ {h} /\ gate' = FALSE
  /\ FlushDeferredStores("within")
  /\ UNCHANGED <<headVars, git, document, active, base, buffer, task, parked, typed, atRisk,
                 mixed, counters>>

-----------------------------------------------------------------------------
Callback(c) ==
  \/ BeginBatch(c) \/ RaiseGate(c) \/ ParkDone(c) \/ NoBatchToEnd(c)
  \/ EndWithinBranch(c) \/ FlushWithinBranch(c)
  \/ EndOtherBranch(c) \/ RestoreParked(c) \/ Reopen(c) \/ EndDone(c)

Store == DeferStore \/ SkipStore \/ BeginStore \/ FinishStore \/ FinishDrain

Client == Load \/ Unload \/ UserEdit

World ==
  \/ ForeignWrite \/ GitCommit \/ \E b \in Branch : CheckoutFiles(b)
  \/ \E h \in Holder : SyncHolds(h) \/ SyncMerges(h)

Next ==
  \/ Client \/ World
  \/ Store \/ (\E ch \in Channel : FailStore(ch))
  \/ DiskEvent \/ GitEventJoins \/ CheckoutHead
  \/ \E c \in Call : Callback(c)
  \/ \E h \in Holder : SyncReleases(h)

(* Timers fire, callbacks return, the library delivers, git and the sync   *)
(* engine finish what they began; nobody has to type or to run git.        *)
Fairness ==
  /\ WF_vars(Store) /\ WF_vars(DiskEvent) /\ WF_vars(GitEventJoins)
  /\ WF_vars(CheckoutHead)
  /\ WF_vars(\E c \in Call : Callback(c))
  /\ \A h \in Holder : WF_vars(SyncReleases(h))

Spec == Init /\ [][Next]_vars /\ Fairness

-----------------------------------------------------------------------------
(* Type correctness.                                                       *)
TypeOK ==
  /\ HeadTypeOK
  /\ tree \in [Branch -> Text \cup {NoFile}] /\ disk \in Text \cup {NoFile}
  /\ checkout \in Branch \cup {None}
  /\ known \in BOOLEAN /\ fileEvent \in BOOLEAN /\ gate \in BOOLEAN
  /\ holders \in SUBSET Holder
  /\ active \in Branch /\ base \in [Branch -> Text \cup {Undefined}]
  /\ loaded \in BOOLEAN /\ doc \in Text /\ tombstone \in BOOLEAN /\ storeTimer \in BOOLEAN
  /\ inflight \in [Channel -> Text \cup {Idle}]
  /\ deferred \in Branch \cup {None}
  /\ draining \in BOOLEAN /\ nextFlush \in {"none", "within", "discard"}
  /\ buffer \in Seq([kind : {"create", "update", "delete"}, text : Text,
                    branch : Branch])
  /\ task \in [Call -> [at : {"none", "commit", "park", "drain", "rebuild", "reopen", "flush"},
                        park : ParkedDoc \cup {None}]]
  /\ parked \in [Branch -> ParkedDoc \cup {None}]
  /\ typed \in Text /\ atRisk \in Text /\ leak \in BOOLEAN /\ mixed \in BOOLEAN
  /\ edits \in 0 .. MaxEdits /\ gitOps \in 0 .. MaxGit
  /\ holds \in 0 .. MaxHolds /\ failures \in 0 .. MaxFailures

(* What was written on one branch is never in the file of another, unless  *)
(* a store was started, or was in flight, while the files were switched    *)
(* and the flag was down, or the file was read while it was another        *)
(* branch's: an event handled, a document opened, a branch switched to     *)
(* between git's writing the files and the HEAD watcher's answer.          *)
BranchIsolation ==
  leak \/ mixed \/ overlapped \/ \A p \in DiskText : p[1] = Worktree

(* Whatever branches were switched to and back, an open document has all   *)
(* that was typed on its branch, once the end of the batch has restored    *)
(* what was parked, but for what the code makes no provision for (atRisk). *)
DraftReturns ==
  loaded /\ FinalNewline /\ ~leak /\ ~overlapped /\ ~(\E e \in Call : InTask(e, "rebuild"))
    => \A p \in typed \ atRisk : p[1] = active => p \in doc

(* The flag comes down again, unless an event was handled while an end of  *)
(* the HEAD watcher was awaited.                                           *)
GateReopens == gate ~> (~gate \/ overlapped)

(* ... and then every deferred store has been run or dropped.              *)
StoresDrain == (deferred # None) ~> (deferred = None \/ overlapped)

(* ... every event buffered during a batch has been handled or dropped.    *)
EventsDrain == (inBatch /\ ~Ending /\ buffer # <<>>) ~> (buffer = <<>> \/ overlapped)

(* ... and the server is on the branch HEAD names.                         *)
HeadFollowed == (head # active) ~> (head = active \/ overlapped)

(* The server follows HEAD (service-topology.mdx).                         *)
ServerFollowsHead == (head # active) ~> (head = active)
=============================================================================
