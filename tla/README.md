# Formal models of Open Knowledge

Open Knowledge serves a directory of Markdown files as live documents: browsers
and agents edit a Y.Doc over WebSockets, the server stores it to the file,
watches the file for changes made by other programs, commits every version to a
shadow git repository, and keeps the project in step with a git remote. This
directory holds TLA+ models of that core, the TLC configurations that check
them, and TLAPS proofs about them. Source paths below are in
`packages/server/src/` unless they say otherwise.

## 1. The system

| Component | State | Operations | Hard behaviour | Correct when |
| --- | --- | --- | --- | --- |
| L1 persistence (`persistence.ts`) | reconciled base per branch and document, deferred stores, duplication breaker | `onLoadDocument`, `onStoreDocument`/`storeDocumentNow`, `flushDeferredStores` | a store awaits the file system while the document, the file and the base change | no edit is stranded in memory; the base is what the file last said |
| File watcher (`file-watcher.ts`) | `writeTracker`, `lastKnownHash`, file and folder indices | `handleRawEvents`, `classifyEvents`, `isSelfWrite`, eviction | several batches in flight across awaits, coalesced events | our own writes are not taken for foreign ones, foreign ones are not lost |
| Dispatch (`server-factory.ts` `handleDiskEvent`, `external-change.ts`) | event buffer, lifecycle map of each document | update, create, delete, rename, conflict | runs against stores in flight | unsaved text survives; a conflict status is cleared when resolved |
| Reconciliation (`reconciliation.ts`) | none | `reconcile` | three-way merge of blocks | ours is kept where it differs from the base |
| L2 persistence (`persistence.ts`, `shadow-repo.ts`) | `gitCommitTimer`, `commitInFlight`, `pendingAfterCommit` | schedule, commit, flush, save version | debounce against a running commit, flush, batch, failure, shutdown | every version on disk is committed once its turn comes |
| Contributor tracker (`contributor-tracker.ts`) | the live contributor map | record, swap, restore | swapped out while a commit may still fail | contributions are committed in order, once |
| HEAD watcher and branch switch (`head-watcher.ts`, `server-factory.ts`) | `inBatch`, quiet and timeout timers, parked documents, base scope, buffered events | begin and end of a batch, restore | awaited callbacks that overlap, one flag shared with the sync engine | nothing of one branch lands in another; drafts come back; the flag comes down |
| Sync engine (`sync-engine.ts`, `conflict-storage.ts`) | state, timers, conflict store | pull, push, resolve, abort, switch off and on, look for the remote, stop | two loops that interleave at every git command, timers against user commands, a probe against what happens meanwhile | never pushes a conflict; the pull loop never dies; conflicts can be resolved |
| Observer bridge (`server-observers.ts`) | baseline, dirty flags | Y.Text and XmlFragment kept in step | nested drains of transactions | what is typed in either editor reaches the text, and both say the same |
| Locks (`process-lock.ts` and its users) | a lock file per role | acquire, update port, release, read | several processes, stale locks, deaths at any point | one holder at a time |
| Managed rename (`managed-rename-journal.ts`, `api-extension.ts`) | journal on disk | write, rewrite, move, clear, recover | failure or crash between any two steps, edits meanwhile | all files renamed or none |
| Agent sessions (`agent-sessions.ts`) | sessions, pending sessions | get, close one, of an agent, of a document, all | opening and closing are awaited | limit respected, nothing left open |
| Configuration documents (`config-persistence.ts`, `config-file-watcher.ts`, `packages/core/src/config/`, `packages/core/src/util/file-lock.ts`) | last known good text, the watcher's last text, a lock file | load, patch, store with validation and reconciliation, import | several servers, programs and people write one file; the compare and the write are apart | nobody's settings are overwritten; the document shows the file |
| Client's provider pool (`packages/app/src/editor/provider-pool.ts`) | open documents, caches, buffered edits, recovery | open, close, sync, recycle, recover from a restart | the server restarts at any moment; clears are awaited and may fail | no text twice, none lost, no document stuck |
| Removed documents, idle shutdown, agent presence, CC1 broadcast, derived indices, HTTP API, MCP, CLI, desktop, user interface | | | mostly derived data or input and output | not modelled, see section 7 |

How they interact. A client's update makes Hocuspocus (external) debounce
`onStoreDocument`; a store that lands registers its hash with the watcher, moves
the base, and arms the commit timer. The watcher's callback classifies raw events
and hands each to `handleDiskEvent`, which changes the document under an origin
that schedules no store. A git batch (HEAD watcher or a cycle of the sync engine)
sets one shared flag under which stores are deferred, events buffered and commits
suppressed. The HTTP handlers flush commits after an agent's write, flush
contributors after a rename and take the contributors over when a version is
saved. `destroy()` stops the watchers, drains L1, then L2, and releases the
locks. The server names itself by an instance id, which a client's pool holds
against it after a restart.

What is hard to test in this code is listed, each at its line, under `hazards` in
`PROJECT.json`, with the properties that watch it.

## 2. Modules

| Module | What it is |
| --- | --- |
| `DiskBridge` | one open document and its file: L1 stores, watcher, dispatch, reconciliation, shutdown, crash |
| `CommitPipeline` | L2: debounce, commit, contributors, flushes, batches, saved versions, shutdown, crash |
| `AttributionLog` | abstract specification, implemented by `CommitPipeline`: what the history promises about authorship |
| `HeadWatcher` | the HEAD watcher's own machine |
| `BatchGate` | extends it: what git batches, branch switches and sync cycles do to one document and its stores |
| `ProcessLock`, `ManagedRename`, `SyncEngine`, `ObserverBridge`, `AgentSessions`, `ConfigStore` | one service each |
| `ProviderPool` | one browser tab, its documents, and a server that restarts |
| `MCDiskBridge` (2 configurations), `MCCommitPipeline` (3), `MCBatchGate` (3), `MCSyncEngine`, `MCObserverBridge`, `MCProviderPool` | instances for TLC |
| `MCServices` | the six services in one run: they share no state, so a behaviour is a behaviour of one of them (`part` says which); `ServicesTypeOK` joins the type invariants of five |
| `DiskBridgeProofs`, `CommitPipelineProofs`, `BatchGateProofs`, `AgentSessionsProofs`, `SyncEngineProofs`, `ConfigStoreProofs`, `ProviderPoolProofs` | theorems about one module each, and their proofs |
| `ServicesProofs` | theorems about the lock, the rename and the observers, and about the six services together |

Definitions commented "mutant of ..." are variants of the one that follows, each
with a plausible mistake; the mutants in `PROJECT.json` show that the properties
notice it. Nothing else uses them.

### DiskBridge

A text is a function from block positions to the set of paragraphs found there; a
paragraph is the number of the write that made it, so two texts are equal exactly
when their bytes would be, and who wrote what stays visible. Conflict markers are
whatever stands in `MarkerBlock`.

| Model | Code |
| --- | --- |
| `ydoc`, `disk`, `base` | `Y.Text('source')`, the file, `reconciledBaseByBranch` |
| `storeTimer`, `inflight` | Hocuspocus' debounce; the markdown a store captured before its awaits |
| `tracker`, `known`, `raw`, `events` | `writeTracker`, `lastKnownHash`, the watcher library's pending event, one classified event per batch in flight |
| `lifecycle`, `breaker` | the document's lifecycle map, `tripwireResetFailedDocs` |
| `unsaved`, `foreign`, `torn`, `stirred` | history variables, read by properties only |

A store is two steps, `BeginStore` (everything up to the first await: skips,
tripwire, snapshot) and `FinishStore` (rename and its continuation: register,
move the base). The rename and what follows are one step because registration
follows the rename's promise in one turn; what can come between is the watcher's
event, which is only raised there and read later. A watcher batch is three:
`Deliver` (split by `lastKnownHash`), `Read`, and one of the handlers. `Slot` is
the number of batches in flight together, because nothing serialises the
callbacks. `HandleUpdate` is one step: `reconcile` and the apply are synchronous.

Left out, and why: Hocuspocus runs one store per document at a time (external);
the quiescence gate defers a store only from inside an open user transaction, and
no timer callback runs there; symlink checks are folded into `FailStore`; a
write-tracker entry is evicted only when no event is outstanding
(`WRITE_TRACKER_TTL_MS` is ten seconds, the watcher answers in milliseconds); a
batch holds one event of the document, as parcel coalesces them (the chokidar
fallback may hold two); an unload of an empty document with no base; renames. A
text with markers never reaches `reconcile`, because classification makes it a
`conflict` event; its refusal of oversized texts is `RefuseUpdate`. The
longest-common-subsequence alignment is abstracted to fixed block positions, so a
paragraph that moves is a removal and an insertion.

### CommitPipeline and AttributionLog

The content directory is one number, `written`: the stores landed so far. Git is
what can be reached: `wip` is the newest version each writer's ref holds, `saved`
the newest one a saved version holds, and `log` the summaries of each writer that
are in the history, on the ref or behind a checkpoint. A rename's pair of paths
travels exactly like a summary and is one entry of the same sequence. The
snapshot's writers are committed in any order. Back-off after failures changes
only a delay, and time is not modelled.

| Model | Code |
| --- | --- |
| `gitCommitTimer`, `commitInFlight`, `pendingAfterCommit` | the variables of those names in `createPersistence`; `commitInFlight` also says whether the tree is built |
| `pendingContributors`, `snapshot` | the live map; the map that `swapContributors` returned, less what is committed |
| `batch`, `opening` | `batchInProgress`; the HEAD watcher's begin callback awaiting its flush |
| `awaiting` | callers blocked on the running commit |
| `saving`, `checkpoint`, `parents` | how far a running `saveVersion` has got, its tree, and its `shadowParentShas` with their refs |

A saved version is five steps, because nothing keeps commits from landing between
its git commands: `BeginSave` (the tree), `ReadParents` (rev-parse of the refs it
consolidates), `LandCheckpoint` (commit-tree and update-ref), `DropRef` for each
of those refs, `TakeAuthors` (the handler's `swapContributors`). Which refs these
are is in the request, so any non-empty set of them is tried; the code always adds
the ref of upstream imports, which is one more writer here. The refs are read one
after the other in the code and together in the model: what is lost is decided for
each ref alone, by its own reading and its own deletion. One saved version runs at
a time. A commit's own rev-parse, commit-tree and update-ref are one step: if a
ref is deleted between them, the update-ref brings its old chain back, which is
the outcome of a deletion that fails.

`gap` is a history variable: the last schedule was lost, by suppression in a batch,
by a flush that cancelled the timer behind a commit past its tree, by a commit that
failed, by a saved version that deleted the commit with its ref, or with the
process. `epoch` counts the times that contributions were given up.
The fallback without a shadow repository and `gitEnabled = false` are left out.
`waitForPendingCommits` after a flush adds nothing and is not an action. The
commits' interplay with stores, batches and shutdown is in one module because
they share the timer and the commit promise; L1's detail is not needed there.

`AttributionLog` is what the pipeline implements. Each writer is `due` a sequence
of contributions, and the log is a beginning of it that grows. At the end of an
epoch, and only there, a run of contributions may be given up: those not logged
yet, or, when a saved version deletes a ref, the last logged ones, while those
behind them stay due. Order and uniqueness hold through all of it.

### HeadWatcher and BatchGate

`HeadWatcher` is `head-watcher.ts`: the first git event opens a batch, later ones
restart the quiet window, a timer ends it. Both callbacks are awaited while events
go on arriving, so each callback under way is a `Call` with the stage it is at. An
end that awaited the begin goes on in the turn in which that returned, so no event
can open a batch in between (`Resumed` in `OpenBatch`).
`BatchGate` extends it with what those callbacks do, for one document.

| Model | Code |
| --- | --- |
| `inBatch`, `beginInFlight`, `quiet`, `timer`, `lastKnownBranch` | the variables of `startHeadWatcher` |
| `gate`, `holders` | `batchInProgress`; the sync engine's cycles between raising and lowering it |
| `active`, `base`, `loaded`, `doc`, `tombstone` | `activeBranch`, `reconciledBaseByBranch`, the document and its lifecycle status |
| `deferred`, `draining`, `nextFlush` | `deferredStores`, `deferredStoreDrainInFlight`, `pendingDeferredStoreFlushMode` |
| `buffer`, `task`, `parked` | `eventBuffer`, how far each callback has got, `refs/wip/<branch>/<writer>` |
| `typed`, `atRisk`, `leak`, `mixed` | history variables, read by properties only |

A text is a set of paragraphs, each a pair of the branch it was written on and a
number, so that a paragraph in the wrong branch's file can be seen to be there.
Git is a file per branch, a working tree, and a checkout in two steps (files, then
HEAD), between which the flag is not yet up. A foreign write and a merge of the
sync engine change the file as well. An event carries the branch whose file it was
read from, and `mixed` says that a text was once taken for the active branch's when
the files were another's: an event handled, a document opened, a batch ended in the
time between git's writing the files and the HEAD watcher's answer. `atRisk` has what
was typed and may be lost, and why is said at each action that adds to it; `Misread`
is what such a reading leaves out of the document. A store that lands takes its
paragraphs off that list only if the document still has them and no snapshot for
parking was taken before it landed.

Some things the model made plain: events buffered during a hold of the sync engine
alone, or between the splice of the buffer and the lowering of the flag, wait for
the next batch that stays on its branch; the end of a HEAD batch lowers the flag
in the middle of a cycle of the sync engine; the base of a restored draft is the
merged text, which is not on disk; `discard-stale` drops stores of the new branch
too; a file without a final newline makes the restore a no-op, because the parked
snapshot is read back trimmed (`FinalNewline`).

### ProcessLock

Each step is one call on the file system, since nothing serialises processes.
`lock` is the file: who made it and whether its content is whole, for there are two
moments when it is empty, between creation and writing and during an update of the
port. A process that starts at such a moment finds it corrupt and unlinks it. `phase` is where
each process is in `acquireProcessLock`, `updateProcessLockPort`, or `releaseProcessLock`;
`judged` and `removing` are what a process had read when it decided to remove the
file. `snatched` is the history of a file removed that was not the one judged
stale.

### ManagedRename

`stage` and `pending` are how far a start or a rename has got; one step handles one
file. `journal` is `managed-rename.json`, `live` and `unstored` the open documents
and those with a store pending, `captured` is `liveContents`, `removed` says whether
the old names are in `recentlyRemovedDocs`. A text is the edit it holds and the
names it links to; a crash may leave the file being written torn. `landed`,
`early`, `revived`, `stacked` are history variables. A failing operation leaves the
journal in place while the server goes on; the next start then restores its old
snapshots over later edits (`stacked` covers a rename begun meanwhile), and an
edit typed between the capture of the open documents and their unloading is lost.

### SyncEngine

| Model | Code |
| --- | --- |
| `state`, `enabled`, `armed` | the engine's state, `syncEnabled`, `pullTimer` and `pushTimer` |
| `at`, `retry` | which await `doPullCycle` and `doPushCycle` are in; `retriesLeft` |
| `conflicts`, `count`, `saved`, `saveTimer` | the conflict store, `conflictCount`, `sync-state.json`, `stateSaveTimer` |
| `disabling`, `resolving` | `setEnabled(false)` waiting, `resolveConflict` committing |
| `ahead`, `fetched`, `news`, `merging`, `unmerged`, `marked`, `markedHead`, `dirty` | git: which side has commits the other lacks, `MERGE_HEAD`, unmerged index entries, files with markers on disk and in HEAD |
| `hasRemote`, `probes`, `refreshing` | `hasRemote`; calls of `setEnabled(true)` and of `refreshRemote` that await `git remote -v` |
| `crossed`, `forgotten`, `late`, `abandoned`, `overtaken` | history variables |

In the cycles, every await of a git command is a step of its own, and only a loop's
own cycles exclude each other. The states, the re-arming of timers in each `finally`, and the
ways in which each git command fails are the code's; what a failure does is
`handleError` (`Fails`). A push whose timer fires in "auth-error" is not armed
again; only `PullLoopLives` is stated, because the code promises no more. What the
cycles do to stores is in `BatchGate`.

Switching on is two steps. `Enable` sets `syncEnabled` and begins to ask for the
remote; `Probed` or `ProbeFails` goes on with the answer. The calls are not awaited
(`server-factory.ts:1573`), so a `Disable`, further calls and, if the engine was not
yet through with an earlier switching off, cycles fall in between. A status request
has `refreshRemote` ask as well while no remote is known (`RefreshRemote`,
`Refreshed`). This made three weaknesses plain, which the properties except by name:

- The answer starts both loops whether or not sync is still on (355-357): switched
  off during the probe, the engine ends up idle with both timers armed
  (`overtaken`). `refreshRemote` looks at `syncEnabled` again, but like `setEnabled`
  it goes on over an unfinished merge (`forgotten`).
- A probe that fails leaves sync on, the engine dormant and nothing armed (349-352;
  at a start, 197-212). `PullLoopLives` allows this state while `hasRemote` is false;
  a status request that finds the remote ends it.
- A probe that fails while a push cycle is under way makes the engine dormant only
  until that cycle ends; a pull timer that fires in between is not armed again
  (`overtaken`).

`StartEngine` has the failures `start()` passes over: no remote, a diff that fails
(all conflicts are kept), a `merge --abort` that fails (the loops start over the
unfinished merge, `forgotten`). It is one step: calls that come between the awaits of
`start()` itself are left out.

### ObserverBridge

`fragment` and `text` are the sets of paragraphs of the tree and of the text,
`baseline` is `lastSyncedXmlMd`. A batch of transactions ends in
`afterAllTransactions` (`Drain`); observer A runs, its write drains in a nested
batch, which clears `textDirty`; then observer B runs, if it still has to. `wanted`
is what the edits so far add up to; `apart`, `mixed`, `missed` say that a batch
began with different sides, changed both, or that observer A threw. Bytes that
`normalizeBridge` takes for equal are equal.

### AgentSessions

`sessions` and `opening` are the map and the pending openings, entries of a key and
the number of a connection; `connected` is what is open in Hocuspocus. Each closing
call (`closing`) waits for openings, takes the keys, and cleans up one after the
other, awaiting each disconnect. `CleanedUp` deletes whatever session is under the
key by then, as the code does; `twice` is the history of two calls cleaning up one
session, the only way that goes wrong.

### ConfigStore

| Model | Code |
| --- | --- |
| `config` | the text of the file: the settings it gives, or `Broken`, or no file |
| `holder`, `aged` | `<file>.lock`: who made it, and whether it is older than `staleThresholdMs` |
| `progress`, `draft`, `baseLkg` | a store or a `writeConfigPatch` under way, the text it captured, the `lkg` it captured |
| `ytext`, `lkg`, `storeDue`, `seen` | the document, `lkgCache`, Hocuspocus' debounce, the watcher's `lastContent` |
| `patched`, `unsaved`, `flaws` | history variables |

`storeConfigDocInner` reads text and `lkg`, waits for the lock, and under it compares
the file with that old `lkg`: in between the watcher may import something else.
`withFileLock` removes a lock that is older than ten seconds whoever holds it, and
whatever lock is there when it is done. Only `Poll` and `Reconcile` bring the file
into the document, both under an origin that schedules no store. Patches are of
different settings, so a text that keeps them all is a superset. What breaks the
properties is named, and each is a weakness of the code that a reader should know:

- `slipped`: an editor, which takes no lock, saves between the reading and the rename;
- `snatched`: a waiter clears the lock of a living holder, after ten seconds;
- `dropped`: a client patches a text that does not parse; it starts from an empty one;
- `late`: a store writes the text from before an import, as the import has been taken
  back or broken on disk meanwhile;
- `undone`: the file is put back to what the watcher last saw within one poll, so the
  server keeps its own text;
- `mistaken`: the watcher meets the server's own text before `lkg` is moved, or the
  file was empty when loaded: its `lkg` is then the serialized defaults, the first
  store finds the file different, and "reconciles" the user's first patch away.

### ProviderPool

`instance`, `serving`, `filed`, `remote` are the server: its id, whether it runs,
the files and the loaded documents. `entries`, `active`, `cache`, `buffered`,
`recovery`, `clearing` and `cachedServerInstanceId` are the pool's own. An item is
an edit and who gave it its Yjs identity, a client or the server that loaded the
file: after a restart the same paragraph has two identities, and merging both shows
it twice. Yjs merges are unions; IndexedDB is one set for each document and server,
and clearing it may fail. `unclaimed`, `unacked` and `ignored` are history
variables. One tab, one branch, one recovery at a time; no renames, deletions or
branch switches; a user's retry is not modelled.

## 3. Runs

| Run | Checks | Bounds |
| --- | --- | --- |
| `bridge` | `TypeOK`, `EditsReachDisk`, `NoEcho`, `UnsavedSurvivesReconcile`, `SettlesAlone`, `TypedTextLands` | one ordinary block and the marker block, two watcher batches, three writes by anyone, one failure, one tripwire reset, one stop |
| `commits` | `TypeOK`, `CommitIsWhole`, `NoLostCommit`, `VersionsReachHistory` | one writer, two stores, one each of failure, batch and saved version |
| `attribution` | `AttributionKept` | two writers, two contributions, no store, one each of failure, saved version and stop |
| `gate` | `TypeOK`, `BranchIsolation`, `DraftReturns` | two branches, one of which may lack the file, one callback at a time, one paragraph, two git commands, one failure |
| `gate_drains` | `GateReopens`, `StoresDrain`, `EventsDrain`, `HeadFollowed` | two callbacks, a branch and a detached commit, one paragraph, one git command, one cycle of the sync engine |
| `services` | `ServicesTypeOK`; `OneHolder`; `AllOrNothing`, `StoredTextKept`; `SyncTypeOK`, `MarkersStayHome`, `PullLoopLives`, `ConflictsCanBeResolved`, `OffIsQuiet`; `TypedReachesText`, `SidesAgree`; `NoneForgotten`, `WithinCapacity`, `AgentIsClosed`; `PatchesStay`, `DocumentsAgree`, `UserPatchLands` | lock: three servers, a reader, two attempts. Rename: two documents (symmetric), one that links to them, two edits, a crash and a fault. Sync: one file, one mishap. Observers: three paragraphs, one throw. Sessions: two documents, two agents, two closing calls, two sessions at a time, three connections in all. Configuration: two servers, a patching program, two patches, one trouble (an edit by hand, a failed write, a crash, or two clients' texts joined) |
| `client` | `ClientTypeOK`, `NothingTwice`, `RefusedIsRecovered`, `PanelGoesAway`, `BufferedIsKept` | two documents (symmetric), one edit, two troubles |
| `bridge_shutdown`, `destroy_commits`, `gate_head`, `sync_pauses`, `observers` | one documented statement each, violated | as small as the counterexample needs |

Why the bounds are enough. `bridge`: three writes allow an edit, a foreign write that
clashes with it, and a write by either side while the first is still on its way (a
store in flight, an unread event, a conflict); two batches allow one to overtake the
other. `commits`: two stores and one failure allow a store behind a commit past its
tree, a timer that fires while a commit runs, and a commit that fails between the two.
`attribution`: two writers and one failure allow one to be committed and the other to
be restored in front of a new contribution, and a saved version to delete the ref of
either while a commit of it is on its way; it needs no store, since contributions
alone start commits. `commits` has no stop: a crash only resets the timer and the
commit, `attribution` and `destroy_commits` explore stops, and the theorem
`NothingLost` covers them for `NoLostCommit`. `gate`: two git commands are a switch
and the switch back that brings a draft home; the failure may be a store or a park;
three git commands, or a cycle of the sync engine, were checked once without a failure
and hold as well, and the theorems hold for any number of them and of overlapping
callbacks. `gate_drains`: two callbacks are an end that overlaps with a begin or
another end. `services`: three servers allow one to remove the file of a second that a
first had already replaced, two attempts allow a retry after an unlink; the source's
`MAX_ATTEMPTS` is three, and the theorem holds for any. Two documents make a rename
that stops half way; one crash and one fault meet at every pair of steps. One file and
one mishap let both loops run into the same conflict, sync be switched off during a
probe, and a probe fail; a probe that fails beside a cycle takes two, and was met in a
run with two. The theorems hold for any number of files and mishaps. Three paragraphs
are one for each side and the baseline. Three connections let a session be reopened
while the old one closes. Two servers and a program with two patches write the
configuration file in every order; two troubles, and three patches with one server,
were checked once and hold as well. `client`: two troubles are a restart and whatever
can go wrong in its recovery (another restart, a lost connection, a cache that does
not clear, a reload, a close); two documents are one that is shown and one that is
not. Every action of a module fires in a passing run.

`CHECK_DEADLOCK FALSE` is set because a system whose bounded world has run out, or
which has stopped, really waits.

Fairness. `DiskBridge`: debounce timers fire and renames end, which `destroy()`
relies on as well. `CommitPipeline`: the timer fires, git commands end (with
success or failure), and a git batch ends (the HEAD watcher has a timeout, a pull
ends). Fairness of the timer assumes a pause longer than the commit debounce (30
seconds by default): each store re-arms it and there is no maximal delay, so
somebody typing without pause delays the commit for ever; this is listed as a
hazard. `BatchGate`: stores run when due (Hocuspocus' timer), the two file watchers
deliver what they have seen, a checkout that has written its files moves HEAD,
awaited callbacks return, the sync engine ends what it began; nobody has to type or
run git. Nothing is assumed of clients and other programs. The services and the
client have no liveness properties: "the pull loop never dies" and "the notice goes
away" are stated as invariants on what is armed or under way, so that no fairness of
the network is needed.

What the properties exclude, each by a history variable that is set where the code
makes no provision; every exclusion names a real weakness.

- `EditsReachDisk`, `NoEcho`, `TypedTextLands` are for an undisturbed document: no
  other program writes it (`foreign`), nothing fails or is reset, and no store lands
  between a watcher batch's start and its read (`torn`). `NoEcho` says
  `server = "up"`, as `destroy()` clears the tracker before stores drain.
  `SettlesAlone` is for a document nobody has typed into since the boot (`stirred`),
  and excludes watcher batches that overlapped.
- `NoLostCommit`: the ways in which a schedule is lost, see `gap`.
- `BranchIsolation`, `DraftReturns` and the four of `gate_drains`: a store that
  runs while the files are switched and the flag is not yet up (`leak`), an event
  handled while an end is awaited (`overlapped`); `BranchIsolation` also a file read
  in that time (`mixed`), and `DraftReturns` text for which the code has no
  place to go (`atRisk`: typed between the snapshot that is parked and the end of
  the batch, deleted with the file, lost to a failed store or park, overridden by
  another program's write, or left out when another branch's file was read in place
  of its own). `DraftReturns` holds at every moment but one: between the reset of the
  document to the new branch's file and the restore of what was parked there.
- `OneHolder`: somebody removed a lock file that was not the one judged stale
  (`snatched`); `readProcessLock` and `acquireProcessLock` unlink by path.
- `AllOrNothing`, `StoredTextKept`: a document opened before the recovery, or at
  its new place during the rename (`early`), a store of the old name after the move
  (`revived`), a rename begun over an older journal (`stacked`).
- The sync engine's: cycles that overlapped (`crossed`), a merge left unfinished
  (`forgotten`), a switching off that gave up waiting or was followed by a switching
  on before it was through (`late`), a probe of `setEnabled(true)` that ended with
  sync off again or failed beside a cycle (`overtaken`), a merge aborted by the user
  (`abandoned`). `PullLoopLives` also allows a dormant engine that knows no remote.
- The observers': sides that differed, or an observer A that threw (`apart`,
  `missed`); `SidesAgree` also a batch that changed both sides (`mixed`).
- The sessions': one session cleaned up by two calls (`twice`).
- `NothingTwice`, `RefusedIsRecovered`: a tab that named no server (`unclaimed`) or
  was not told of a save (`unacked`); a refusal that came when the tab already knew
  the new server (`ignored`).

## 4. Findings

Five statements of the documentation or the tests do not hold; each has a run that
shows it, and `PROJECT.json` has the quotations and lines.

1. `bridge_shutdown`: `destroy()` does not guarantee that pending writes reach disk.
   After a merge the base is the merged text, and the pending store is skipped as
   unchanged.
2. `destroy_commits`: `flushPendingGitCommit` cancels the timer of a version that
   the commit in flight does not contain.
3. `gate_head`: the server does not always follow HEAD. A checkout during the end
   of a batch only restarts a timer, whose end then finds no batch.
4. `sync_pauses`: sync does not pause on a conflict when a push is under way, which
   commits and pushes the markers.
5. `observers`: one batch that changes tree and text leaves the tree behind, and
   the next edit of the tree overwrites the text.

Seen while modelling, without a run of their own: a draft merged once and then
overridden by the next external write is not kept; two watcher batches that overlap
may be applied out of order; a commit that lands while a version is being saved is
deleted with its ref; `abortMerge` leaves the engine idle and starts
no timer: the push loop stays stopped, after a push's conflict the pull loop as
well; and it takes an engine that is switched off to "idle"; a tab that opened a document
before it knew the server's id, or again during a recovery, names no server and
merges its old state after the next restart, although
`docs/content/_legacy/guides/collaboration-recovery.mdx` (from the repository's root) says every tab sees the
mismatch; an edit that was saved without the tab being told is replayed a second
time; a second restart before the first sync overwrites the buffer; edits typed in
other documents while caches are being cleared are not set aside; the first setting
changed in the user interface is lost if the configuration file exists and is empty
(`mistaken` in `ConfigStore`).

## 5. Proofs

TLAPS proves, for every value of the constants that meets the stated assumptions
(bounds are naturals; the sentinels are not values they stand beside; watcher
batches, the sync engine's files and the sessions' keys are finitely many; of a
rename, something moves, and what moves is not also rewritten as a linker):

**DiskBridge** (`DiskBridgeProofs`)

- `TypeCorrect`. `TypeOK` is inductive by itself. The one argument with content is
  that `isSelfWrite` removes one element of a sequence and leaves a sequence
  (`FirstMatchIsIndex`, `WithoutIsSeq`).
- `ReconcileKeepsUnsaved`. From `TypeOK` and `MergeKeepsOurs`: a block that differs
  from the base comes out of the merge with all that ours had.
- `NoEditIsStranded` and `StoresAreNotEchoed`, from one invariant, `EchoInv`.
  `EditsReachDisk` alone is not inductive: an event that is taken for somebody
  else's could change the document or its base. So each report of the file that is
  still to come must have an entry of its own in `writeTracker` (`Accounted`, with an
  injection from reports to entries that the proof keeps up as entries are removed),
  and the base must be the file (`BaseIsFile`). That two texts are equal only if they
  are the same version rests on their paragraphs being numbers of writes (`Dated`).
- `IdleDocumentsSettle`, about the composed `BridgeSpec`: what is raw says whether
  there is a file (`Heard`), an event that was read is the file as long as no other
  is due (`Follows`), and the document is its base and follows the file (`Idles`).
  Nothing is stored or tracked meanwhile (`Unstirred`).

**CommitPipeline** (`CommitPipelineProofs`)

- `TypeCorrect` and `CommitStaysWhole`. `TypeOK` alone is not inductive (a version
  number comes from a tree that only a committing commit has), so the invariant is
  `Inv == TypeOK /\ CommitIsWhole`. `EndWhole` and `FlushCases` isolate the two
  places where a commit ends and starts. Of a saved version it says that what it
  read of a ref is a beginning of what the ref holds now, which is what a deletion
  may go back to (`GitGrows`, `PrefixTransitive`).
- `NothingLost`. `NoLostCommit` is inductive relative to `Inv`; the argument is that
  each way to lose a schedule sets `gap` (`ScheduleCovers`, `EndCovers`,
  `FlushCovers`), and that a commit's ref holds what its tree held (`CommitHolds`).
- `AttributionIsKept`, the refinement of `AttributionLog`: what a writer is `due` is
  its log, then its part of the running commit, then its live entry. Swapping and
  restoring regroup that sequence without changing it, recording appends to it,
  committing moves the border of the log, a saved version's authors and a stop cut
  it back to no less than the log (`AuthorsGivenUp`), and a deleted ref takes a run
  out of its middle (`PrefixShortens`, `DropGivesUp`).

**BatchGate** (`BatchGateProofs`)

- `GateTypeCorrect`, from `TypeInv`: `TypeOK`, that an end is told two branches
  (`EndsKnow`), and that what is done at an end is done while it is awaited
  (`TasksEnd`).
- `BranchesStayApart`: `BranchIsolation` for any branches, callbacks, holders and
  bounds. The property speaks of the file; the next store takes its text from
  elsewhere, so `Apart` says it of every text the server or git holds: each branch's
  committed file (`FilesApart`), the document (`DocumentApart`), the bases of all
  branches (`BasesApart`), stores in flight, which also hold the branch still
  (`FlightsApart`), buffered events (`EventsApart`), what is parked or being parked
  (`ParksApart`), and that a restore works on the active branch (`Switching`). One
  document does not fit: on a branch without the file it keeps the text of the
  branch before. It is marked deleted and has neither base nor store (`Stale`), so
  nothing of it can be written; parked, it equals its own snapshot, and a restore
  leaves it alone.
- `DraftsReturn`: `DraftReturns` for any branches, callbacks, holders and bounds. The
  property speaks of the open document; `KeptInv` says where a paragraph is at every
  other moment. Four parts of it stand on their own. `InOrder`: while no event
  overtakes an end, the begin of a batch is over when its end is called, one end runs
  at a time, and what is parked is the active branch's. `Numbered`: every number in
  use is of a paragraph written before, so what is typed next is nowhere yet.
  `Closed`: a document that is not open has no text. `Recorded(p)`: a paragraph is in
  its branch's file (`Stored`), or in no file, event or base at all (`Loose`), so
  that no three-way merge can take it for a deletion by the other side. On these
  rests `Present(p)`. Away from the active branch, the file has the paragraph or what
  is parked would bring it back (`Away`, `Waits`). On it, the document has it, and so
  has the base if a restore is to come (`Held`), or the file on disk if a store may
  yet replace that base (`Onto`). From the snapshot to the end of a batch, what is
  being parked would do for the branch that may be left (`Taking`). Each action has
  a lemma that says how the paragraph gets from one of these places to the next.
- A batch's buffered events are replayed by a recursive function, `After`. What each
  event preserves holds after all of them, whatever their number (`ReplayKeeps`), by
  first-order induction: a set of naturals with 0 and closed under successor is `Nat`
  (`NatSetInduction`, from the library's well-foundedness of `<`).

**ConfigStore** (`ConfigStoreProofs`), from one invariant, `ConfigInv`

- `ConfigTypeCorrect`.
- `DocumentsFollowFile`: a settled document is its last known good text
  (`StoreIsFresh`), and that is what the watcher saw (`SeenIsKnown`).
- `SettingsReachFile`: a patch is in the file, in what is being stored, or due to be
  stored (`Pending`); for that, a patch that any other server or program has taken
  up must be in the file (`Elsewhere`) and stay in what its taker goes on to store
  (`Taken`, `Carried`).
- `NobodysPatchIsDropped`, an action property: no text loses a setting from one place
  it is copied to to the next (`Whole`), and who writes holds the lock (`LockHeld`).

**ProviderPool** (`ProviderPoolProofs`)

- `ClientTypeCorrect`; the types need that each start of the server answers a stop
  (`Counted`).
- `RefusedGetsRecovered`, `NoticeGoesAway`, `BufferSurvives`: `PoolInv` says for each
  open document what it owes to the recovery (`Claims`, `Owed`, `Refused`), when its
  notice is due (`Notice`), and that what is buffered is in it or comes with its next
  sync (`Replays`).
- `NothingShownTwice`: a document refused by a server never meets it, and the cache
  for a server is used by none before it (`Caches`), so what a document can bring to
  a server is that server's own, or edits it did not load (`Apart`).

**SyncEngine** (`SyncEngineProofs`): `SyncTypeCorrect`, `MarkersAreKept`,
`PullLoopGoesOn`, `ConflictsHaveAWayOut`, `OffStaysQuiet`. `SyncInv` adds to them that
no cycle runs in a process that does not and that sync which is on is not "disabled"
unless a probe is awaited (`ProcessAgrees`), that the engine is dormant exactly while
it knows no remote (`RemoteKnown`), that the pull loop stands still only in a conflict
a push has met or while the engine is dormant, with no push left whose end could take
that state away (`PullComesBack`), that each probe but the first has a switching off
before it (`ProbesCounted`), that one cycle runs at a time (`OneAtATime`), and that
while a merge is unfinished nothing that commits is under way or can begin
(`MarkersContained`, `Paused`).

**AgentSessions** (`AgentSessionsProofs`): `SessionTypeCorrect`, `NoSessionForgotten`,
`CapacityHolds`, `AgentGetsClosed`. Numbers belong to one entry (`Numbered`), what is
open or being cleaned up is in the map (`Kept`), what a call has yet to close is
waited for or among its keys (`Promised`); capacity is counted over map and openings
(`Fits`).

**The other services** (`ServicesProofs`)

- `LockTypeCorrect`, `OneServerAtATime`, for any number of processes and attempts,
  from `LockInv`: the file was made by a process that was started (`MadeByStarted`);
  what is judged stale was whole with a dead maker, or not whole (`JudgedRight`); and
  while only such files were removed, the holder's file is there (`HolderHasFile`).
- `RenameTypeCorrect`, `RenameIsAtomic`, for any documents, crashes and faults.
  `Shape` says for each stage which files are at their old and which at their new
  place (`AtStage`), and that the journal has what recovery needs to go back.
- `StoredTextsStay`: at each stage every place from which the last text of a document
  may yet be taken (the file, the open document, the journal, the captured text) is
  no older than the text stored last (`FreshAtStage`).
- `ObserverTypeCorrect`, `TypingReachesText`, `TreeAndTextAgree`. Edits of a batch add
  up to the three-way merge of the sides (`Tracked`), which observer A puts into the
  text (`Reached`); equal sides equal the baseline (`Based`); and a batch that
  changes one side leaves the other at the baseline (`OneSided`).
- `ServicesDoNotInterfere`: a behaviour of `MCServices` is, seen from any of the six
  services, a behaviour of that service. With it every theorem about one of them
  holds of the composition; `ServicesTypeCorrect` is the one the run states anew.

What failed proofs showed. Four properties were false outside the bounds of the
runs, each because the model named too few exceptions; TLC confirmed each with a
run directed at it. All four are weaknesses of the code rather than slips of the
model:

- `PatchesStay`: a text that does not parse is patched from an empty one while the
  first store of the document is still under way (`dropped`).
- `NothingTwice`: an empty document that was told of a save keeps a baseline over a
  restart, and what it types next is replayed against it (`Holds` in `unclaimed`).
- `BranchIsolation`: the watcher's event of another branch's file is handled before
  the HEAD watcher has noticed the checkout, and a quick checkout back follows
  (`mixed`). Two edits and four git commands are needed.
- `DraftReturns`: a document is opened, or a branch switched to, while the files are
  another branch's: it lacks what its own file has, and no event of the file tells it
  (`Misread` in `atRisk`). A deletion that closes the document, whose last store
  brings the file back (`server-factory.ts:893`), is a way to get there, in four git
  commands. And text that lands after the snapshot for parking was taken is in
  neither the snapshot nor, if the document was reset since, the document: it may not
  be called safe (`Unparked` in `Landed`).

Only model-checked: liveness (`TypedTextLands`, `VersionsReachHistory` and the four
of `gate_drains`), because the prover has no fairness. Every safety property of the
runs has a theorem.

## 6. What could come next

1. A module that splits `BatchGate`'s state by document, and the drafts of several
   documents parked in one ref.
2. An abstract specification of a document and its file, which `DiskBridge` and
   `ConfigStore` both implement: what was typed is in the file, on its way, or named
   as lost.
3. The alignment of blocks in `reconcile` as a pure algorithm, checked against a
   reference definition of a three-way merge over short block lists.
4. The client across branch switches and renames, with the editor cache.
5. Removed documents with eviction and chains of renames.

## 7. Not modelled

`PROJECT.json` lists every component with its status. Left out altogether:

- agent presence, idle shutdown, removed documents: a map with expiry or a timer
  each, with no state that another component relies on (the redirection of old
  names during a rename is in `ManagedRename`);
- CC1 broadcast and the live indices (backlinks, tags, search): derived from the
  files and rebuilt from them;
- of configuration documents, what their settings mean: schemas, scopes, the merging
  of layers, patches that delete a setting or set it twice; and `.okignore`, which has
  the same store but no watcher of this kind;
- timeline queries and garbage collection of shadow branches: they read, or leave
  to git what is reachable;
- the HTTP API and MCP: handlers, whose calls into the commit pipeline, the rename
  and the sessions are actions of those modules;
- content filter, document paths, the core library (Markdown, schemas): pure
  functions of text;
- boot, command line, desktop shell, user interface, editor cache: sequential
  wiring, or views of what the pool holds.

Left out of modelled components: several documents at a time in `DiskBridge` and
`BatchGate` (they share no state but the flag and the index of files); renames and
assets in the watcher; the sync engine without commits or on a detached HEAD, what
comes between the awaits of its start, and its delays; the shadow lock and several
holders in one process; the check for lost content after a merge and the watchdog of
the bridge; writes and undo within an agent's session. Each is named in the
component's note.
