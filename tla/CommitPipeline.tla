---------------------------- MODULE CommitPipeline ----------------------------
(***************************************************************************)
(* The second layer of persistence: from the files on disk to commits in   *)
(* the shadow repository.  Stores that land arm a debounced timer; a       *)
(* commit takes the recorded contributors, builds one tree of the content  *)
(* directory and commits it once per contributor (persistence.ts).  The    *)
(* HEAD watcher, the sync engine, the save-version and rename handlers and *)
(* destroy() all interfere with it.                                        *)
(*                                                                         *)
(* The content directory is one version number, the stores landed so far.  *)
(***************************************************************************)
EXTENDS Naturals, Sequences

CONSTANTS
  Writer,            \* contributors: agents, principals, the file system
  NoEntry,           \* the contributor map has no entry for a writer
  NoTree,            \* no tree built
  NoParent,          \* a ref that the running saved version leaves alone
  Service,           \* the service writer, who commits when nobody is recorded
  MaxContributions,  \* bound: summaries and renames recorded
  MaxStores,         \* bound: stores of all documents together
  MaxFailures,       \* bound: git commands that fail and flushes that time out
  MaxBatches,        \* bound: git batches
  MaxSaves,          \* bound: saved versions
  MaxStops           \* bound: crashes and shutdowns

Entry == Seq(Nat)   \* the summaries, oldest first
Map   == [Writer -> Entry \cup {NoEntry}]
Ref   == Writer \cup {Service}   \* refs/wip/<branch>/<writer>
Parent == [version : Nat, summaries : Seq(Nat)]

ASSUME PipelineAssumption ==
  /\ NoEntry \notin Entry /\ NoTree \notin Nat /\ NoParent \notin Parent
  /\ Service \notin Writer
  /\ MaxContributions \in Nat /\ MaxStores \in Nat /\ MaxFailures \in Nat
  /\ MaxBatches \in Nat /\ MaxSaves \in Nat /\ MaxStops \in Nat

VARIABLES
  server,              \* "up", "draining", "flushing", "stopped", "crashed"
  written,             \* stores landed on disk: the version of the directory
  storing,             \* stores whose file is not written yet
  batch,               \* batchInProgress: a git operation is under way
  opening,             \* the HEAD watcher is still flushing before its batch
  gitCommitTimer,      \* the debounced commit is armed
  commitInFlight,      \* "none", "building" the tree or "committing" it
  pendingAfterCommit,  \* the timer fired while a commit ran
  tree,                \* the version in the tree of the running commit
  pendingContributors, \* the live contributor map
  snapshot,            \* the contributors the running commit still has to commit
  awaiting,            \* who awaits the running commit: "head", "destroy"
  saving,              \* how far a running saved version has got
  checkpoint,          \* the version in its tree
  parents,             \* the refs it consolidates and deletes, as it read them
  log,                 \* git: the reachable summaries of each writer, in order
  wip,                 \* git: the newest version each ref holds
  saved,               \* git: the newest version a checkpoint holds
  contributions, failures, batches, saves, stops,
  gap,                 \* history: the last schedule was lost, see NoLostCommit
  epoch                \* history: times that contributions were given up

mapVars   == <<pendingContributors, snapshot>>
gitVars   == <<log, wip, saved, epoch>>
diskVars  == <<written, storing>>
batchVars == <<batch, opening, batches>>
timerVars == <<gitCommitTimer, pendingAfterCommit, gap>>
saveVars  == <<saving, checkpoint, parents, saves>>
vars == <<server, diskVars, batchVars, timerVars, commitInFlight, tree, mapVars,
          awaiting, saveVars, gitVars, contributions, failures, stops>>

Running   == server \in {"up", "draining", "flushing"}
Storing   == server \in {"up", "draining"}
NoEntries == [w \in Writer |-> NoEntry]
NoParents == [r \in Ref |-> NoParent]
Recorded(map) == {w \in Writer : map[w] # NoEntry}
Summaries(entry) == IF entry = NoEntry THEN <<>> ELSE entry
Newer(v, u) == IF v > u THEN v ELSE u

(* The version v, or a later one, can be found in the history. *)
Held(v) == saved >= v \/ \E r \in Ref : wip[r] >= v

-----------------------------------------------------------------------------
(* The contributor map of contributor-tracker.ts.                          *)

(* An agent's write with its summary, or a rename with its pair of paths. *)
RecordContributor(w) ==
  /\ server = "up" /\ contributions < MaxContributions
  /\ contributions' = contributions + 1
  /\ pendingContributors' =
       [pendingContributors EXCEPT ![w] = Append(Summaries(@), contributions + 1)]
  /\ UNCHANGED <<server, diskVars, batchVars, timerVars, commitInFlight, tree,
                 snapshot, awaiting, saveVars, gitVars, failures, stops>>

(* A store of a connection's edits: no summary, and only a first entry. *)
RecordEditor(w) ==
  /\ Storing /\ ~batch /\ pendingContributors[w] = NoEntry
  /\ pendingContributors' = [pendingContributors EXCEPT ![w] = <<>>]
  /\ UNCHANGED <<server, diskVars, batchVars, timerVars, commitInFlight, tree,
                 snapshot, awaiting, saveVars, gitVars, contributions, failures,
                 stops>>

(* Mutant of Restored: the old summaries go behind the new ones. *)
RestoredBehind(live, entry) ==
  IF entry = NoEntry THEN live ELSE Summaries(live) \o entry

(* restoreContributorEntry: the summaries go back in front. *)
Restored(live, entry) ==
  IF entry = NoEntry THEN live ELSE entry \o Summaries(live)

-----------------------------------------------------------------------------
(* The debounce and the commit.                                            *)

(* scheduleGitCommit: a batch suppresses it. *)
ScheduleGitCommit ==
  /\ gitCommitTimer' = (gitCommitTimer \/ ~batch)
  /\ gap' = (batch /\ ~gitCommitTimer)

(* commitToWipRef, up to its first await: swapContributors. *)
StartCommit ==
  /\ commitInFlight' = "building"
  /\ snapshot' = pendingContributors
  /\ pendingContributors' = NoEntries
  /\ gap' = FALSE

(* Mutant of EndCommit: pendingAfterCommit is not reset. *)
EndCommitKeepsPending(failed) ==
  /\ commitInFlight' = "none" /\ tree' = NoTree /\ awaiting' = {}
  /\ UNCHANGED pendingAfterCommit
  /\ IF pendingAfterCommit THEN ScheduleGitCommit
     ELSE /\ gap' = (gap \/ (failed /\ ~gitCommitTimer))
          /\ UNCHANGED gitCommitTimer

(* Mutant of EndCommit: nothing is scheduled for pendingAfterCommit. *)
EndCommitForgets(failed) ==
  /\ commitInFlight' = "none" /\ tree' = NoTree /\ awaiting' = {}
  /\ pendingAfterCommit' = FALSE
  /\ gap' = (gap \/ (failed /\ ~gitCommitTimer))
  /\ UNCHANGED gitCommitTimer

(* The .finally() of the commit. *)
EndCommit(failed) ==
  /\ commitInFlight' = "none" /\ tree' = NoTree /\ awaiting' = {}
  /\ pendingAfterCommit' = FALSE
  /\ IF pendingAfterCommit THEN ScheduleGitCommit
     ELSE /\ gap' = (gap \/ (failed /\ ~gitCommitTimer))
          /\ UNCHANGED gitCommitTimer

(* Mutant of TimerFires: a timer that finds a commit running just returns. *)
TimerFiresInVain ==
  /\ Running /\ gitCommitTimer
  /\ gitCommitTimer' = FALSE
  /\ \/ commitInFlight # "none" /\ UNCHANGED <<commitInFlight, mapVars, gap>>
     \/ commitInFlight = "none" /\ StartCommit
  /\ UNCHANGED <<server, diskVars, batchVars, pendingAfterCommit, tree, awaiting,
                 saveVars, gitVars, contributions, failures, stops>>

TimerFires ==
  /\ Running /\ gitCommitTimer
  /\ gitCommitTimer' = FALSE
  /\ \/ /\ commitInFlight # "none"
        /\ pendingAfterCommit' = TRUE
        /\ UNCHANGED <<commitInFlight, mapVars, gap>>
     \/ /\ commitInFlight = "none"
        /\ StartCommit
        /\ UNCHANGED pendingAfterCommit
  /\ UNCHANGED <<server, diskVars, batchVars, tree, awaiting, saveVars, gitVars,
                 contributions, failures, stops>>

(* buildWipTree, or the git add of commitWip: every file as it is now. *)
BuildTree ==
  /\ Running /\ commitInFlight = "building"
  /\ commitInFlight' = "committing" /\ tree' = written
  /\ UNCHANGED <<server, diskVars, batchVars, timerVars, mapVars, awaiting,
                 saveVars, gitVars, contributions, failures, stops>>

FailBuild ==
  /\ Running /\ commitInFlight = "building" /\ failures < MaxFailures
  /\ failures' = failures + 1
  /\ pendingContributors' =
       [w \in Writer |-> Restored(pendingContributors[w], snapshot[w])]
  /\ snapshot' = NoEntries
  /\ EndCommit(TRUE)
  /\ UNCHANGED <<server, diskVars, batchVars, saveVars, gitVars, contributions,
                 stops>>

(* One turn of the per-writer loop; the last one ends the commit. *)
CommitWriter(w) ==
  /\ Running /\ commitInFlight = "committing" /\ snapshot[w] # NoEntry
  /\ log' = [log EXCEPT ![w] = @ \o snapshot[w]]
  /\ wip' = [wip EXCEPT ![w] = Newer(@, tree)]
  /\ snapshot' = [snapshot EXCEPT ![w] = NoEntry]
  /\ IF Recorded(snapshot) = {w} THEN EndCommit(FALSE)
     ELSE UNCHANGED <<commitInFlight, tree, awaiting, timerVars>>
  /\ UNCHANGED <<server, diskVars, batchVars, pendingContributors, saveVars,
                 saved, epoch, contributions, failures, stops>>

FailWriter(w) ==
  /\ Running /\ commitInFlight = "committing" /\ snapshot[w] # NoEntry
  /\ failures < MaxFailures /\ failures' = failures + 1
  /\ pendingContributors' =
       [pendingContributors EXCEPT ![w] = Restored(@, snapshot[w])]
  /\ snapshot' = [snapshot EXCEPT ![w] = NoEntry]
  /\ IF Recorded(snapshot) = {w} THEN EndCommit(~Held(tree))
     ELSE UNCHANGED <<commitInFlight, tree, awaiting, timerVars>>
  /\ UNCHANGED <<server, diskVars, batchVars, saveVars, gitVars, contributions,
                 stops>>

(* Nobody recorded: the service writer commits. *)
CommitService ==
  /\ Running /\ commitInFlight = "committing" /\ Recorded(snapshot) = {}
  /\ \/ /\ wip' = [wip EXCEPT ![Service] = Newer(@, tree)]
        /\ EndCommit(FALSE) /\ UNCHANGED failures
     \/ /\ failures < MaxFailures /\ failures' = failures + 1
        /\ EndCommit(TRUE) /\ UNCHANGED wip
  /\ UNCHANGED <<server, diskVars, batchVars, mapVars, saveVars, log, saved, epoch,
                 contributions, stops>>

(* flushPendingGitCommit(), up to the await of the running commit. *)
FlushPendingGitCommit ==
  \/ ~gitCommitTimer /\ UNCHANGED <<timerVars, commitInFlight, mapVars>>
  \/ /\ gitCommitTimer /\ gitCommitTimer' = FALSE
     /\ UNCHANGED pendingAfterCommit
     /\ \/ commitInFlight = "none" /\ StartCommit
        \/ /\ commitInFlight # "none"
           /\ gap' = (commitInFlight = "committing" /\ ~pendingAfterCommit)
           /\ UNCHANGED <<commitInFlight, mapVars>>

AwaitCommit(who) ==
  awaiting' = IF commitInFlight' = "none" THEN awaiting ELSE awaiting \cup {who}

(* The flush that follows an agent's write (flushDocToGit). *)
FlushGitCommit ==
  /\ server = "up" /\ gitCommitTimer /\ FlushPendingGitCommit
  /\ UNCHANGED <<server, diskVars, batchVars, tree, awaiting, saveVars, gitVars,
                 contributions, failures, stops>>

(* The flush that follows a rename; it does not touch the timer. *)
FlushContributors ==
  /\ server = "up" /\ commitInFlight = "none"
  /\ Recorded(pendingContributors) # {}
  /\ StartCommit
  /\ UNCHANGED <<server, diskVars, batchVars, gitCommitTimer, pendingAfterCommit,
                 tree, awaiting, saveVars, gitVars, contributions, failures, stops>>

-----------------------------------------------------------------------------
(* Stores, as far as the second layer sees them.                           *)

(* Outside a batch: inside one, onStoreDocument defers. *)
BeginStore ==
  /\ Storing /\ ~batch /\ written + storing < MaxStores
  /\ storing' = storing + 1
  /\ UNCHANGED <<server, written, batchVars, timerVars, commitInFlight, tree,
                 mapVars, awaiting, saveVars, gitVars, contributions, failures,
                 stops>>

FinishStore ==
  /\ Storing /\ storing > 0
  /\ storing' = storing - 1 /\ written' = written + 1
  /\ ScheduleGitCommit
  /\ UNCHANGED <<server, batchVars, pendingAfterCommit, commitInFlight, tree,
                 mapVars, awaiting, saveVars, gitVars, contributions, failures,
                 stops>>

(* Mutant of StoreUnchanged: a store with nothing to write ends another's. *)
StoreUnchangedEnds ==
  /\ Storing /\ ~batch /\ Recorded(pendingContributors) # {}
  /\ storing' = storing - 1
  /\ ScheduleGitCommit
  /\ UNCHANGED <<server, written, batchVars, pendingAfterCommit, commitInFlight,
                 tree, mapVars, awaiting, saveVars, gitVars, contributions,
                 failures, stops>>

(* Nothing to write, but contributors wait for a commit. *)
StoreUnchanged ==
  /\ Storing /\ ~batch /\ Recorded(pendingContributors) # {}
  /\ ScheduleGitCommit
  /\ UNCHANGED <<server, diskVars, batchVars, pendingAfterCommit, commitInFlight,
                 tree, mapVars, awaiting, saveVars, gitVars, contributions,
                 failures, stops>>

-----------------------------------------------------------------------------
(* Git batches.                                                            *)

(* The HEAD watcher flushes first and sets the flag after its await. *)
BeginHeadBatch ==
  /\ server = "up" /\ ~opening /\ batches < MaxBatches
  /\ opening' = TRUE /\ batches' = batches + 1
  /\ FlushPendingGitCommit /\ AwaitCommit("head")
  /\ UNCHANGED <<server, diskVars, batch, tree, saveVars, gitVars, contributions,
                 failures, stops>>

OpenHeadBatch ==
  /\ Running /\ opening /\ "head" \notin awaiting
  /\ opening' = FALSE /\ batch' = TRUE
  /\ UNCHANGED <<server, diskVars, batches, timerVars, commitInFlight, tree,
                 mapVars, awaiting, saveVars, gitVars, contributions, failures,
                 stops>>

(* The sync engine sets the same flag around a pull. *)
BeginSyncBatch ==
  /\ server = "up" /\ batches < MaxBatches
  /\ batch' = TRUE /\ batches' = batches + 1
  /\ UNCHANGED <<server, diskVars, opening, timerVars, commitInFlight, tree,
                 mapVars, awaiting, saveVars, gitVars, contributions, failures,
                 stops>>

EndBatch ==
  /\ Running /\ batch /\ batch' = FALSE
  /\ UNCHANGED <<server, diskVars, opening, batches, timerVars, commitInFlight,
                 tree, mapVars, awaiting, saveVars, gitVars, contributions,
                 failures, stops>>

-----------------------------------------------------------------------------
(* Saved versions: saveVersion of shadow-repo.ts and its handler.  Nothing *)
(* keeps commits from landing between its git commands.                    *)

BeginSave ==
  /\ server = "up" /\ saving = "none" /\ saves < MaxSaves
  /\ saving' = "built" /\ checkpoint' = written /\ saves' = saves + 1
  /\ UNCHANGED <<server, diskVars, batchVars, timerVars, commitInFlight, tree,
                 mapVars, awaiting, parents, gitVars, contributions, failures, stops>>

(* The request names the writers whose refs are consolidated. *)
ReadParents ==
  /\ Running /\ saving = "built" /\ saving' = "linked"
  /\ \E writers \in SUBSET Ref \ {{}} :
       parents' = [r \in Ref |->
         IF r \in writers
           THEN [version |-> wip[r],
                 summaries |-> IF r = Service THEN <<>> ELSE log[r]]
           ELSE NoParent]
  /\ UNCHANGED <<server, diskVars, batchVars, timerVars, commitInFlight, tree,
                 mapVars, awaiting, checkpoint, saves, gitVars, contributions,
                 failures, stops>>

(* The checkpoint's ref is set: its tree and its parents are reachable. *)
LandCheckpoint ==
  /\ Running /\ saving = "linked" /\ saving' = "landed"
  /\ saved' \in {saved, checkpoint} \cup
               {parents[r].version : r \in {r \in Ref : parents[r] # NoParent}}
  /\ saved' >= saved /\ saved' >= checkpoint
  /\ \A r \in Ref : parents[r] # NoParent => saved' >= parents[r].version
  /\ UNCHANGED <<server, diskVars, batchVars, timerVars, commitInFlight, tree,
                 mapVars, awaiting, checkpoint, parents, saves, log, wip, epoch,
                 contributions, failures, stops>>

(* A consolidated ref is deleted, or that fails and is ignored. *)
DropRef(r) ==
  /\ Running /\ saving = "landed" /\ parents[r] # NoParent
  /\ parents' = [parents EXCEPT ![r] = NoParent]
  /\ \/ /\ failures < MaxFailures /\ failures' = failures + 1
        /\ UNCHANGED <<gitVars, gap>>
     \/ /\ wip' = [wip EXCEPT ![r] = 0]
        /\ log' = [w \in Writer |-> IF w = r THEN parents[r].summaries ELSE log[w]]
        /\ gap' = (gap \/ (Held(written) /\ saved < written
                           /\ \A q \in Ref \ {r} : wip[q] < written))
        /\ epoch' = epoch + 1 /\ UNCHANGED <<saved, failures>>
  /\ UNCHANGED <<server, diskVars, batchVars, gitCommitTimer, pendingAfterCommit,
                 commitInFlight, tree, mapVars, awaiting, saving, checkpoint, saves,
                 contributions, stops>>

(* The authors of the version are taken from the live map. *)
TakeAuthors ==
  /\ Running /\ saving = "landed" /\ parents = NoParents
  /\ saving' = "none" /\ checkpoint' = NoTree
  /\ pendingContributors' = NoEntries /\ epoch' = epoch + 1
  /\ UNCHANGED <<server, diskVars, batchVars, timerVars, commitInFlight, tree,
                 snapshot, awaiting, parents, saves, log, wip, saved, contributions,
                 failures, stops>>

FailSave ==
  /\ Running /\ saving \in {"built", "linked"} /\ failures < MaxFailures
  /\ failures' = failures + 1
  /\ saving' = "none" /\ checkpoint' = NoTree /\ parents' = NoParents
  /\ UNCHANGED <<server, diskVars, batchVars, timerVars, commitInFlight, tree,
                 mapVars, awaiting, saves, gitVars, contributions, stops>>

-----------------------------------------------------------------------------
(* The end of the server.                                                  *)

BeginDestroy ==
  /\ server = "up" /\ stops < MaxStops
  /\ server' = "draining"
  /\ UNCHANGED <<diskVars, batchVars, timerVars, commitInFlight, tree, mapVars,
                 awaiting, saveVars, gitVars, contributions, failures, stops>>

(* Phase 4, once every store has drained.  waitForPendingCommits adds nothing: *)
(* when the flush returns, no commit is in flight.                             *)
FlushL2 ==
  /\ server = "draining" /\ storing = 0
  /\ server' = "flushing"
  /\ FlushPendingGitCommit /\ AwaitCommit("destroy")
  /\ UNCHANGED <<diskVars, batchVars, tree, saveVars, gitVars, contributions,
                 failures, stops>>

(* The memory of the process is gone; files and refs stay. *)
Lose(status) ==
  /\ server' = status /\ stops' = stops + 1
  /\ storing' = 0 /\ batch' = FALSE /\ opening' = FALSE
  /\ gitCommitTimer' = FALSE /\ pendingAfterCommit' = FALSE
  /\ commitInFlight' = "none" /\ tree' = NoTree /\ awaiting' = {}
  /\ pendingContributors' = NoEntries /\ snapshot' = NoEntries
  /\ saving' = "none" /\ checkpoint' = NoTree /\ parents' = NoParents
  /\ gap' = ~Held(written) /\ epoch' = epoch + 1
  /\ UNCHANGED <<written, batches, saves, log, wip, saved, contributions>>

Exit ==
  /\ server = "flushing" /\ stops < MaxStops
  /\ \/ "destroy" \notin awaiting /\ UNCHANGED failures
     \/ /\ "destroy" \in awaiting       \* the L2 flush timed out
        /\ failures < MaxFailures /\ failures' = failures + 1
  /\ Lose("stopped")

Crash ==
  /\ Running /\ stops < MaxStops
  /\ Lose("crashed")
  /\ UNCHANGED failures

Boot ==
  /\ server \in {"stopped", "crashed"} /\ server' = "up"
  /\ UNCHANGED <<diskVars, batchVars, timerVars, commitInFlight, tree, mapVars,
                 awaiting, saveVars, gitVars, contributions, failures, stops>>

-----------------------------------------------------------------------------
Init ==
  /\ server = "up" /\ written = 0 /\ storing = 0
  /\ batch = FALSE /\ opening = FALSE
  /\ gitCommitTimer = FALSE /\ commitInFlight = "none"
  /\ pendingAfterCommit = FALSE /\ tree = NoTree
  /\ pendingContributors = NoEntries /\ snapshot = NoEntries
  /\ awaiting = {} /\ saving = "none" /\ checkpoint = NoTree /\ parents = NoParents
  /\ log = [w \in Writer |-> <<>>] /\ wip = [r \in Ref |-> 0] /\ saved = 0
  /\ contributions = 0 /\ failures = 0 /\ batches = 0 /\ saves = 0 /\ stops = 0
  /\ gap = FALSE /\ epoch = 0

Contributing ==
  \E w \in Writer : RecordEditor(w) \/ RecordContributor(w)
Committing ==
  \/ BuildTree \/ CommitService \/ \E w \in Writer : CommitWriter(w)
Failing == FailBuild \/ \E w \in Writer : FailWriter(w)
Flushing == FlushGitCommit \/ FlushContributors
Stores == BeginStore \/ FinishStore \/ StoreUnchanged
Batches == BeginHeadBatch \/ OpenHeadBatch \/ BeginSyncBatch \/ EndBatch
Saves ==
  \/ BeginSave \/ ReadParents \/ LandCheckpoint
  \/ (\E r \in Ref : DropRef(r)) \/ TakeAuthors \/ FailSave
Stopping == BeginDestroy \/ FlushL2 \/ Exit \/ Crash \/ Boot

Next ==
  \/ Contributing \/ TimerFires \/ Committing \/ Failing \/ Flushing
  \/ Stores \/ Batches \/ Saves \/ Stopping

Spec == Init /\ [][Next]_vars

(* Timers fire, git commands end and git batches end (the HEAD watcher has *)
(* a timeout, a pull ends).                                                *)
FairSpec ==
  Spec /\ WF_vars(TimerFires) /\ WF_vars(Committing \/ Failing) /\ WF_vars(EndBatch)

-----------------------------------------------------------------------------
(* Properties.                                                             *)

(* What each writer is due: logged, in the running commit, or recorded. *)
Due(w) == log[w] \o (Summaries(snapshot[w]) \o Summaries(pendingContributors[w]))

Attribution == INSTANCE AttributionLog
  WITH Contribution <- 1 .. MaxContributions, log <- log,
       due <- [w \in Writer |-> Due(w)], epoch <- epoch

(* Every variable has its type: a commit and a saved version are at one of *)
(* the stages that persistence.ts and saveVersionInner go through, versions *)
(* and contributions are numbers, contributors are kept by writer, and each *)
(* bounded counter is within its bound.                                    *)
TypeOK ==
  /\ server \in {"up", "draining", "flushing", "stopped", "crashed"}
  /\ written \in Nat /\ storing \in Nat /\ saved \in Nat /\ epoch \in Nat
  /\ batch \in BOOLEAN /\ opening \in BOOLEAN /\ gap \in BOOLEAN
  /\ gitCommitTimer \in BOOLEAN /\ pendingAfterCommit \in BOOLEAN
  /\ commitInFlight \in {"none", "building", "committing"}
  /\ tree \in Nat \cup {NoTree} /\ checkpoint \in Nat \cup {NoTree}
  /\ saving \in {"none", "built", "linked", "landed"}
  /\ parents \in [Ref -> Parent \cup {NoParent}]
  /\ pendingContributors \in Map /\ snapshot \in Map
  /\ log \in [Writer -> Seq(Nat)] /\ wip \in [Ref -> Nat]
  /\ awaiting \subseteq {"head", "destroy"}
  /\ contributions \in 0 .. MaxContributions /\ failures \in 0 .. MaxFailures
  /\ batches \in 0 .. MaxBatches /\ stops \in 0 .. MaxStops /\ saves \in Nat

(* A saved version has a tree while it runs, and what it read of a ref is a *)
(* beginning of what the ref holds until it is deleted (saveVersionInner).   *)
SaveIsWhole ==
  /\ (checkpoint # NoTree) = (saving # "none")
  /\ checkpoint # NoTree => checkpoint <= written
  /\ saving \in {"none", "built"} => parents = NoParents
  /\ \A r \in Ref : parents[r] # NoParent => parents[r].version <= wip[r]
  /\ \A w \in Writer :
       parents[w] # NoParent => Attribution!Prefix(parents[w].summaries, log[w])

(* A commit under way is consistent: it has a tree exactly while it commits, *)
(* holds contributors only while it runs, is awaited only while it runs, and *)
(* only a running commit can have a successor pending (the state that        *)
(* persistence.ts spreads over commitInFlight, pendingAfterCommit and the    *)
(* local variables of commitToWipRefInner).  So is a saved version under     *)
(* way, and nothing in git is ahead of the files.                            *)
CommitIsWhole ==
  /\ (tree # NoTree) = (commitInFlight = "committing")
  /\ tree # NoTree => tree <= written
  /\ saved <= written /\ \A r \in Ref : wip[r] <= written
  /\ commitInFlight = "none" =>
       Recorded(snapshot) = {} /\ awaiting = {} /\ ~pendingAfterCommit
  /\ SaveIsWhole

(* Unless the last schedule was lost (suppressed by a batch, cancelled by a *)
(* flush that found a commit past its tree, spent on a commit that failed,  *)
(* gone with the process, or its commit deleted with its ref by a saved     *)
(* version), a version on disk that no ref holds has a commit coming: the   *)
(* timer is armed, the running commit has yet to read the files or has just *)
(* read this version, or a successor is pending (scheduleGitCommit and      *)
(* flushPendingGitCommit in persistence.ts).                                *)
NoLostCommit ==
  ~gap /\ ~Held(written) =>
    \/ gitCommitTimer
    \/ commitInFlight = "building"
    \/ commitInFlight = "committing" /\ (pendingAfterCommit \/ tree = written)

(* Every version on disk reaches the history while the server runs, unless *)
(* a schedule is lost (the debounce, its pendingAfterCommit and .finally). *)
VersionsReachHistory ==
  \A v \in 1 .. MaxStores :
    (server = "up" /\ written >= v) ~> (Held(v) \/ gap \/ server # "up")

(* Summaries enter each writer's ref in the order they were recorded, once, *)
(* and none is lost but by a saved version or the end of the process:       *)
(* swapContributors, restoreContributors, restoreContributorEntry and the   *)
(* commit loop implement AttributionLog.                                    *)
AttributionKept == Attribution!Spec

(* server-lifecycle.mdx: after a successful destroy() everything on disk is *)
(* committed to the shadow repository.                                      *)
DestroyCommitsAll == server = "stopped" /\ failures = 0 => Held(written)
=============================================================================
