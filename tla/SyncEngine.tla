------------------------------ MODULE SyncEngine ------------------------------
(***************************************************************************)
(* The sync engine (sync-engine.ts, conflict-storage.ts): a pull loop and  *)
(* a push loop over one git repository, each with its own timer, and the   *)
(* conflicts they run into, which a user resolves.  The loops are awaits   *)
(* of git commands, and only a loop's own cycles exclude each other, so    *)
(* the two interleave at every await.  Git is modelled by what the engine  *)
(* can tell: whether either side has commits that the other lacks, whether *)
(* a merge is unfinished, and which files carry conflict markers.          *)
(* HEAD is on a branch that has commits, and nobody else runs git here.    *)
(* There is a remote, but to ask git for it is an await that may fail.     *)
(* start() is one step.  What the cycles do to stores is in BatchGate.     *)
(***************************************************************************)
EXTENDS Naturals, FiniteSets

CONSTANTS
  File,        \* the content files
  Nothing,     \* no resolution is under way
  MaxMishaps   \* bound: failures, stops, aborted merges, switchings off

ASSUME SyncAssumption == MaxMishaps \in Nat /\ Nothing \notin File /\ IsFiniteSet(File)

Cycle == {"pull", "push"}

VARIABLES
  state,       \* SyncState, or "down": the process is not running
  enabled,     \* syncEnabled, which is also kept in the configuration
  armed,       \* the cycles whose timer is armed
  at,          \* what each cycle is awaiting
  retry,       \* retriesLeft > 0 in the push cycle
  conflicts,   \* the conflict store, on disk: conflicts.json
  count,       \* conflictCount
  saved,       \* inflightConflicts in sync-state.json
  saveTimer,   \* stateSaveTimer is armed
  disabling,   \* setEnabled(false) waits for the cycles in flight
  hasRemote,   \* hasRemote
  probes,      \* the calls of setEnabled(true) that await `git remote -v`
  refreshing,  \* some calls of refreshRemote await it
  resolving,   \* the file whose resolution is being committed
  dirty,       \* files that differ from HEAD
  marked,      \* files with conflict markers in them
  markedHead,  \* those whose version in HEAD has markers
  ahead,       \* HEAD has commits that the remote lacks
  fetched,     \* the remote has commits, already fetched, that HEAD lacks
  news,        \* the remote has commits not fetched yet
  merging,     \* MERGE_HEAD is there
  unmerged,    \* content files the index has as unmerged
  crossed,     \* history: one cycle began while the other was under way
  forgotten,   \* history: sync went on although the merge was unfinished
  late,        \* history: setEnabled(false) ended with cycles under way, or sync on again
  abandoned,   \* history: the user aborted a merge
  overtaken,   \* history: a probe ended with sync off again, or failed beside a cycle
  mishaps

loops   == <<state, enabled, armed, at, retry, disabling>>
remote  == <<hasRemote, probes, refreshing>>
store   == <<conflicts, count, saved, saveTimer, resolving>>
tree    == <<dirty, marked, markedHead, merging, unmerged>>
commits == <<ahead, fetched, news>>
past    == <<crossed, forgotten, late, abandoned, overtaken>>
syncVars == <<loops, remote, store, tree, commits, past, mishaps>>

SyncState == {"down", "dormant", "disabled", "idle", "fetching", "pulling", "pushing",
              "conflict", "offline", "auth-error"}
Await == {"off", "branch", "fetch", "status", "save", "check", "merge", "record", "add", "send"}

SyncTypeOK ==
  /\ state \in SyncState /\ enabled \in BOOLEAN /\ armed \subseteq Cycle
  /\ at \in [Cycle -> Await] /\ retry \in BOOLEAN
  /\ conflicts \subseteq File /\ count \in 0 .. Cardinality(File)
  /\ saved \subseteq File /\ saveTimer \in BOOLEAN
  /\ disabling \in BOOLEAN /\ resolving \in File \cup {Nothing}
  /\ dirty \subseteq File /\ marked \subseteq File /\ markedHead \subseteq File
  /\ unmerged \subseteq File
  /\ hasRemote \in BOOLEAN /\ probes \in 0 .. MaxMishaps + 1 /\ refreshing \in BOOLEAN
  /\ \A flag \in {ahead, fetched, news, merging, crossed, forgotten, late, abandoned,
                   overtaken} : flag \in BOOLEAN
  /\ mishaps \in 0 .. MaxMishaps

SyncInit ==
  /\ state = "down" /\ enabled \in BOOLEAN /\ armed = {}
  /\ at = [c \in Cycle |-> "off"] /\ retry = FALSE
  /\ conflicts = {} /\ count = 0 /\ saved = {} /\ saveTimer = FALSE
  /\ dirty = {} /\ marked = {} /\ markedHead = {} /\ merging = FALSE /\ unmerged = {}
  /\ ahead = FALSE /\ fetched = FALSE /\ news = FALSE
  /\ disabling = FALSE /\ resolving = Nothing
  /\ hasRemote = FALSE /\ probes = 0 /\ refreshing = FALSE
  /\ crossed = FALSE /\ forgotten = FALSE /\ late = FALSE /\ abandoned = FALSE
  /\ overtaken = FALSE
  /\ mishaps = 0

Running   == state # "down"
Off(c)    == at[c] = "off"
Other(c)  == CHOOSE d \in Cycle : d # c
Mishap    == mishaps < MaxMishaps /\ mishaps' = mishaps + 1

-----------------------------------------------------------------------------
(* What the cycles share.                                                  *)

Awaits(c, step) == at' = [at EXCEPT ![c] = step]

(* runPullCycle's and runPushCycle's finally: the next cycle is scheduled. *)
Over(c, left) == Awaits(c, "off") /\ armed' = left \cup {c}

(* Mutant of Fails: only a cycle that succeeds schedules the next.         *)
FailsQuietly(c, kind) ==
  /\ Mishap
  /\ state' = CASE kind = "auth" -> "auth-error"
                [] kind = "protected" -> "disabled"
                [] kind = "network" -> "offline"
                [] OTHER -> "idle"
  /\ enabled' = (enabled /\ kind # "protected")
  /\ Awaits(c, "off") /\ UNCHANGED armed

(* handleError, at the end of a cycle.                                     *)
Fails(c, kind) ==
  /\ Mishap
  /\ state' = CASE kind = "auth" -> "auth-error"
                [] kind = "protected" -> "disabled"
                [] kind = "network" -> "offline"
                [] OTHER -> "idle"
  /\ enabled' = (enabled /\ kind # "protected")
  /\ Over(c, IF kind = "dirty" THEN armed \cup {"push"} ELSE armed)

(* The push cycle ends with scheduleSaveState; a pull cycle only when it   *)
(* has nothing to complain about.                                          *)
SavesIf(due) == saveTimer' = (saveTimer \/ due)

(* A commit of every content file as it is; index entries are reset, the   *)
(* unmerged ones too.                                                      *)
CommitsAll ==
  /\ dirty' = {} /\ markedHead' = marked /\ ahead' = TRUE /\ unmerged' = {}
  /\ UNCHANGED <<marked, merging>>

(* git merge --abort *)
Aborts ==
  /\ merging' = FALSE /\ unmerged' = {}
  /\ marked' = marked \ unmerged /\ dirty' = dirty \ unmerged
  /\ UNCHANGED markedHead

-----------------------------------------------------------------------------
(* runPullCycle and runPushCycle: called by a timer or by trigger().       *)

Run(c, left) ==
  LET closed == IF c = "pull" THEN {"dormant", "disabled", "conflict"}
                ELSE {"dormant", "disabled", "conflict", "auth-error"}
      begins == Off(c) /\ state \notin closed
  IN /\ armed' = IF c = "pull" /\ Off(c) /\ state = "conflict" THEN left \cup {c} ELSE left
     /\ at' = IF begins THEN [at EXCEPT ![c] = IF c = "pull" THEN "branch" ELSE "add"] ELSE at
     /\ state' = IF begins /\ c = "push" THEN "pushing" ELSE state
     /\ retry' = (IF begins /\ c = "push" THEN TRUE ELSE retry)
     /\ crossed' = (crossed \/ (begins /\ ~Off(Other(c))))
     /\ UNCHANGED <<enabled, disabling, remote, store, tree, commits, forgotten, late, abandoned,
                    overtaken, mishaps>>

Fire(c) == Running /\ c \in armed /\ Run(c, armed \ {c})

Trigger(c) == Running /\ Run(c, armed)

-----------------------------------------------------------------------------
(* doPullCycle *)

PullBranch ==
  /\ at["pull"] = "branch"
  /\ state' = "fetching" /\ Awaits("pull", "fetch")
  /\ UNCHANGED <<remote, enabled, armed, retry, disabling, store, tree, commits, past, mishaps>>

(* The fetch of a pull, and that of a push that was rejected.              *)
Fetch(c) ==
  /\ at[c] = "fetch"
  /\ fetched' = (fetched \/ news) /\ news' = FALSE
  /\ Awaits(c, IF c = "pull" THEN "status" ELSE "save")
  /\ UNCHANGED <<remote, state, enabled, armed, retry, disabling, store, tree, ahead, past,
                 mishaps>>

(* A git command throws: the remote's answer to a fetch, or the index is   *)
(* locked, or something else.                                              *)
GitFails(c, kind) ==
  /\ at[c] \in (IF kind = "auth" THEN {"fetch"} ELSE {"branch", "fetch", "save", "merge"})
  /\ Fails(c, kind) /\ SavesIf(c = "push")
  /\ UNCHANGED <<remote, retry, disabling, conflicts, count, saved, resolving, tree, commits,
                 past>>

PullStatus ==
  /\ at["pull"] = "status"
  /\ IF fetched /\ count = 0
       THEN /\ state' = "pulling" /\ Awaits("pull", "save")
            /\ UNCHANGED <<armed, saveTimer>>
       ELSE state' = "idle" /\ Over("pull", armed) /\ SavesIf(TRUE)
  /\ UNCHANGED <<remote, enabled, retry, disabling, conflicts, count, saved, resolving, tree,
                 commits, past, mishaps>>

(* commitDirtyContentFilesToHead *)
Autosave(c) ==
  /\ at[c] = "save"
  /\ IF dirty # {} THEN CommitsAll ELSE UNCHANGED <<tree, ahead>>
  /\ Awaits(c, "check")
  /\ UNCHANGED <<remote, state, enabled, armed, retry, disabling, store, fetched, news, past,
                 mishaps>>

(* pauseIfNonContentDirty: other files may have been changed at any time.  *)
Check(c) ==
  /\ at[c] = "check"
  /\ \/ Awaits(c, "merge") /\ UNCHANGED <<state, armed, saveTimer>>
     \/ state' = "idle" /\ Over(c, armed) /\ SavesIf(TRUE)
  /\ UNCHANGED <<remote, enabled, retry, disabling, conflicts, count, saved, resolving, tree,
                 commits, past, mishaps>>

(* The pull is done; the push starts over, with no look at the state.      *)
Merged(c) ==
  IF c = "pull" THEN state' = "idle" /\ Over(c, armed) /\ SavesIf(TRUE) /\ UNCHANGED retry
  ELSE /\ state' = "pushing" /\ Awaits(c, "add") /\ retry' = FALSE
       /\ UNCHANGED <<armed, saveTimer>>

Merge(c) ==
  /\ at[c] = "merge" /\ ~merging
  /\ fetched' = FALSE
  /\ Merged(c)
  /\ UNCHANGED <<remote, enabled, disabling, conflicts, count, saved, resolving, tree, ahead,
                 news, past, mishaps>>

(* Both sides have commits.  A merge in which only files that are not      *)
(* content conflict is one with no unmerged content file.                  *)
MergeConflicts(c) ==
  /\ at[c] = "merge" /\ ~merging /\ fetched /\ ahead
  /\ merging' = TRUE
  /\ \E files \in SUBSET (File \ dirty) :
       /\ unmerged' = files /\ marked' = marked \cup files /\ dirty' = dirty \cup files
  /\ Awaits(c, "record")
  /\ UNCHANGED <<remote, state, enabled, armed, retry, disabling, store, markedHead, commits,
                 past, mishaps>>

(* An edit since the autosave is in the way, or a merge is unfinished:     *)
(* "please commit your changes".                                           *)
MergeRefused(c) ==
  /\ at[c] = "merge" /\ (merging \/ dirty # {})
  /\ Fails(c, "dirty") /\ SavesIf(c = "push")
  /\ UNCHANGED <<remote, retry, disabling, conflicts, count, saved, resolving, tree, commits,
                 past>>

-----------------------------------------------------------------------------
(* handleMergeConflict *)

(* Mutant of RecordConflict: the push timer is left armed and the state    *)
(* is left to the cycle.                                                   *)
RecordConflictOnly(c) ==
  /\ at[c] = "record" /\ unmerged # {}
  /\ conflicts' = conflicts \cup unmerged /\ count' = Cardinality(conflicts')
  /\ state' = "idle"
  /\ Over(c, armed) /\ SavesIf(c = "push")
  /\ UNCHANGED <<remote, enabled, retry, disabling, saved, resolving, tree, commits, past,
                 mishaps>>

RecordConflict(c) ==
  /\ at[c] = "record" /\ unmerged # {}
  /\ conflicts' = conflicts \cup unmerged /\ count' = Cardinality(conflicts')
  /\ state' = "conflict"
  /\ Over(c, {}) /\ SavesIf(c = "push")
  /\ UNCHANGED <<remote, enabled, retry, disabling, saved, resolving, tree, commits, past,
                 mishaps>>

(* Everything was resolved with "theirs", and the merge is committed.      *)
AutoResolve(c) ==
  /\ at[c] = "record" /\ unmerged = {} /\ merging
  /\ merging' = FALSE /\ fetched' = FALSE /\ ahead' = TRUE
  /\ state' = "idle" /\ Over(c, armed) /\ SavesIf(c = "push")
  /\ UNCHANGED <<remote, enabled, retry, disabling, conflicts, count, saved, resolving, dirty,
                 marked, markedHead, unmerged, news, past, mishaps>>

(* The unmerged files cannot be listed, or that commit fails, as it does   *)
(* when the user has aborted the merge: it is aborted, if it can be.       *)
RecordFails(c) ==
  /\ at[c] = "record"
  /\ \/ ~merging /\ unmerged = {} /\ UNCHANGED <<remote, tree, forgotten, mishaps>>
     \/ Mishap /\ Aborts /\ UNCHANGED forgotten
     \/ Mishap /\ forgotten' = TRUE /\ UNCHANGED tree
  /\ state' = "idle" /\ Over(c, armed) /\ SavesIf(c = "push")
  /\ UNCHANGED <<remote, enabled, retry, disabling, conflicts, count, saved, resolving, commits,
                 crossed, late, abandoned, overtaken>>

-----------------------------------------------------------------------------
(* doPushCycle *)

(* Under the parent lock: what is on disk is made a commit, if it differs. *)
(* Nothing is pushed only if HEAD is then what was fetched last.           *)
PushAdd ==
  /\ at["push"] = "add"
  /\ \/ /\ dirty # {} /\ CommitsAll
        /\ Awaits("push", "send") /\ UNCHANGED <<state, armed, saveTimer>>
     \/ /\ dirty = {} /\ (ahead \/ fetched)
        /\ Awaits("push", "send") /\ UNCHANGED <<state, armed, saveTimer, tree, ahead>>
     \/ /\ dirty = {} /\ ~ahead /\ ~fetched
        /\ state' = "idle" /\ Over("push", armed) /\ SavesIf(TRUE)
        /\ UNCHANGED <<tree, ahead>>
  /\ UNCHANGED <<remote, enabled, retry, disabling, conflicts, count, saved, resolving, fetched,
                 news, past, mishaps>>

(* The branch moved meanwhile, or the index is locked.                     *)
PushAddFails(kind) ==
  /\ at["push"] = "add"
  /\ Fails("push", kind) /\ SavesIf(TRUE)
  /\ UNCHANGED <<remote, retry, disabling, conflicts, count, saved, resolving, tree, commits,
                 past>>

(* Nobody else's commits are in the way: the remote takes this push.       *)
Acceptable == at["push"] = "send" /\ ~fetched /\ ~news

(* A push that the last cycle's dirty tree had asked for calls for a pull. *)
PushSend ==
  /\ Acceptable
  /\ ahead' = FALSE
  /\ state' = (IF state = "pushing" THEN "idle" ELSE state)
  /\ \E asked \in SUBSET {"pull"} : Over("push", armed \cup asked)
  /\ SavesIf(TRUE)
  /\ UNCHANGED <<remote, enabled, retry, disabling, conflicts, count, saved, resolving, tree,
                 fetched, news, past, mishaps>>

(* non-fast-forward: fetch, merge and try again, once.                     *)
PushRejected ==
  /\ at["push"] = "send" /\ (fetched \/ news)
  /\ \/ retry /\ Awaits("push", "fetch") /\ UNCHANGED <<state, armed, saveTimer>>
     \/ /\ ~retry
        /\ state' = (IF state = "pushing" THEN "idle" ELSE state)
        /\ Over("push", armed) /\ SavesIf(TRUE)
  /\ UNCHANGED <<remote, enabled, retry, disabling, conflicts, count, saved, resolving, tree,
                 commits, past, mishaps>>

PushFails(kind) ==
  /\ at["push"] = "send"
  /\ Fails("push", kind) /\ SavesIf(TRUE)
  /\ UNCHANGED <<remote, retry, disabling, conflicts, count, saved, resolving, tree, commits,
                 past>>

-----------------------------------------------------------------------------
(* resolveConflict, of the engine and of the conflict store.               *)

(* Mutants of Settle: the count is decremented, not taken anew.            *)
SettleCountsDown(rest) ==
  LET done == Cardinality(rest) = 0 /\ state = "conflict" IN
  /\ conflicts' = rest /\ count' = count - 1 /\ SavesIf(TRUE)
  /\ state' = (IF done THEN "idle" ELSE state)
  /\ armed' = IF done THEN Cycle ELSE armed

(* The loops are started, and the state is left as it was.                 *)
SettleQuietly(rest) ==
  /\ conflicts' = rest /\ count' = Cardinality(rest) /\ SavesIf(TRUE)
  /\ armed' = IF rest = {} /\ state = "conflict" THEN Cycle ELSE armed
  /\ UNCHANGED state

Settle(rest) ==
  LET done == Cardinality(rest) = 0 /\ state = "conflict" IN
  /\ conflicts' = rest /\ count' = Cardinality(rest) /\ SavesIf(TRUE)
  /\ state' = (IF done THEN "idle" ELSE state)
  /\ armed' = IF done THEN Cycle ELSE armed

(* The file is written or checked out, and added.  "mine" and "theirs"     *)
(* are there only for a file the index still has as unmerged.              *)
Resolve(f) ==
  /\ Running /\ resolving = Nothing /\ f \in conflicts
  /\ marked' = marked \ {f} /\ dirty' = dirty \cup {f} /\ unmerged' = unmerged \ {f}
  /\ IF conflicts = {f}
       THEN /\ conflicts' = {} /\ resolving' = f
            /\ UNCHANGED <<count, saveTimer, state, armed>>
       ELSE Settle(conflicts \ {f}) /\ UNCHANGED resolving
  /\ UNCHANGED <<remote, enabled, at, retry, disabling, saved, markedHead, merging, commits, past,
                 mishaps>>

(* git commit, when none is left; if it fails, as it does when the merge   *)
(* is gone, the unmerged files, or else this one, are conflicts again.     *)
ResolveCommit ==
  /\ Running /\ resolving # Nothing /\ resolving' = Nothing
  /\ \/ /\ unmerged = {} /\ merging
        /\ merging' = FALSE /\ dirty' = dirty \cap marked /\ markedHead' = markedHead \cap marked
        /\ fetched' = FALSE /\ ahead' = TRUE
        /\ Settle(conflicts) /\ UNCHANGED mishaps
     \/ /\ Mishap \/ (~merging /\ UNCHANGED mishaps)
        /\ Settle(conflicts \cup (IF unmerged = {} THEN {resolving} ELSE unmerged))
        /\ UNCHANGED <<dirty, markedHead, merging, fetched, ahead>>
  /\ UNCHANGED <<remote, enabled, at, retry, disabling, saved, marked, unmerged, news, past>>

(* abortMerge, at the user's word, whatever the engine is doing.  The      *)
(* conflicts are forgotten and no timer is armed.                          *)
AbortMerge ==
  /\ Running /\ Mishap
  /\ \/ merging /\ Aborts /\ UNCHANGED forgotten
     \/ forgotten' = (forgotten \/ merging) /\ UNCHANGED tree
  /\ conflicts' = {} /\ count' = 0 /\ SavesIf(TRUE)
  /\ state' = "idle" /\ abandoned' = TRUE
  /\ UNCHANGED <<enabled, armed, at, retry, disabling, remote, saved, resolving, commits,
                 crossed, late, overtaken>>

-----------------------------------------------------------------------------
(* setEnabled, when the configuration is changed.  The calls are not       *)
(* awaited: one may begin while others wait.                               *)

(* Mutant of Disable: the cycles in flight are not waited for.             *)
DisableAtOnce ==
  /\ Running /\ enabled /\ Mishap
  /\ enabled' = FALSE /\ armed' = {}
  /\ state' = (IF hasRemote THEN "disabled" ELSE "dormant") /\ saved' = conflicts
  /\ UNCHANGED <<at, retry, disabling, remote, conflicts, count, saveTimer, resolving, tree,
                 commits, past>>

Disable ==
  /\ Running /\ enabled /\ Mishap
  /\ enabled' = FALSE /\ armed' = {}
  /\ IF \A c \in Cycle : Off(c)
       THEN /\ state' = (IF hasRemote THEN "disabled" ELSE "dormant")
            /\ saved' = conflicts /\ UNCHANGED disabling
       ELSE disabling' = TRUE /\ UNCHANGED <<state, saved>>
  /\ UNCHANGED <<at, retry, remote, conflicts, count, saveTimer, resolving, tree, commits, past>>

(* The wait is over, because the cycles are or because 30 s are.           *)
Drained ==
  /\ Running /\ disabling /\ disabling' = FALSE
  /\ late' = (late \/ enabled \/ \E c \in Cycle : ~Off(c))
  /\ state' = (IF hasRemote THEN "disabled" ELSE "dormant") /\ saved' = conflicts
  /\ UNCHANGED <<enabled, armed, at, retry, remote, conflicts, count, saveTimer, resolving, tree,
                 commits, crossed, forgotten, abandoned, overtaken, mishaps>>

(* Sync is on from here, and nothing else has happened yet.                *)
Enable ==
  /\ Running /\ ~enabled
  /\ enabled' = TRUE /\ probes' = probes + 1
  /\ UNCHANGED <<state, armed, at, retry, disabling, hasRemote, refreshing, store, tree, commits,
                 past, mishaps>>

(* Both loops are started, whatever the conflicts, and whether or not sync *)
(* is still on.                                                            *)
Probed ==
  /\ probes > 0 /\ probes' = probes - 1
  /\ hasRemote' = TRUE
  /\ state' = "idle" /\ armed' = Cycle
  /\ forgotten' = (forgotten \/ merging)
  /\ overtaken' = (overtaken \/ ~enabled)
  /\ saved' = conflicts
  /\ UNCHANGED <<enabled, at, retry, disabling, refreshing, conflicts, count, saveTimer,
                 resolving, tree, commits, crossed, late, abandoned, mishaps>>

(* `git remote -v` throws, or there is no remote yet.                      *)
ProbeFails ==
  /\ probes > 0 /\ probes' = probes - 1 /\ Mishap
  /\ hasRemote' = FALSE
  /\ state' = "dormant"
  /\ overtaken' = (overtaken \/ \E c \in Cycle : ~Off(c))
  /\ saved' = conflicts
  /\ UNCHANGED <<enabled, armed, at, retry, disabling, refreshing, conflicts, count, saveTimer,
                 resolving, tree, commits, crossed, forgotten, late, abandoned>>

-----------------------------------------------------------------------------
(* refreshRemote, whenever a client asks for the status; any number of     *)
(* such requests may overlap.                                              *)

RefreshRemote ==
  /\ Running /\ ~hasRemote /\ ~refreshing /\ refreshing' = TRUE
  /\ UNCHANGED <<loops, hasRemote, probes, store, tree, commits, past, mishaps>>

(* The remote is there, and sync goes on if it is on by now.               *)
Refreshed ==
  /\ refreshing /\ refreshing' \in BOOLEAN
  /\ hasRemote' = TRUE
  /\ IF enabled
       THEN state' = "idle" /\ armed' = Cycle /\ forgotten' = (forgotten \/ merging)
       ELSE state' = "disabled" /\ UNCHANGED <<armed, forgotten>>
  /\ UNCHANGED <<enabled, at, retry, disabling, probes, store, tree, commits, crossed,
                 late, abandoned, overtaken, mishaps>>

RefreshFails ==
  /\ refreshing /\ refreshing' = FALSE
  /\ UNCHANGED <<loops, hasRemote, probes, store, tree, commits, past, mishaps>>

-----------------------------------------------------------------------------
(* The state is saved, 5 s after somebody asked for it.                    *)

SaveState ==
  /\ Running /\ saveTimer /\ saveTimer' = FALSE /\ saved' = conflicts
  /\ UNCHANGED <<loops, remote, conflicts, count, resolving, tree, commits, past, mishaps>>

-----------------------------------------------------------------------------
(* The process is stopped, which saves the state, or is killed.            *)
StopEngine ==
  /\ Running /\ Mishap
  /\ saved' \in {saved, conflicts}
  /\ state' = "down" /\ armed' = {} /\ at' = [c \in Cycle |-> "off"] /\ retry' = FALSE
  /\ disabling' = FALSE /\ resolving' = Nothing /\ saveTimer' = FALSE /\ count' = 0
  /\ hasRemote' = FALSE /\ probes' = 0 /\ refreshing' = FALSE
  /\ UNCHANGED <<enabled, conflicts, tree, commits, past>>

(* loadState: the conflicts known to sync-state.json are conflicts again,  *)
(* and those of conflicts.json are counted only if there are any.          *)
Loaded == conflicts \cup saved
Listed == IF saved = {} THEN {} ELSE Loaded

(* What all ends of start() have in common.                                *)
Starts(found) ==
  /\ state = "down" /\ hasRemote' = found
  /\ UNCHANGED <<enabled, at, retry, saved, saveTimer, disabling, probes, refreshing,
                 resolving, commits, crossed, late, abandoned, overtaken>>

(* Sync is off, or no remote is found: conflicts and merge are left alone. *)
StartInactive(found) ==
  /\ Starts(found)
  /\ state' = (IF found THEN "disabled" ELSE "dormant")
  /\ conflicts' = Loaded /\ count' = Cardinality(Listed)
  /\ UNCHANGED <<armed, tree, forgotten>>

(* Sync is on, and these conflicts are taken for conflicts still.          *)
StartActive(rest) ==
  /\ enabled /\ Starts(TRUE)
  /\ conflicts' = (IF Listed = {} THEN Loaded ELSE rest) /\ count' = Cardinality(rest)
  /\ IF rest = {} THEN state' = "idle" /\ armed' = Cycle
     ELSE state' = "conflict" /\ UNCHANGED armed

(* start().  Conflicts that the index does not have, or no merge has, are  *)
(* dropped, and a merge left without any is aborted.  A git command that   *)
(* throws is passed over: `git remote -v` means there is no remote, the    *)
(* diff keeps every conflict, the abort leaves the merge unfinished (the   *)
(* last two need no bound: there is a merge only after a stop).            *)
StartEngine ==
  LET rest == IF merging THEN Listed \cap unmerged ELSE {} IN
  \/ ~enabled /\ StartInactive(TRUE) /\ UNCHANGED mishaps
  \/ StartInactive(FALSE) /\ Mishap
  \/ merging /\ Listed # {} /\ StartActive(Listed) /\ UNCHANGED <<tree, forgotten, mishaps>>
  \/ /\ StartActive(rest)
     /\ \/ merging /\ rest = {} /\ Aborts /\ UNCHANGED <<forgotten, mishaps>>
        \/ merging /\ rest = {} /\ forgotten' = TRUE /\ UNCHANGED <<tree, mishaps>>
        \/ (~merging \/ rest # {}) /\ UNCHANGED <<tree, forgotten, mishaps>>

-----------------------------------------------------------------------------
(* A document is stored, and somebody pushes.                              *)

Edit(f) ==
  /\ f \notin dirty /\ dirty' = dirty \cup {f}
  /\ UNCHANGED <<loops, remote, store, marked, markedHead, merging, unmerged, commits, past,
                 mishaps>>

RemoteMoves ==
  /\ ~news /\ news' = TRUE
  /\ UNCHANGED <<loops, remote, store, tree, ahead, fetched, past, mishaps>>

SyncNext ==
  \/ PullBranch \/ PullStatus \/ PushAdd \/ PushSend \/ PushRejected
  \/ ResolveCommit \/ AbortMerge \/ SaveState
  \/ Disable \/ Drained \/ Enable \/ Probed \/ ProbeFails
  \/ RefreshRemote \/ Refreshed \/ RefreshFails
  \/ StartEngine \/ StopEngine \/ RemoteMoves
  \/ \E c \in Cycle :
       \/ Fire(c) \/ Trigger(c) \/ Fetch(c) \/ Autosave(c) \/ Check(c)
       \/ Merge(c) \/ MergeConflicts(c) \/ MergeRefused(c)
       \/ RecordConflict(c) \/ AutoResolve(c) \/ RecordFails(c)
       \/ \E kind \in {"network", "auth", "other"} : GitFails(c, kind)
  \/ \E kind \in {"network", "other"} : PushAddFails(kind)
  \/ \E kind \in {"network", "auth", "protected", "other"} : PushFails(kind)
  \/ \E f \in File : Resolve(f) \/ Edit(f)

SyncSpec == SyncInit /\ [][SyncNext]_syncVars

-----------------------------------------------------------------------------
(* No push that the remote would take has conflict markers in what it      *)
(* sends, unless a pull and a push overlapped, or sync went on although a  *)
(* merge was unfinished.                                                   *)
MarkersStayHome == Acceptable => markedHead = {} \/ crossed \/ forgotten

(* The same with no exception, as the documentation has it.                *)
SyncPausesOnConflict == Acceptable => markedHead = {}

(* The pull loop never dies: while sync is on, and not paused on           *)
(* conflicts, its timer is armed, or a cycle or the probe of a switching   *)
(* on is under way that will arm it; unless a probe failed and no status   *)
(* request has looked for the remote since, sync was switched on again     *)
(* before a switching off was through, a probe was overtaken, or the user  *)
(* aborted a merge, which stops what the conflict stopped.                 *)
PullLoopLives ==
  enabled => \/ late \/ overtaken \/ abandoned \/ state \in {"down", "conflict"}
             \/ "pull" \in armed \/ ~Off("pull") \/ probes > 0
             \/ state = "dormant" /\ ~hasRemote

(* In the conflict state there is a conflict to resolve, or one being      *)
(* resolved: a user can always get out of it.                              *)
ConflictsCanBeResolved == state = "conflict" => conflicts # {} \/ resolving # Nothing

(* Switched off, the engine is quiet, and it says what it is: disabled, or *)
(* dormant when no remote was found.  Unless it gave up waiting for a      *)
(* cycle, the cycles overlapped, a merge was aborted, or a probe that      *)
(* sync was switched off during ended with both loops started.             *)
OffIsQuiet ==
  (~enabled /\ ~disabling /\ Running) =>
     \/ late \/ crossed \/ abandoned \/ overtaken
     \/ /\ state = (IF hasRemote THEN "disabled" ELSE "dormant")
        /\ \A c \in Cycle : Off(c)
=============================================================================
