-------------------------- MODULE SyncEngineProofs --------------------------
(***************************************************************************)
(* Theorems about SyncEngine, for any finite set of files and any number   *)
(* of mishaps.                                                             *)
(***************************************************************************)
EXTENDS SyncEngine, FiniteSetTheorems, TLAPS

USE SyncAssumption

(* SyncTypeOK, with a conjunct for each flag.                              *)
Typed ==
  /\ state \in SyncState /\ armed \subseteq Cycle /\ at \in [Cycle -> Await]
  /\ conflicts \subseteq File /\ count \in 0 .. Cardinality(File)
  /\ saved \subseteq File /\ resolving \in File \cup {Nothing}
  /\ dirty \subseteq File /\ marked \subseteq File /\ markedHead \subseteq File
  /\ unmerged \subseteq File
  /\ mishaps \in 0 .. MaxMishaps
Flags ==
  /\ enabled \in BOOLEAN /\ retry \in BOOLEAN /\ saveTimer \in BOOLEAN
  /\ disabling \in BOOLEAN
  /\ ahead \in BOOLEAN /\ fetched \in BOOLEAN /\ news \in BOOLEAN /\ merging \in BOOLEAN
  /\ crossed \in BOOLEAN /\ forgotten \in BOOLEAN /\ late \in BOOLEAN
  /\ abandoned \in BOOLEAN
RemoteFlags == overtaken \in BOOLEAN /\ hasRemote \in BOOLEAN /\ refreshing \in BOOLEAN

(* Sync was switched off before every probe but the first.                 *)
ProbesCounted ==
  /\ probes \in Nat /\ probes <= mishaps + 1
  /\ ~enabled => probes <= mishaps

AllOff == \A c \in Cycle : Off(c)

(* Nothing runs in a process that does not, and sync that is on is not     *)
(* "disabled", unless it was switched on before it was off, or its remote  *)
(* is still asked for.                                                     *)
ProcessAgrees ==
  /\ state = "down" => AllOff /\ probes = 0 /\ refreshing = FALSE
  /\ enabled => late \/ overtaken \/ probes > 0 \/ state # "disabled"

(* An engine that knows its remote is awake; one that knows none sleeps.   *)
RemoteKnown ==
  /\ hasRemote => state \notin {"down", "dormant"}
  /\ ~hasRemote => overtaken \/ abandoned \/ (state \in {"down", "dormant"} /\ AllOff)

(* The pull loop stands still only when a conflict was met by a push or    *)
(* the engine sleeps, and then no push is under way whose end could take   *)
(* that state away.                                                        *)
PullComesBack ==
  enabled /\ ~late /\ ~overtaken /\ ~abandoned /\ probes = 0 /\ Off("pull") /\ "pull" \notin armed
    => state \in {"down", "dormant", "conflict"} /\ AllOff

OneAtATime == crossed \/ Off("pull") \/ Off("push")

(* While a merge is unfinished nothing is committed: no cycle is under     *)
(* way and none can begin, or only the one that is to record the conflict. *)
Paused ==
  \/ state \in {"conflict", "disabled", "dormant", "down"} /\ AllOff
  \/ at["pull"] = "record" /\ Off("push")
  \/ at["push"] = "record" /\ Off("pull")

MarkersContained ==
  crossed \/ forgotten \/
    /\ markedHead = {} /\ marked \subseteq unmerged
    /\ unmerged # {} => merging
    /\ merging => Paused

SyncInv ==
  /\ Typed /\ Flags /\ ProcessAgrees /\ PullComesBack /\ ConflictsCanBeResolved /\ OffIsQuiet
  /\ OneAtATime /\ MarkersContained /\ ProbesCounted /\ RemoteKnown
  /\ RemoteFlags

-----------------------------------------------------------------------------
LEMMA TypedIsType == Typed /\ Flags /\ RemoteFlags /\ ProbesCounted => SyncTypeOK
<1> SUFFICES ASSUME Typed, Flags, RemoteFlags, ProbesCounted PROVE SyncTypeOK
  OBVIOUS
<1>1. probes \in 0 .. MaxMishaps + 1
  BY DEF Typed, ProbesCounted
<1> QED BY <1>1, Zenon DEF Typed, Flags, RemoteFlags, SyncTypeOK

LEMMA OtherCycle == Other("pull") = "push" /\ Other("push") = "pull"
  BY DEF Other, Cycle

LEMMA Sizes == Cardinality(File) \in Nat
  BY FS_CardinalityType

LEMMA Counts == ASSUME NEW S, S \subseteq File
  PROVE  Cardinality(S) \in 0 .. Cardinality(File) /\ (Cardinality(S) = 0 <=> S = {})
<1>1. IsFiniteSet(S) /\ Cardinality(S) <= Cardinality(File)
  BY FS_Subset
<1>2. Cardinality(S) \in Nat /\ Cardinality(File) \in Nat
  BY <1>1, FS_CardinalityType
<1>3. Cardinality(S) = 0 <=> S = {}
  BY <1>1, FS_EmptySet
<1> QED BY <1>1, <1>2, <1>3

-----------------------------------------------------------------------------
(* One lemma for each action, and in it one step for each conjunct of the  *)
(* invariant.  What the actions are written with is expanded throughout.   *)
USE DEF Cycle, Off, AllOff, Running, Over, Awaits, SavesIf, Mishap,
        loops, remote, store, tree, commits, past

LEMMA PullBranchInv ==
  ASSUME SyncInv, PullBranch
  PROVE  SyncInv'
<1> USE DEF SyncInv, PullBranch
<1>1. Typed'
  BY DEF Typed, SyncState, Await
<1>2. Flags'
  BY DEF Flags
<1>3. ProcessAgrees'
  BY DEF Typed, ProcessAgrees
<1>4. PullComesBack'
  BY DEF Typed, ProcessAgrees, RemoteKnown, PullComesBack
<1>5. ConflictsCanBeResolved'
  BY DEF Typed, ConflictsCanBeResolved
<1>6. OffIsQuiet'
  BY DEF Typed, ProcessAgrees, RemoteKnown, OneAtATime, OffIsQuiet
<1>7. OneAtATime'
  BY DEF Typed, OneAtATime
<1>8. MarkersContained'
  BY DEF Typed, OneAtATime, Paused, ProcessAgrees, MarkersContained
<1>9. ProbesCounted'
  BY DEF Typed, Flags, ProbesCounted
<1>10. RemoteKnown'
  BY DEF Typed, ProcessAgrees, RemoteKnown
<1>11. RemoteFlags'
  BY DEF RemoteFlags, Flags
<1> QED BY <1>1, <1>2, <1>3, <1>4, <1>5, <1>6, <1>7, <1>8, <1>9, <1>10, <1>11

LEMMA PullStatusInv ==
  ASSUME SyncInv, PullStatus
  PROVE  SyncInv'
<1> USE DEF SyncInv, PullStatus
<1>1. Typed'
  BY DEF Typed, SyncState, Await
<1>2. Flags'
  BY DEF Flags
<1>3. ProcessAgrees'
  BY DEF Typed, ProcessAgrees
<1>4. PullComesBack'
  BY DEF Typed, ProcessAgrees, RemoteKnown, PullComesBack
<1>5. ConflictsCanBeResolved'
  BY DEF Typed, ConflictsCanBeResolved
<1>6. OffIsQuiet'
  BY DEF Typed, ProcessAgrees, RemoteKnown, OneAtATime, OffIsQuiet
<1>7. OneAtATime'
  BY DEF Typed, OneAtATime
<1>8. MarkersContained'
  BY DEF Typed, OneAtATime, Paused, ProcessAgrees, MarkersContained
<1>9. ProbesCounted'
  BY DEF Typed, Flags, ProbesCounted
<1>10. RemoteKnown'
  BY DEF Typed, ProcessAgrees, RemoteKnown
<1>11. RemoteFlags'
  BY DEF RemoteFlags, Flags
<1> QED BY <1>1, <1>2, <1>3, <1>4, <1>5, <1>6, <1>7, <1>8, <1>9, <1>10, <1>11

LEMMA PushAddInv ==
  ASSUME SyncInv, PushAdd
  PROVE  SyncInv'
<1> USE DEF SyncInv, PushAdd, CommitsAll
<1>1. Typed'
  BY DEF Typed, SyncState, Await
<1>2. Flags'
  BY DEF Flags
<1>3. ProcessAgrees'
  BY DEF Typed, ProcessAgrees
<1>4. PullComesBack'
  BY DEF Typed, ProcessAgrees, RemoteKnown, PullComesBack
<1>5. ConflictsCanBeResolved'
  BY DEF Typed, ConflictsCanBeResolved
<1>6. OffIsQuiet'
  BY DEF Typed, ProcessAgrees, RemoteKnown, OneAtATime, OffIsQuiet
<1>7. OneAtATime'
  BY DEF Typed, OneAtATime
<1>8. MarkersContained'
  BY DEF Typed, OneAtATime, Paused, ProcessAgrees, MarkersContained
<1>9. ProbesCounted'
  BY DEF Typed, Flags, ProbesCounted
<1>10. RemoteKnown'
  BY DEF Typed, ProcessAgrees, RemoteKnown
<1>11. RemoteFlags'
  BY DEF RemoteFlags, Flags
<1> QED BY <1>1, <1>2, <1>3, <1>4, <1>5, <1>6, <1>7, <1>8, <1>9, <1>10, <1>11

LEMMA PushSendInv ==
  ASSUME SyncInv, PushSend
  PROVE  SyncInv'
<1> USE DEF SyncInv, PushSend, Acceptable
<1>1. Typed'
  BY DEF Typed, SyncState, Await
<1>2. Flags'
  BY DEF Flags
<1>3. ProcessAgrees'
  BY DEF Typed, ProcessAgrees
<1>4. PullComesBack'
  BY DEF Typed, ProcessAgrees, RemoteKnown, PullComesBack
<1>5. ConflictsCanBeResolved'
  BY DEF Typed, ConflictsCanBeResolved
<1>6. OffIsQuiet'
  BY DEF Typed, ProcessAgrees, RemoteKnown, OneAtATime, OffIsQuiet
<1>7. OneAtATime'
  BY DEF Typed, OneAtATime
<1>8. MarkersContained'
  BY DEF Typed, OneAtATime, Paused, ProcessAgrees, MarkersContained
<1>9. ProbesCounted'
  BY DEF Typed, Flags, ProbesCounted
<1>10. RemoteKnown'
  BY DEF Typed, ProcessAgrees, RemoteKnown
<1>11. RemoteFlags'
  BY DEF RemoteFlags, Flags
<1> QED BY <1>1, <1>2, <1>3, <1>4, <1>5, <1>6, <1>7, <1>8, <1>9, <1>10, <1>11

LEMMA PushRejectedInv ==
  ASSUME SyncInv, PushRejected
  PROVE  SyncInv'
<1> USE DEF SyncInv, PushRejected
<1>1. Typed'
  BY DEF Typed, SyncState, Await
<1>2. Flags'
  BY DEF Flags
<1>3. ProcessAgrees'
  BY DEF Typed, ProcessAgrees
<1>4. PullComesBack'
  BY DEF Typed, ProcessAgrees, RemoteKnown, PullComesBack
<1>5. ConflictsCanBeResolved'
  BY DEF Typed, ConflictsCanBeResolved
<1>6. OffIsQuiet'
  BY DEF Typed, ProcessAgrees, RemoteKnown, OneAtATime, OffIsQuiet
<1>7. OneAtATime'
  BY DEF Typed, OneAtATime
<1>8. MarkersContained'
  BY DEF Typed, OneAtATime, Paused, ProcessAgrees, MarkersContained
<1>9. ProbesCounted'
  BY DEF Typed, Flags, ProbesCounted
<1>10. RemoteKnown'
  BY DEF Typed, ProcessAgrees, RemoteKnown
<1>11. RemoteFlags'
  BY DEF RemoteFlags, Flags
<1> QED BY <1>1, <1>2, <1>3, <1>4, <1>5, <1>6, <1>7, <1>8, <1>9, <1>10, <1>11

LEMMA ResolveCommitInv ==
  ASSUME SyncInv, ResolveCommit
  PROVE  SyncInv'
<1> USE DEF SyncInv, ResolveCommit, Settle
<1> DEFINE again == conflicts \cup (IF unmerged = {} THEN {resolving} ELSE unmerged)
<1>0. /\ again \subseteq File /\ again # {} /\ Cardinality(again) \in 0 .. Cardinality(File)
      /\ Cardinality(again) # 0
      /\ Cardinality(conflicts) \in 0 .. Cardinality(File)
      /\ conflicts = {} => Cardinality(conflicts) = 0
  <2>1. again \subseteq File /\ again # {} /\ conflicts \subseteq File
    BY DEF Typed
  <2> QED BY <2>1, Counts
<1>1. Typed'
  <2>1. conflicts' \in {conflicts, again} /\ count' = Cardinality(conflicts')
    OBVIOUS
  <2>2. conflicts' \subseteq File /\ count' \in 0 .. Cardinality(File)
    BY <1>0, <2>1 DEF Typed
  <2>3. state' \in {state, "idle"} /\ armed' \in {armed, Cycle}
        /\ mishaps' \in {mishaps, mishaps + 1} /\ (mishaps' = mishaps \/ mishaps < MaxMishaps)
    OBVIOUS
  <2>4. resolving' \in File \cup {Nothing} /\ dirty' \subseteq File /\ markedHead' \subseteq File
    BY DEF Typed
  <2>5. UNCHANGED <<at, saved, marked, unmerged>>
    OBVIOUS
  <2> QED BY ONLY Typed, SyncAssumption, <2>2, <2>3, <2>4, <2>5 DEF Typed, SyncState
<1>2. Flags'
  BY DEF Flags
<1>3. ProcessAgrees'
  BY DEF Typed, ProcessAgrees
<1>4. PullComesBack'
  BY DEF Typed, ProcessAgrees, RemoteKnown, PullComesBack
<1>5. ConflictsCanBeResolved'
  BY <1>0 DEF Typed, ConflictsCanBeResolved
<1>6. OffIsQuiet'
  BY DEF Typed, ProcessAgrees, RemoteKnown, OneAtATime, OffIsQuiet
<1>7. OneAtATime'
  BY DEF Typed, OneAtATime
<1>8. MarkersContained'
  BY <1>0 DEF Typed, OneAtATime, Paused, ProcessAgrees, MarkersContained
<1>9. ProbesCounted'
  BY DEF Typed, Flags, ProbesCounted
<1>10. RemoteKnown'
  BY DEF Typed, ProcessAgrees, RemoteKnown
<1>11. RemoteFlags'
  BY DEF RemoteFlags, Flags
<1> QED BY <1>1, <1>2, <1>3, <1>4, <1>5, <1>6, <1>7, <1>8, <1>9, <1>10, <1>11

LEMMA AbortMergeInv ==
  ASSUME SyncInv, AbortMerge
  PROVE  SyncInv'
<1> USE DEF SyncInv, AbortMerge, Aborts
<1>1. Typed'
  BY Sizes DEF Typed, SyncState, Await
<1>2. Flags'
  BY DEF Flags
<1>3. ProcessAgrees'
  BY DEF Typed, ProcessAgrees
<1>4. PullComesBack'
  BY DEF Typed, ProcessAgrees, RemoteKnown, PullComesBack
<1>5. ConflictsCanBeResolved'
  BY DEF Typed, ConflictsCanBeResolved
<1>6. OffIsQuiet'
  BY DEF Typed, ProcessAgrees, RemoteKnown, OneAtATime, OffIsQuiet
<1>7. OneAtATime'
  BY DEF Typed, OneAtATime
<1>8. MarkersContained'
  <2>1. CASE merging /\ Aborts /\ ~(crossed \/ forgotten)
    <3>1. marked' = {} /\ unmerged' = {} /\ merging' = FALSE
      BY <2>1 DEF MarkersContained
    <3>2. markedHead' = {}
      BY <2>1 DEF MarkersContained
    <3> QED BY <3>1, <3>2 DEF MarkersContained
  <2>2. CASE ~merging /\ UNCHANGED tree /\ ~(crossed \/ forgotten)
    BY <2>2 DEF MarkersContained
  <2>3. CASE crossed \/ forgotten
    BY <2>3 DEF Flags, MarkersContained
  <2>4. CASE forgotten' = (forgotten \/ merging) /\ merging
    BY <2>4 DEF MarkersContained
  <2> QED BY <2>1, <2>2, <2>3, <2>4
<1>9. ProbesCounted'
  BY DEF Typed, Flags, ProbesCounted
<1>10. RemoteKnown'
  BY DEF Typed, ProcessAgrees, RemoteKnown
<1>11. RemoteFlags'
  BY DEF RemoteFlags, Flags
<1> QED BY <1>1, <1>2, <1>3, <1>4, <1>5, <1>6, <1>7, <1>8, <1>9, <1>10, <1>11

LEMMA DisableInv ==
  ASSUME SyncInv, Disable
  PROVE  SyncInv'
<1> USE DEF SyncInv, Disable
<1>1. Typed'
  BY DEF Typed, SyncState, Await
<1>2. Flags'
  BY DEF Flags
<1>3. ProcessAgrees'
  BY DEF Typed, ProcessAgrees
<1>4. PullComesBack'
  BY DEF Typed, ProcessAgrees, RemoteKnown, PullComesBack
<1>5. ConflictsCanBeResolved'
  BY DEF Typed, ConflictsCanBeResolved
<1>6. OffIsQuiet'
  BY DEF Typed, ProcessAgrees, RemoteKnown, OneAtATime, OffIsQuiet
<1>7. OneAtATime'
  BY DEF Typed, OneAtATime
<1>8. MarkersContained'
  BY DEF Typed, OneAtATime, Paused, ProcessAgrees, MarkersContained
<1>9. ProbesCounted'
  BY DEF Typed, Flags, ProbesCounted
<1>10. RemoteKnown'
  BY DEF Typed, ProcessAgrees, RemoteKnown
<1>11. RemoteFlags'
  BY DEF RemoteFlags, Flags
<1> QED BY <1>1, <1>2, <1>3, <1>4, <1>5, <1>6, <1>7, <1>8, <1>9, <1>10, <1>11

LEMMA DrainedInv ==
  ASSUME SyncInv, Drained
  PROVE  SyncInv'
<1> USE DEF SyncInv, Drained
<1>1. Typed'
  BY DEF Typed, SyncState, Await
<1>2. Flags'
  BY DEF Flags
<1>3. ProcessAgrees'
  BY DEF Typed, ProcessAgrees
<1>4. PullComesBack'
  BY DEF Typed, ProcessAgrees, RemoteKnown, PullComesBack
<1>5. ConflictsCanBeResolved'
  BY DEF Typed, ConflictsCanBeResolved
<1>6. OffIsQuiet'
  BY DEF Typed, ProcessAgrees, RemoteKnown, OneAtATime, OffIsQuiet
<1>7. OneAtATime'
  BY DEF Typed, OneAtATime
<1>8. MarkersContained'
  BY DEF Typed, OneAtATime, Paused, ProcessAgrees, MarkersContained
<1>9. ProbesCounted'
  BY DEF Typed, Flags, ProbesCounted
<1>10. RemoteKnown'
  BY DEF Typed, ProcessAgrees, RemoteKnown
<1>11. RemoteFlags'
  BY DEF RemoteFlags, Flags
<1> QED BY <1>1, <1>2, <1>3, <1>4, <1>5, <1>6, <1>7, <1>8, <1>9, <1>10, <1>11

LEMMA EnableInv ==
  ASSUME SyncInv, Enable
  PROVE  SyncInv'
<1> USE DEF SyncInv, Enable
<1>1. Typed'
  BY DEF Typed, SyncState, Await
<1>2. Flags'
  BY DEF Flags
<1>3. ProcessAgrees'
  BY DEF Typed, ProbesCounted, ProcessAgrees
<1>4. PullComesBack'
  BY DEF Typed, ProcessAgrees, RemoteKnown, ProbesCounted, PullComesBack
<1>5. ConflictsCanBeResolved'
  BY DEF Typed, ConflictsCanBeResolved
<1>6. OffIsQuiet'
  BY DEF Typed, ProcessAgrees, RemoteKnown, OneAtATime, OffIsQuiet
<1>7. OneAtATime'
  BY DEF Typed, OneAtATime
<1>8. MarkersContained'
  BY DEF Typed, OneAtATime, Paused, ProcessAgrees, MarkersContained
<1>9. ProbesCounted'
  BY DEF Typed, Flags, ProbesCounted
<1>10. RemoteKnown'
  BY DEF Typed, ProcessAgrees, RemoteKnown
<1>11. RemoteFlags'
  BY DEF RemoteFlags, Flags
<1> QED BY <1>1, <1>2, <1>3, <1>4, <1>5, <1>6, <1>7, <1>8, <1>9, <1>10, <1>11

LEMMA ProbedInv ==
  ASSUME SyncInv, Probed
  PROVE  SyncInv'
<1> USE DEF SyncInv, Probed
<1>1. Typed'
  BY DEF Typed, SyncState, Await
<1>2. Flags'
  BY DEF Flags
<1>3. ProcessAgrees'
  BY DEF Typed, ProcessAgrees
<1>4. PullComesBack'
  BY DEF Typed, ProcessAgrees, RemoteKnown, PullComesBack
<1>5. ConflictsCanBeResolved'
  BY DEF Typed, ConflictsCanBeResolved
<1>6. OffIsQuiet'
  BY DEF Typed, ProcessAgrees, RemoteKnown, OneAtATime, OffIsQuiet
<1>7. OneAtATime'
  BY DEF Typed, OneAtATime
<1>8. MarkersContained'
  BY DEF Typed, OneAtATime, Paused, ProcessAgrees, MarkersContained
<1>9. ProbesCounted'
  BY DEF Typed, Flags, ProbesCounted
<1>10. RemoteKnown'
  BY DEF Typed, ProcessAgrees, RemoteKnown
<1>11. RemoteFlags'
  BY DEF RemoteFlags, Flags
<1> QED BY <1>1, <1>2, <1>3, <1>4, <1>5, <1>6, <1>7, <1>8, <1>9, <1>10, <1>11

LEMMA ProbeFailsInv ==
  ASSUME SyncInv, ProbeFails
  PROVE  SyncInv'
<1> USE DEF SyncInv, ProbeFails
<1>1. Typed'
  BY DEF Typed, SyncState, Await
<1>2. Flags'
  BY DEF Flags
<1>3. ProcessAgrees'
  BY DEF Typed, ProcessAgrees
<1>4. PullComesBack'
  BY DEF Typed, ProcessAgrees, RemoteKnown, PullComesBack
<1>5. ConflictsCanBeResolved'
  BY DEF Typed, ConflictsCanBeResolved
<1>6. OffIsQuiet'
  BY DEF Typed, ProcessAgrees, RemoteKnown, OneAtATime, OffIsQuiet
<1>7. OneAtATime'
  BY DEF Typed, OneAtATime
<1>8. MarkersContained'
  BY DEF Typed, OneAtATime, Paused, ProcessAgrees, MarkersContained
<1>9. ProbesCounted'
  BY DEF Typed, Flags, ProbesCounted
<1>10. RemoteKnown'
  BY DEF Typed, ProcessAgrees, RemoteKnown
<1>11. RemoteFlags'
  BY DEF RemoteFlags, Flags
<1> QED BY <1>1, <1>2, <1>3, <1>4, <1>5, <1>6, <1>7, <1>8, <1>9, <1>10, <1>11

LEMMA RefreshRemoteInv ==
  ASSUME SyncInv, RefreshRemote
  PROVE  SyncInv'
<1> USE DEF SyncInv, RefreshRemote
<1>1. Typed'
  BY DEF Typed, SyncState, Await
<1>2. Flags'
  BY DEF Flags
<1>3. ProcessAgrees'
  BY DEF Typed, ProcessAgrees
<1>4. PullComesBack'
  BY DEF Typed, ProcessAgrees, RemoteKnown, PullComesBack
<1>5. ConflictsCanBeResolved'
  BY DEF Typed, ConflictsCanBeResolved
<1>6. OffIsQuiet'
  BY DEF Typed, ProcessAgrees, RemoteKnown, OneAtATime, OffIsQuiet
<1>7. OneAtATime'
  BY DEF Typed, OneAtATime
<1>8. MarkersContained'
  BY DEF Typed, OneAtATime, Paused, ProcessAgrees, MarkersContained
<1>9. ProbesCounted'
  BY DEF Typed, Flags, ProbesCounted
<1>10. RemoteKnown'
  BY DEF Typed, ProcessAgrees, RemoteKnown
<1>11. RemoteFlags'
  BY DEF RemoteFlags, Flags
<1> QED BY <1>1, <1>2, <1>3, <1>4, <1>5, <1>6, <1>7, <1>8, <1>9, <1>10, <1>11

LEMMA RefreshedInv ==
  ASSUME SyncInv, Refreshed
  PROVE  SyncInv'
<1> USE DEF SyncInv, Refreshed
<1>1. Typed'
  BY DEF Typed, SyncState, Await
<1>2. Flags'
  BY DEF Flags
<1>3. ProcessAgrees'
  BY DEF Typed, ProcessAgrees
<1>4. PullComesBack'
  BY DEF Typed, ProcessAgrees, RemoteKnown, PullComesBack
<1>5. ConflictsCanBeResolved'
  BY DEF Typed, ConflictsCanBeResolved
<1>6. OffIsQuiet'
  BY DEF Typed, ProcessAgrees, RemoteKnown, OneAtATime, OffIsQuiet
<1>7. OneAtATime'
  BY DEF Typed, OneAtATime
<1>8. MarkersContained'
  BY DEF Typed, OneAtATime, Paused, ProcessAgrees, MarkersContained
<1>9. ProbesCounted'
  BY DEF Typed, Flags, ProbesCounted
<1>10. RemoteKnown'
  BY DEF Typed, ProcessAgrees, RemoteKnown
<1>11. RemoteFlags'
  BY DEF RemoteFlags, Flags
<1> QED BY <1>1, <1>2, <1>3, <1>4, <1>5, <1>6, <1>7, <1>8, <1>9, <1>10, <1>11

LEMMA RefreshFailsInv ==
  ASSUME SyncInv, RefreshFails
  PROVE  SyncInv'
<1> USE DEF SyncInv, RefreshFails
<1>1. Typed'
  BY DEF Typed, SyncState, Await
<1>2. Flags'
  BY DEF Flags
<1>3. ProcessAgrees'
  BY DEF Typed, ProcessAgrees
<1>4. PullComesBack'
  BY DEF Typed, ProcessAgrees, RemoteKnown, PullComesBack
<1>5. ConflictsCanBeResolved'
  BY DEF Typed, ConflictsCanBeResolved
<1>6. OffIsQuiet'
  BY DEF Typed, ProcessAgrees, RemoteKnown, OneAtATime, OffIsQuiet
<1>7. OneAtATime'
  BY DEF Typed, OneAtATime
<1>8. MarkersContained'
  BY DEF Typed, OneAtATime, Paused, ProcessAgrees, MarkersContained
<1>9. ProbesCounted'
  BY DEF Typed, Flags, ProbesCounted
<1>10. RemoteKnown'
  BY DEF Typed, ProcessAgrees, RemoteKnown
<1>11. RemoteFlags'
  BY DEF RemoteFlags, Flags
<1> QED BY <1>1, <1>2, <1>3, <1>4, <1>5, <1>6, <1>7, <1>8, <1>9, <1>10, <1>11

LEMMA SaveStateInv ==
  ASSUME SyncInv, SaveState
  PROVE  SyncInv'
<1> USE DEF SyncInv, SaveState
<1>1. Typed'
  BY DEF Typed, SyncState, Await
<1>2. Flags'
  BY DEF Flags
<1>3. ProcessAgrees'
  BY DEF Typed, ProcessAgrees
<1>4. PullComesBack'
  BY DEF Typed, ProcessAgrees, RemoteKnown, PullComesBack
<1>5. ConflictsCanBeResolved'
  BY DEF Typed, ConflictsCanBeResolved
<1>6. OffIsQuiet'
  BY DEF Typed, ProcessAgrees, RemoteKnown, OneAtATime, OffIsQuiet
<1>7. OneAtATime'
  BY DEF Typed, OneAtATime
<1>8. MarkersContained'
  BY DEF Typed, OneAtATime, Paused, ProcessAgrees, MarkersContained
<1>9. ProbesCounted'
  BY DEF Typed, Flags, ProbesCounted
<1>10. RemoteKnown'
  BY DEF Typed, ProcessAgrees, RemoteKnown
<1>11. RemoteFlags'
  BY DEF RemoteFlags, Flags
<1> QED BY <1>1, <1>2, <1>3, <1>4, <1>5, <1>6, <1>7, <1>8, <1>9, <1>10, <1>11

LEMMA StartsCounted == ASSUME Typed
  PROVE  /\ Loaded \subseteq File /\ Listed \subseteq File
         /\ \A S \in SUBSET Listed : /\ S \subseteq File
                                    /\ Cardinality(S) \in 0 .. Cardinality(File)
<1>1. Loaded \subseteq File /\ Listed \subseteq File
  BY DEF Typed, Loaded, Listed
<1> QED BY <1>1, Counts

LEMMA StartInactiveInv ==
  ASSUME NEW found \in BOOLEAN, SyncInv, StartInactive(found),
         UNCHANGED mishaps \/ Mishap, found => ~enabled
  PROVE  SyncInv'
<1> USE DEF SyncInv, StartInactive, Starts
<1>1. Typed'
  BY StartsCounted DEF Typed, SyncState, Await
<1>2. Flags'
  BY DEF Flags
<1>3. ProcessAgrees'
  BY DEF Typed, ProcessAgrees
<1>4. PullComesBack'
  BY DEF Typed, ProcessAgrees, RemoteKnown, PullComesBack
<1>5. ConflictsCanBeResolved'
  BY DEF Typed, ConflictsCanBeResolved
<1>6. OffIsQuiet'
  BY DEF Typed, ProcessAgrees, RemoteKnown, OneAtATime, OffIsQuiet
<1>7. OneAtATime'
  BY DEF Typed, OneAtATime
<1>8. MarkersContained'
  BY DEF Typed, OneAtATime, Paused, ProcessAgrees, MarkersContained
<1>9. ProbesCounted'
  BY DEF Typed, Flags, ProbesCounted
<1>10. RemoteKnown'
  BY DEF Typed, ProcessAgrees, RemoteKnown
<1>11. RemoteFlags'
  BY DEF RemoteFlags, Flags
<1> QED BY <1>1, <1>2, <1>3, <1>4, <1>5, <1>6, <1>7, <1>8, <1>9, <1>10, <1>11

LEMMA StartActiveInv ==
  ASSUME NEW kept \in SUBSET Listed, SyncInv, StartActive(kept),
         \/ kept # {} /\ merging /\ UNCHANGED <<tree, forgotten>>
         \/ ~merging /\ kept = {} /\ UNCHANGED <<tree, forgotten>>
         \/ kept = {} /\ Aborts /\ UNCHANGED forgotten
         \/ forgotten' = TRUE /\ UNCHANGED tree,
         UNCHANGED mishaps
  PROVE  SyncInv'
<1> USE DEF SyncInv, StartActive, Starts, Aborts
<1>1. Typed'
  BY StartsCounted DEF Typed, SyncState, Await
<1>2. Flags'
  BY DEF Flags
<1>3. ProcessAgrees'
  BY DEF Typed, ProcessAgrees
<1>4. PullComesBack'
  BY DEF Typed, ProcessAgrees, RemoteKnown, PullComesBack
<1>5. ConflictsCanBeResolved'
  BY DEF Typed, ConflictsCanBeResolved
<1>6. OffIsQuiet'
  BY DEF Typed, ProcessAgrees, RemoteKnown, OneAtATime, OffIsQuiet
<1>7. OneAtATime'
  BY DEF Typed, OneAtATime
<1>8. MarkersContained'
  BY DEF Typed, OneAtATime, Paused, ProcessAgrees, MarkersContained
<1>9. ProbesCounted'
  BY DEF Typed, Flags, ProbesCounted
<1>10. RemoteKnown'
  BY DEF Typed, ProcessAgrees, RemoteKnown
<1>11. RemoteFlags'
  BY DEF RemoteFlags, Flags
<1> QED BY <1>1, <1>2, <1>3, <1>4, <1>5, <1>6, <1>7, <1>8, <1>9, <1>10, <1>11

LEMMA StartEngineInv ==
  ASSUME SyncInv, StartEngine
  PROVE  SyncInv'
<1> DEFINE rest == IF merging THEN Listed \cap unmerged ELSE {}
<1>1. CASE ~enabled /\ StartInactive(TRUE) /\ UNCHANGED mishaps
  BY <1>1, StartInactiveInv
<1>2. CASE StartInactive(FALSE) /\ Mishap
  BY <1>2, StartInactiveInv
<1>3. CASE merging /\ Listed # {} /\ StartActive(Listed) /\ UNCHANGED <<tree, forgotten, mishaps>>
  BY <1>3, StartActiveInv
<1>4. CASE /\ StartActive(rest)
           /\ \/ merging /\ rest = {} /\ Aborts /\ UNCHANGED <<forgotten, mishaps>>
              \/ merging /\ rest = {} /\ forgotten' = TRUE /\ UNCHANGED <<tree, mishaps>>
              \/ (~merging \/ rest # {}) /\ UNCHANGED <<tree, forgotten, mishaps>>
  <2>1. rest \in SUBSET Listed /\ (~merging => rest = {})
    OBVIOUS
  <2> QED BY <1>4, <2>1, StartActiveInv
<1> QED BY <1>1, <1>2, <1>3, <1>4 DEF StartEngine

LEMMA StopEngineInv ==
  ASSUME SyncInv, StopEngine
  PROVE  SyncInv'
<1> USE DEF SyncInv, StopEngine
<1>1. Typed'
  BY Sizes DEF Typed, SyncState, Await
<1>2. Flags'
  BY DEF Flags
<1>3. ProcessAgrees'
  BY DEF Typed, ProcessAgrees
<1>4. PullComesBack'
  BY DEF Typed, ProcessAgrees, RemoteKnown, PullComesBack
<1>5. ConflictsCanBeResolved'
  BY DEF Typed, ConflictsCanBeResolved
<1>6. OffIsQuiet'
  BY DEF Typed, ProcessAgrees, RemoteKnown, OneAtATime, OffIsQuiet
<1>7. OneAtATime'
  BY DEF Typed, OneAtATime
<1>8. MarkersContained'
  BY DEF Typed, OneAtATime, Paused, ProcessAgrees, MarkersContained
<1>9. ProbesCounted'
  BY DEF Typed, Flags, ProbesCounted
<1>10. RemoteKnown'
  BY DEF Typed, ProcessAgrees, RemoteKnown
<1>11. RemoteFlags'
  BY DEF RemoteFlags, Flags
<1> QED BY <1>1, <1>2, <1>3, <1>4, <1>5, <1>6, <1>7, <1>8, <1>9, <1>10, <1>11

LEMMA RemoteMovesInv ==
  ASSUME SyncInv, RemoteMoves
  PROVE  SyncInv'
<1> USE DEF SyncInv, RemoteMoves
<1>1. Typed'
  BY DEF Typed, SyncState, Await
<1>2. Flags'
  BY DEF Flags
<1>3. ProcessAgrees'
  BY DEF Typed, ProcessAgrees
<1>4. PullComesBack'
  BY DEF Typed, ProcessAgrees, RemoteKnown, PullComesBack
<1>5. ConflictsCanBeResolved'
  BY DEF Typed, ConflictsCanBeResolved
<1>6. OffIsQuiet'
  BY DEF Typed, ProcessAgrees, RemoteKnown, OneAtATime, OffIsQuiet
<1>7. OneAtATime'
  BY DEF Typed, OneAtATime
<1>8. MarkersContained'
  BY DEF Typed, OneAtATime, Paused, ProcessAgrees, MarkersContained
<1>9. ProbesCounted'
  BY DEF Typed, Flags, ProbesCounted
<1>10. RemoteKnown'
  BY DEF Typed, ProcessAgrees, RemoteKnown
<1>11. RemoteFlags'
  BY DEF RemoteFlags, Flags
<1> QED BY <1>1, <1>2, <1>3, <1>4, <1>5, <1>6, <1>7, <1>8, <1>9, <1>10, <1>11

LEMMA FireInv ==
  ASSUME NEW c \in Cycle, SyncInv, Fire(c)
  PROVE  SyncInv'
<1> USE DEF SyncInv, Fire, Run
<1>1. Typed'
  BY DEF Typed, SyncState, Await
<1>2. Flags'
  BY DEF Flags
<1>3. ProcessAgrees'
  BY DEF Typed, ProcessAgrees
<1>4. PullComesBack'
  BY DEF Typed, ProcessAgrees, RemoteKnown, PullComesBack
<1>5. ConflictsCanBeResolved'
  BY DEF Typed, ConflictsCanBeResolved
<1>6. OffIsQuiet'
  BY DEF Typed, ProcessAgrees, RemoteKnown, OneAtATime, OffIsQuiet
<1>7. OneAtATime'
  BY OtherCycle DEF Typed, OneAtATime
<1>8. MarkersContained'
  BY OtherCycle DEF Typed, OneAtATime, Paused, ProcessAgrees, MarkersContained
<1>9. ProbesCounted'
  BY DEF Typed, Flags, ProbesCounted
<1>10. RemoteKnown'
  BY DEF Typed, ProcessAgrees, RemoteKnown
<1>11. RemoteFlags'
  BY DEF RemoteFlags, Flags
<1> QED BY <1>1, <1>2, <1>3, <1>4, <1>5, <1>6, <1>7, <1>8, <1>9, <1>10, <1>11

LEMMA TriggerInv ==
  ASSUME NEW c \in Cycle, SyncInv, Trigger(c)
  PROVE  SyncInv'
<1> USE DEF SyncInv, Trigger, Run
<1>1. Typed'
  BY DEF Typed, SyncState, Await
<1>2. Flags'
  BY DEF Flags
<1>3. ProcessAgrees'
  BY DEF Typed, ProcessAgrees
<1>4. PullComesBack'
  BY DEF Typed, ProcessAgrees, RemoteKnown, PullComesBack
<1>5. ConflictsCanBeResolved'
  BY DEF Typed, ConflictsCanBeResolved
<1>6. OffIsQuiet'
  BY DEF Typed, ProcessAgrees, RemoteKnown, OneAtATime, OffIsQuiet
<1>7. OneAtATime'
  BY OtherCycle DEF Typed, OneAtATime
<1>8. MarkersContained'
  BY OtherCycle DEF Typed, OneAtATime, Paused, ProcessAgrees, MarkersContained
<1>9. ProbesCounted'
  BY DEF Typed, Flags, ProbesCounted
<1>10. RemoteKnown'
  BY DEF Typed, ProcessAgrees, RemoteKnown
<1>11. RemoteFlags'
  BY DEF RemoteFlags, Flags
<1> QED BY <1>1, <1>2, <1>3, <1>4, <1>5, <1>6, <1>7, <1>8, <1>9, <1>10, <1>11

LEMMA FetchInv ==
  ASSUME NEW c \in Cycle, SyncInv, Fetch(c)
  PROVE  SyncInv'
<1> USE DEF SyncInv, Fetch
<1>1. Typed'
  BY DEF Typed, SyncState, Await
<1>2. Flags'
  BY DEF Flags
<1>3. ProcessAgrees'
  BY DEF Typed, ProcessAgrees
<1>4. PullComesBack'
  BY DEF Typed, ProcessAgrees, RemoteKnown, PullComesBack
<1>5. ConflictsCanBeResolved'
  BY DEF Typed, ConflictsCanBeResolved
<1>6. OffIsQuiet'
  BY DEF Typed, ProcessAgrees, RemoteKnown, OneAtATime, OffIsQuiet
<1>7. OneAtATime'
  BY DEF Typed, OneAtATime
<1>8. MarkersContained'
  BY DEF Typed, OneAtATime, Paused, ProcessAgrees, MarkersContained
<1>9. ProbesCounted'
  BY DEF Typed, Flags, ProbesCounted
<1>10. RemoteKnown'
  BY DEF Typed, ProcessAgrees, RemoteKnown
<1>11. RemoteFlags'
  BY DEF RemoteFlags, Flags
<1> QED BY <1>1, <1>2, <1>3, <1>4, <1>5, <1>6, <1>7, <1>8, <1>9, <1>10, <1>11

LEMMA AutosaveInv ==
  ASSUME NEW c \in Cycle, SyncInv, Autosave(c)
  PROVE  SyncInv'
<1> USE DEF SyncInv, Autosave, CommitsAll
<1>1. Typed'
  BY DEF Typed, SyncState, Await
<1>2. Flags'
  BY DEF Flags
<1>3. ProcessAgrees'
  BY DEF Typed, ProcessAgrees
<1>4. PullComesBack'
  BY DEF Typed, ProcessAgrees, RemoteKnown, PullComesBack
<1>5. ConflictsCanBeResolved'
  BY DEF Typed, ConflictsCanBeResolved
<1>6. OffIsQuiet'
  BY DEF Typed, ProcessAgrees, RemoteKnown, OneAtATime, OffIsQuiet
<1>7. OneAtATime'
  BY DEF Typed, OneAtATime
<1>8. MarkersContained'
  BY DEF Typed, OneAtATime, Paused, ProcessAgrees, MarkersContained
<1>9. ProbesCounted'
  BY DEF Typed, Flags, ProbesCounted
<1>10. RemoteKnown'
  BY DEF Typed, ProcessAgrees, RemoteKnown
<1>11. RemoteFlags'
  BY DEF RemoteFlags, Flags
<1> QED BY <1>1, <1>2, <1>3, <1>4, <1>5, <1>6, <1>7, <1>8, <1>9, <1>10, <1>11

LEMMA CheckInv ==
  ASSUME NEW c \in Cycle, SyncInv, Check(c)
  PROVE  SyncInv'
<1> USE DEF SyncInv, Check
<1>1. Typed'
  BY DEF Typed, SyncState, Await
<1>2. Flags'
  BY DEF Flags
<1>3. ProcessAgrees'
  BY DEF Typed, ProcessAgrees
<1>4. PullComesBack'
  BY DEF Typed, ProcessAgrees, RemoteKnown, PullComesBack
<1>5. ConflictsCanBeResolved'
  BY DEF Typed, ConflictsCanBeResolved
<1>6. OffIsQuiet'
  BY DEF Typed, ProcessAgrees, RemoteKnown, OneAtATime, OffIsQuiet
<1>7. OneAtATime'
  BY DEF Typed, OneAtATime
<1>8. MarkersContained'
  BY DEF Typed, OneAtATime, Paused, ProcessAgrees, MarkersContained
<1>9. ProbesCounted'
  BY DEF Typed, Flags, ProbesCounted
<1>10. RemoteKnown'
  BY DEF Typed, ProcessAgrees, RemoteKnown
<1>11. RemoteFlags'
  BY DEF RemoteFlags, Flags
<1> QED BY <1>1, <1>2, <1>3, <1>4, <1>5, <1>6, <1>7, <1>8, <1>9, <1>10, <1>11

LEMMA MergeInv ==
  ASSUME NEW c \in Cycle, SyncInv, Merge(c)
  PROVE  SyncInv'
<1> USE DEF SyncInv, Merge, Merged
<1>1. Typed'
  BY DEF Typed, SyncState, Await
<1>2. Flags'
  BY DEF Flags
<1>3. ProcessAgrees'
  BY DEF Typed, ProcessAgrees
<1>4. PullComesBack'
  BY DEF Typed, ProcessAgrees, RemoteKnown, PullComesBack
<1>5. ConflictsCanBeResolved'
  BY DEF Typed, ConflictsCanBeResolved
<1>6. OffIsQuiet'
  BY DEF Typed, ProcessAgrees, RemoteKnown, OneAtATime, OffIsQuiet
<1>7. OneAtATime'
  BY DEF Typed, OneAtATime
<1>8. MarkersContained'
  BY DEF Typed, OneAtATime, Paused, ProcessAgrees, MarkersContained
<1>9. ProbesCounted'
  BY DEF Typed, Flags, ProbesCounted
<1>10. RemoteKnown'
  BY DEF Typed, ProcessAgrees, RemoteKnown
<1>11. RemoteFlags'
  BY DEF RemoteFlags, Flags
<1> QED BY <1>1, <1>2, <1>3, <1>4, <1>5, <1>6, <1>7, <1>8, <1>9, <1>10, <1>11

LEMMA MergeConflictsInv ==
  ASSUME NEW c \in Cycle, SyncInv, MergeConflicts(c)
  PROVE  SyncInv'
<1> USE DEF SyncInv, MergeConflicts
<1>1. Typed'
  BY DEF Typed, SyncState, Await
<1>2. Flags'
  BY DEF Flags
<1>3. ProcessAgrees'
  BY DEF Typed, ProcessAgrees
<1>4. PullComesBack'
  BY DEF Typed, ProcessAgrees, RemoteKnown, PullComesBack
<1>5. ConflictsCanBeResolved'
  BY DEF Typed, ConflictsCanBeResolved
<1>6. OffIsQuiet'
  BY DEF Typed, ProcessAgrees, RemoteKnown, OneAtATime, OffIsQuiet
<1>7. OneAtATime'
  BY DEF Typed, OneAtATime
<1>8. MarkersContained'
  BY DEF Typed, OneAtATime, Paused, ProcessAgrees, MarkersContained
<1>9. ProbesCounted'
  BY DEF Typed, Flags, ProbesCounted
<1>10. RemoteKnown'
  BY DEF Typed, ProcessAgrees, RemoteKnown
<1>11. RemoteFlags'
  BY DEF RemoteFlags, Flags
<1> QED BY <1>1, <1>2, <1>3, <1>4, <1>5, <1>6, <1>7, <1>8, <1>9, <1>10, <1>11

LEMMA MergeRefusedInv ==
  ASSUME NEW c \in Cycle, SyncInv, MergeRefused(c)
  PROVE  SyncInv'
<1> USE DEF SyncInv, MergeRefused, Fails
<1>1. Typed'
  BY DEF Typed, SyncState, Await
<1>2. Flags'
  BY DEF Flags
<1>3. ProcessAgrees'
  BY DEF Typed, ProcessAgrees
<1>4. PullComesBack'
  BY DEF Typed, ProcessAgrees, RemoteKnown, PullComesBack
<1>5. ConflictsCanBeResolved'
  BY DEF Typed, ConflictsCanBeResolved
<1>6. OffIsQuiet'
  BY DEF Typed, ProcessAgrees, RemoteKnown, OneAtATime, OffIsQuiet
<1>7. OneAtATime'
  BY DEF Typed, OneAtATime
<1>8. MarkersContained'
  BY DEF Typed, OneAtATime, Paused, ProcessAgrees, MarkersContained
<1>9. ProbesCounted'
  BY DEF Typed, Flags, ProbesCounted
<1>10. RemoteKnown'
  BY DEF Typed, ProcessAgrees, RemoteKnown
<1>11. RemoteFlags'
  BY DEF RemoteFlags, Flags
<1> QED BY <1>1, <1>2, <1>3, <1>4, <1>5, <1>6, <1>7, <1>8, <1>9, <1>10, <1>11

LEMMA RecordConflictInv ==
  ASSUME NEW c \in Cycle, SyncInv, RecordConflict(c)
  PROVE  SyncInv'
<1> USE DEF SyncInv, RecordConflict
<1>0. conflicts \cup unmerged \subseteq File
  BY DEF Typed
<1>1. Typed'
  BY <1>0, Counts DEF Typed, SyncState, Await
<1>2. Flags'
  BY DEF Flags
<1>3. ProcessAgrees'
  BY DEF Typed, ProcessAgrees
<1>4. PullComesBack'
  BY DEF Typed, ProcessAgrees, RemoteKnown, PullComesBack
<1>5. ConflictsCanBeResolved'
  BY DEF Typed, ConflictsCanBeResolved
<1>6. OffIsQuiet'
  BY DEF Typed, ProcessAgrees, RemoteKnown, OneAtATime, OffIsQuiet
<1>7. OneAtATime'
  BY DEF Typed, OneAtATime
<1>8. MarkersContained'
  BY DEF Typed, OneAtATime, Paused, ProcessAgrees, MarkersContained
<1>9. ProbesCounted'
  BY DEF Typed, Flags, ProbesCounted
<1>10. RemoteKnown'
  BY DEF Typed, ProcessAgrees, RemoteKnown
<1>11. RemoteFlags'
  BY DEF RemoteFlags, Flags
<1> QED BY <1>1, <1>2, <1>3, <1>4, <1>5, <1>6, <1>7, <1>8, <1>9, <1>10, <1>11

LEMMA AutoResolveInv ==
  ASSUME NEW c \in Cycle, SyncInv, AutoResolve(c)
  PROVE  SyncInv'
<1> USE DEF SyncInv, AutoResolve
<1>1. Typed'
  BY DEF Typed, SyncState, Await
<1>2. Flags'
  BY DEF Flags
<1>3. ProcessAgrees'
  BY DEF Typed, ProcessAgrees
<1>4. PullComesBack'
  BY DEF Typed, ProcessAgrees, RemoteKnown, PullComesBack
<1>5. ConflictsCanBeResolved'
  BY DEF Typed, ConflictsCanBeResolved
<1>6. OffIsQuiet'
  BY DEF Typed, ProcessAgrees, RemoteKnown, OneAtATime, OffIsQuiet
<1>7. OneAtATime'
  BY DEF Typed, OneAtATime
<1>8. MarkersContained'
  BY DEF Typed, OneAtATime, Paused, ProcessAgrees, MarkersContained
<1>9. ProbesCounted'
  BY DEF Typed, Flags, ProbesCounted
<1>10. RemoteKnown'
  BY DEF Typed, ProcessAgrees, RemoteKnown
<1>11. RemoteFlags'
  BY DEF RemoteFlags, Flags
<1> QED BY <1>1, <1>2, <1>3, <1>4, <1>5, <1>6, <1>7, <1>8, <1>9, <1>10, <1>11

LEMMA RecordFailsInv ==
  ASSUME NEW c \in Cycle, SyncInv, RecordFails(c)
  PROVE  SyncInv'
<1> USE DEF SyncInv, RecordFails, Aborts
<1>1. Typed'
  BY DEF Typed, SyncState, Await
<1>2. Flags'
  BY DEF Flags
<1>3. ProcessAgrees'
  BY DEF Typed, ProcessAgrees
<1>4. PullComesBack'
  BY DEF Typed, ProcessAgrees, RemoteKnown, PullComesBack
<1>5. ConflictsCanBeResolved'
  BY DEF Typed, ConflictsCanBeResolved
<1>6. OffIsQuiet'
  BY DEF Typed, ProcessAgrees, RemoteKnown, OneAtATime, OffIsQuiet
<1>7. OneAtATime'
  BY DEF Typed, OneAtATime
<1>8. MarkersContained'
  BY DEF Typed, OneAtATime, Paused, ProcessAgrees, MarkersContained
<1>9. ProbesCounted'
  BY DEF Typed, Flags, ProbesCounted
<1>10. RemoteKnown'
  BY DEF Typed, ProcessAgrees, RemoteKnown
<1>11. RemoteFlags'
  BY DEF RemoteFlags, Flags
<1> QED BY <1>1, <1>2, <1>3, <1>4, <1>5, <1>6, <1>7, <1>8, <1>9, <1>10, <1>11

LEMMA GitFailsInv ==
  ASSUME NEW c \in Cycle, NEW kind \in {"network", "auth", "other"}, SyncInv, GitFails(c, kind)
  PROVE  SyncInv'
<1> USE DEF SyncInv, GitFails, Fails
<1>1. Typed'
  BY DEF Typed, SyncState, Await
<1>2. Flags'
  BY DEF Flags
<1>3. ProcessAgrees'
  BY DEF Typed, ProcessAgrees
<1>4. PullComesBack'
  BY DEF Typed, ProcessAgrees, RemoteKnown, PullComesBack
<1>5. ConflictsCanBeResolved'
  BY DEF Typed, ConflictsCanBeResolved
<1>6. OffIsQuiet'
  BY DEF Typed, ProcessAgrees, RemoteKnown, OneAtATime, OffIsQuiet
<1>7. OneAtATime'
  BY DEF Typed, OneAtATime
<1>8. MarkersContained'
  BY DEF Typed, OneAtATime, Paused, ProcessAgrees, MarkersContained
<1>9. ProbesCounted'
  BY DEF Typed, Flags, ProbesCounted
<1>10. RemoteKnown'
  BY DEF Typed, ProcessAgrees, RemoteKnown
<1>11. RemoteFlags'
  BY DEF RemoteFlags, Flags
<1> QED BY <1>1, <1>2, <1>3, <1>4, <1>5, <1>6, <1>7, <1>8, <1>9, <1>10, <1>11

LEMMA PushAddFailsInv ==
  ASSUME NEW kind \in {"network", "other"}, SyncInv, PushAddFails(kind)
  PROVE  SyncInv'
<1> USE DEF SyncInv, PushAddFails, Fails
<1>1. Typed'
  BY DEF Typed, SyncState, Await
<1>2. Flags'
  BY DEF Flags
<1>3. ProcessAgrees'
  BY DEF Typed, ProcessAgrees
<1>4. PullComesBack'
  BY DEF Typed, ProcessAgrees, RemoteKnown, PullComesBack
<1>5. ConflictsCanBeResolved'
  BY DEF Typed, ConflictsCanBeResolved
<1>6. OffIsQuiet'
  BY DEF Typed, ProcessAgrees, RemoteKnown, OneAtATime, OffIsQuiet
<1>7. OneAtATime'
  BY DEF Typed, OneAtATime
<1>8. MarkersContained'
  BY DEF Typed, OneAtATime, Paused, ProcessAgrees, MarkersContained
<1>9. ProbesCounted'
  BY DEF Typed, Flags, ProbesCounted
<1>10. RemoteKnown'
  BY DEF Typed, ProcessAgrees, RemoteKnown
<1>11. RemoteFlags'
  BY DEF RemoteFlags, Flags
<1> QED BY <1>1, <1>2, <1>3, <1>4, <1>5, <1>6, <1>7, <1>8, <1>9, <1>10, <1>11

LEMMA PushFailsInv ==
  ASSUME NEW kind \in {"network", "auth", "protected", "other"}, SyncInv, PushFails(kind)
  PROVE  SyncInv'
<1> USE DEF SyncInv, PushFails, Fails
<1>1. Typed'
  BY DEF Typed, SyncState, Await
<1>2. Flags'
  BY DEF Flags
<1>3. ProcessAgrees'
  BY DEF Typed, ProcessAgrees
<1>4. PullComesBack'
  BY DEF Typed, ProcessAgrees, RemoteKnown, PullComesBack
<1>5. ConflictsCanBeResolved'
  BY DEF Typed, ConflictsCanBeResolved
<1>6. OffIsQuiet'
  BY DEF Typed, ProcessAgrees, RemoteKnown, OneAtATime, OffIsQuiet
<1>7. OneAtATime'
  BY DEF Typed, OneAtATime
<1>8. MarkersContained'
  BY DEF Typed, OneAtATime, Paused, ProcessAgrees, MarkersContained
<1>9. ProbesCounted'
  BY DEF Typed, Flags, ProbesCounted
<1>10. RemoteKnown'
  BY DEF Typed, ProcessAgrees, RemoteKnown
<1>11. RemoteFlags'
  BY DEF RemoteFlags, Flags
<1> QED BY <1>1, <1>2, <1>3, <1>4, <1>5, <1>6, <1>7, <1>8, <1>9, <1>10, <1>11

LEMMA ResolveInv ==
  ASSUME NEW f \in File, SyncInv, Resolve(f)
  PROVE  SyncInv'
<1> USE DEF SyncInv, Resolve, Settle
<1> DEFINE rest == conflicts \ {f}
<1>0. /\ rest \subseteq File /\ Cardinality(rest) \in 0 .. Cardinality(File)
      /\ conflicts # {f} => Cardinality(rest) # 0
  <2>1. rest \subseteq File /\ (conflicts # {f} => rest # {})
    BY DEF Typed
  <2> QED BY <2>1, Counts
<1>1. Typed'
  BY <1>0 DEF Typed, SyncState, Await
<1>2. Flags'
  BY DEF Flags
<1>3. ProcessAgrees'
  BY DEF Typed, ProcessAgrees
<1>4. PullComesBack'
  BY DEF Typed, ProcessAgrees, RemoteKnown, PullComesBack
<1>5. ConflictsCanBeResolved'
  BY DEF Typed, ConflictsCanBeResolved
<1>6. OffIsQuiet'
  BY DEF Typed, ProcessAgrees, RemoteKnown, OneAtATime, OffIsQuiet
<1>7. OneAtATime'
  BY DEF Typed, OneAtATime
<1>8. MarkersContained'
  BY <1>0 DEF Typed, OneAtATime, Paused, ProcessAgrees, MarkersContained
<1>9. ProbesCounted'
  BY DEF Typed, Flags, ProbesCounted
<1>10. RemoteKnown'
  BY DEF Typed, ProcessAgrees, RemoteKnown
<1>11. RemoteFlags'
  BY DEF RemoteFlags, Flags
<1> QED BY <1>1, <1>2, <1>3, <1>4, <1>5, <1>6, <1>7, <1>8, <1>9, <1>10, <1>11

LEMMA EditInv ==
  ASSUME NEW f \in File, SyncInv, Edit(f)
  PROVE  SyncInv'
<1> USE DEF SyncInv, Edit
<1>1. Typed'
  BY DEF Typed, SyncState, Await
<1>2. Flags'
  BY DEF Flags
<1>3. ProcessAgrees'
  BY DEF Typed, ProcessAgrees
<1>4. PullComesBack'
  BY DEF Typed, ProcessAgrees, RemoteKnown, PullComesBack
<1>5. ConflictsCanBeResolved'
  BY DEF Typed, ConflictsCanBeResolved
<1>6. OffIsQuiet'
  BY DEF Typed, ProcessAgrees, RemoteKnown, OneAtATime, OffIsQuiet
<1>7. OneAtATime'
  BY DEF Typed, OneAtATime
<1>8. MarkersContained'
  BY DEF Typed, OneAtATime, Paused, ProcessAgrees, MarkersContained
<1>9. ProbesCounted'
  BY DEF Typed, Flags, ProbesCounted
<1>10. RemoteKnown'
  BY DEF Typed, ProcessAgrees, RemoteKnown
<1>11. RemoteFlags'
  BY DEF RemoteFlags, Flags
<1> QED BY <1>1, <1>2, <1>3, <1>4, <1>5, <1>6, <1>7, <1>8, <1>9, <1>10, <1>11

-----------------------------------------------------------------------------
LEMMA InitInv == SyncInit => SyncInv
<1> SUFFICES ASSUME SyncInit PROVE SyncInv
  OBVIOUS
<1> USE DEF SyncInit
<1>0. Typed
  BY Sizes DEF Typed, SyncState, Await
<1>1. Flags /\ RemoteFlags
  BY DEF Flags, RemoteFlags
<1>2. ProcessAgrees /\ PullComesBack /\ ConflictsCanBeResolved /\ OffIsQuiet
  BY DEF ProcessAgrees, PullComesBack, ConflictsCanBeResolved, OffIsQuiet
<1>3. OneAtATime /\ MarkersContained
  BY DEF OneAtATime, MarkersContained
<1>4. ProbesCounted /\ RemoteKnown
  BY DEF ProbesCounted, RemoteKnown
<1> QED BY <1>0, <1>1, <1>2, <1>3, <1>4 DEF SyncInv

LEMMA StutterInv == ASSUME SyncInv, UNCHANGED syncVars PROVE SyncInv'
<1> USE DEF SyncInv, syncVars
<1>1. Typed' /\ Flags' /\ RemoteFlags'
  BY DEF Typed, Flags, RemoteFlags
<1>2. ProcessAgrees' /\ PullComesBack' /\ ConflictsCanBeResolved' /\ OffIsQuiet'
  BY DEF ProcessAgrees, PullComesBack, ConflictsCanBeResolved, OffIsQuiet
<1>3. OneAtATime' /\ MarkersContained'
  BY DEF OneAtATime, MarkersContained, Paused
<1>4. ProbesCounted' /\ RemoteKnown'
  BY DEF ProbesCounted, RemoteKnown
<1> QED BY <1>1, <1>2, <1>3, <1>4

LEMMA StepInv == SyncInv /\ [SyncNext]_syncVars => SyncInv'
<1> SUFFICES ASSUME SyncInv, [SyncNext]_syncVars PROVE SyncInv'
  OBVIOUS
<1>1. CASE \/ PullBranch \/ PullStatus \/ PushAdd \/ PushSend \/ PushRejected
           \/ ResolveCommit \/ AbortMerge \/ SaveState
           \/ Disable \/ Drained \/ Enable \/ Probed \/ ProbeFails
           \/ RefreshRemote \/ Refreshed \/ RefreshFails
           \/ StartEngine \/ StopEngine \/ RemoteMoves
  BY <1>1, PullBranchInv, PullStatusInv, PushAddInv, PushSendInv, PushRejectedInv,
     ResolveCommitInv, AbortMergeInv, SaveStateInv, DisableInv, DrainedInv, EnableInv,
     ProbedInv, ProbeFailsInv, RefreshRemoteInv, RefreshedInv, RefreshFailsInv,
     StartEngineInv, StopEngineInv, RemoteMovesInv
<1>2. ASSUME NEW c \in Cycle,
             \/ Fire(c) \/ Trigger(c) \/ Fetch(c) \/ Autosave(c) \/ Check(c)
             \/ Merge(c) \/ MergeConflicts(c) \/ MergeRefused(c)
             \/ RecordConflict(c) \/ AutoResolve(c) \/ RecordFails(c)
             \/ \E kind \in {"network", "auth", "other"} : GitFails(c, kind)
      PROVE  SyncInv'
  BY <1>2, FireInv, TriggerInv, FetchInv, AutosaveInv, CheckInv, MergeInv, MergeConflictsInv,
     MergeRefusedInv, RecordConflictInv, AutoResolveInv, RecordFailsInv, GitFailsInv
<1>3. CASE \/ \E kind \in {"network", "other"} : PushAddFails(kind)
           \/ \E kind \in {"network", "auth", "protected", "other"} : PushFails(kind)
           \/ \E f \in File : Resolve(f) \/ Edit(f)
  BY <1>3, PushAddFailsInv, PushFailsInv, ResolveInv, EditInv
<1>4. CASE UNCHANGED syncVars
  BY <1>4, StutterInv
<1> QED BY <1>1, <1>2, <1>3, <1>4 DEF SyncNext

(* The invariant on which the theorems below rest.                         *)
THEOREM SyncInvHolds == SyncSpec => []SyncInv
<1> QED BY InitInv, StepInv, PTL DEF SyncSpec

(* The engine's state stays well formed: the state machine's names, the    *)
(* conflict count within the number of files.                              *)
THEOREM SyncTypeCorrect == SyncSpec => []SyncTypeOK
<1>1. SyncInv => SyncTypeOK
  BY TypedIsType DEF SyncInv
<1> QED BY <1>1, SyncInvHolds, PTL

(* Files with conflict markers are never pushed, however pulls, pushes,    *)
(* resolutions and restarts fall, while only one cycle runs at a time and  *)
(* sync does not go on over an unfinished merge.                           *)
THEOREM MarkersAreKept == SyncSpec => []MarkersStayHome
<1>1. SyncInv => MarkersStayHome
  BY DEF SyncInv, MarkersContained, MarkersStayHome
<1> QED BY <1>1, SyncInvHolds, PTL

(* Every path through the cycles, their failures, the resolution of        *)
(* conflicts and a start leaves a timer armed that brings the next pull,   *)
(* with the exceptions PullLoopLives names: above all, a remote that a     *)
(* probe did not find leaves sync on and the engine dormant.               *)
THEOREM PullLoopGoesOn == SyncSpec => []PullLoopLives
<1>1. SyncInv => PullLoopLives
  BY DEF SyncInv, Typed, Flags, ProcessAgrees, RemoteKnown, ProbesCounted, PullComesBack,
         PullLoopLives
<1> QED BY <1>1, SyncInvHolds, PTL

(* The conflict state, in which nothing is pulled or pushed, is left with  *)
(* the last conflict: no path leaves the engine paused with none to settle. *)
THEOREM ConflictsHaveAWayOut == SyncSpec => []ConflictsCanBeResolved
<1>1. SyncInv => ConflictsCanBeResolved
  BY DEF SyncInv
<1> QED BY <1>1, SyncInvHolds, PTL

(* Once switched off, and done waiting, the engine runs no cycle, and no   *)
(* failure, no restart and no status request wakes it.  What does is among *)
(* the exceptions OffIsQuiet names: above all, a probe that was awaited    *)
(* when sync was switched off.                                             *)
THEOREM OffStaysQuiet == SyncSpec => []OffIsQuiet
<1>1. SyncInv => OffIsQuiet
  BY DEF SyncInv
<1> QED BY <1>1, SyncInvHolds, PTL
=============================================================================
