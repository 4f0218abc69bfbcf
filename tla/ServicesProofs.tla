---------------------------- MODULE ServicesProofs ----------------------------
(***************************************************************************)
(* Theorems about the services that share no state: the locks, the managed *)
(* rename and the observer bridge, each for every value of its constants,  *)
(* and all of them together.  The sync engine, the agent sessions and the  *)
(* config documents have modules of their own.                             *)
(***************************************************************************)
EXTENDS MCServices, SyncEngineProofs, AgentSessionsProofs, ConfigStoreProofs, TLAPS

(***************************************************************************)
(* ProcessLock: for every number of servers, readers and attempts.         *)
(***************************************************************************)
USE LockAssumption

(* A process that has created the lock file and not yet given it up.       *)
Holding(p) == phase[p] \in {"write", "held", "port", "update", "release"}

(* The file was made by a process that was started, ...                    *)
MadeByStarted == lock # NoLock => phase[lock.by] # "off"

(* ... what is judged stale was whole and its maker is dead, and dead for  *)
(* good, or else it was not whole, ...                                     *)
DeadFile(judgement) ==
  judgement # NoLock /\ judgement.whole => phase[judgement.by] = "dead"
JudgedRight ==
  /\ \A p \in Server : DeadFile(judged[p])
  /\ \A r \in Reader : DeadFile(removing[r])

(* ... and as long as only such files were removed, the file is there and  *)
(* is the holder's own.                                                    *)
HolderHasFile ==
  ~snatched => \A p \in Server : Holding(p) => lock # NoLock /\ lock.by = p

LockInv == LockTypeOK /\ MadeByStarted /\ JudgedRight /\ HolderHasFile

-----------------------------------------------------------------------------
(* Sanity of lock files. *)
LEMMA MineIsFile ==
  ASSUME NEW p \in Server, NEW whole \in BOOLEAN
  PROVE  /\ Mine(p, whole) \in LockFile /\ Mine(p, whole) # NoLock
         /\ Mine(p, whole).by = p /\ Mine(p, whole).whole = whole
  BY DEF Mine, LockFile

LEMMA LockInitInv == LockInit => LockInv
<1> SUFFICES ASSUME LockInit PROVE LockInv
  OBVIOUS
<1>1. LockTypeOK
  <2>1. 0 \in 0 .. MaxAttempts /\ 0 < MaxAttempts
    OBVIOUS
  <2> QED BY <2>1, Zenon DEF LockInit, LockTypeOK, Phase
<1>2. MadeByStarted /\ JudgedRight /\ HolderHasFile
  BY DEF LockInit, MadeByStarted, JudgedRight, DeadFile, HolderHasFile, Holding
<1> QED BY <1>1, <1>2 DEF LockInv

(* Steps that leave all files and judgements alone.                        *)
LEMMA QuietSteps ==
  ASSUME LockInv, NEW p \in Server,
         \/ Start(p) \/ Look(p) \/ UpdatePort(p) \/ Release(p) \/ Die(p)
  PROVE  LockInv'
<1> USE DEF Start, Look, UpdatePort, Release, Die, Enters, OwnFile, Alive, LockInv
<1>1. LockTypeOK'
  BY DEF LockTypeOK, Phase
<1>2. MadeByStarted'
  BY DEF MadeByStarted, LockTypeOK, LockFile
<1>3. JudgedRight'
  BY DEF JudgedRight, DeadFile, LockTypeOK, LockFile
<1>4. HolderHasFile'
  BY DEF HolderHasFile, Holding, LockTypeOK
<1> QED BY <1>1, <1>2, <1>3, <1>4

(* Only one process creates the file, and none holds it then.              *)
LEMMA CreateInv ==
  ASSUME LockInv, NEW p \in Server, Create(p)
  PROVE  LockInv'
<1> USE DEF Create, Enters, LockInv
<1>1. LockTypeOK'
  BY MineIsFile DEF LockTypeOK, Phase
<1>2. MadeByStarted'
  <2>1. \A q \in Server : phase[q] # "off" => phase'[q] # "off"
    BY DEF LockTypeOK
  <2>2. phase'[p] # "off"
    BY DEF LockTypeOK
  <2>3. lock' \in {lock, Mine(p, FALSE), Mine(p, TRUE)}
    OBVIOUS
  <2>4. lock # NoLock => lock.by \in Server
    BY DEF LockTypeOK, LockFile
  <2>5. CASE lock' = lock
    BY <2>1, <2>4, <2>5 DEF MadeByStarted
  <2>6. CASE lock' \in {Mine(p, FALSE), Mine(p, TRUE)}
    BY <2>2, <2>6 DEF MadeByStarted, Mine
  <2> QED BY <2>3, <2>5, <2>6
<1>3. JudgedRight'
  BY DEF JudgedRight, DeadFile, LockTypeOK, LockFile
<1>4. HolderHasFile'
  BY MineIsFile DEF HolderHasFile, Holding, LockTypeOK
<1> QED BY <1>1, <1>2, <1>3, <1>4

LEMMA WriteInv ==
  ASSUME LockInv, NEW p \in Server, WriteOwn(p) \/ Reopen(p)
  PROVE  LockInv'
<1> USE DEF WriteOwn, Reopen, OwnFile, Enters, LockInv
<1>1. LockTypeOK'
  BY MineIsFile DEF LockTypeOK, Phase
<1>2. MadeByStarted'
  <2>1. \A q \in Server : phase[q] # "off" => phase'[q] # "off"
    BY DEF LockTypeOK
  <2>2. phase'[p] # "off"
    BY DEF LockTypeOK
  <2>3. lock' \in {lock, Mine(p, FALSE), Mine(p, TRUE)}
    OBVIOUS
  <2>4. lock # NoLock => lock.by \in Server
    BY DEF LockTypeOK, LockFile
  <2>5. CASE lock' = lock
    BY <2>1, <2>4, <2>5 DEF MadeByStarted
  <2>6. CASE lock' \in {Mine(p, FALSE), Mine(p, TRUE)}
    BY <2>2, <2>6 DEF MadeByStarted, Mine
  <2> QED BY <2>3, <2>5, <2>6
<1>3. JudgedRight'
  <2>1. \A q \in Server : phase[q] = "dead" => phase'[q] = "dead"
    BY DEF LockTypeOK
  <2>2. \A theirs \in LockFile \cup {NoLock} : DeadFile(theirs) => DeadFile(theirs)'
    BY <2>1 DEF DeadFile, LockFile
  <2> QED BY <2>2 DEF JudgedRight, LockTypeOK
<1>4. HolderHasFile'
  BY MineIsFile DEF HolderHasFile, Holding, LockTypeOK
<1> QED BY <1>1, <1>2, <1>3, <1>4

(* A whole file is judged stale only if its maker, which was started, is   *)
(* not alive.                                                              *)
LEMMA ParseInv ==
  ASSUME LockInv, NEW p \in Server, Parse(p)
  PROVE  LockInv'
<1> USE DEF Parse, Enters, LockInv
<1>1. LockTypeOK'
  BY DEF LockTypeOK, Phase
<1>2. MadeByStarted'
  BY DEF MadeByStarted, LockTypeOK, LockFile
<1>3. JudgedRight'
  BY DEF JudgedRight, DeadFile, LockTypeOK, LockFile, MadeByStarted, Alive
<1>4. HolderHasFile'
  BY DEF HolderHasFile, Holding, LockTypeOK
<1> QED BY <1>1, <1>2, <1>3, <1>4

(* If what is removed is what was judged, nobody held it.                  *)
LEMMA NobodyHeld ==
  ASSUME LockInv, NEW theirs, theirs \in LockFile \cup {NoLock}, DeadFile(theirs),
         ~Snatches(theirs), ~snatched, NEW q \in Server, Holding(q)
  PROVE  FALSE
<1>1. lock # NoLock /\ lock.by = q
  BY DEF LockInv, HolderHasFile
<1>2. lock = theirs /\ (theirs.whole \/ ~Alive(theirs.by))
  BY <1>1 DEF Snatches
<1>3. phase[q] \in {"off", "dead"}
  BY <1>1, <1>2 DEF DeadFile, Alive
<1> QED BY <1>3 DEF Holding

LEMMA UnlinkInv ==
  ASSUME LockInv, NEW p \in Server, Unlink(p)
  PROVE  LockInv'
<1> USE DEF Unlink, Enters, LockInv
<1>1. LockTypeOK'
  <2>1. snatched' \in BOOLEAN
    BY DEF LockTypeOK
  <2>2. attempt[p] + 1 \in 0 .. MaxAttempts
    BY DEF LockTypeOK
  <2> QED BY <2>1, <2>2 DEF LockTypeOK, Phase
<1>2. MadeByStarted'
  BY DEF MadeByStarted
<1>3. JudgedRight'
  BY DEF JudgedRight, DeadFile, LockTypeOK, LockFile
<1>4. HolderHasFile'
  <2> SUFFICES ASSUME ~snatched', NEW q \in Server, Holding(q)' PROVE FALSE
    BY DEF HolderHasFile
  <2>1. Holding(q)
    BY DEF Holding, LockTypeOK
  <2>2. judged[p] \in LockFile \cup {NoLock} /\ DeadFile(judged[p])
    BY DEF LockTypeOK, JudgedRight
  <2> QED BY <2>1, <2>2, NobodyHeld
<1> QED BY <1>1, <1>2, <1>3, <1>4

LEMMA RemoveInv ==
  ASSUME LockInv, NEW p \in Server, Remove(p)
  PROVE  LockInv'
<1> USE DEF Remove, Enters, LockInv
<1>1. LockTypeOK'
  BY DEF LockTypeOK, Phase
<1>2. MadeByStarted'
  BY DEF MadeByStarted
<1>3. JudgedRight'
  BY DEF JudgedRight, DeadFile, LockTypeOK, LockFile
<1>4. HolderHasFile'
  BY DEF HolderHasFile, Holding, LockTypeOK
<1> QED BY <1>1, <1>2, <1>3, <1>4

LEMMA ReaderInv ==
  ASSUME LockInv, NEW r \in Reader, ReadStale(r) \/ RemoveStale(r)
  PROVE  LockInv'
<1> USE DEF LockInv
<1>1. CASE ReadStale(r)
  <2>1. LockTypeOK'
    BY <1>1 DEF ReadStale, LockTypeOK
  <2>2. MadeByStarted' /\ HolderHasFile'
    BY <1>1 DEF ReadStale, MadeByStarted, HolderHasFile, Holding
  <2>3. JudgedRight'
    BY <1>1 DEF ReadStale, JudgedRight, DeadFile, MadeByStarted, Alive, LockTypeOK
  <2> QED BY <2>1, <2>2, <2>3
<1>2. CASE RemoveStale(r)
  <2>1. LockTypeOK'
    <3>1. snatched' \in BOOLEAN
      BY <1>2 DEF RemoveStale, LockTypeOK
    <3> QED BY <1>2, <3>1 DEF RemoveStale, LockTypeOK
  <2>2. MadeByStarted'
    BY <1>2 DEF RemoveStale, MadeByStarted
  <2>3. JudgedRight'
    BY <1>2 DEF RemoveStale, JudgedRight, DeadFile, LockTypeOK
  <2>4. HolderHasFile'
    <3> SUFFICES ASSUME ~snatched', NEW q \in Server, Holding(q)' PROVE FALSE
      BY DEF HolderHasFile
    <3>1. Holding(q)
      BY <1>2 DEF RemoveStale, Holding
    <3>2. removing[r] \in LockFile \cup {NoLock} /\ DeadFile(removing[r])
      BY DEF LockTypeOK, JudgedRight
    <3> QED BY <1>2, <3>1, <3>2, NobodyHeld DEF RemoveStale
  <2> QED BY <2>1, <2>2, <2>3, <2>4
<1> QED BY <1>1, <1>2

LEMMA LockNextInv == LockInv /\ [LockNext]_lockVars => LockInv'
<1> SUFFICES ASSUME LockInv, [LockNext]_lockVars PROVE LockInv'
  OBVIOUS
<1>1. CASE UNCHANGED lockVars
  BY <1>1 DEF lockVars, LockInv, LockTypeOK, MadeByStarted, JudgedRight, DeadFile,
              HolderHasFile, Holding
<1>2. ASSUME LockNext PROVE LockInv'
  BY <1>2, QuietSteps, CreateInv, WriteInv, ParseInv, UnlinkInv, RemoveInv, ReaderInv
  DEF LockNext
<1> QED BY <1>1, <1>2

LEMMA LockInvariance == LockSpec => []LockInv
  BY LockInitInv, LockNextInv, PTL DEF LockSpec

-----------------------------------------------------------------------------
(* Type correctness: a server that still tries has attempts left.          *)
THEOREM LockTypeCorrect == LockSpec => []LockTypeOK
<1>1. LockInv => LockTypeOK
  BY DEF LockInv
<1> QED BY <1>1, LockInvariance, PTL

(* At most one process serves the project, whatever the number of          *)
(* processes and wherever they are killed, unless a lock that nobody had   *)
(* judged was removed.                                                     *)
THEOREM OneServerAtATime == LockSpec => []OneHolder
<1>1. LockInv => OneHolder
  BY DEF LockInv, HolderHasFile, Holding, OneHolder, Serving
<1> QED BY <1>1, LockInvariance, PTL

-----------------------------------------------------------------------------
(***************************************************************************)
(* ManagedRename: for any documents, links, edits, crashes and failures.   *)
(***************************************************************************)
USE RenameAssumption, AbsenceAssumption

Begun == {"restore", "clean", "rewrite", "move", "capture", "unload", "log", "sync", "clear"}

(* What the types rest on: a store is pending only of an open document,    *)
(* and a recovery or a rename goes through names it has a journal for.     *)
RenameTyped ==
  /\ RenameTypeOK
  /\ \A n \in unstored : live[n] # Closed
  /\ stage \in Begun => journal # NoJournal
  /\ stage = "restore" => pending \subseteq Sources \cup Linkers
  /\ stage = "rewrite" => pending \subseteq Linkers
  /\ stage \in {"clean", "sync"} => pending \subseteq Targets

LEMMA Names ==
  /\ \A d \in Moved : From(d) \in Sources /\ To(d) \in Targets /\ From(d)[1] = d /\ To(d)[1] = d
  /\ \A n \in Sources \cup Targets : n[1] \in Moved
  /\ \A n \in Targets : n = To(n[1])
  /\ \A n \in Sources : n = From(n[1])
  /\ \A n \in Linkers : n[1] \in Linker
  /\ \A x \in Moved \cup Linker : Before(x) \in Sources \cup Linkers
  /\ Name = Sources \cup Targets \cup Linkers
  /\ Sources \cap Targets = {} /\ Sources \cap Linkers = {} /\ Targets \cap Linkers = {}
  BY DEF From, To, Sources, Targets, Linkers, Before, Name

LEMMA RewrittenIsText ==
  ASSUME NEW content \in Text
  PROVE  /\ Rewritten(content) \in Text /\ Rewritten(content).links = "new"
         /\ Rewritten(content).edit = content.edit
  BY DEF Rewritten, Text

LEMMA RenameInitTyped == RenameInit => RenameTyped
<1> SUFFICES ASSUME RenameInit PROVE RenameTyped
  OBVIOUS
<1>1. 0 \in 0 .. MaxTyped /\ 0 \in 0 .. MaxCrashes /\ 0 \in 0 .. MaxFaults
  OBVIOUS
<1>2. [edit |-> 0, links |-> "old"] \in Text
  BY <1>1 DEF Text
<1>3. file \in [Name -> Text \cup {Absent, Torn}]
  BY <1>2 DEF RenameInit
<1> QED BY <1>1, <1>3, Zenon DEF RenameInit, RenameTyped, RenameTypeOK, Stage, Begun

(* Steps that write nothing but where the server has got to.               *)
LEMMA BareStepsTyped ==
  ASSUME RenameTyped,
         \/ Boot \/ ReadJournal \/ Restored \/ AllRewritten \/ AppendLog \/ AllSynced
         \/ OperationFails
  PROVE  RenameTyped'
<1> USE DEF RenameTyped, RenameTypeOK, Goes, Stage, Begun, onDisk, memory, history, budget
<1>1. CASE Boot \/ AllRewritten \/ AllSynced
  BY <1>1 DEF Boot, AllRewritten, AllSynced
<1>2. CASE ReadJournal
  BY <1>2, Names DEF ReadJournal
<1>3. CASE Restored \/ AppendLog
  BY <1>3, Names DEF Restored, AppendLog
<1>4. CASE OperationFails
  <2>1. faults' \in 0 .. MaxFaults
    BY <1>4 DEF OperationFails
  <2>2. captured' \in [Moved -> Text \cup {Closed}]
    BY <1>4 DEF OperationFails
  <2> QED BY <1>4, <2>1, <2>2 DEF OperationFails
<1> QED BY <1>1, <1>2, <1>3, <1>4

LEMMA RecoveryTyped ==
  ASSUME RenameTyped,
         (\E n \in Name : Restore(n) \/ Clean(n)) \/ Recovered \/ RecoveryFails
  PROVE  RenameTyped'
<1> USE DEF RenameTyped, RenameTypeOK, Goes, Write, Stage, Begun, onDisk, memory, history, budget
<1>1. ASSUME NEW n \in Name, Restore(n) PROVE RenameTyped'
  <2>1. journal[n] \in Text
    BY <1>1 DEF Restore
  <2> QED BY <1>1, <2>1 DEF Restore
<1>2. ASSUME NEW n \in Name, Clean(n) PROVE RenameTyped'
  BY <1>2 DEF Clean
<1>3. CASE Recovered
  <2>1. landed' \in [Moved \cup Linker -> 0 .. MaxTyped]
    BY <1>3, Names DEF Recovered, Text
  <2> QED BY <1>3, <2>1 DEF Recovered
<1>4. CASE RecoveryFails
  <2>1. faults' \in 0 .. MaxFaults
    BY <1>4 DEF RecoveryFails
  <2>2. file' \in [Name -> Text \cup {Absent, Torn}]
    BY <1>4 DEF RecoveryFails
  <2> QED BY <1>4, <2>1, <2>2 DEF RecoveryFails
<1> QED BY <1>1, <1>2, <1>3, <1>4

LEMMA ClientsTyped ==
  ASSUME RenameTyped, NEW n \in Name, Open(n) \/ Type(n) \/ StoreName(n)
  PROVE  RenameTyped'
<1> USE DEF RenameTyped, RenameTypeOK, Write, onDisk, memory, history, budget
<1>1. CASE Open(n)
  <2>1. live' \in [Name -> Text \cup {Closed}] /\ early' \in BOOLEAN
    BY <1>1 DEF Open
  <2>2. \A m \in unstored' : live'[m] # Closed
    BY <1>1 DEF Open
  <2> QED BY <1>1, <2>1, <2>2 DEF Open
<1>2. CASE Type(n)
  <2>1. keystrokes + 1 \in 0 .. MaxTyped
    BY <1>2 DEF Type
  <2>2. live[n] \in Text /\ [live[n] EXCEPT !.edit = keystrokes + 1] \in Text
    BY <1>2, <2>1 DEF Type, Text
  <2>3. live' = [live EXCEPT ![n] = [live[n] EXCEPT !.edit = keystrokes + 1]]
    BY <1>2 DEF Type
  <2>4. live' \in [Name -> Text \cup {Closed}]
    BY <2>2, <2>3
  <2>5. \A m \in unstored' : live'[m] # Closed
    BY <1>2, <2>2, <2>3 DEF Type
  <2> QED BY <1>2, <2>1, <2>4, <2>5 DEF Type
<1>3. CASE StoreName(n)
  <2>1. live[n] \in Text /\ live[n].edit \in 0 .. MaxTyped
    BY <1>3 DEF StoreName, Text
  <2>2. revived' \in BOOLEAN
    BY <1>3 DEF StoreName
  <2> QED BY <1>3, <2>1, <2>2 DEF StoreName
<1> QED BY <1>1, <1>2, <1>3

LEMMA OperationTyped ==
  ASSUME RenameTyped,
         \/ BeginRename \/ Move \/ Capture \/ UnloadSources \/ Clear
         \/ \E n \in Name : Rewrite(n) \/ SyncMoved(n)
  PROVE  RenameTyped'
<1> USE DEF RenameTyped, RenameTypeOK, Goes, Write, Stage, Begun, onDisk, memory, history, budget
<1>1. CASE BeginRename
  <2>1. Texts \in [Sources \cup Linkers -> Text]
    BY <1>1, Names DEF BeginRename, Texts, Current
  <2>2. stacked' \in BOOLEAN
    BY <1>1 DEF BeginRename
  <2> QED BY <1>1, <2>1, <2>2, Names DEF BeginRename
<1>2. CASE Move
  <2>1. file' \in [Name -> Text \cup {Absent, Torn}]
    BY <1>2, Names DEF Move
  <2> QED BY <1>2, <2>1 DEF Move
<1>3. CASE Capture
  BY <1>3, Names DEF Capture
<1>4. CASE UnloadSources
  BY <1>4 DEF UnloadSources
<1>5. CASE Clear
  <2>1. landed' \in [Moved \cup Linker -> 0 .. MaxTyped]
    BY <1>5 DEF Clear, Text
  <2>2. captured' \in [Moved -> Text \cup {Closed}]
    BY <1>5 DEF Clear
  <2> QED BY <1>5, <2>1, <2>2 DEF Clear
<1>6. ASSUME NEW n \in Name, Rewrite(n) PROVE RenameTyped'
  <2> DEFINE content == IF live[n] # Closed THEN live[n] ELSE journal[n]
  <2>1. content \in Text
    BY <1>6 DEF Rewrite
  <2>2. Rewritten(content) \in Text
    BY <2>1, RewrittenIsText
  <2>3. file' \in [Name -> Text \cup {Absent, Torn}]
    BY <1>6, <2>2 DEF Rewrite
  <2>4. live' \in [Name -> Text \cup {Closed}] /\ unstored' \subseteq unstored
    BY <1>6, <2>2 DEF Rewrite
  <2>5. \A m \in unstored' : live'[m] # Closed
    BY <1>6, <2>4 DEF Rewrite
  <2> QED BY <1>6, <2>3, <2>4, <2>5 DEF Rewrite
<1>7. ASSUME NEW n \in Name, SyncMoved(n) PROVE RenameTyped'
  <2> DEFINE content == IF captured[n[1]] # Closed THEN captured[n[1]] ELSE journal[From(n[1])]
  <2>1. content \in Text
    BY <1>7, Names DEF SyncMoved
  <2>2. file' = [file EXCEPT ![n] = Rewritten(content)] /\ Rewritten(content) \in Text
    BY <1>7, <2>1, RewrittenIsText DEF SyncMoved
  <2> QED BY <1>7, <2>2 DEF SyncMoved
<1> QED BY <1>1, <1>2, <1>3, <1>4, <1>5, <1>6, <1>7

LEMMA CrashTyped == RenameTyped /\ Crash => RenameTyped'
<1> SUFFICES ASSUME RenameTyped, Crash PROVE RenameTyped'
  OBVIOUS
<1> USE DEF RenameTyped, RenameTypeOK, Crash, Goes, Write, Stage, Begun, history
<1>1. crashes' \in 0 .. MaxCrashes
  OBVIOUS
<1>2. file' \in [Name -> Text \cup {Absent, Torn}]
  OBVIOUS
<1> QED BY <1>1, <1>2

LEMMA RenameNextTyped == RenameTyped /\ [RenameNext]_renameVars => RenameTyped'
<1> SUFFICES ASSUME RenameTyped, [RenameNext]_renameVars PROVE RenameTyped'
  OBVIOUS
<1>1. CASE UNCHANGED renameVars
  BY <1>1 DEF renameVars, onDisk, memory, history, budget, RenameTyped, RenameTypeOK
<1> QED
  BY <1>1, BareStepsTyped, RecoveryTyped, ClientsTyped, OperationTyped, CrashTyped
  DEF RenameNext

LEMMA RenameTypedAlways == RenameSpec => []RenameTyped
  BY RenameInitTyped, RenameNextTyped, PTL DEF RenameSpec

-----------------------------------------------------------------------------
(* How files, journal and open documents fit together at each stage.       *)

AllClosed     == \A n \in Name : live[n] = Closed
TargetsClosed == \A n \in Targets : live[n] = Closed
SourcesClosed == \A n \in Sources : live[n] = Closed
SourcesGone   == \A n \in Sources : file[n] = Absent
TargetsGone   == \A n \in Targets : file[n] = Absent
LiveIs(n, links) == live[n] # Closed => live[n].links = links
LinkersNew    == \A n \in Linkers : Has(n, "new") /\ LiveIs(n, "new")

OldPlaces ==
  /\ \A n \in Sources \cup Linkers : Has(n, "old") /\ LiveIs(n, "old")
  /\ TargetsGone /\ TargetsClosed
NewPlaces ==
  /\ \A n \in Targets : Has(n, "new") /\ LiveIs(n, "new")
  /\ LinkersNew /\ SourcesGone /\ SourcesClosed

Held(n) == file[n] = journal[n]

Excepted == early \/ revived \/ stacked
AtStage ==
  /\ stage = "down" => AllClosed
  /\ journal # NoJournal =>
       /\ \A n \in Sources \cup Linkers : journal[n].links = "old"
       /\ stage \in {"boot", "restore", "clean"} => AllClosed
  /\ Quiet => OldPlaces \/ NewPlaces
  /\ stage = "restore" => \A n \in (Sources \cup Linkers) \ pending : Held(n)
  /\ stage = "clean" =>
       (\A n \in Sources \cup Linkers : Held(n)) /\ \A n \in Targets \ pending : file[n] = Absent
  /\ stage \in {"rewrite", "move"} => TargetsGone /\ TargetsClosed
  /\ stage = "rewrite" =>
       /\ \A n \in pending : LiveIs(n, "old")
       /\ \A n \in Linkers \ pending : Has(n, "new") /\ LiveIs(n, "new")
  /\ stage \in {"move", "capture", "unload", "log", "sync", "clear"} => LinkersNew
  /\ stage \in {"capture", "unload", "log", "sync", "clear"} => SourcesGone /\ TargetsClosed
  /\ stage \in {"log", "sync", "clear"} => SourcesClosed
  /\ stage = "sync" => \A n \in Targets \ pending : Has(n, "new")
  /\ stage = "clear" => \A n \in Targets : Has(n, "new")

Shape == Excepted \/ AtStage

(* The two shapes of Quiet are those the property names.                   *)
LEMMA PlacesAreRenamed ==
  ASSUME RenameTypeOK
  PROVE  (OldPlaces => NotRenamed) /\ (NewPlaces => Renamed)
  BY Names DEF OldPlaces, NewPlaces, NotRenamed, Renamed, TargetsGone, SourcesGone, LinkersNew

LEMMA RenameInitShape == RenameInit => Shape
<1> SUFFICES ASSUME RenameInit PROVE AtStage
  BY DEF Shape
<1>1. 0 \in 0 .. MaxTyped
  OBVIOUS
<1>2. OldPlaces /\ AllClosed
  BY <1>1, Names DEF RenameInit, OldPlaces, AllClosed, TargetsGone, TargetsClosed, Has, LiveIs, Text
<1> QED BY <1>2 DEF RenameInit, AtStage, Quiet

LEMMA RecoveryShape ==
  ASSUME RenameTyped, Shape,
         \/ Boot \/ ReadJournal \/ Restored \/ Recovered \/ RecoveryFails \/ Crash
         \/ \E n \in Name : Restore(n) \/ Clean(n)
  PROVE  Shape'
<1> SUFFICES ASSUME ~Excepted' PROVE AtStage'
  BY DEF Shape
<1> USE DEF RenameTyped, RenameTypeOK, Goes, Write, Stage, Begun, onDisk, memory, history, budget
<1>1. AtStage
  BY DEF Shape, Excepted, Boot, ReadJournal, Restored, Recovered, RecoveryFails, Crash,
         Restore, Clean
<1>2. CASE Boot
  BY <1>1, <1>2 DEF Boot, AtStage, Quiet, OldPlaces, NewPlaces, AllClosed, TargetsClosed,
     SourcesClosed, SourcesGone, TargetsGone, LiveIs, LinkersNew, Has
<1>3. CASE ReadJournal
  BY <1>1, <1>3 DEF ReadJournal, AtStage, Quiet, OldPlaces, NewPlaces, AllClosed, TargetsClosed,
     SourcesClosed, SourcesGone, TargetsGone, LiveIs, LinkersNew, Has
<1>4. CASE Restored
  BY <1>1, <1>4 DEF Restored, AtStage, Quiet, AllClosed, Held
<1>5. ASSUME NEW n \in Name, Restore(n) PROVE AtStage'
  BY <1>1, <1>5 DEF Restore, AtStage, Quiet, AllClosed, Held
<1>6. ASSUME NEW n \in Name, Clean(n) PROVE AtStage'
  <2>1. n \in Targets
    BY <1>6 DEF Clean
  <2> QED BY <1>1, <1>6, <2>1, Names DEF Clean, AtStage, Quiet, AllClosed, Held
<1>7. CASE Recovered
  <2>1. /\ \A n \in Sources \cup Linkers : file[n] = journal[n] /\ journal[n].links = "old"
        /\ TargetsGone /\ AllClosed
    BY <1>1, <1>7 DEF Recovered, AtStage, Held, TargetsGone
  <2>2. \A n \in Sources \cup Linkers : Has(n, "old")
    BY <1>7, <2>1 DEF Recovered, Has
  <2>3. OldPlaces
    BY <2>1, <2>2, Names DEF OldPlaces, AllClosed, TargetsClosed, LiveIs
  <2>4. OldPlaces'
    BY <1>7, <2>3 DEF Recovered, OldPlaces, TargetsGone, TargetsClosed, Has, LiveIs
  <2> QED BY <1>7, <2>4 DEF Recovered, AtStage
<1>8. CASE RecoveryFails
  BY <1>1, <1>8 DEF RecoveryFails, AtStage, Quiet
<1>9. CASE Crash
  <2>1. AllClosed'
    BY <1>9 DEF Crash, AllClosed
  <2>2. Quiet' => Quiet /\ file' = file
    BY <1>9 DEF Crash, Quiet
  <2>3. Quiet' => OldPlaces' \/ NewPlaces'
    BY <1>1, <2>1, <2>2, Names DEF AtStage, OldPlaces, NewPlaces, AllClosed, TargetsClosed,
       SourcesClosed, SourcesGone, TargetsGone, LiveIs, LinkersNew, Has
  <2> QED BY <1>1, <1>9, <2>1, <2>3 DEF Crash, AtStage
<1> QED BY <1>2, <1>3, <1>4, <1>5, <1>6, <1>7, <1>8, <1>9

(* An edit or a store of an open document keeps its links.                 *)
LEMMA ClientsShape ==
  ASSUME RenameTyped, Shape, NEW n \in Name, Open(n) \/ Type(n) \/ StoreName(n)
  PROVE  Shape'
<1> SUFFICES ASSUME ~Excepted' PROVE AtStage'
  BY DEF Shape
<1> USE DEF RenameTyped, RenameTypeOK, Write, onDisk, memory, history, budget, Awaiting
<1>1. AtStage
  BY DEF Shape, Excepted, Open, Type, StoreName
<1>2. stage' = stage /\ journal' = journal /\ pending' = pending
  BY DEF Open, Type, StoreName
<1>3. stage \in {"boot", "idle", "move", "capture", "unload"}
  BY DEF Open, Type, StoreName
<1>4. CASE Open(n)
  <2>1. /\ live' = [live EXCEPT ![n] = file[n]] /\ file' = file /\ file[n] \in Text
        /\ ~(stage = "boot" /\ journal # NoJournal)
        /\ ~(stage \in {"capture", "unload"} /\ n \in Targets)
    BY <1>4 DEF Open, Excepted
  <2>2. Quiet => OldPlaces' \/ NewPlaces'
    BY <1>1, <2>1, Names DEF AtStage, OldPlaces, NewPlaces, TargetsClosed, SourcesClosed,
       SourcesGone, TargetsGone, LiveIs, LinkersNew, Has
  <2>3. stage \in {"move", "capture", "unload"} => LinkersNew'
    BY <1>1, <2>1, Names DEF AtStage, LiveIs, LinkersNew, Has
  <2>4. stage = "move" => TargetsGone' /\ TargetsClosed'
    BY <1>1, <2>1, Names DEF AtStage, TargetsGone, TargetsClosed
  <2>5. stage \in {"capture", "unload"} => SourcesGone' /\ TargetsClosed'
    BY <1>1, <2>1, Names DEF AtStage, SourcesGone, TargetsClosed
  <2> QED BY <1>1, <1>2, <1>3, <2>1, <2>2, <2>3, <2>4, <2>5 DEF AtStage, Quiet
<1>5. CASE Type(n)
  <2>1. /\ file' = file /\ live[n] \in Text
        /\ live' = [live EXCEPT ![n] = [live[n] EXCEPT !.edit = keystrokes + 1]]
    BY <1>5 DEF Type
  <2>2. [live[n] EXCEPT !.edit = keystrokes + 1].links = live[n].links
    BY <2>1 DEF Text
  <2>3. \A m \in Name : /\ live[m] = Closed => live'[m] = Closed
                        /\ live'[m] # Closed => live[m] # Closed /\ live'[m].links = live[m].links
    BY <2>1, <2>2
  <2>4. Quiet => OldPlaces' \/ NewPlaces'
    BY <1>1, <2>1, <2>3, Names DEF AtStage, OldPlaces, NewPlaces, TargetsClosed, SourcesClosed,
       SourcesGone, TargetsGone, LiveIs, LinkersNew, Has
  <2>5. stage \in {"move", "capture", "unload"} => LinkersNew' /\ TargetsClosed'
    BY <1>1, <2>1, <2>3, Names DEF AtStage, LiveIs, LinkersNew, Has, TargetsClosed
  <2>6. journal # NoJournal /\ stage = "boot" => AllClosed'
    BY <1>1, <2>3 DEF AtStage, AllClosed
  <2> QED BY <1>1, <1>2, <1>3, <2>1, <2>4, <2>5, <2>6 DEF AtStage, Quiet, SourcesGone, TargetsGone
<1>6. CASE StoreName(n)
  <2>1. /\ live' = live /\ file' = [file EXCEPT ![n] = live[n]] /\ live[n] \in Text
        /\ ~(n \in Sources /\ file[n] = Absent)
    BY <1>6 DEF StoreName, Excepted
  <2>2. Quiet => OldPlaces' \/ NewPlaces'
    BY <1>1, <2>1, Names DEF AtStage, OldPlaces, NewPlaces, TargetsClosed, SourcesClosed,
       SourcesGone, TargetsGone, LiveIs, LinkersNew, Has
  <2>3. stage \in {"move", "capture", "unload"} => LinkersNew' /\ TargetsClosed'
    BY <1>1, <2>1, Names DEF AtStage, LiveIs, LinkersNew, Has, TargetsClosed
  <2>4. stage = "move" => TargetsGone'
    BY <1>1, <2>1 DEF AtStage, TargetsGone, TargetsClosed
  <2>5. stage \in {"capture", "unload"} => SourcesGone'
    BY <1>1, <2>1 DEF AtStage, SourcesGone
  <2>6. journal # NoJournal /\ stage = "boot" => AllClosed'
    BY <1>1, <2>1 DEF AtStage, AllClosed
  <2> QED BY <1>1, <1>2, <1>3, <2>1, <2>2, <2>3, <2>4, <2>5, <2>6 DEF AtStage, Quiet
<1> QED BY <1>4, <1>5, <1>6

(* The rename itself, from the old places to the new.                      *)
LEMMA OperationShape ==
  ASSUME RenameTyped, Shape,
         \/ BeginRename \/ AllRewritten \/ Move \/ Capture \/ UnloadSources \/ AppendLog
         \/ AllSynced \/ Clear \/ OperationFails
         \/ \E n \in Name : Rewrite(n) \/ SyncMoved(n)
  PROVE  Shape'
<1> SUFFICES ASSUME ~Excepted' PROVE AtStage'
  BY DEF Shape
<1> USE DEF RenameTyped, RenameTypeOK, Goes, Write, Stage, Begun, onDisk, memory, history, budget
<1>1. AtStage
  BY DEF Shape, Excepted, BeginRename, AllRewritten, Move, Capture, UnloadSources, AppendLog,
         AllSynced, Clear, OperationFails, Rewrite, SyncMoved
<1>2. CASE BeginRename
  <2>1. journal = NoJournal /\ Quiet
    BY <1>2 DEF BeginRename, Excepted, Quiet
  <2>2. PICK d \in Moved : file[From(d)] \in Text
    BY <1>2 DEF BeginRename
  <2>3. OldPlaces
    BY <1>1, <2>1, <2>2, Names DEF AtStage, NewPlaces, SourcesGone
  <2>4. \A n \in Sources \cup Linkers : journal'[n].links = "old"
    BY <1>2, <2>3 DEF BeginRename, Texts, Current, OldPlaces, Has, LiveIs
  <2> QED BY <1>2, <2>3, <2>4 DEF BeginRename, AtStage, Quiet, OldPlaces, TargetsGone,
             TargetsClosed, LiveIs
<1>3. CASE AllRewritten
  BY <1>1, <1>3 DEF AllRewritten, AtStage, Quiet, LinkersNew, Has, LiveIs, TargetsGone,
     TargetsClosed
<1>4. CASE Move
  <2>1. LinkersNew' /\ SourcesGone' /\ TargetsClosed'
    BY <1>1, <1>4, Names DEF Move, AtStage, LinkersNew, Has, LiveIs, SourcesGone, TargetsClosed
  <2> QED BY <1>1, <1>4, <2>1 DEF Move, AtStage, Quiet
<1>5. CASE Capture \/ AppendLog
  BY <1>1, <1>5 DEF Capture, AppendLog, AtStage, Quiet, LinkersNew, Has, LiveIs, SourcesGone,
     TargetsClosed, SourcesClosed
<1>6. CASE UnloadSources
  <2>1. LinkersNew' /\ SourcesGone' /\ TargetsClosed' /\ SourcesClosed'
    BY <1>1, <1>6, Names DEF UnloadSources, AtStage, LinkersNew, Has, LiveIs, SourcesGone,
       TargetsClosed, SourcesClosed
  <2> QED BY <1>1, <1>6, <2>1 DEF UnloadSources, AtStage, Quiet
<1>7. CASE AllSynced
  BY <1>1, <1>7 DEF AllSynced, AtStage, Quiet, LinkersNew, Has, LiveIs, SourcesGone,
     TargetsClosed, SourcesClosed
<1>8. CASE Clear
  <2>1. NewPlaces
    BY <1>1, <1>8 DEF Clear, AtStage, NewPlaces, TargetsClosed, LiveIs
  <2>2. NewPlaces'
    BY <1>8, <2>1 DEF Clear, NewPlaces, LinkersNew, Has, LiveIs, SourcesGone, SourcesClosed
  <2> QED BY <1>8, <2>2 DEF Clear, AtStage
<1>9. CASE OperationFails
  BY <1>1, <1>9 DEF OperationFails, AtStage, Quiet
<1>10. ASSUME NEW n \in Name, Rewrite(n) PROVE AtStage'
  <2> DEFINE content == IF live[n] # Closed THEN live[n] ELSE journal[n]
  <2>1. stage = "rewrite" /\ n \in pending /\ n \in Linkers /\ content \in Text
    BY <1>10 DEF Rewrite
  <2>2. content.links = "old"
    BY <1>1, <1>10, <2>1 DEF Rewrite, AtStage, LiveIs
  <2>3. /\ Rewritten(content) \in Text /\ Rewritten(content).links = "new"
        /\ file' = [file EXCEPT ![n] = Rewritten(content)]
        /\ live' = IF live[n] = Closed THEN live ELSE [live EXCEPT ![n] = Rewritten(content)]
        /\ pending' = pending \ {n} /\ stage' = stage /\ journal' = journal
    BY <1>10, <2>1, <2>2, RewrittenIsText DEF Rewrite
  <2>4. Has(n, "new")' /\ LiveIs(n, "new")'
    BY <2>3 DEF Has, LiveIs
  <2>5. \A m \in Name \ {n} : file'[m] = file[m] /\ live'[m] = live[m]
    BY <2>3
  <2>6. TargetsGone' /\ TargetsClosed'
    BY <1>1, <2>1, <2>5, Names DEF AtStage, TargetsGone, TargetsClosed
  <2>7. \A m \in pending' : LiveIs(m, "old")'
    BY <1>1, <2>1, <2>3, <2>5 DEF AtStage, LiveIs
  <2>8. \A m \in Linkers \ pending' : Has(m, "new")' /\ LiveIs(m, "new")'
    BY <1>1, <2>1, <2>3, <2>4, <2>5, Names DEF AtStage, LiveIs, Has
  <2> QED BY <1>1, <2>1, <2>3, <2>6, <2>7, <2>8 DEF AtStage, Quiet
<1>11. ASSUME NEW n \in Name, SyncMoved(n) PROVE AtStage'
  <2> DEFINE content == IF captured[n[1]] # Closed THEN captured[n[1]] ELSE journal[From(n[1])]
  <2>1. stage = "sync" /\ n \in pending /\ n \in Targets /\ content \in Text
    BY <1>11, Names DEF SyncMoved
  <2>2. /\ Rewritten(content) \in Text /\ Rewritten(content).links = "new"
        /\ file' = [file EXCEPT ![n] = Rewritten(content)]
        /\ pending' = pending \ {n} /\ stage' = stage /\ journal' = journal /\ live' = live
    BY <1>11, <2>1, RewrittenIsText DEF SyncMoved
  <2>3. Has(n, "new")' /\ \A m \in Name \ {n} : file'[m] = file[m]
    BY <2>2 DEF Has
  <2>4. LinkersNew' /\ SourcesGone' /\ TargetsClosed' /\ SourcesClosed'
    BY <1>1, <2>1, <2>2, <2>3, Names DEF AtStage, LinkersNew, SourcesGone, TargetsClosed,
       SourcesClosed, Has, LiveIs
  <2>5. \A m \in Targets \ pending' : Has(m, "new")'
    BY <1>1, <2>1, <2>2, <2>3, Names DEF AtStage, Has
  <2> QED BY <1>1, <2>1, <2>2, <2>4, <2>5 DEF AtStage, Quiet
<1> QED BY <1>2, <1>3, <1>4, <1>5, <1>6, <1>7, <1>8, <1>9, <1>10, <1>11

LEMMA RenameNextShape == RenameTyped /\ Shape /\ [RenameNext]_renameVars => Shape'
<1> SUFFICES ASSUME RenameTyped, Shape, [RenameNext]_renameVars PROVE Shape'
  OBVIOUS
<1>1. CASE UNCHANGED renameVars
  BY <1>1 DEF renameVars, onDisk, memory, history, budget, Shape, Excepted, AtStage, Quiet,
     OldPlaces, NewPlaces, AllClosed, TargetsClosed, SourcesClosed, SourcesGone, TargetsGone,
     LiveIs, LinkersNew, Has, Held
<1> QED BY <1>1, RecoveryShape, ClientsShape, OperationShape DEF RenameNext

LEMMA ShapeAlways == RenameSpec => []Shape
  BY RenameInitShape, RenameNextShape, RenameTypedAlways, PTL DEF RenameSpec

-----------------------------------------------------------------------------
(* How old the texts may be.  No text has an edit that was not yet made.   *)
Made(content) == content.edit <= keystrokes
NothingFromTheFuture ==
  /\ \A n \in Name : /\ file[n] \in Text => Made(file[n])
                     /\ live[n] # Closed => Made(live[n])
  /\ journal # NoJournal => \A n \in Sources \cup Linkers : Made(journal[n])
  /\ \A d \in Moved : captured[d] # Closed => Made(captured[d])
  /\ \A x \in Moved \cup Linker : landed[x] <= keystrokes

(* Texts of a document that are no older than what is to be on disk of it. *)
Fresh(content, x) == content.edit >= landed[x]
FileFresh(n) == file[n] \in Text => Fresh(file[n], n[1])
LiveFresh(n) == live[n] # Closed => Fresh(live[n], n[1])

(* What a rename will write of a document: the open one, or else what the  *)
(* journal has, for nobody has changed it since.                           *)
SourceFresh(n) == LiveFresh(n) /\ (live[n] = Closed => Fresh(journal[n], n[1]))
TakenFresh(d) ==
  IF captured[d] = Closed THEN Fresh(journal[From(d)], d) ELSE Fresh(captured[d], d)

FreshAtStage ==
  /\ stage = "move" => removed
  /\ Quiet => \A n \in Name : FileFresh(n) /\ LiveFresh(n)
  /\ stage \in {"rewrite", "move", "capture", "unload", "log", "sync", "clear"} =>
       \A n \in Linkers : FileFresh(n) /\ LiveFresh(n)
  /\ stage = "rewrite" => \A n \in pending : SourceFresh(n)
  /\ stage \in {"rewrite", "move", "capture"} => \A n \in Sources : SourceFresh(n)
  /\ stage \in {"unload", "log", "sync"} => \A d \in Moved : TakenFresh(d)
  /\ stage = "sync" => \A n \in Targets \ pending : FileFresh(n)
  /\ stage = "clear" => \A n \in Targets : FileFresh(n)

StaysFresh == Excepted \/ FreshAtStage

LEMMA EditIsNumber ==
  ASSUME NEW content \in Text
  PROVE  content.edit \in Nat /\ content.edit <= MaxTyped
  BY DEF Text

LEMMA LandedIsNumber ==
  ASSUME RenameTyped
  PROVE  keystrokes \in Nat /\ \A x \in Moved \cup Linker : landed[x] \in Nat
  BY DEF RenameTyped, RenameTypeOK

LEMMA OneOfDocument ==
  /\ \A n \in Name : n[1] \in Moved \cup Linker
  /\ \A n, m \in Name : n[1] = m[1] =>
       \/ n = m
       \/ n \in Sources /\ m \in Targets
       \/ n \in Targets /\ m \in Sources
<1> USE DEF From, To, Sources, Targets, Linkers, Name
<1>1. \A n \in Name : n[1] \in Moved \cup Linker
  OBVIOUS
<1>2. ASSUME NEW n \in Name, NEW m \in Name, n[1] = m[1]
      PROVE n = m \/ (n \in Sources /\ m \in Targets) \/ (n \in Targets /\ m \in Sources)
  <2>1. CASE n \in Linkers
    BY <1>2, <2>1
  <2>2. CASE n \in Sources
    BY <1>2, <2>2
  <2>3. CASE n \in Targets
    BY <1>2, <2>3
  <2> QED BY <2>1, <2>2, <2>3
<1> QED BY <1>1, <1>2

LEMMA RenameInitFresh == RenameInit => NothingFromTheFuture /\ StaysFresh
<1> SUFFICES ASSUME RenameInit PROVE NothingFromTheFuture /\ FreshAtStage
  BY DEF StaysFresh
<1>1. \A n \in Name : file[n] \in Text => file[n].edit = 0
  <2>1. [edit |-> 0, links |-> "old"].edit = 0
    OBVIOUS
  <2> QED BY <2>1 DEF RenameInit
<1>2. \A x \in Moved \cup Linker : landed[x] = 0
  BY DEF RenameInit
<1>3. NothingFromTheFuture
  BY <1>1, <1>2 DEF RenameInit, NothingFromTheFuture, Made, RenameTypeOK
<1>4. FreshAtStage
  BY <1>1, <1>2, OneOfDocument DEF RenameInit, FreshAtStage, FileFresh, LiveFresh, Fresh, Quiet
<1> QED BY <1>3, <1>4

LEMMA NothingNewer ==
  ASSUME RenameTyped, NothingFromTheFuture, RenameNext
  PROVE  NothingFromTheFuture'
<1> USE EditIsNumber, LandedIsNumber
    DEF RenameTyped, RenameTypeOK, NothingFromTheFuture, Made, Goes, Write, onDisk, memory, history,
        budget, Begun
<1>1. CASE Boot \/ ReadJournal \/ Restored \/ AllRewritten \/ AppendLog \/ AllSynced
  BY <1>1 DEF Boot, ReadJournal, Restored, AllRewritten, AppendLog, AllSynced
<1>2. CASE Recovered
  <2>1. \A x \in Moved \cup Linker : landed'[x] <= keystrokes
    BY <1>2, Names DEF Recovered
  <2> QED BY <1>2, <2>1 DEF Recovered
<1>3. CASE RecoveryFails
  BY <1>3 DEF RecoveryFails
<1>4. CASE BeginRename
  <2>1. \A n \in Sources \cup Linkers : Made(Texts[n])
    BY <1>4, Names DEF BeginRename, Texts, Current
  <2> QED BY <1>4, <2>1 DEF BeginRename
<1>5. CASE Move
  BY <1>5, Names DEF Move
<1>6. CASE Capture
  BY <1>6, Names DEF Capture
<1>7. CASE UnloadSources
  BY <1>7 DEF UnloadSources
<1>8. CASE Clear
  <2>1. \A x \in Moved \cup Linker : landed'[x] <= keystrokes
    BY <1>8, Names DEF Clear
  <2> QED BY <1>8, <2>1 DEF Clear
<1>9. CASE OperationFails
  BY <1>9 DEF OperationFails
<1>10. CASE Crash
  BY <1>10 DEF Crash
<1>11. ASSUME NEW n \in Name, Restore(n) PROVE NothingFromTheFuture'
  BY <1>11 DEF Restore
<1>12. ASSUME NEW n \in Name, Clean(n) PROVE NothingFromTheFuture'
  BY <1>12 DEF Clean
<1>13. ASSUME NEW n \in Name, Rewrite(n) PROVE NothingFromTheFuture'
  <2> DEFINE content == IF live[n] # Closed THEN live[n] ELSE journal[n]
  <2>1. content \in Text /\ Made(content)
    BY <1>13 DEF Rewrite
  <2>2. Made(Rewritten(content))
    BY <2>1, RewrittenIsText
  <2> QED BY <1>13, <2>2 DEF Rewrite
<1>14. ASSUME NEW n \in Name, SyncMoved(n) PROVE NothingFromTheFuture'
  <2> DEFINE content == IF captured[n[1]] # Closed THEN captured[n[1]] ELSE journal[From(n[1])]
  <2>1. content \in Text /\ Made(content)
    BY <1>14, Names DEF SyncMoved
  <2>2. Made(Rewritten(content)) /\ file' = [file EXCEPT ![n] = Rewritten(content)]
    BY <1>14, <2>1, RewrittenIsText DEF SyncMoved
  <2> QED BY <1>14, <2>2 DEF SyncMoved
<1>15. ASSUME NEW n \in Name, Open(n) PROVE NothingFromTheFuture'
  BY <1>15 DEF Open
<1>16. ASSUME NEW n \in Name, Type(n) PROVE NothingFromTheFuture'
  <2>1. /\ live[n] \in Text /\ keystrokes' = keystrokes + 1
        /\ live' = [live EXCEPT ![n] = [live[n] EXCEPT !.edit = keystrokes + 1]]
    BY <1>16 DEF Type
  <2>2. [live[n] EXCEPT !.edit = keystrokes + 1].edit = keystrokes + 1
    BY <2>1 DEF Text
  <2>3. \A m \in Name : live'[m] # Closed => Made(live[m]) \/ live'[m].edit = keystrokes + 1
    BY <2>1, <2>2
  <2> QED BY <1>16, <2>1, <2>2, <2>3 DEF Type
<1>17. ASSUME NEW n \in Name, StoreName(n) PROVE NothingFromTheFuture'
  BY <1>17, OneOfDocument DEF StoreName
<1> QED
  BY <1>1, <1>2, <1>3, <1>4, <1>5, <1>6, <1>7, <1>8, <1>9, <1>10, <1>11, <1>12, <1>13, <1>14,
     <1>15, <1>16, <1>17 DEF RenameNext

LEMMA NextFresh ==
  ASSUME RenameTyped, Shape, NothingFromTheFuture, StaysFresh, RenameNext
  PROVE  StaysFresh'
<1> SUFFICES ASSUME ~Excepted' PROVE FreshAtStage'
  BY DEF StaysFresh
<1>0. AtStage /\ FreshAtStage
  BY DEF Shape, StaysFresh, Excepted, RenameNext, Boot, ReadJournal, Restored, AllRewritten,
     AppendLog, AllSynced, Recovered, RecoveryFails, BeginRename, Move, Capture, UnloadSources,
     Clear, OperationFails, Crash, Restore, Clean, Rewrite, SyncMoved, Open, Type, StoreName,
     history, onDisk, memory
<1> USE <1>0, EditIsNumber, LandedIsNumber
    DEF RenameTyped, RenameTypeOK, FreshAtStage, SourceFresh, TakenFresh, FileFresh, LiveFresh,
        Fresh, Quiet, Goes, Write, onDisk, memory, history, budget, Begun, Stage
<1>1. CASE Boot \/ Restored \/ AppendLog \/ AllSynced \/ OperationFails \/ RecoveryFails
  BY <1>1 DEF Boot, Restored, AppendLog, AllSynced, OperationFails, RecoveryFails
<1>2. CASE ReadJournal
  BY <1>2 DEF ReadJournal
<1>3. CASE AllRewritten
  BY <1>3 DEF AllRewritten
<1>4. CASE Recovered
  <2>1. /\ \A n \in Sources \cup Linkers : file[n] = journal[n]
        /\ \A n \in Targets : file[n] = Absent
        /\ \A n \in Name : live[n] = Closed
    BY <1>4 DEF Recovered, AtStage, Held, AllClosed
  <2>2. \A n \in Sources \cup Linkers : Before(n[1]) = n /\ n[1] \in Moved \cup Linker
    <3>1. ASSUME NEW n \in Sources PROVE Before(n[1]) = n /\ n[1] \in Moved
      BY Names DEF Before
    <3>2. ASSUME NEW n \in Linkers PROVE Before(n[1]) = n /\ n[1] \in Linker
      <4>1. PICK l \in Linker : n = <<l, "linker">>
        BY <3>2 DEF Linkers
      <4>2. l \notin Moved /\ n[1] = l
        BY <4>1
      <4> QED BY <4>1, <4>2 DEF Before
    <3> QED BY <3>1, <3>2
  <2>3. \A n \in Name : file[n] \in Text => file[n].edit >= landed'[n[1]]
    BY <1>4, <2>1, <2>2, Names DEF Recovered
  <2> QED BY <1>4, <2>1, <2>3 DEF Recovered
<1>5. CASE BeginRename
  <2>1. Quiet /\ journal' = Texts
    BY <1>5 DEF BeginRename, Excepted
  <2>2. \A n \in Sources \cup Linkers : live[n] = Closed => Fresh(Texts[n], n[1])
    BY <1>5, <2>1, Names DEF BeginRename, Texts, Current
  <2> QED BY <1>5, <2>1, <2>2, Names DEF BeginRename
<1>6. CASE Move
  <2>1. \A n \in Linkers : file'[n] = file[n]
    BY <1>6, Names DEF Move
  <2> QED BY <1>6, <2>1 DEF Move
<1>7. CASE Capture
  <2>1. \A d \in Moved : TakenFresh(d)'
    BY <1>7, Names DEF Capture
  <2> QED BY <1>7, <2>1 DEF Capture
<1>8. CASE UnloadSources
  <2>1. \A n \in Linkers : live'[n] = live[n]
    BY <1>8, Names DEF UnloadSources
  <2> QED BY <1>8, <2>1 DEF UnloadSources
<1>9. CASE Clear
  <2>1. \A n \in Linkers : FileFresh(n)' /\ LiveFresh(n)'
    BY <1>9, Names DEF Clear
  <2>2. \A n \in Targets : FileFresh(n)' /\ LiveFresh(n)'
    BY <1>9, Names DEF Clear, AtStage, TargetsClosed
  <2>3. \A n \in Sources : FileFresh(n)' /\ LiveFresh(n)'
    BY <1>9, Names DEF Clear, AtStage, SourcesClosed, SourcesGone
  <2> QED BY <1>9, <2>1, <2>2, <2>3, Names DEF Clear
<1>10. CASE Crash
  <2>1. Quiet' => Quiet /\ file' = file
    BY <1>10 DEF Crash
  <2> QED BY <1>10, <2>1 DEF Crash
<1>11. ASSUME NEW n \in Name, Restore(n) \/ Clean(n) PROVE FreshAtStage'
  BY <1>11 DEF Restore, Clean
<1>12. ASSUME NEW n \in Name, Rewrite(n) PROVE FreshAtStage'
  <2> DEFINE content == IF live[n] # Closed THEN live[n] ELSE journal[n]
  <2>1. stage = "rewrite" /\ n \in Linkers /\ content \in Text /\ content.edit >= landed[n[1]]
    BY <1>12 DEF Rewrite
  <2>2. content.links = "old"
    BY <1>12, <2>1 DEF Rewrite, AtStage, LiveIs
  <2>3. Rewritten(content) \in Text /\ Rewritten(content).edit = content.edit
    BY <2>1, RewrittenIsText
  <2>4. /\ file' = [file EXCEPT ![n] = Rewritten(content)] /\ landed' = landed
        /\ live' = IF live[n] = Closed THEN live ELSE [live EXCEPT ![n] = Rewritten(content)]
        /\ pending' = pending \ {n} /\ stage' = stage /\ journal' = journal
    BY <1>12, <2>1, <2>2 DEF Rewrite
  <2>5. FileFresh(n)' /\ LiveFresh(n)'
    BY <2>1, <2>3, <2>4
  <2>6. \A m \in Name \ {n} : file'[m] = file[m] /\ live'[m] = live[m]
    BY <2>4
  <2>7. \A m \in Linkers : FileFresh(m)' /\ LiveFresh(m)'
    BY <2>1, <2>4, <2>5, <2>6, Names
  <2>8. \A m \in pending' \cup Sources : SourceFresh(m)'
    BY <2>1, <2>4, <2>6, Names
  <2> QED BY <2>1, <2>4, <2>7, <2>8
<1>13. ASSUME NEW n \in Name, SyncMoved(n) PROVE FreshAtStage'
  <2> DEFINE content == IF captured[n[1]] # Closed THEN captured[n[1]] ELSE journal[From(n[1])]
  <2>1. stage = "sync" /\ n \in Targets /\ content \in Text /\ content.edit >= landed[n[1]]
    BY <1>13, Names DEF SyncMoved
  <2>2. Rewritten(content) \in Text /\ Rewritten(content).edit = content.edit
    BY <2>1, RewrittenIsText
  <2>3. /\ file' = [file EXCEPT ![n] = Rewritten(content)]
        /\ UNCHANGED <<landed, live, journal, captured, stage>> /\ pending' = pending \ {n}
    BY <1>13, <2>1 DEF SyncMoved
  <2>4. FileFresh(n)' /\ \A m \in Name \ {n} : file'[m] = file[m]
    BY <2>1, <2>2, <2>3
  <2>5. \A m \in Linkers \cup (Targets \ pending') : FileFresh(m)'
    BY <2>1, <2>3, <2>4, Names
  <2> QED BY <2>1, <2>3, <2>5
<1>14. ASSUME NEW n \in Name, Open(n) PROVE FreshAtStage'
  <2>1. /\ live' = [live EXCEPT ![n] = file[n]] /\ file[n] \in Text
        /\ UNCHANGED <<file, landed, journal, stage, pending, removed, captured>>
        /\ Awaiting /\ ~(removed /\ n \in Sources)
    BY <1>14 DEF Open
  <2>2. stage \in {"move", "capture"} => n \notin Sources
    BY <2>1 DEF AtStage, SourcesGone
  <2>3. \A m \in Name : FileFresh(m) /\ LiveFresh(m) => LiveFresh(m)'
    BY <2>1
  <2>4. \A m \in Sources : n # m => (SourceFresh(m) => SourceFresh(m)')
    BY <2>1, Names
  <2> QED BY <2>1, <2>2, <2>3, <2>4, Names DEF Awaiting
<1>15. ASSUME NEW n \in Name, Type(n) PROVE FreshAtStage'
  <2>1. /\ live[n] \in Text /\ Awaiting
        /\ live' = [live EXCEPT ![n] = [live[n] EXCEPT !.edit = keystrokes + 1]]
        /\ UNCHANGED <<file, landed, journal, stage, pending, removed, captured>>
    BY <1>15 DEF Type
  <2>2. live'[n].edit = keystrokes + 1
    BY <2>1 DEF Text
  <2>3. live'[n].edit >= landed[n[1]]
    BY <2>2, OneOfDocument DEF NothingFromTheFuture
  <2>4. LiveFresh(n)'
    BY <2>1, <2>3
  <2>5. \A m \in Name \ {n} : live'[m] = live[m]
    BY <2>1
  <2>6. \A m \in Name : /\ LiveFresh(m) => LiveFresh(m)'
                        /\ SourceFresh(m) => SourceFresh(m)'
    <3>1. live'[n] # Closed
      <4>1. [live[n] EXCEPT !.edit = keystrokes + 1] \in Text
        BY <1>15, <2>1 DEF Type, Text
      <4> QED BY <2>1, <4>1
    <3> QED BY <2>1, <2>4, <2>5, <3>1
  <2> QED BY <2>1, <2>6, Names DEF Awaiting
<1>16. ASSUME NEW n \in Name, StoreName(n) PROVE FreshAtStage'
  <2>1. /\ live[n] \in Text /\ Awaiting /\ ~(n \in Sources /\ file[n] = Absent)
        /\ file' = [file EXCEPT ![n] = live[n]]
        /\ landed' = [landed EXCEPT ![n[1]] = live[n].edit]
        /\ UNCHANGED <<live, journal, stage, pending, removed, captured>>
    BY <1>16 DEF StoreName, Excepted
  <2>2. /\ FileFresh(n)' /\ SourceFresh(n)'
        /\ \A m \in Name : m[1] # n[1] => file'[m] = file[m] /\ landed'[m[1]] = landed[m[1]]
    BY <2>1, OneOfDocument
  <2>3. \A m \in Name : m[1] # n[1] => /\ FileFresh(m) => FileFresh(m)'
                                       /\ LiveFresh(m) => LiveFresh(m)'
                                       /\ SourceFresh(m) => SourceFresh(m)'
    BY <2>1, <2>2
  <2>4. CASE n \in Linkers
    <3>1. \A m \in Name : m # n => m[1] # n[1]
      BY <2>4, OneOfDocument, Names
    <3>2. \A d \in Moved : landed'[d] = landed[d]
      BY <2>1, <2>4, Names
    <3> QED BY <2>1, <2>2, <2>3, <3>1, <3>2, Names DEF Awaiting
  <2>5. CASE n \in Sources
    <3>1. stage \notin {"capture", "unload"}
      BY <2>1, <2>5 DEF AtStage, SourcesGone
    <3>2. \A m \in Sources \cup Linkers : m # n => m[1] # n[1]
      BY <2>5, OneOfDocument, Names
    <3>3. Quiet => \A m \in Targets : FileFresh(m)' /\ LiveFresh(m)'
      BY <2>1, <2>5, Names DEF AtStage, OldPlaces, NewPlaces, TargetsGone, TargetsClosed,
         SourcesClosed
    <3> QED BY <2>1, <2>2, <2>3, <2>5, <3>1, <3>2, <3>3, Names DEF Awaiting
  <2>6. CASE n \in Targets
    <3>1. stage \notin {"move", "capture", "unload"}
      BY <2>1, <2>6 DEF AtStage, TargetsClosed
    <3>2. \A m \in Targets \cup Linkers : m # n => m[1] # n[1]
      BY <2>6, OneOfDocument, Names
    <3>3. Quiet => \A m \in Sources : FileFresh(m)' /\ LiveFresh(m)'
      BY <2>1, <2>6, Names DEF AtStage, OldPlaces, NewPlaces, SourcesGone, SourcesClosed,
         TargetsClosed
    <3> QED BY <2>1, <2>2, <2>3, <2>6, <3>1, <3>2, <3>3, Names DEF Awaiting
  <2> QED BY <2>4, <2>5, <2>6, Names
<1> QED
  BY <1>1, <1>2, <1>3, <1>4, <1>5, <1>6, <1>7, <1>8, <1>9, <1>10, <1>11, <1>12, <1>13, <1>14,
     <1>15, <1>16 DEF RenameNext

LEMMA FreshAlways == RenameSpec => [](NothingFromTheFuture /\ StaysFresh)
<1>1. ASSUME RenameTyped, Shape, NothingFromTheFuture, StaysFresh, UNCHANGED renameVars
      PROVE (NothingFromTheFuture /\ StaysFresh)'
  BY <1>1 DEF renameVars, onDisk, memory, history, budget, NothingFromTheFuture, Made, StaysFresh,
     Excepted, FreshAtStage, SourceFresh, TakenFresh, FileFresh, LiveFresh, Fresh, Quiet
<1>2. RenameTyped /\ Shape /\ NothingFromTheFuture /\ StaysFresh /\ [RenameNext]_renameVars
        => (NothingFromTheFuture /\ StaysFresh)'
  BY <1>1, NothingNewer, NextFresh
<1> QED BY <1>2, RenameInitFresh, RenameTypedAlways, ShapeAlways, PTL DEF RenameSpec

-----------------------------------------------------------------------------
(* Type correctness: no loop of a rename or a recovery meets a name it has *)
(* no text for.                                                            *)
THEOREM RenameTypeCorrect == RenameSpec => []RenameTypeOK
<1>1. RenameTyped => RenameTypeOK
  BY DEF RenameTyped
<1> QED BY <1>1, RenameTypedAlways, PTL

(* All or nothing, wherever the server is killed and whatever fails, for   *)
(* any number of documents moved and of documents that link to them.       *)
THEOREM RenameIsAtomic == RenameSpec => []AllOrNothing
<1>1. RenameTyped /\ Shape => AllOrNothing
  BY PlacesAreRenamed DEF RenameTyped, Shape, Excepted, AtStage, AllOrNothing
<1> QED BY <1>1, RenameTypedAlways, ShapeAlways, PTL

(* No stored text is replaced by an older one, for any number of documents,*)
(* edits, crashes and failures.                                            *)
THEOREM StoredTextsStay == RenameSpec => []StoredTextKept
<1>1. RenameTyped /\ Shape /\ StaysFresh => StoredTextKept
  <2> SUFFICES ASSUME RenameTyped, Shape, StaysFresh, Quiet, ~Excepted,
                      NEW x \in Moved \cup Linker
               PROVE \E n \in Name : n[1] = x /\ file[n] \in Text /\ file[n].edit >= landed[x]
    BY DEF StoredTextKept, Excepted
  <2>1. \A n \in Name : file[n] \in Text => file[n].edit >= landed[n[1]]
    BY DEF StaysFresh, FreshAtStage, FileFresh, Fresh
  <2>2. \E n \in Name : n[1] = x /\ file[n] \in Text
    <3>1. CASE x \in Linker
      <4>1. <<x, "linker">> \in Linkers
        BY <3>1 DEF Linkers
      <4>2. file[<<x, "linker">>] \in Text
        BY <4>1 DEF Shape, AtStage, OldPlaces, NewPlaces, LinkersNew, Has
      <4> QED BY <4>1, <4>2, Names
    <3>2. CASE x \in Moved
      <4>1. From(x) \in Sources /\ To(x) \in Targets /\ From(x)[1] = x /\ To(x)[1] = x
        BY <3>2, Names
      <4>2. file[From(x)] \in Text \/ file[To(x)] \in Text
        BY <4>1 DEF Shape, AtStage, OldPlaces, NewPlaces, Has
      <4> QED BY <4>1, <4>2, Names
    <3> QED BY <3>1, <3>2
  <2> QED BY <2>1, <2>2
<1> QED BY <1>1, RenameTypedAlways, ShapeAlways, FreshAlways, PTL

-----------------------------------------------------------------------------
(***************************************************************************)
(* ObserverBridge: for every set of paragraphs and number of throws.       *)
(***************************************************************************)
USE ObserverAssumption

(* What the edits of a batch that began with both sides equal add up to is *)
(* the three-way merge of the two sides, and no paragraph is on both sides *)
(* without being in the baseline.                                          *)
Tracked ==
  (turn \in {"batch", "a"} /\ ~apart /\ ~missed) =>
     /\ wanted = Merged3(baseline, fragment, text)
     /\ fragment \cap text \subseteq baseline \/ turn = "a"
     /\ turn = "batch" /\ ~xmlDirty => fragment = baseline

(* When it is observer B's turn, or nobody's, the text has it all.         *)
Reached == (turn \in {"b", "rest"} /\ ~apart /\ ~missed) => text = wanted

(* Sides that are equal when a batch begins are equal to the baseline, and *)
(* no paragraph is on a side that was never inserted.                      *)
Based ==
  /\ turn = "rest" /\ fragment = text => baseline = text
  /\ baseline \cup fragment \cup text \subseteq used

(* While no batch has changed both sides and no observer has thrown, only  *)
(* the dirty side differs from the baseline, and nothing between batches.  *)
OneSided ==
  mixed \/ syncFaults > 0 \/
    /\ ~apart
    /\ turn = "batch" => ~(xmlDirty /\ textDirty) /\ (xmlDirty \/ textDirty)
    /\ turn = "batch" /\ ~xmlDirty => fragment = baseline
    /\ turn = "batch" /\ ~textDirty => text = baseline
    /\ turn = "a" => text = baseline /\ ~textDirty
    /\ turn = "b" => fragment = baseline
    /\ turn = "rest" => fragment = text

ObserverInv == ObserverTypeOK /\ Tracked /\ Reached /\ Based /\ OneSided

-----------------------------------------------------------------------------
LEMMA ObserverInitInv == ObserverInit => ObserverInv
<1> SUFFICES ASSUME ObserverInit PROVE ObserverInv
  OBVIOUS
<1>1. ObserverTypeOK
  <2>1. syncFaults \in 0 .. MaxSyncFaults
    BY SMT DEF ObserverInit
  <2> QED BY <2>1, Zenon DEF ObserverInit, ObserverTypeOK
<1>2. Tracked /\ Reached /\ Based /\ OneSided
  BY DEF ObserverInit, Tracked, Reached, Based, OneSided
<1> QED BY <1>1, <1>2 DEF ObserverInv

(* An edit of the tree.                                                    *)
LEMMA EditTreeInv ==
  ASSUME ObserverInv, NEW p \in Piece, EditTree(p)
  PROVE  ObserverInv'
<1> USE DEF EditTree, InBatch, FromApart, Inserts, Deletes, ObserverInv
<1>1. ObserverTypeOK'
  BY DEF ObserverTypeOK
<1>2. Tracked'
  BY DEF ObserverTypeOK, Tracked, Reached, Based, Merged3
<1>3. Reached' /\ Based'
  BY DEF Reached, Based
<1>4. OneSided'
  BY DEF OneSided, Based, ObserverTypeOK
<1> QED BY <1>1, <1>2, <1>3, <1>4

LEMMA EditTextInv ==
  ASSUME ObserverInv, NEW p \in Piece, EditText(p)
  PROVE  ObserverInv'
<1> USE DEF EditText, InBatch, FromApart, Inserts, Deletes, ObserverInv
<1>1. ObserverTypeOK'
  BY DEF ObserverTypeOK
<1>2. Tracked'
  BY DEF ObserverTypeOK, Tracked, Reached, Based, Merged3
<1>3. Reached' /\ Based'
  BY DEF Reached, Based
<1>4. OneSided'
  BY DEF OneSided, Based, ObserverTypeOK
<1> QED BY <1>1, <1>2, <1>3, <1>4

LEMMA PairedWriteInv ==
  ASSUME ObserverInv, NEW new \in SUBSET Piece, PairedWrite(new)
  PROVE  ObserverInv'
<1> USE DEF PairedWrite, ObserverInv
<1>1. ObserverTypeOK'
  BY DEF ObserverTypeOK
<1>2. Tracked' /\ Reached' /\ Based' /\ OneSided'
  BY DEF ObserverTypeOK, Tracked, Reached, Based, OneSided
<1> QED BY <1>1, <1>2

(* If only the text has changed, the merge is the text.                    *)
LEMMA DrainInv ==
  ASSUME ObserverInv, Drain
  PROVE  ObserverInv'
<1> USE DEF Drain, ObserverInv, sides, told
<1>1. ObserverTypeOK'
  BY DEF ObserverTypeOK
<1>2. Tracked' /\ Reached'
  BY DEF ObserverTypeOK, Tracked, Reached, Merged3
<1>3. Based' /\ OneSided'
  BY DEF Based, OneSided, ObserverTypeOK
<1> QED BY <1>1, <1>2, <1>3

(* Observer A leaves the text with all of the merge, on each of its paths. *)
LEMMA ObserverAInv ==
  ASSUME ObserverInv, ObserverA
  PROVE  ObserverInv'
<1> USE DEF ObserverA, BIsNext, ObserverInv, told
<1>1. Synced = Merged3(baseline, fragment, text)
  BY DEF Synced, Merged3
<1>2. Synced \subseteq fragment \cup text \cup baseline
  BY DEF Synced, Merged3
<1>3. ObserverTypeOK'
  BY <1>2 DEF ObserverTypeOK
<1>4. fragment \in {baseline, text} => Merged3(baseline, fragment, text) = text
  BY DEF Merged3
<1>5. Tracked' /\ Reached'
  BY <1>1, <1>4 DEF ObserverTypeOK, Tracked, Reached
<1>6. Based'
  BY <1>2 DEF Based, ObserverTypeOK
<1>7. OneSided'
  BY <1>1 DEF OneSided, ObserverTypeOK, Synced
<1> QED BY <1>3, <1>5, <1>6, <1>7

LEMMA ObserverAThrowsInv ==
  ASSUME ObserverInv, ObserverAThrows
  PROVE  ObserverInv'
<1> USE DEF ObserverAThrows, BIsNext, ObserverInv, sides
<1>1. ObserverTypeOK'
  <2>1. (syncFaults \in 0 .. MaxSyncFaults)'
    BY SMT DEF ObserverTypeOK
  <2>2. turn' \in {"b", "rest"} /\ ~textDirty' /\ ~xmlDirty'
    BY DEF ObserverTypeOK
  <2> QED BY <2>1, <2>2 DEF ObserverTypeOK
<1>2. Tracked' /\ Reached' /\ Based' /\ OneSided'
  BY DEF ObserverTypeOK, Tracked, Reached, Based, OneSided
<1> QED BY <1>1, <1>2

LEMMA ObserverBInv ==
  ASSUME ObserverInv, ObserverB \/ ObserverBThrows
  PROVE  ObserverInv'
<1> USE DEF ObserverB, ObserverBThrows, ObserverInv, told, sides
<1>1. ObserverTypeOK'
  BY DEF ObserverTypeOK
<1>2. Tracked' /\ Reached'
  BY DEF Tracked, Reached
<1>3. Based' /\ OneSided'
  BY DEF ObserverTypeOK, Based, OneSided
<1> QED BY <1>1, <1>2, <1>3

LEMMA ObserverNextInv == ObserverInv /\ [ObserverNext]_observerVars => ObserverInv'
<1> SUFFICES ASSUME ObserverInv, [ObserverNext]_observerVars PROVE ObserverInv'
  OBVIOUS
<1>1. CASE UNCHANGED observerVars
  BY <1>1 DEF observerVars, sides, observing, told, ObserverInv, ObserverTypeOK, Tracked,
              Reached, Based, OneSided, Merged3
<1> QED
  BY <1>1, EditTreeInv, EditTextInv, PairedWriteInv, DrainInv, ObserverAInv,
     ObserverAThrowsInv, ObserverBInv DEF ObserverNext

LEMMA ObserverInvariance == ObserverSpec => []ObserverInv
  BY ObserverInitInv, ObserverNextInv, PTL DEF ObserverSpec

-----------------------------------------------------------------------------
(* Type correctness: the dirty flags are down whenever nothing runs.       *)
THEOREM ObserverTypeCorrect == ObserverSpec => []ObserverTypeOK
<1>1. ObserverInv => ObserverTypeOK
  BY DEF ObserverInv
<1> QED BY <1>1, ObserverInvariance, PTL

(* Nothing typed is lost on the way to the text, and nothing deleted comes *)
(* back, when a batch begins with the two sides equal.                     *)
THEOREM TypingReachesText == ObserverSpec => []TypedReachesText
<1>1. ObserverInv => TypedReachesText
  BY DEF ObserverInv, Reached, TypedReachesText
<1> QED BY <1>1, ObserverInvariance, PTL

(* Tree and text agree between batches that change only one of them.       *)
THEOREM TreeAndTextAgree == ObserverSpec => []SidesAgree
<1>1. ObserverInv => SidesAgree
  BY DEF ObserverInv, OneSided, SidesAgree
<1> QED BY <1>1, ObserverInvariance, PTL

-----------------------------------------------------------------------------
(***************************************************************************)
(* The services together.                                                  *)
(***************************************************************************)

(* A behaviour of the run is, for each service, a behaviour of that service*)
(* or one in which it stands still: none touches what is another's.        *)
THEOREM ServicesDoNotInterfere ==
  ServicesSpec =>
    LockSpec /\ RenameSpec /\ SyncSpec /\ ObserverSpec /\ SessionSpec /\ ConfigSpec
<1>1. ServicesInit =>
        LockInit /\ RenameInit /\ SyncInit /\ ObserverInit /\ SessionInit /\ ConfigInit
  BY DEF ServicesInit
<1> DEFINE all == <<part, lockVars, renameVars, syncVars, observerVars, sessionVars, configVars>>
<1>2. [ServicesNext]_all => [LockNext]_lockVars
  BY Zenon DEF ServicesNext, Is
<1>3. [ServicesNext]_all => [RenameNext]_renameVars
  BY Zenon DEF ServicesNext, Is
<1>4. [ServicesNext]_all => [SyncNext]_syncVars
  BY Zenon DEF ServicesNext, Is
<1>5. [ServicesNext]_all => [ObserverNext]_observerVars
  BY Zenon DEF ServicesNext, Is
<1>6. [ServicesNext]_all => [SessionNext]_sessionVars
  BY Zenon DEF ServicesNext, Is
<1>7. [ServicesNext]_all => [ConfigNext]_configVars
  BY Zenon DEF ServicesNext, Is
<1> QED
  BY <1>1, <1>2, <1>3, <1>4, <1>5, <1>6, <1>7, PTL
  DEF ServicesSpec, LockSpec, RenameSpec, SyncSpec, ObserverSpec, SessionSpec, ConfigSpec

(* Type correctness of all of them, from each one's own theorem.           *)
THEOREM ServicesTypeCorrect == ServicesSpec => []ServicesTypeOK
<1>1. /\ LockTypeOK /\ RenameTypeOK /\ ObserverTypeOK /\ SessionTypeOK /\ ConfigTypeOK
      => ServicesTypeOK
  BY DEF ServicesTypeOK
<1> QED
  BY <1>1, ServicesDoNotInterfere, LockTypeCorrect, RenameTypeCorrect, ObserverTypeCorrect,
     SessionTypeCorrect, ConfigTypeCorrect, PTL
=============================================================================
