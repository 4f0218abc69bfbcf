------------------------- MODULE CommitPipelineProofs -------------------------
(***************************************************************************)
(* Theorems about CommitPipeline, for every set of writers and all bounds. *)
(***************************************************************************)
EXTENDS CommitPipeline, SequenceTheorems, TLAPS

-----------------------------------------------------------------------------
(* The contributor map: what Restored and Summaries return.                *)

LEMMA SummariesType ==
  ASSUME NEW entry \in Entry \cup {NoEntry}
  PROVE  Summaries(entry) \in Seq(Nat)
BY EmptySeq DEF Summaries, Entry

LEMMA RestoredType ==
  ASSUME NEW live \in Entry \cup {NoEntry}, NEW entry \in Entry \cup {NoEntry}
  PROVE  Restored(live, entry) \in Entry \cup {NoEntry}
<1>1. CASE entry = NoEntry
  BY <1>1 DEF Restored
<1>2. CASE entry # NoEntry
  <2>1. entry \o Summaries(live) \in Seq(Nat)
    BY <1>2, SummariesType, ConcatProperties DEF Entry
  <2>2. QED
    BY <1>2, <2>1 DEF Restored, Entry
<1>3. QED
  BY <1>1, <1>2

(* Nothing is lost or reordered by a restore. *)
LEMMA RestoredSummaries ==
  ASSUME NEW live \in Entry \cup {NoEntry}, NEW entry \in Entry \cup {NoEntry}
  PROVE  Summaries(Restored(live, entry)) = Summaries(entry) \o Summaries(live)
<1>1. CASE entry = NoEntry
  BY <1>1, SummariesType, ConcatEmptySeq DEF Restored, Summaries
<1>2. CASE entry # NoEntry
  <2>1. entry \o Summaries(live) \in Entry
    BY <1>2, SummariesType, ConcatProperties DEF Entry
  <2>2. Restored(live, entry) = entry \o Summaries(live) /\ Summaries(entry) = entry
    BY <1>2 DEF Restored, Summaries
  <2>3. Restored(live, entry) # NoEntry
    BY <2>1, <2>2, PipelineAssumption
  <2>4. QED
    BY <2>2, <2>3 DEF Summaries
<1>3. QED
  BY <1>1, <1>2

-----------------------------------------------------------------------------
(* Type correctness.                                                       *)

LEMMA NoParentsType == NoParents \in [Ref -> Parent \cup {NoParent}]
BY DEF NoParents

LEMMA InitTypes == Init => TypeOK
<1>1. SUFFICES ASSUME Init PROVE TypeOK
  OBVIOUS
<1>2. NoEntries \in Map
  BY DEF NoEntries, Map
<1>3. <<>> \in Seq(Nat)
  BY EmptySeq
<1>4. log \in [Writer -> Seq(Nat)] /\ wip \in [Ref -> Nat]
  BY <1>1, <1>3 DEF Init
<1>5. /\ contributions \in 0 .. MaxContributions /\ failures \in 0 .. MaxFailures
      /\ batches \in 0 .. MaxBatches /\ stops \in 0 .. MaxStops
  BY <1>1, PipelineAssumption DEF Init
<1>6. QED
  BY <1>1, <1>2, <1>4, <1>5, NoParentsType DEF Init, TypeOK

(* The pieces that several actions share keep the types of what they change. *)
LEMMA ScheduleTypes ==
  ASSUME TypeOK, ScheduleGitCommit
  PROVE  gitCommitTimer' \in BOOLEAN /\ gap' \in BOOLEAN
BY Zenon DEF ScheduleGitCommit, TypeOK

LEMMA StartTypes ==
  ASSUME TypeOK, StartCommit
  PROVE  /\ commitInFlight' \in {"none", "building", "committing"}
         /\ snapshot' \in Map /\ pendingContributors' \in Map
         /\ gap' \in BOOLEAN
BY DEF StartCommit, TypeOK, NoEntries, Map

LEMMA EndTypes ==
  ASSUME TypeOK, NEW failed \in BOOLEAN, EndCommit(failed)
  PROVE  /\ commitInFlight' \in {"none", "building", "committing"}
         /\ tree' \in Nat \cup {NoTree} /\ awaiting' \subseteq {"head", "destroy"}
         /\ pendingAfterCommit' \in BOOLEAN
         /\ gitCommitTimer' \in BOOLEAN /\ gap' \in BOOLEAN
<1>1. CASE pendingAfterCommit
  <2>1. ScheduleGitCommit
    BY <1>1, Zenon DEF EndCommit
  <2>2. QED
    BY <2>1, ScheduleTypes DEF EndCommit
<1>2. CASE ~pendingAfterCommit
  <2>1. gitCommitTimer' = gitCommitTimer /\ gap' \in BOOLEAN
    BY <1>2, Zenon DEF EndCommit, TypeOK
  <2>2. QED
    BY <2>1 DEF EndCommit, TypeOK
<1>3. QED
  BY <1>1, <1>2 DEF TypeOK

LEMMA FlushTypes ==
  ASSUME TypeOK, FlushPendingGitCommit
  PROVE  /\ gitCommitTimer' \in BOOLEAN /\ pendingAfterCommit' \in BOOLEAN
         /\ commitInFlight' \in {"none", "building", "committing"}
         /\ snapshot' \in Map /\ pendingContributors' \in Map
         /\ gap' \in BOOLEAN
<1>1. CASE ~gitCommitTimer /\ UNCHANGED <<timerVars, commitInFlight, mapVars>>
  BY <1>1 DEF TypeOK, timerVars, mapVars
<1>2. CASE /\ gitCommitTimer' = FALSE /\ UNCHANGED pendingAfterCommit
           /\ commitInFlight = "none" /\ StartCommit
  BY <1>2, StartTypes DEF TypeOK
<1>3. CASE /\ gitCommitTimer' = FALSE /\ UNCHANGED pendingAfterCommit
           /\ gap' = (commitInFlight = "committing" /\ ~pendingAfterCommit)
           /\ UNCHANGED <<commitInFlight, mapVars>>
  <2>1. gap' \in BOOLEAN
    BY <1>3, Zenon
  <2>2. QED
    BY <1>3, <2>1 DEF TypeOK, mapVars
<1>4. QED
  BY <1>1, <1>2, <1>3, Zenon DEF FlushPendingGitCommit

LEMMA LoseTypes ==
  ASSUME TypeOK, NEW status \in {"stopped", "crashed"}, Lose(status)
  PROVE  /\ server' \in {"up", "draining", "flushing", "stopped", "crashed"}
         /\ written' \in Nat /\ storing' \in Nat /\ saved' \in Nat /\ epoch' \in Nat
         /\ batch' \in BOOLEAN /\ opening' \in BOOLEAN /\ gap' \in BOOLEAN
         /\ gitCommitTimer' \in BOOLEAN /\ pendingAfterCommit' \in BOOLEAN
         /\ commitInFlight' \in {"none", "building", "committing"}
         /\ tree' \in Nat \cup {NoTree} /\ checkpoint' \in Nat \cup {NoTree}
         /\ saving' \in {"none", "built", "linked", "landed"}
         /\ parents' \in [Ref -> Parent \cup {NoParent}]
         /\ pendingContributors' \in Map /\ snapshot' \in Map
         /\ log' \in [Writer -> Seq(Nat)] /\ wip' \in [Ref -> Nat]
         /\ awaiting' \subseteq {"head", "destroy"}
         /\ contributions' = contributions /\ batches' = batches /\ saves' = saves
<1>1. NoEntries \in Map
  BY DEF NoEntries, Map
<1>2. gap' \in BOOLEAN
  BY DEF Lose, Held
<1>3. parents' \in [Ref -> Parent \cup {NoParent}]
  BY NoParentsType DEF Lose
<1>4. /\ saving' = "none" /\ tree' = NoTree /\ checkpoint' = NoTree
      /\ pendingContributors' = NoEntries /\ snapshot' = NoEntries
      /\ commitInFlight' = "none" /\ awaiting' = {} /\ server' = status
      /\ storing' = 0 /\ epoch' = epoch + 1
      /\ batch' = FALSE /\ opening' = FALSE
      /\ gitCommitTimer' = FALSE /\ pendingAfterCommit' = FALSE
      /\ UNCHANGED <<written, batches, saves, log, wip, saved, contributions>>
  BY DEF Lose
<1>5. written' \in Nat /\ saved' \in Nat /\ epoch' \in Nat
      /\ log' \in [Writer -> Seq(Nat)] /\ wip' \in [Ref -> Nat]
  BY <1>4 DEF TypeOK
<1>6. QED
  BY <1>1, <1>2, <1>3, <1>4, <1>5

(* The landed checkpoint reaches its own tree and the refs it links, which *)
(* are versions the files have had.                                        *)
LEMMA LandedVersion ==
  ASSUME TypeOK, CommitIsWhole, LandCheckpoint
  PROVE  saved' \in Nat /\ saved' <= written /\ saved' >= saved
<1>1. PICK v \in {saved, checkpoint} \cup
                 {parents[r].version : r \in {r \in Ref : parents[r] # NoParent}} :
        saved' = v
  BY DEF LandCheckpoint
<1>2. checkpoint # NoTree
  BY DEF LandCheckpoint, CommitIsWhole, SaveIsWhole
<1>3. checkpoint \in Nat /\ checkpoint <= written
  BY <1>2 DEF TypeOK, CommitIsWhole, SaveIsWhole
<1>4. \A r \in Ref : parents[r] # NoParent =>
        parents[r].version \in Nat /\ parents[r].version <= written
  BY DEF TypeOK, Parent, CommitIsWhole, SaveIsWhole
<1>5. v \in Nat /\ v <= written
  BY <1>1, <1>3, <1>4 DEF TypeOK, CommitIsWhole
<1>6. QED
  BY <1>1, <1>5 DEF LandCheckpoint

(* The inductive invariant: the types alone are not inductive, since a commit *)
(* publishes the tree that CommitIsWhole says it has.                         *)
Inv == TypeOK /\ CommitIsWhole

(* One step per action; what an action leaves alone keeps its type. *)
LEMMA NextTypes == Inv /\ [Next]_vars => TypeOK'
<1> SUFFICES ASSUME TypeOK, CommitIsWhole, [Next]_vars PROVE TypeOK'
  BY DEF Inv
<1> USE DEF diskVars, batchVars, timerVars, mapVars, gitVars, saveVars
<1>1. ASSUME NEW w \in Writer, RecordContributor(w) PROVE TypeOK'
  <2>1. Summaries(pendingContributors[w]) \in Seq(Nat)
    BY SummariesType DEF TypeOK, Map
  <2>2. contributions + 1 \in 0 .. MaxContributions /\ contributions + 1 \in Nat
    BY <1>1, PipelineAssumption DEF TypeOK, RecordContributor
  <2>3. Append(Summaries(pendingContributors[w]), contributions + 1) \in Entry
    BY <2>1, <2>2, AppendProperties DEF Entry
  <2>4. pendingContributors' \in Map
    BY <1>1, <2>3 DEF RecordContributor, TypeOK, Map
  <2>5. QED
    BY <1>1, <2>2, <2>4 DEF RecordContributor, TypeOK
<1>2. ASSUME NEW w \in Writer, RecordEditor(w) PROVE TypeOK'
  <2>1. <<>> \in Entry
    BY EmptySeq DEF Entry
  <2>2. pendingContributors' \in Map
    BY <1>2, <2>1 DEF RecordEditor, TypeOK, Map
  <2>3. QED
    BY <1>2, <2>2 DEF RecordEditor, TypeOK
<1>3. ASSUME TimerFires PROVE TypeOK'
  <2>1. CASE StartCommit /\ UNCHANGED pendingAfterCommit
    BY <1>3, <2>1, StartTypes DEF TimerFires, TypeOK
  <2>2. CASE pendingAfterCommit' = TRUE /\ UNCHANGED <<commitInFlight, mapVars, gap>>
    BY <1>3, <2>2 DEF TimerFires, TypeOK
  <2>3. QED
    BY <1>3, <2>1, <2>2 DEF TimerFires
<1>4. ASSUME BuildTree PROVE TypeOK'
  BY <1>4 DEF BuildTree, TypeOK
<1>5. ASSUME FailBuild PROVE TypeOK'
  <2>1. \A w \in Writer : Restored(pendingContributors[w], snapshot[w])
                            \in Entry \cup {NoEntry}
    BY RestoredType DEF TypeOK, Map
  <2>2. pendingContributors' \in Map /\ snapshot' \in Map
    BY <1>5, <2>1 DEF FailBuild, Map, NoEntries
  <2>3. failures' \in 0 .. MaxFailures
    BY <1>5, PipelineAssumption DEF FailBuild, TypeOK
  <2>4. QED
    BY <1>5, <2>2, <2>3, EndTypes DEF FailBuild, TypeOK
<1>6. ASSUME NEW w \in Writer, CommitWriter(w) PROVE TypeOK'
  <2>1. snapshot[w] \in Entry /\ log[w] \in Seq(Nat)
    BY <1>6 DEF CommitWriter, TypeOK, Map
  <2>2. log[w] \o snapshot[w] \in Seq(Nat)
    BY <2>1, ConcatProperties DEF Entry
  <2>3. log' \in [Writer -> Seq(Nat)] /\ snapshot' \in Map
    BY <1>6, <2>2 DEF CommitWriter, TypeOK, Map
  <2>4. tree \in Nat
    BY <1>6 DEF CommitWriter, TypeOK, CommitIsWhole
  <2>5. wip' \in [Ref -> Nat]
    BY <1>6, <2>4 DEF CommitWriter, TypeOK, Newer, Ref
  <2>6. CASE Recorded(snapshot) = {w}
    BY <1>6, <2>3, <2>5, <2>6, EndTypes DEF CommitWriter, TypeOK
  <2>7. CASE Recorded(snapshot) # {w}
    BY <1>6, <2>3, <2>5, <2>7 DEF CommitWriter, TypeOK
  <2>8. QED
    BY <2>6, <2>7
<1>7. ASSUME NEW w \in Writer, FailWriter(w) PROVE TypeOK'
  <2>1. Restored(pendingContributors[w], snapshot[w]) \in Entry \cup {NoEntry}
    BY RestoredType DEF TypeOK, Map
  <2>2. pendingContributors' \in Map /\ snapshot' \in Map
    BY <1>7, <2>1 DEF FailWriter, TypeOK, Map
  <2>3. failures' \in 0 .. MaxFailures
    BY <1>7, PipelineAssumption DEF FailWriter, TypeOK
  <2>4. CASE Recorded(snapshot) = {w}
    <3>1. EndCommit(~Held(tree))
      BY <1>7, <2>4 DEF FailWriter
    <3>2. (~Held(tree)) \in BOOLEAN
      BY DEF Held
    <3>3. QED
      BY <1>7, <2>2, <2>3, <3>1, <3>2, EndTypes DEF FailWriter, TypeOK
  <2>5. CASE Recorded(snapshot) # {w}
    BY <1>7, <2>2, <2>3, <2>5 DEF FailWriter, TypeOK
  <2>6. QED
    BY <2>4, <2>5
<1>8. ASSUME CommitService PROVE TypeOK'
  <2>1. tree \in Nat
    BY <1>8 DEF CommitService, TypeOK, CommitIsWhole
  <2>2. CASE /\ wip' = [wip EXCEPT ![Service] = Newer(@, tree)]
             /\ EndCommit(FALSE) /\ UNCHANGED failures
    <3>1. wip' \in [Ref -> Nat]
      BY <2>1, <2>2 DEF TypeOK, Newer, Ref
    <3>2. QED
      BY <1>8, <2>2, <3>1, EndTypes DEF CommitService, TypeOK
  <2>3. CASE /\ failures < MaxFailures /\ failures' = failures + 1
             /\ EndCommit(TRUE) /\ UNCHANGED wip
    <3>1. failures' \in 0 .. MaxFailures
      BY <2>3, PipelineAssumption DEF TypeOK
    <3>2. QED
      BY <1>8, <2>3, <3>1, EndTypes DEF CommitService, TypeOK
  <2>4. QED
    BY <1>8, <2>2, <2>3 DEF CommitService
<1>9. ASSUME FlushGitCommit PROVE TypeOK'
  BY <1>9, FlushTypes DEF FlushGitCommit, TypeOK
<1>10. ASSUME FlushContributors PROVE TypeOK'
  BY <1>10, StartTypes DEF FlushContributors, TypeOK
<1>11. ASSUME BeginStore \/ FinishStore \/ StoreUnchanged PROVE TypeOK'
  <2>1. CASE BeginStore
    BY <2>1 DEF BeginStore, TypeOK
  <2>2. CASE FinishStore
    BY <2>2, ScheduleTypes DEF FinishStore, TypeOK
  <2>3. CASE StoreUnchanged
    BY <2>3, ScheduleTypes DEF StoreUnchanged, TypeOK
  <2>4. QED
    BY <1>11, <2>1, <2>2, <2>3
<1>12. ASSUME BeginHeadBatch \/ OpenHeadBatch \/ BeginSyncBatch \/ EndBatch
       PROVE  TypeOK'
  <2>1. CASE BeginHeadBatch
    <3>1. awaiting' \subseteq {"head", "destroy"}
      BY <2>1 DEF BeginHeadBatch, AwaitCommit, TypeOK
    <3>2. batches' \in 0 .. MaxBatches
      BY <2>1, PipelineAssumption DEF BeginHeadBatch, TypeOK
    <3>3. QED
      BY <2>1, <3>1, <3>2, FlushTypes DEF BeginHeadBatch, TypeOK
  <2>2. CASE OpenHeadBatch
    BY <2>2 DEF OpenHeadBatch, TypeOK
  <2>3. CASE BeginSyncBatch
    BY <2>3, PipelineAssumption DEF BeginSyncBatch, TypeOK
  <2>4. CASE EndBatch
    BY <2>4 DEF EndBatch, TypeOK
  <2>5. QED
    BY <1>12, <2>1, <2>2, <2>3, <2>4
<1>13. ASSUME BeginSave \/ ReadParents \/ LandCheckpoint \/ TakeAuthors \/ FailSave
       PROVE  TypeOK'
  <2>1. CASE BeginSave
    BY <2>1 DEF BeginSave, TypeOK
  <2>2. CASE ReadParents
    <3>1. PICK writers \in SUBSET Ref \ {{}} :
            parents' = [r \in Ref |->
              IF r \in writers
                THEN [version |-> wip[r],
                      summaries |-> IF r = Service THEN <<>> ELSE log[r]]
                ELSE NoParent]
      BY <2>2 DEF ReadParents
    <3>2. \A r \in Ref : (IF r = Service THEN <<>> ELSE log[r]) \in Seq(Nat)
      BY EmptySeq DEF TypeOK, Ref
    <3>3. parents' \in [Ref -> Parent \cup {NoParent}]
      BY <3>1, <3>2 DEF TypeOK, Parent
    <3>4. QED
      BY <2>2, <3>3 DEF ReadParents, TypeOK
  <2>3. CASE LandCheckpoint
    <3>1. saved' \in Nat
      BY <2>3, LandedVersion
    <3>2. QED
      BY <2>3, <3>1 DEF LandCheckpoint, TypeOK
  <2>4. CASE TakeAuthors
    <3>1. pendingContributors' \in Map
      BY <2>4 DEF TakeAuthors, NoEntries, Map
    <3>2. QED
      BY <2>4, <3>1 DEF TakeAuthors, TypeOK
  <2>5. CASE FailSave
    BY <2>5, PipelineAssumption, NoParentsType DEF FailSave, TypeOK
  <2>6. QED
    BY <1>13, <2>1, <2>2, <2>3, <2>4, <2>5
<1>20. ASSUME NEW r \in Ref, DropRef(r) PROVE TypeOK'
  <2>1. parents' \in [Ref -> Parent \cup {NoParent}]
    BY <1>20 DEF DropRef, TypeOK
  <2>2. CASE /\ failures < MaxFailures /\ failures' = failures + 1
             /\ UNCHANGED <<gitVars, gap>>
    <3>1. failures' \in 0 .. MaxFailures
      BY <2>2, PipelineAssumption DEF TypeOK
    <3>2. QED
      BY <1>20, <2>1, <2>2, <3>1 DEF DropRef, TypeOK
  <2>3. CASE /\ wip' = [wip EXCEPT ![r] = 0]
             /\ log' = [w \in Writer |->
                          IF w = r THEN parents[r].summaries ELSE log[w]]
             /\ gap' = (gap \/ (Held(written) /\ saved < written
                                /\ \A q \in Ref \ {r} : wip[q] < written))
             /\ epoch' = epoch + 1 /\ UNCHANGED <<saved, failures>>
    <3>1. parents[r].summaries \in Seq(Nat)
      BY <1>20 DEF DropRef, TypeOK, Parent
    <3>2. log' \in [Writer -> Seq(Nat)] /\ wip' \in [Ref -> Nat]
      BY <2>3, <3>1 DEF TypeOK
    <3>3. gap' \in BOOLEAN
      BY <2>3, Zenon DEF TypeOK
    <3>4. QED
      BY <1>20, <2>1, <2>3, <3>2, <3>3 DEF DropRef, TypeOK
  <2>4. QED
    BY <1>20, <2>2, <2>3 DEF DropRef
<1>14. ASSUME BeginDestroy PROVE TypeOK'
  BY <1>14 DEF BeginDestroy, TypeOK
<1>15. ASSUME FlushL2 PROVE TypeOK'
  <2>1. awaiting' \subseteq {"head", "destroy"}
    BY <1>15 DEF FlushL2, AwaitCommit, TypeOK
  <2>2. QED
    BY <1>15, <2>1, FlushTypes DEF FlushL2, TypeOK
<1>16. ASSUME Exit PROVE TypeOK'
  <2>1. failures' \in 0 .. MaxFailures
    BY <1>16, PipelineAssumption DEF Exit, TypeOK
  <2>2. stops' \in 0 .. MaxStops
    BY <1>16, PipelineAssumption DEF Exit, Lose, TypeOK
  <2>3. QED
    BY <1>16, <2>1, <2>2, LoseTypes DEF Exit, TypeOK
<1>17. ASSUME Crash PROVE TypeOK'
  <2>1. stops' \in 0 .. MaxStops
    BY <1>17, PipelineAssumption DEF Crash, Lose, TypeOK
  <2>2. QED
    BY <1>17, <2>1, LoseTypes DEF Crash, TypeOK
<1>18. ASSUME Boot PROVE TypeOK'
  BY <1>18 DEF Boot, TypeOK
<1>19. ASSUME UNCHANGED vars PROVE TypeOK'
  BY <1>19 DEF vars, TypeOK
<1>21. QED
  BY <1>1, <1>2, <1>3, <1>4, <1>5, <1>6, <1>7, <1>8, <1>9, <1>10, <1>11, <1>12,
     <1>13, <1>14, <1>15, <1>16, <1>17, <1>18, <1>19, <1>20, Zenon
     DEF Next, Contributing, Committing, Failing, Flushing, Stores, Batches,
         Saves, Stopping

-----------------------------------------------------------------------------
(* Prefixes of what a writer has logged.                                   *)

LEMMA PrefixOfConcat ==
  ASSUME NEW s \in Seq(Nat), NEW t \in Seq(Nat)
  PROVE  Attribution!Prefix(s, s \o t)
<1>1. /\ Len(s) \in Nat /\ Len(t) \in Nat /\ Len(s \o t) = Len(s) + Len(t)
      /\ \A i \in 1 .. Len(s) + Len(t) :
           (s \o t)[i] = IF i <= Len(s) THEN s[i] ELSE t[i - Len(s)]
  BY ConcatProperties, LenProperties
<1>2. QED
  BY <1>1 DEF Attribution!Prefix

LEMMA PrefixOfSelf ==
  ASSUME NEW s \in Seq(Nat)
  PROVE  Attribution!Prefix(s, s)
BY LenProperties DEF Attribution!Prefix

LEMMA PrefixTransitive ==
  ASSUME NEW s \in Seq(Nat), NEW t \in Seq(Nat), NEW u \in Seq(Nat),
         Attribution!Prefix(s, t), Attribution!Prefix(t, u)
  PROVE  Attribution!Prefix(s, u)
<1>1. Len(s) \in Nat /\ Len(t) \in Nat /\ Len(u) \in Nat
  BY LenProperties
<1>2. /\ Len(s) <= Len(t) /\ \A i \in 1 .. Len(s) : s[i] = t[i]
      /\ Len(t) <= Len(u) /\ \A i \in 1 .. Len(t) : t[i] = u[i]
  BY DEF Attribution!Prefix
<1>3. \A i \in 1 .. Len(s) : i \in 1 .. Len(t)
  BY <1>1, <1>2
<1>4. QED
  BY <1>1, <1>2, <1>3 DEF Attribution!Prefix

-----------------------------------------------------------------------------
(* The running commit is whole.                                            *)

LEMMA InitWhole == Init => CommitIsWhole
<1> SUFFICES ASSUME Init PROVE CommitIsWhole
  OBVIOUS
<1>1. Recorded(snapshot) = {}
  BY DEF Init, Recorded, NoEntries
<1>2. \A r \in Ref : parents[r] = NoParent /\ wip[r] = 0
  BY DEF Init, NoParents
<1>3. SaveIsWhole
  BY <1>2, PipelineAssumption DEF Init, SaveIsWhole, Ref
<1>4. QED
  BY <1>1, <1>2, <1>3, PipelineAssumption DEF Init, CommitIsWhole

LEMMA NobodyRecorded == Recorded(NoEntries) = {}
BY DEF Recorded, NoEntries

LEMMA EndWhole ==
  ASSUME NEW failed, EndCommit(failed)
  PROVE  /\ tree' = NoTree /\ commitInFlight' = "none"
         /\ awaiting' = {} /\ pendingAfterCommit' = FALSE
BY DEF EndCommit

LEMMA LastWriter ==
  ASSUME NEW w \in Writer, snapshot \in Map,
         snapshot' = [snapshot EXCEPT ![w] = NoEntry], Recorded(snapshot) = {w}
  PROVE  Recorded(snapshot)' = {}
BY DEF Recorded, Map

(* A flush either leaves the commit alone or starts one. *)
LEMMA FlushCases ==
  ASSUME FlushPendingGitCommit
  PROVE  \/ commitInFlight' = commitInFlight /\ UNCHANGED <<mapVars, pendingAfterCommit>>
         \/ commitInFlight = "none" /\ StartCommit /\ UNCHANGED pendingAfterCommit
<1>1. CASE ~gitCommitTimer /\ UNCHANGED <<timerVars, commitInFlight, mapVars>>
  BY <1>1 DEF timerVars
<1>2. CASE UNCHANGED pendingAfterCommit /\ commitInFlight = "none" /\ StartCommit
  BY <1>2
<1>3. CASE UNCHANGED pendingAfterCommit /\ UNCHANGED <<commitInFlight, mapVars>>
  BY <1>3
<1>4. QED
  BY <1>1, <1>2, <1>3, Zenon DEF FlushPendingGitCommit

(* While a saved version runs, what it read only gets older. *)
LEMMA GitGrows ==
  ASSUME TypeOK, SaveIsWhole, UNCHANGED <<saving, checkpoint, parents>>,
         written' \in Nat, written' >= written,
         \A r \in Ref : wip'[r] \in Nat /\ wip'[r] >= wip[r],
         \A w \in Writer : log'[w] \in Seq(Nat) /\ Attribution!Prefix(log[w], log'[w])
  PROVE  SaveIsWhole'
<1>1. checkpoint' # NoTree => checkpoint' <= written'
  BY DEF TypeOK, SaveIsWhole
<1>2. ASSUME NEW r \in Ref, parents'[r] # NoParent
      PROVE  parents'[r].version <= wip'[r]
  <2>1. /\ parents[r].version \in Nat /\ wip[r] \in Nat /\ wip'[r] \in Nat
        /\ parents[r].version <= wip[r] /\ wip[r] <= wip'[r]
    BY <1>2 DEF TypeOK, Parent, SaveIsWhole
  <2>2. QED
    BY <2>1
<1>3. ASSUME NEW w \in Writer, parents'[w] # NoParent
      PROVE  Attribution!Prefix(parents'[w].summaries, log'[w])
  <2>1. /\ parents[w].summaries \in Seq(Nat) /\ log[w] \in Seq(Nat)
        /\ log'[w] \in Seq(Nat) /\ parents'[w] = parents[w]
    BY <1>3 DEF TypeOK, Parent, Ref
  <2>2. Attribution!Prefix(parents[w].summaries, log[w])
    BY <1>3 DEF SaveIsWhole
  <2>3. QED
    BY <2>1, <2>2, PrefixTransitive
<1>4. NoParents' = NoParents
  BY DEF NoParents
<1>5. QED
  BY <1>1, <1>2, <1>3, <1>4 DEF SaveIsWhole

LEMMA SaveUntouched ==
  ASSUME TypeOK, CommitIsWhole,
         UNCHANGED <<saving, checkpoint, parents, written, wip, log>>
  PROVE  SaveIsWhole'
<1>1. \A w \in Writer : log'[w] \in Seq(Nat) /\ Attribution!Prefix(log[w], log'[w])
  BY PrefixOfSelf DEF TypeOK
<1>2. written' \in Nat /\ written' >= written
      /\ \A r \in Ref : wip'[r] \in Nat /\ wip'[r] >= wip[r]
  BY DEF TypeOK
<1>3. QED
  BY <1>1, <1>2, GitGrows DEF CommitIsWhole

(* What does not move the commit, the files or the refs keeps it whole. *)
LEMMA StartWhole ==
  ASSUME TypeOK, CommitIsWhole, commitInFlight = "none", StartCommit,
         UNCHANGED <<tree, written, gitVars, saving, checkpoint, parents>>
  PROVE  CommitIsWhole'
BY SaveUntouched DEF CommitIsWhole, StartCommit, gitVars

(* A ref that gets the running commit's tree stays behind the files. *)
LEMMA RefStaysBehind ==
  ASSUME TypeOK, CommitIsWhole, NEW r \in Ref, commitInFlight = "committing",
         wip' = [wip EXCEPT ![r] = Newer(@, tree)]
  PROVE  /\ tree \in Nat /\ tree <= written /\ wip'[r] >= tree
         /\ \A q \in Ref : wip'[q] \in Nat /\ wip'[q] >= wip[q] /\ wip'[q] <= written
<1>1. tree \in Nat /\ tree <= written
  BY DEF TypeOK, CommitIsWhole
<1>2. wip'[r] = Newer(wip[r], tree) /\ \A q \in Ref \ {r} : wip'[q] = wip[q]
  BY DEF TypeOK
<1>3. \A q \in Ref : wip[q] \in Nat /\ wip[q] <= written
  BY DEF TypeOK, CommitIsWhole
<1>4. QED
  BY <1>1, <1>2, <1>3 DEF Newer, TypeOK

(* What a saved version read does not change when its ref is set. *)
LEMMA SaveLinked ==
  ASSUME TypeOK, CommitIsWhole, saving = "linked", saving' = "landed",
         UNCHANGED <<checkpoint, parents, written, wip, log>>
  PROVE  SaveIsWhole'
<1>1. \A w \in Writer : parents'[w] # NoParent =>
        Attribution!Prefix(parents'[w].summaries, log'[w])
  <2>1. \A w \in Writer : parents[w] # NoParent =>
          Attribution!Prefix(parents[w].summaries, log[w])
    BY DEF CommitIsWhole, SaveIsWhole
  <2>2. QED
    BY <2>1
<1>2. QED
  BY <1>1 DEF CommitIsWhole, SaveIsWhole

LEMMA NothingLinked ==
  ASSUME saving' = "none", checkpoint' = NoTree, parents' = NoParents
  PROVE  SaveIsWhole'
<1>1. \A r \in Ref : parents'[r] = NoParent
  BY DEF NoParents
<1>2. NoParents' = NoParents
  BY DEF NoParents
<1>3. \A w \in Writer : parents'[w] = NoParent
  BY <1>1 DEF Ref
<1>4. QED
  BY <1>1, <1>2, <1>3 DEF SaveIsWhole

LEMMA NextWhole == Inv /\ [Next]_vars => CommitIsWhole'
<1> SUFFICES ASSUME TypeOK, CommitIsWhole, [Next]_vars PROVE CommitIsWhole'
  BY DEF Inv
<1> USE DEF diskVars, batchVars, timerVars, mapVars, gitVars, saveVars
<1>1. ASSUME NEW w \in Writer, RecordContributor(w) PROVE CommitIsWhole'
  BY <1>1, SaveUntouched DEF RecordContributor, CommitIsWhole, Recorded
<1>2. ASSUME NEW w \in Writer, RecordEditor(w) PROVE CommitIsWhole'
  BY <1>2, SaveUntouched DEF RecordEditor, CommitIsWhole, Recorded
<1>3. ASSUME TimerFires PROVE CommitIsWhole'
  <2>1. CASE commitInFlight = "none" /\ StartCommit /\ UNCHANGED pendingAfterCommit
    BY <1>3, <2>1, StartWhole DEF TimerFires
  <2>2. CASE commitInFlight # "none" /\ UNCHANGED <<commitInFlight, mapVars, gap>>
    BY <1>3, <2>2, SaveUntouched DEF TimerFires, CommitIsWhole, Recorded
  <2>3. QED
    BY <1>3, <2>1, <2>2 DEF TimerFires
<1>4. ASSUME BuildTree PROVE CommitIsWhole'
  BY <1>4, PipelineAssumption, SaveUntouched DEF BuildTree, TypeOK, CommitIsWhole
<1>5. ASSUME FailBuild PROVE CommitIsWhole'
  <2>1. Recorded(snapshot)' = {}
    BY <1>5, NobodyRecorded DEF FailBuild, Recorded
  <2>2. QED
    BY <1>5, <2>1, EndWhole, SaveUntouched DEF FailBuild, CommitIsWhole
<1>6. ASSUME NEW w \in Writer, CommitWriter(w) PROVE CommitIsWhole'
  <2>1. /\ commitInFlight = "committing" /\ w \in Ref
        /\ wip' = [wip EXCEPT ![w] = Newer(@, tree)]
        /\ UNCHANGED <<written, saved, saving, checkpoint, parents>>
    BY <1>6 DEF CommitWriter, Ref
  <2>2. /\ tree \in Nat /\ tree <= written
        /\ \A r \in Ref : wip'[r] \in Nat /\ wip'[r] >= wip[r] /\ wip'[r] <= written
    BY <2>1, RefStaysBehind
  <2>3. \A v \in Writer : log'[v] \in Seq(Nat) /\ Attribution!Prefix(log[v], log'[v])
    <3>1. log[w] \in Seq(Nat) /\ snapshot[w] \in Seq(Nat)
      BY <1>6 DEF CommitWriter, TypeOK, Map, Entry
    <3>2. log'[w] = log[w] \o snapshot[w] /\ \A v \in Writer \ {w} : log'[v] = log[v]
      BY <1>6 DEF CommitWriter, TypeOK
    <3>3. log'[w] \in Seq(Nat) /\ Attribution!Prefix(log[w], log'[w])
      BY <3>1, <3>2, ConcatProperties, PrefixOfConcat
    <3>4. \A v \in Writer \ {w} : log'[v] \in Seq(Nat)
                                   /\ Attribution!Prefix(log[v], log'[v])
      BY <3>2, PrefixOfSelf DEF TypeOK
    <3>5. QED
      BY <3>3, <3>4
  <2>4. SaveIsWhole'
    <3>1. written' \in Nat /\ written' >= written
      BY <2>1 DEF TypeOK
    <3>2. QED
      BY <2>1, <2>2, <2>3, <3>1, GitGrows DEF CommitIsWhole
  <2>5. CASE Recorded(snapshot) = {w}
    <3>1. Recorded(snapshot)' = {}
      BY <1>6, <2>5, LastWriter DEF CommitWriter, TypeOK
    <3>2. EndCommit(FALSE)
      BY <1>6, <2>5 DEF CommitWriter
    <3>3. QED
      BY <2>1, <2>2, <2>4, <3>1, <3>2, EndWhole DEF CommitIsWhole
  <2>6. CASE Recorded(snapshot) # {w}
    BY <1>6, <2>1, <2>2, <2>4, <2>6 DEF CommitWriter, CommitIsWhole
  <2>7. QED
    BY <2>5, <2>6
<1>7. ASSUME NEW w \in Writer, FailWriter(w) PROVE CommitIsWhole'
  <2>1. SaveIsWhole'
    BY <1>7, SaveUntouched DEF FailWriter
  <2>2. CASE Recorded(snapshot) = {w}
    <3>1. Recorded(snapshot)' = {}
      BY <1>7, <2>2, LastWriter DEF FailWriter, TypeOK
    <3>2. EndCommit(~Held(tree))
      BY <1>7, <2>2 DEF FailWriter
    <3>3. QED
      BY <1>7, <2>1, <3>1, <3>2, EndWhole DEF FailWriter, CommitIsWhole
  <2>3. CASE Recorded(snapshot) # {w}
    BY <1>7, <2>1, <2>3 DEF FailWriter, CommitIsWhole
  <2>4. QED
    BY <2>2, <2>3
<1>8. ASSUME CommitService PROVE CommitIsWhole'
  <2>1. /\ commitInFlight = "committing" /\ Recorded(snapshot)' = {}
        /\ UNCHANGED <<written, saved, saving, checkpoint, parents, log>>
    BY <1>8 DEF CommitService, Recorded
  <2>2. CASE wip' = [wip EXCEPT ![Service] = Newer(@, tree)] /\ EndCommit(FALSE)
    <3>1. \A r \in Ref : wip'[r] \in Nat /\ wip'[r] >= wip[r] /\ wip'[r] <= written
      BY <2>1, <2>2, RefStaysBehind DEF Ref
    <3>2. \A w \in Writer : log'[w] \in Seq(Nat) /\ Attribution!Prefix(log[w], log'[w])
      BY <2>1, PrefixOfSelf DEF TypeOK
    <3>3. written' \in Nat /\ written' >= written
      BY <2>1 DEF TypeOK
    <3>4. SaveIsWhole'
      BY <2>1, <3>1, <3>2, <3>3, GitGrows DEF CommitIsWhole
    <3>5. QED
      BY <2>1, <2>2, <3>1, <3>4, EndWhole DEF CommitIsWhole
  <2>3. CASE EndCommit(TRUE) /\ UNCHANGED wip
    <3>1. SaveIsWhole'
      BY <2>1, <2>3, SaveUntouched
    <3>2. QED
      BY <2>1, <2>3, <3>1, EndWhole DEF CommitIsWhole
  <2>4. QED
    BY <1>8, <2>2, <2>3 DEF CommitService
<1>9. ASSUME FlushGitCommit PROVE CommitIsWhole'
  <2>1. CASE commitInFlight' = commitInFlight /\ UNCHANGED <<mapVars, pendingAfterCommit>>
    BY <1>9, <2>1, SaveUntouched DEF FlushGitCommit, CommitIsWhole, Recorded
  <2>2. CASE commitInFlight = "none" /\ StartCommit
    BY <1>9, <2>2, StartWhole DEF FlushGitCommit
  <2>3. QED
    BY <1>9, <2>1, <2>2, FlushCases DEF FlushGitCommit
<1>10. ASSUME FlushContributors PROVE CommitIsWhole'
  BY <1>10, StartWhole DEF FlushContributors
<1>11. ASSUME BeginStore \/ FinishStore \/ StoreUnchanged PROVE CommitIsWhole'
  <2>1. CASE BeginStore
    BY <2>1, SaveUntouched DEF BeginStore, CommitIsWhole, Recorded
  <2>2. CASE FinishStore
    <3>1. written' = written + 1
      BY <2>2 DEF FinishStore
    <3>2. (tree # NoTree => tree <= written') /\ saved <= written'
          /\ (\A r \in Ref : wip[r] <= written')
      BY <3>1 DEF TypeOK, CommitIsWhole
    <3>3. SaveIsWhole'
      <4>1. UNCHANGED <<saving, checkpoint, parents, wip, log>>
        BY <2>2 DEF FinishStore
      <4>2. written' \in Nat /\ written' >= written
        BY <3>1 DEF TypeOK
      <4>3. \A w \in Writer : log'[w] \in Seq(Nat) /\ Attribution!Prefix(log[w], log'[w])
        BY <4>1, PrefixOfSelf DEF TypeOK
      <4>4. \A r \in Ref : wip'[r] \in Nat /\ wip'[r] >= wip[r]
        BY <4>1 DEF TypeOK
      <4>5. QED
        BY <4>1, <4>2, <4>3, <4>4, GitGrows DEF CommitIsWhole
    <3>4. QED
      BY <2>2, <3>2, <3>3 DEF FinishStore, CommitIsWhole, Recorded
  <2>3. CASE StoreUnchanged
    BY <2>3, SaveUntouched DEF StoreUnchanged, CommitIsWhole, Recorded
  <2>4. QED
    BY <1>11, <2>1, <2>2, <2>3
<1>12. ASSUME BeginHeadBatch \/ OpenHeadBatch \/ BeginSyncBatch \/ EndBatch
       PROVE  CommitIsWhole'
  <2>1. CASE BeginHeadBatch
    <3>1. CASE commitInFlight' = commitInFlight
               /\ UNCHANGED <<mapVars, pendingAfterCommit>>
      BY <2>1, <3>1, SaveUntouched DEF BeginHeadBatch, AwaitCommit, CommitIsWhole,
         Recorded
    <3>2. CASE commitInFlight = "none" /\ StartCommit
      BY <2>1, <3>2, StartWhole DEF BeginHeadBatch
    <3>3. QED
      BY <2>1, <3>1, <3>2, FlushCases DEF BeginHeadBatch
  <2>2. CASE OpenHeadBatch
    BY <2>2, SaveUntouched DEF OpenHeadBatch, CommitIsWhole, Recorded
  <2>3. CASE BeginSyncBatch
    BY <2>3, SaveUntouched DEF BeginSyncBatch, CommitIsWhole, Recorded
  <2>4. CASE EndBatch
    BY <2>4, SaveUntouched DEF EndBatch, CommitIsWhole, Recorded
  <2>5. QED
    BY <1>12, <2>1, <2>2, <2>3, <2>4
<1>13. ASSUME BeginSave \/ ReadParents \/ LandCheckpoint \/ TakeAuthors \/ FailSave
       PROVE  CommitIsWhole'
  <2>1. CASE BeginSave
    <3>1. SaveIsWhole'
      BY <2>1, PipelineAssumption DEF BeginSave, TypeOK, CommitIsWhole, SaveIsWhole
    <3>2. QED
      BY <2>1, <3>1 DEF BeginSave, CommitIsWhole, Recorded
  <2>2. CASE ReadParents
    <3>1. PICK writers \in SUBSET Ref \ {{}} :
            parents' = [r \in Ref |->
              IF r \in writers
                THEN [version |-> wip[r],
                      summaries |-> IF r = Service THEN <<>> ELSE log[r]]
                ELSE NoParent]
      BY <2>2 DEF ReadParents
    <3>2. \A r \in Ref : parents'[r] # NoParent =>
            parents'[r].version = wip[r] /\ wip[r] \in Nat
      BY <3>1 DEF TypeOK
    <3>3. \A w \in Writer : parents'[w] # NoParent =>
            parents'[w].summaries = log[w] /\ log[w] \in Seq(Nat)
      BY <3>1, PipelineAssumption DEF TypeOK, Ref
    <3>4. \A w \in Writer : parents'[w] # NoParent =>
            Attribution!Prefix(parents'[w].summaries, log'[w])
      BY <2>2, <3>3, PrefixOfSelf DEF ReadParents
    <3>5. SaveIsWhole'
      BY <2>2, <3>2, <3>4 DEF ReadParents, CommitIsWhole, SaveIsWhole
    <3>6. QED
      BY <2>2, <3>5 DEF ReadParents, CommitIsWhole, Recorded
  <2>3. CASE LandCheckpoint
    <3>1. saved' <= written
      BY <2>3, LandedVersion
    <3>2. SaveIsWhole'
      BY <2>3, SaveLinked DEF LandCheckpoint
    <3>3. QED
      BY <2>3, <3>1, <3>2 DEF LandCheckpoint, CommitIsWhole, Recorded
  <2>4. CASE TakeAuthors
    <3>1. SaveIsWhole'
      BY <2>4, NothingLinked DEF TakeAuthors
    <3>2. QED
      BY <2>4, <3>1 DEF TakeAuthors, CommitIsWhole, Recorded
  <2>5. CASE FailSave
    <3>1. SaveIsWhole'
      BY <2>5, NothingLinked DEF FailSave
    <3>2. QED
      BY <2>5, <3>1 DEF FailSave, CommitIsWhole, Recorded
  <2>6. QED
    BY <1>13, <2>1, <2>2, <2>3, <2>4, <2>5
<1>20. ASSUME NEW r \in Ref, DropRef(r) PROVE CommitIsWhole'
  <2>1. /\ parents' = [parents EXCEPT ![r] = NoParent] /\ saving = "landed"
        /\ \A q \in Ref \ {r} : parents'[q] = parents[q]
        /\ parents'[r] = NoParent
        /\ UNCHANGED <<saving, checkpoint, written, commitInFlight, tree, snapshot,
                       awaiting, pendingAfterCommit, saved>>
    BY <1>20 DEF DropRef, TypeOK
  <2>2. /\ \A q \in Ref \ {r} : wip'[q] = wip[q]
        /\ \A w \in Writer \ {r} : log'[w] = log[w]
        /\ \A q \in Ref : wip'[q] <= written
    <3>1. 0 <= written
      BY DEF TypeOK
    <3>2. QED
      BY <1>20, <3>1 DEF DropRef, TypeOK, CommitIsWhole
  <2>3. \A w \in Writer : parents'[w] # NoParent =>
          Attribution!Prefix(parents'[w].summaries, log'[w])
    <3>1. \A w \in Writer : parents'[w] # NoParent =>
            /\ parents'[w] = parents[w] /\ log'[w] = log[w]
            /\ parents[w] # NoParent
      BY <2>1, <2>2 DEF Ref
    <3>2. \A w \in Writer : parents[w] # NoParent =>
            Attribution!Prefix(parents[w].summaries, log[w])
      BY DEF CommitIsWhole, SaveIsWhole
    <3>3. QED
      BY <3>1, <3>2
  <2>4. \A q \in Ref : parents'[q] # NoParent => parents'[q].version <= wip'[q]
    BY <2>1, <2>2 DEF CommitIsWhole, SaveIsWhole
  <2>5. SaveIsWhole'
    BY <2>1, <2>3, <2>4 DEF CommitIsWhole, SaveIsWhole
  <2>6. QED
    BY <2>1, <2>2, <2>5 DEF CommitIsWhole, Recorded
<1>14. ASSUME BeginDestroy PROVE CommitIsWhole'
  BY <1>14, SaveUntouched DEF BeginDestroy, CommitIsWhole, Recorded
<1>15. ASSUME FlushL2 PROVE CommitIsWhole'
  <2>1. CASE commitInFlight' = commitInFlight /\ UNCHANGED <<mapVars, pendingAfterCommit>>
    BY <1>15, <2>1, SaveUntouched DEF FlushL2, AwaitCommit, CommitIsWhole, Recorded
  <2>2. CASE commitInFlight = "none" /\ StartCommit
    BY <1>15, <2>2, StartWhole DEF FlushL2
  <2>3. QED
    BY <1>15, <2>1, <2>2, FlushCases DEF FlushL2
<1>16. ASSUME NEW status, Lose(status) PROVE CommitIsWhole'
  <2>1. Recorded(snapshot)' = {}
    BY <1>16, NobodyRecorded DEF Lose, Recorded
  <2>2. SaveIsWhole'
    BY <1>16, NothingLinked DEF Lose
  <2>3. QED
    BY <1>16, <2>1, <2>2 DEF Lose, CommitIsWhole
<1>17. ASSUME Exit \/ Crash PROVE CommitIsWhole'
  BY <1>16, <1>17 DEF Exit, Crash
<1>18. ASSUME Boot PROVE CommitIsWhole'
  BY <1>18, SaveUntouched DEF Boot, CommitIsWhole, Recorded
<1>19. ASSUME UNCHANGED vars PROVE CommitIsWhole'
  BY <1>19, SaveUntouched DEF vars, CommitIsWhole, Recorded
<1>21. QED
  BY <1>1, <1>2, <1>3, <1>4, <1>5, <1>6, <1>7, <1>8, <1>9, <1>10, <1>11, <1>12,
     <1>13, <1>14, <1>15, <1>17, <1>18, <1>19, <1>20, Zenon
     DEF Next, Contributing, Committing, Failing, Flushing, Stores, Batches,
         Saves, Stopping

-----------------------------------------------------------------------------
LEMMA Invariance == Spec => []Inv
<1>1. Init => Inv
  BY InitTypes, InitWhole DEF Inv
<1>2. Inv /\ [Next]_vars => Inv'
  BY NextTypes, NextWhole DEF Inv
<1>3. QED
  BY <1>1, <1>2, PTL DEF Spec

(* Every reachable state of the commit pipeline is well formed. *)
THEOREM TypeCorrect == Spec => []TypeOK
BY Invariance, PTL DEF Inv

(* The running commit is consistent with the disk, the refs and its callers, *)
(* whatever the bounds and however many writers contribute.                  *)
THEOREM CommitStaysWhole == Spec => []CommitIsWhole
BY Invariance, PTL DEF Inv

-----------------------------------------------------------------------------
(* No commit is lost silently: NoLostCommit is inductive relative to Inv.  *)

LEMMA ScheduleCovers ==
  ASSUME TypeOK, ScheduleGitCommit
  PROVE  gap' \/ gitCommitTimer'
BY Zenon DEF ScheduleGitCommit, TypeOK

(* After a commit, either its end is covered or nothing was pending. *)
LEMMA EndCovers ==
  ASSUME TypeOK, NEW failed \in BOOLEAN, EndCommit(failed)
  PROVE  \/ gap' \/ gitCommitTimer'
         \/ ~failed /\ ~pendingAfterCommit /\ ~gap /\ ~gitCommitTimer
<1>1. CASE pendingAfterCommit
  <2>1. ScheduleGitCommit
    BY <1>1, Zenon DEF EndCommit
  <2>2. QED
    BY <2>1, ScheduleCovers
<1>2. CASE ~pendingAfterCommit
  BY <1>2, Zenon DEF EndCommit, TypeOK
<1>3. QED
  BY <1>1, <1>2

LEMMA FlushCovers ==
  ASSUME TypeOK, NoLostCommit, FlushPendingGitCommit,
         UNCHANGED <<tree, written, wip, saved>>
  PROVE  NoLostCommit'
<1>1. CASE ~gitCommitTimer /\ UNCHANGED <<timerVars, commitInFlight, mapVars>>
  BY <1>1 DEF NoLostCommit, timerVars, Held
<1>2. CASE StartCommit
  BY <1>2 DEF StartCommit, NoLostCommit
<1>3. CASE /\ UNCHANGED pendingAfterCommit /\ commitInFlight # "none"
           /\ gap' = (commitInFlight = "committing" /\ ~pendingAfterCommit)
           /\ UNCHANGED <<commitInFlight, mapVars>>
  <2>1. gap' \/ commitInFlight = "building"
        \/ (commitInFlight = "committing" /\ pendingAfterCommit)
    BY <1>3, Zenon DEF TypeOK
  <2>2. QED
    BY <1>3, <2>1 DEF NoLostCommit
<1>4. QED
  BY <1>1, <1>2, <1>3, Zenon DEF FlushPendingGitCommit

(* The end of a commit that had read the newest version has published it. *)
LEMMA EndKeepsPromise ==
  ASSUME TypeOK, NoLostCommit, NEW failed \in BOOLEAN,
         EndCommit(failed), commitInFlight = "committing",
         Held(written) => Held(written)',
         ~failed /\ tree = written => Held(written)'
  PROVE  NoLostCommit'
<1>1. CASE gap' \/ gitCommitTimer'
  BY <1>1 DEF NoLostCommit
<1>2. CASE ~failed /\ ~pendingAfterCommit /\ ~gap /\ ~gitCommitTimer
  <2>1. ~Held(written) => tree = written
    BY <1>2 DEF NoLostCommit
  <2>2. QED
    BY <1>2, <2>1 DEF NoLostCommit
<1>3. QED
  BY <1>1, <1>2, EndCovers

(* A ref that gets the running commit's tree holds it, and loses nothing. *)
LEMMA CommitHolds ==
  ASSUME TypeOK, CommitIsWhole, NEW r \in Ref, commitInFlight = "committing",
         wip' = [wip EXCEPT ![r] = Newer(@, tree)], UNCHANGED <<saved, written>>
  PROVE  /\ Held(written) => Held(written)'
         /\ tree = written => Held(written)'
<1>1. /\ tree \in Nat /\ wip'[r] >= tree
      /\ \A q \in Ref : wip'[q] \in Nat /\ wip'[q] >= wip[q]
  BY RefStaysBehind
<1>2. written \in Nat /\ \A q \in Ref : wip[q] \in Nat
  BY DEF TypeOK
<1>3. ASSUME Held(written) PROVE Held(written)'
  <2>1. CASE saved >= written
    BY <2>1 DEF Held
  <2>2. CASE \E q \in Ref : wip[q] >= written
    <3>1. PICK q \in Ref : wip[q] >= written
      BY <2>2
    <3>2. wip'[q] >= written
      BY <1>1, <1>2, <3>1
    <3>3. QED
      BY <3>2 DEF Held
  <2>3. QED
    BY <1>3, <2>1, <2>2 DEF Held
<1>4. ASSUME tree = written PROVE Held(written)'
  BY <1>1, <1>4 DEF Held
<1>5. QED
  BY <1>3, <1>4

LEMMA NextLosesNothing == Inv /\ NoLostCommit /\ [Next]_vars => NoLostCommit'
<1> SUFFICES ASSUME TypeOK, CommitIsWhole, NoLostCommit, [Next]_vars
             PROVE  NoLostCommit'
  BY DEF Inv
<1> USE DEF diskVars, batchVars, timerVars, mapVars, gitVars, saveVars
<1>1. ASSUME NEW w \in Writer, RecordContributor(w) PROVE NoLostCommit'
  BY <1>1 DEF RecordContributor, NoLostCommit, Held
<1>2. ASSUME NEW w \in Writer, RecordEditor(w) PROVE NoLostCommit'
  BY <1>2 DEF RecordEditor, NoLostCommit, Held
<1>3. ASSUME TimerFires PROVE NoLostCommit'
  <2>1. CASE StartCommit
    BY <2>1 DEF StartCommit, NoLostCommit
  <2>2. CASE /\ commitInFlight # "none" /\ pendingAfterCommit' = TRUE
             /\ UNCHANGED <<commitInFlight, mapVars, gap>>
    BY <2>2 DEF TypeOK, NoLostCommit
  <2>3. QED
    BY <1>3, <2>1, <2>2 DEF TimerFires
<1>4. ASSUME BuildTree PROVE NoLostCommit'
  BY <1>4 DEF BuildTree, NoLostCommit
<1>5. ASSUME FailBuild PROVE NoLostCommit'
  <2>1. gap' \/ gitCommitTimer'
    BY <1>5, EndCovers DEF FailBuild
  <2>2. QED
    BY <2>1 DEF NoLostCommit
<1>6. ASSUME NEW w \in Writer, CommitWriter(w) PROVE NoLostCommit'
  <2>1. /\ commitInFlight = "committing" /\ UNCHANGED written
        /\ Held(written) => Held(written)'
        /\ tree = written => Held(written)'
    BY <1>6, CommitHolds DEF CommitWriter, Ref
  <2>2. CASE Recorded(snapshot) = {w}
    <3>1. EndCommit(FALSE)
      BY <1>6, <2>2 DEF CommitWriter
    <3>2. QED
      BY <2>1, <3>1, EndKeepsPromise
  <2>3. CASE Recorded(snapshot) # {w}
    <3>1. UNCHANGED <<commitInFlight, tree, timerVars>>
      BY <1>6, <2>3 DEF CommitWriter
    <3>2. QED
      BY <2>1, <3>1 DEF NoLostCommit
  <2>4. QED
    BY <2>2, <2>3
<1>7. ASSUME NEW w \in Writer, FailWriter(w) PROVE NoLostCommit'
  <2>1. CASE Recorded(snapshot) = {w}
    <3>1. /\ EndCommit(~Held(tree)) /\ commitInFlight = "committing"
          /\ UNCHANGED <<written, wip, saved>>
      BY <1>7, <2>1 DEF FailWriter
    <3>2. Held(written) => Held(written)'
      BY <3>1 DEF Held
    <3>3. ~~Held(tree) /\ tree = written => Held(written)'
      BY <3>2
    <3>4. (~Held(tree)) \in BOOLEAN
      BY DEF Held
    <3>5. QED
      BY <3>1, <3>2, <3>3, <3>4, EndKeepsPromise
  <2>2. CASE Recorded(snapshot) # {w}
    BY <1>7, <2>2 DEF FailWriter, NoLostCommit, Held
  <2>3. QED
    BY <2>1, <2>2
<1>8. ASSUME CommitService PROVE NoLostCommit'
  <2>1. commitInFlight = "committing" /\ UNCHANGED <<written, saved>>
    BY <1>8 DEF CommitService
  <2>2. CASE wip' = [wip EXCEPT ![Service] = Newer(@, tree)] /\ EndCommit(FALSE)
    <3>1. /\ Held(written) => Held(written)'
          /\ tree = written => Held(written)'
      BY <2>1, <2>2, CommitHolds DEF Ref
    <3>2. QED
      BY <2>1, <2>2, <3>1, EndKeepsPromise
  <2>3. CASE EndCommit(TRUE)
    <3>1. gap' \/ gitCommitTimer'
      BY <2>3, EndCovers
    <3>2. QED
      BY <3>1 DEF NoLostCommit
  <2>4. QED
    BY <1>8, <2>2, <2>3 DEF CommitService
<1>9. ASSUME FlushGitCommit PROVE NoLostCommit'
  BY <1>9, FlushCovers DEF FlushGitCommit
<1>10. ASSUME FlushContributors PROVE NoLostCommit'
  BY <1>10 DEF FlushContributors, StartCommit, NoLostCommit
<1>11. ASSUME BeginStore \/ FinishStore \/ StoreUnchanged PROVE NoLostCommit'
  <2>1. CASE BeginStore
    BY <2>1 DEF BeginStore, NoLostCommit, Held
  <2>2. CASE ScheduleGitCommit
    BY <2>2, ScheduleCovers DEF NoLostCommit
  <2>3. QED
    BY <1>11, <2>1, <2>2 DEF FinishStore, StoreUnchanged
<1>12. ASSUME BeginHeadBatch \/ OpenHeadBatch \/ BeginSyncBatch \/ EndBatch
       PROVE  NoLostCommit'
  <2>1. CASE BeginHeadBatch
    BY <2>1, FlushCovers DEF BeginHeadBatch
  <2>2. CASE OpenHeadBatch \/ BeginSyncBatch \/ EndBatch
    BY <2>2 DEF OpenHeadBatch, BeginSyncBatch, EndBatch, NoLostCommit, Held
  <2>3. QED
    BY <1>12, <2>1, <2>2
<1>13. ASSUME BeginSave \/ ReadParents \/ LandCheckpoint \/ TakeAuthors \/ FailSave
       PROVE  NoLostCommit'
  <2>1. CASE BeginSave \/ ReadParents \/ TakeAuthors \/ FailSave
    BY <2>1 DEF BeginSave, ReadParents, TakeAuthors, FailSave, NoLostCommit, Held
  <2>2. CASE LandCheckpoint
    <3>1. saved' \in Nat /\ saved' >= saved
      BY <2>2, LandedVersion
    <3>2. UNCHANGED <<commitInFlight, tree, timerVars, written, wip>>
      BY <2>2 DEF LandCheckpoint
    <3>3. saved >= written => saved' >= written
      BY <3>1 DEF TypeOK
    <3>4. Held(written) => Held(written)'
      BY <3>2, <3>3 DEF Held
    <3>5. QED
      BY <3>2, <3>4 DEF NoLostCommit
  <2>3. QED
    BY <1>13, <2>1, <2>2
<1>20. ASSUME NEW r \in Ref, DropRef(r) PROVE NoLostCommit'
  <2>1. UNCHANGED <<commitInFlight, tree, written, saved, gitCommitTimer,
                    pendingAfterCommit>>
    BY <1>20 DEF DropRef
  <2>2. CASE UNCHANGED <<gitVars, gap>>
    BY <2>1, <2>2 DEF NoLostCommit, Held
  <2>3. CASE /\ wip' = [wip EXCEPT ![r] = 0]
             /\ gap' = (gap \/ (Held(written) /\ saved < written
                                /\ \A q \in Ref \ {r} : wip[q] < written))
    <3>1. CASE gap'
      BY <3>1 DEF NoLostCommit
    <3>2. CASE ~gap' /\ ~Held(written)
      BY <2>1, <2>3, <3>2 DEF NoLostCommit
    <3>3. CASE ~gap' /\ Held(written)
      <4>1. ~(saved < written /\ \A q \in Ref \ {r} : wip[q] < written)
        BY <2>3, <3>3, Zenon
      <4>2. saved >= written \/ \E q \in Ref \ {r} : wip[q] >= written
        BY <4>1 DEF TypeOK
      <4>3. Held(written)'
        BY <2>1, <2>3, <4>2 DEF Held, TypeOK
      <4>4. QED
        BY <4>3 DEF NoLostCommit
    <3>4. QED
      BY <3>1, <3>2, <3>3
  <2>4. QED
    BY <1>20, <2>2, <2>3 DEF DropRef
<1>14. ASSUME BeginDestroy PROVE NoLostCommit'
  BY <1>14 DEF BeginDestroy, NoLostCommit, Held
<1>15. ASSUME FlushL2 PROVE NoLostCommit'
  BY <1>15, FlushCovers DEF FlushL2
<1>16. ASSUME NEW status, Lose(status) PROVE NoLostCommit'
  BY <1>16 DEF Lose, NoLostCommit, Held
<1>17. ASSUME Exit \/ Crash PROVE NoLostCommit'
  BY <1>16, <1>17 DEF Exit, Crash
<1>18. ASSUME Boot PROVE NoLostCommit'
  BY <1>18 DEF Boot, NoLostCommit, Held
<1>19. ASSUME UNCHANGED vars PROVE NoLostCommit'
  BY <1>19 DEF vars, NoLostCommit, Held
<1>21. QED
  BY <1>1, <1>2, <1>3, <1>4, <1>5, <1>6, <1>7, <1>8, <1>9, <1>10, <1>11, <1>12,
     <1>13, <1>14, <1>15, <1>17, <1>18, <1>19, <1>20, Zenon
     DEF Next, Contributing, Committing, Failing, Flushing, Stores, Batches,
         Saves, Stopping

(* A version on disk without a commit to come was lost in one of the known *)
(* ways, for any number of writers, stores, batches and restarts.     *)
THEOREM NothingLost == Spec => []NoLostCommit
<1>1. Init => NoLostCommit
  BY DEF Init, NoLostCommit, Held
<1>2. QED
  BY <1>1, Invariance, NextLosesNothing, PTL DEF Spec

-----------------------------------------------------------------------------
(* The pipeline implements AttributionLog.                                 *)

LEMMA DueType ==
  ASSUME TypeOK, NEW w \in Writer
  PROVE  /\ log[w] \in Seq(Nat) /\ Due(w) \in Seq(Nat)
         /\ Summaries(snapshot[w]) \in Seq(Nat)
         /\ Summaries(pendingContributors[w]) \in Seq(Nat)
<1>1. snapshot[w] \in Entry \cup {NoEntry} /\ pendingContributors[w] \in Entry \cup {NoEntry}
  BY DEF TypeOK, Map
<1>2. log[w] \in Seq(Nat) /\ Summaries(snapshot[w]) \in Seq(Nat)
      /\ Summaries(pendingContributors[w]) \in Seq(Nat)
  BY <1>1, SummariesType DEF TypeOK
<1>3. QED
  BY <1>2, ConcatProperties DEF Due

LEMMA Regroup ==
  ASSUME NEW s \in Seq(Nat), NEW t \in Seq(Nat), NEW u \in Seq(Nat)
  PROVE  (s \o t) \o u = s \o (t \o u)
BY ConcatAssociative

(* Steps that leave every writer's dues, the log and the epoch alone stutter. *)
LEMMA Stutters ==
  ASSUME \A w \in Writer : Due(w)' = Due(w),
         UNCHANGED <<log, epoch>>
  PROVE  UNCHANGED Attribution!vars
BY DEF Attribution!vars

LEMMA UntouchedMaps ==
  ASSUME UNCHANGED <<log, snapshot, pendingContributors, epoch>>
  PROVE  UNCHANGED Attribution!vars
BY Stutters DEF Due

LEMMA NothingSwapped ==
  ASSUME NEW w \in Writer, Recorded(snapshot) = {}
  PROVE  snapshot[w] = NoEntry
BY DEF Recorded

(* swapContributors moves entries from the live map to the snapshot. *)
LEMMA SwapStutters ==
  ASSUME TypeOK, CommitIsWhole, commitInFlight = "none", StartCommit,
         UNCHANGED <<log, epoch>>
  PROVE  UNCHANGED Attribution!vars
<1>1. ASSUME NEW w \in Writer PROVE Due(w)' = Due(w)
  <2>1. snapshot[w] = NoEntry
    BY NothingSwapped DEF CommitIsWhole
  <2>2. snapshot'[w] = pendingContributors[w] /\ pendingContributors'[w] = NoEntry
    BY DEF StartCommit, NoEntries
  <2>3. Summaries(NoEntry) = <<>>
    BY DEF Summaries
  <2>4. Summaries(pendingContributors[w]) \in Seq(Nat)
    BY DueType
  <2>5. <<>> \o Summaries(pendingContributors[w])
          = Summaries(pendingContributors[w]) \o <<>>
    BY <2>4, ConcatEmptySeq
  <2>6. Due(w) = log[w] \o (<<>> \o Summaries(pendingContributors[w]))
    BY <2>1, <2>3 DEF Due
  <2>7. Due(w)' = log[w] \o (Summaries(pendingContributors[w]) \o <<>>)
    BY <2>2, <2>3 DEF Due
  <2>8. QED
    BY <2>5, <2>6, <2>7
<1>2. QED
  BY <1>1, Stutters

LEMMA FlushStutters ==
  ASSUME TypeOK, CommitIsWhole, FlushPendingGitCommit,
         UNCHANGED <<log, epoch>>
  PROVE  UNCHANGED Attribution!vars
<1>1. CASE UNCHANGED mapVars
  BY <1>1, UntouchedMaps DEF mapVars
<1>2. CASE commitInFlight = "none" /\ StartCommit
  BY <1>2, SwapStutters
<1>3. QED
  BY <1>1, <1>2, FlushCases DEF mapVars

(* A restore moves an entry back in front of what was recorded since. *)
LEMMA RestoreKeepsDue ==
  ASSUME TypeOK, NEW w \in Writer, UNCHANGED log, snapshot'[w] = NoEntry,
         pendingContributors'[w] = Restored(pendingContributors[w], snapshot[w])
  PROVE  Due(w)' = Due(w)
<1>1. snapshot[w] \in Entry \cup {NoEntry} /\ pendingContributors[w] \in Entry \cup {NoEntry}
  BY DEF TypeOK, Map
<1>2. Summaries(Restored(pendingContributors[w], snapshot[w]))
        = Summaries(snapshot[w]) \o Summaries(pendingContributors[w])
  BY <1>1, RestoredSummaries
<1>3. Summaries(NoEntry) = <<>>
  BY DEF Summaries
<1>4. Due(w)' = log[w] \o (<<>> \o (Summaries(snapshot[w])
                                   \o Summaries(pendingContributors[w])))
  BY <1>2, <1>3 DEF Due
<1>5. Summaries(snapshot[w]) \o Summaries(pendingContributors[w]) \in Seq(Nat)
  BY DueType, ConcatProperties
<1>6. QED
  BY <1>4, <1>5, ConcatEmptySeq DEF Due

LEMMA ContributionIsDue ==
  ASSUME TypeOK, NEW w \in Writer, RecordContributor(w)
  PROVE  Attribution!Contribute(w, contributions + 1)
<1> DEFINE n == contributions + 1
           pending == Summaries(pendingContributors[w])
<1>1. n \in Nat
  BY DEF TypeOK
<1>2. UNCHANGED <<log, snapshot, epoch>>
  BY DEF RecordContributor, gitVars
<1>3. pending \in Seq(Nat) /\ log[w] \in Seq(Nat) /\ Due(w) \in Seq(Nat)
      /\ Summaries(snapshot[w]) \in Seq(Nat)
  BY DueType
<1>4. Append(pending, n) = pending \o <<n>> /\ <<n>> \in Seq(Nat)
  BY <1>1, <1>3, AppendIsConcat
<1>5. Summaries(pendingContributors'[w]) = Append(pending, n)
  <2>1. pendingContributors'[w] = Append(pending, n)
    BY DEF RecordContributor, TypeOK, Map
  <2>2. Append(pending, n) \in Entry
    BY <1>1, <1>3, AppendProperties DEF Entry
  <2>3. QED
    BY <2>1, <2>2, PipelineAssumption DEF Summaries
<1>6. Due(w)' = Append(Due(w), n)
  <2>1. Due(w)' = log[w] \o (Summaries(snapshot[w]) \o (pending \o <<n>>))
    BY <1>2, <1>4, <1>5 DEF Due
  <2>2. Summaries(snapshot[w]) \o (pending \o <<n>>)
          = (Summaries(snapshot[w]) \o pending) \o <<n>>
    BY <1>3, <1>4, Regroup
  <2>3. Summaries(snapshot[w]) \o pending \in Seq(Nat)
    BY <1>3, ConcatProperties
  <2>4. log[w] \o ((Summaries(snapshot[w]) \o pending) \o <<n>>)
          = (log[w] \o (Summaries(snapshot[w]) \o pending)) \o <<n>>
    BY <1>3, <1>4, <2>3, Regroup, Zenon
  <2>5. Append(Due(w), n) = Due(w) \o <<n>>
    BY <1>1, <1>3, AppendIsConcat
  <2>6. QED
    BY <2>1, <2>2, <2>4, <2>5 DEF Due
<1>7. \A v \in Writer : v # w => Due(v)' = Due(v)
  BY <1>2 DEF RecordContributor, TypeOK, Map, Due
<1>8. [v \in Writer |-> Due(v)]' = [[v \in Writer |-> Due(v)] EXCEPT ![w] = Append(@, n)]
  BY <1>6, <1>7
<1>9. QED
  BY <1>2, <1>8 DEF Attribution!Contribute

LEMMA CommitPublishes ==
  ASSUME TypeOK, NEW w \in Writer, CommitWriter(w)
  PROVE  Attribution!Publish(w)
<1> DEFINE mine == snapshot[w]
           pending == Summaries(pendingContributors[w])
<1>1. /\ mine \in Entry /\ mine # NoEntry
      /\ UNCHANGED <<pendingContributors, epoch>>
      /\ log' = [log EXCEPT ![w] = log[w] \o mine]
      /\ snapshot' = [snapshot EXCEPT ![w] = NoEntry]
  BY DEF CommitWriter, TypeOK, Map
<1>2. /\ mine \in Seq(Nat) /\ Summaries(snapshot[w]) = mine
      /\ log[w] \in Seq(Nat) /\ pending \in Seq(Nat)
  BY <1>1, DueType DEF Entry, Summaries
<1>3. log'[w] = log[w] \o mine /\ snapshot'[w] = NoEntry
  BY <1>1 DEF TypeOK, Map
<1>4. Due(w)' = Due(w)
  <2>1. Due(w)' = (log[w] \o mine) \o (<<>> \o pending)
    BY <1>1, <1>3 DEF Due, Summaries
  <2>2. <<>> \o pending = pending
    BY <1>2, ConcatEmptySeq
  <2>3. (log[w] \o mine) \o pending = log[w] \o (mine \o pending)
    BY <1>2, Regroup, Zenon
  <2>4. QED
    BY <1>2, <2>1, <2>2, <2>3 DEF Due
<1>5. \A v \in Writer : v # w => Due(v)' = Due(v)
  BY <1>1 DEF TypeOK, Map, Due
<1>6. [v \in Writer |-> Due(v)]' = [v \in Writer |-> Due(v)]
  BY <1>4, <1>5
<1>7. Attribution!Prefix(log[w], log'[w])
  BY <1>2, <1>3, PrefixOfConcat
<1>8. Attribution!Prefix(log'[w], Due(w))
  <2>1. log'[w] \in Seq(Nat)
    BY <1>2, <1>3, ConcatProperties
  <2>2. Due(w) = log'[w] \o pending
    <3>1. Due(w) = log[w] \o (mine \o pending)
      BY <1>2 DEF Due
    <3>2. (log[w] \o mine) \o pending = log[w] \o (mine \o pending)
      BY <1>2, Regroup, Zenon
    <3>3. QED
      BY <1>3, <3>1, <3>2
  <2>3. QED
    BY <1>2, <2>1, <2>2, PrefixOfConcat
<1>9. log' = [log EXCEPT ![w] = log'[w]]
  BY <1>1, <1>3 DEF TypeOK
<1>10. QED
  BY <1>1, <1>6, <1>7, <1>8, <1>9 DEF Attribution!Publish

(* A beginning is what remains when a run in the middle is dropped. *)
LEMMA PrefixShortens ==
  ASSUME NEW s \in Seq(Nat), NEW t \in Seq(Nat), NEW u \in Seq(Nat),
         Attribution!Prefix(s, t)
  PROVE  Attribution!Shortened(s \o u, t \o u)
<1> DEFINE k == Len(t) - Len(s)
<1>1. /\ Len(s) \in Nat /\ Len(t) \in Nat /\ Len(u) \in Nat /\ Len(s) <= Len(t)
      /\ \A i \in 1 .. Len(s) : s[i] = t[i]
  BY LenProperties DEF Attribution!Prefix
<1>2. /\ Len(s \o u) = Len(s) + Len(u) /\ Len(t \o u) = Len(t) + Len(u)
      /\ \A i \in 1 .. Len(s) + Len(u) :
           (s \o u)[i] = IF i <= Len(s) THEN s[i] ELSE u[i - Len(s)]
      /\ \A i \in 1 .. Len(t) + Len(u) :
           (t \o u)[i] = IF i <= Len(t) THEN t[i] ELSE u[i - Len(t)]
  BY ConcatProperties
<1>3. /\ k \in 0 .. Len(t \o u) /\ Len(s) \in 0 .. Len(t \o u) - k
      /\ Len(s \o u) = Len(t \o u) - k
  BY <1>1, <1>2
<1>4. ASSUME NEW n \in 1 .. Len(s \o u)
      PROVE  (s \o u)[n] = IF n <= Len(s) THEN (t \o u)[n] ELSE (t \o u)[n + k]
  <2>1. CASE n <= Len(s)
    <3>1. n \in 1 .. Len(s) /\ n \in 1 .. Len(s) + Len(u)
          /\ n \in 1 .. Len(t) + Len(u) /\ n <= Len(t)
      BY <1>1, <1>2, <2>1
    <3>2. (s \o u)[n] = s[n] /\ (t \o u)[n] = t[n]
      BY <1>2, <2>1, <3>1
    <3>3. QED
      BY <1>1, <2>1, <3>1, <3>2
  <2>2. CASE ~(n <= Len(s))
    <3>1. /\ n \in 1 .. Len(s) + Len(u) /\ n + k \in 1 .. Len(t) + Len(u)
          /\ ~(n + k <= Len(t)) /\ (n + k) - Len(t) = n - Len(s)
      BY <1>1, <1>2, <2>2
    <3>2. (s \o u)[n] = u[n - Len(s)] /\ (t \o u)[n + k] = u[(n + k) - Len(t)]
      BY <1>2, <2>2, <3>1
    <3>3. QED
      BY <2>2, <3>1, <3>2
  <2>3. QED
    BY <2>1, <2>2
<1>5. QED
  BY <1>3, <1>4 DEF Attribution!Shortened

LEMMA PrefixIsShortened ==
  ASSUME NEW s \in Seq(Nat), NEW t \in Seq(Nat), Attribution!Prefix(s, t)
  PROVE  Attribution!Shortened(s, t)
<1>1. s \o <<>> = s /\ t \o <<>> = t /\ <<>> \in Seq(Nat)
  BY EmptySeq, ConcatEmptySeq
<1>2. QED
  BY <1>1, PrefixShortens

(* The authors of a saved version, and the memory of a process that ends, *)
(* are not logged: what remains due is a beginning that holds the log.    *)
LEMMA AuthorsGivenUp ==
  ASSUME TypeOK, UNCHANGED log, epoch' = epoch + 1,
         \A w \in Writer : Due(w)' \in Seq(Nat)
           /\ Attribution!Prefix(log[w], Due(w)') /\ Attribution!Prefix(Due(w)', Due(w))
  PROVE  Attribution!GiveUp
<1>1. ASSUME NEW w \in Writer
      PROVE  /\ Attribution!Shortened(Due(w)', Due(w))
             /\ Attribution!Prefix(log'[w], log[w])
             /\ Attribution!Prefix(log'[w], Due(w)')
  <2>1. log[w] \in Seq(Nat) /\ Due(w) \in Seq(Nat)
    BY DueType
  <2>2. Attribution!Shortened(Due(w)', Due(w))
    BY <2>1, PrefixIsShortened
  <2>3. Attribution!Prefix(log'[w], log[w])
    BY <2>1, PrefixOfSelf
  <2>4. QED
    BY <2>2, <2>3
<1>2. log' = [w \in Writer |-> log'[w]]
  BY DEF TypeOK
<1>3. QED
  BY <1>1, <1>2 DEF Attribution!GiveUp

LEMMA SaveGivesUp ==
  ASSUME TypeOK, TakeAuthors
  PROVE  Attribution!GiveUp
<1>1. UNCHANGED <<log, snapshot>> /\ epoch' = epoch + 1
      /\ pendingContributors' = NoEntries
  BY DEF TakeAuthors
<1>2. ASSUME NEW w \in Writer
      PROVE  /\ Due(w)' \in Seq(Nat)
             /\ Attribution!Prefix(log[w], Due(w)')
             /\ Attribution!Prefix(Due(w)', Due(w))
  <2>1. /\ log[w] \in Seq(Nat) /\ Summaries(snapshot[w]) \in Seq(Nat)
        /\ Summaries(pendingContributors[w]) \in Seq(Nat)
    BY DueType
  <2>2. log[w] \o Summaries(snapshot[w]) \in Seq(Nat)
    BY <2>1, ConcatProperties
  <2>3. Due(w)' = log[w] \o Summaries(snapshot[w])
    <3>1. Due(w)' = log[w] \o (Summaries(snapshot[w]) \o <<>>)
      BY <1>1 DEF Due, Summaries, NoEntries
    <3>2. QED
      BY <2>1, <3>1, ConcatEmptySeq
  <2>4. Due(w) = Due(w)' \o Summaries(pendingContributors[w])
    <3>1. (log[w] \o Summaries(snapshot[w])) \o Summaries(pendingContributors[w])
            = log[w] \o (Summaries(snapshot[w]) \o Summaries(pendingContributors[w]))
      BY <2>1, Regroup, Zenon
    <3>2. QED
      BY <2>3, <3>1 DEF Due
  <2>5. QED
    BY <2>1, <2>2, <2>3, <2>4, PrefixOfConcat
<1>3. QED
  BY <1>1, <1>2, AuthorsGivenUp

LEMMA StopGivesUp ==
  ASSUME TypeOK, NEW status, Lose(status)
  PROVE  Attribution!GiveUp
<1>1. UNCHANGED log /\ epoch' = epoch + 1
      /\ pendingContributors' = NoEntries /\ snapshot' = NoEntries
  BY DEF Lose
<1>2. ASSUME NEW w \in Writer
      PROVE  /\ Due(w)' \in Seq(Nat)
             /\ Attribution!Prefix(log[w], Due(w)')
             /\ Attribution!Prefix(Due(w)', Due(w))
  <2>1. /\ log[w] \in Seq(Nat) /\ Summaries(snapshot[w]) \in Seq(Nat)
        /\ Summaries(pendingContributors[w]) \in Seq(Nat)
    BY DueType
  <2>2. Due(w)' = log[w]
    <3>1. Due(w)' = log[w] \o (<<>> \o <<>>)
      BY <1>1 DEF Due, Summaries, NoEntries
    <3>2. <<>> \o <<>> = <<>> /\ log[w] \o <<>> = log[w]
      BY <2>1, EmptySeq, ConcatEmptySeq
    <3>3. QED
      BY <3>1, <3>2
  <2>3. Summaries(snapshot[w]) \o Summaries(pendingContributors[w]) \in Seq(Nat)
    BY <2>1, ConcatProperties
  <2>4. QED
    BY <2>1, <2>2, <2>3, PrefixOfSelf, PrefixOfConcat DEF Due
<1>3. QED
  BY <1>1, <1>2, AuthorsGivenUp

(* A deleted ref takes with it what was committed after its parent was read. *)
LEMMA DropGivesUp ==
  ASSUME TypeOK, CommitIsWhole, NEW r \in Ref, parents[r] # NoParent,
         log' = [w \in Writer |-> IF w = r THEN parents[r].summaries ELSE log[w]],
         UNCHANGED <<snapshot, pendingContributors>>, epoch' = epoch + 1
  PROVE  Attribution!GiveUp
<1>1. ASSUME NEW w \in Writer
      PROVE  /\ Attribution!Shortened(Due(w)', Due(w))
             /\ Attribution!Prefix(log'[w], log[w])
             /\ Attribution!Prefix(log'[w], Due(w)')
  <2> DEFINE rest == Summaries(snapshot[w]) \o Summaries(pendingContributors[w])
  <2>1. log[w] \in Seq(Nat) /\ rest \in Seq(Nat)
    BY DueType, ConcatProperties
  <2>2. log'[w] \in Seq(Nat) /\ Attribution!Prefix(log'[w], log[w])
    <3>1. CASE w = r
      <4>1. log'[w] = parents[w].summaries /\ parents[w].summaries \in Seq(Nat)
        BY <3>1 DEF TypeOK, Parent
      <4>2. Attribution!Prefix(parents[w].summaries, log[w])
        BY <3>1 DEF CommitIsWhole, SaveIsWhole
      <4>3. QED
        BY <4>1, <4>2
    <3>2. CASE w # r
      BY <2>1, <3>2, PrefixOfSelf
    <3>3. QED
      BY <3>1, <3>2
  <2>3. Due(w) = log[w] \o rest /\ Due(w)' = log'[w] \o rest
    BY DEF Due
  <2>4. Attribution!Shortened(log'[w] \o rest, log[w] \o rest)
    BY <2>1, <2>2, PrefixShortens
  <2>5. Attribution!Prefix(log'[w], log'[w] \o rest)
    BY <2>1, <2>2, PrefixOfConcat
  <2>6. QED
    BY <2>2, <2>3, <2>4, <2>5
<1>2. log' = [w \in Writer |-> log'[w]]
  OBVIOUS
<1>3. QED
  BY <1>1, <1>2 DEF Attribution!GiveUp

LEMMA InitImplements == Init => Attribution!Init
<1> SUFFICES ASSUME Init PROVE Attribution!Init
  OBVIOUS
<1>1. \A w \in Writer : Due(w) = <<>>
  <2>1. <<>> \o (<<>> \o <<>>) = <<>>
    BY EmptySeq, ConcatEmptySeq
  <2>2. QED
    BY <2>1 DEF Init, Due, Summaries, NoEntries
<1>2. QED
  BY <1>1 DEF Init, Attribution!Init

LEMMA NextImplements == Inv /\ [Next]_vars => [Attribution!Next]_(Attribution!vars)
<1> SUFFICES ASSUME TypeOK, CommitIsWhole, [Next]_vars
             PROVE  Attribution!Next \/ UNCHANGED Attribution!vars
  BY DEF Inv
<1> USE DEF diskVars, batchVars, timerVars, mapVars, gitVars, saveVars
<1> DEFINE Implemented == Attribution!Next \/ UNCHANGED Attribution!vars
<1>1. ASSUME NEW w \in Writer, RecordContributor(w) PROVE Implemented
  <2>1. contributions + 1 \in 1 .. MaxContributions
    BY <1>1, PipelineAssumption DEF RecordContributor, TypeOK
  <2>2. QED
    BY <1>1, <2>1, ContributionIsDue DEF Attribution!Next
<1>2. ASSUME NEW w \in Writer, RecordEditor(w) PROVE Implemented
  <2>1. Summaries(<<>>) = <<>> /\ Summaries(NoEntry) = <<>>
    BY DEF Summaries
  <2>2. UNCHANGED <<log, snapshot, epoch>>
        /\ \A v \in Writer : Summaries(pendingContributors'[v])
                              = Summaries(pendingContributors[v])
    BY <1>2, <2>1 DEF RecordEditor, TypeOK, Map
  <2>3. QED
    BY <2>2, Stutters DEF Due
<1>3. ASSUME TimerFires PROVE Implemented
  <2>1. UNCHANGED <<log, epoch>>
    BY <1>3 DEF TimerFires
  <2>2. CASE commitInFlight = "none" /\ StartCommit
    BY <2>1, <2>2, SwapStutters
  <2>3. CASE UNCHANGED mapVars
    BY <2>1, <2>3, UntouchedMaps
  <2>4. QED
    BY <1>3, <2>2, <2>3 DEF TimerFires
<1>4. ASSUME BuildTree PROVE Implemented
  BY <1>4, UntouchedMaps DEF BuildTree
<1>5. ASSUME FailBuild PROVE Implemented
  <2>1. UNCHANGED <<log, epoch>>
    BY <1>5 DEF FailBuild
  <2>2. ASSUME NEW w \in Writer PROVE Due(w)' = Due(w)
    BY <1>5, <2>1, RestoreKeepsDue DEF FailBuild, NoEntries
  <2>3. QED
    BY <2>1, <2>2, Stutters
<1>6. ASSUME NEW w \in Writer, CommitWriter(w) PROVE Implemented
  BY <1>6, CommitPublishes DEF Attribution!Next
<1>7. ASSUME NEW w \in Writer, FailWriter(w) PROVE Implemented
  <2>1. UNCHANGED <<log, epoch>>
    BY <1>7 DEF FailWriter
  <2>2. Due(w)' = Due(w)
    BY <1>7, <2>1, RestoreKeepsDue DEF FailWriter, TypeOK, Map
  <2>3. \A v \in Writer : v # w => Due(v)' = Due(v)
    BY <1>7, <2>1 DEF FailWriter, TypeOK, Map, Due
  <2>4. QED
    BY <2>1, <2>2, <2>3, Stutters
<1>8. ASSUME CommitService PROVE Implemented
  BY <1>8, UntouchedMaps DEF CommitService
<1>9. ASSUME FlushGitCommit PROVE Implemented
  BY <1>9, FlushStutters DEF FlushGitCommit
<1>10. ASSUME FlushContributors PROVE Implemented
  BY <1>10, SwapStutters DEF FlushContributors
<1>11. ASSUME BeginStore \/ FinishStore \/ StoreUnchanged PROVE Implemented
  BY <1>11, UntouchedMaps DEF BeginStore, FinishStore, StoreUnchanged
<1>12. ASSUME BeginHeadBatch PROVE Implemented
  BY <1>12, FlushStutters DEF BeginHeadBatch
<1>13. ASSUME OpenHeadBatch \/ BeginSyncBatch \/ EndBatch PROVE Implemented
  BY <1>13, UntouchedMaps DEF OpenHeadBatch, BeginSyncBatch, EndBatch
<1>14. ASSUME TakeAuthors PROVE Implemented
  BY <1>14, SaveGivesUp DEF Attribution!Next
<1>15. ASSUME BeginSave \/ ReadParents \/ LandCheckpoint \/ FailSave
               \/ BeginDestroy \/ Boot
       PROVE  Implemented
  BY <1>15, UntouchedMaps DEF BeginSave, ReadParents, LandCheckpoint, FailSave,
     BeginDestroy, Boot
<1>16. ASSUME FlushL2 PROVE Implemented
  BY <1>16, FlushStutters DEF FlushL2
<1>17. ASSUME Exit \/ Crash PROVE Implemented
  BY <1>17, StopGivesUp DEF Exit, Crash, Attribution!Next
<1>18. ASSUME UNCHANGED vars PROVE Implemented
  BY <1>18, UntouchedMaps DEF vars
<1>19. ASSUME NEW r \in Ref, DropRef(r) PROVE Implemented
  <2>1. parents[r] # NoParent /\ UNCHANGED <<snapshot, pendingContributors>>
    BY <1>19 DEF DropRef
  <2>2. CASE UNCHANGED <<gitVars, gap>>
    BY <2>1, <2>2, UntouchedMaps
  <2>3. CASE /\ log' = [w \in Writer |->
                          IF w = r THEN parents[r].summaries ELSE log[w]]
             /\ epoch' = epoch + 1
    BY <2>1, <2>3, DropGivesUp DEF Attribution!Next
  <2>4. QED
    BY <1>19, <2>2, <2>3 DEF DropRef
<1>20. QED
  BY <1>1, <1>2, <1>3, <1>4, <1>5, <1>6, <1>7, <1>8, <1>9, <1>10, <1>11, <1>12,
     <1>13, <1>14, <1>15, <1>16, <1>17, <1>18, <1>19, Zenon
     DEF Next, Contributing, Committing, Failing, Flushing, Stores, Batches,
         Saves, Stopping

(* Swapping, restoring and committing the contributors implements the log of *)
(* AttributionLog: in order, at most once, nothing lost while the process    *)
(* lives, for every set of writers and any number of failures.               *)
THEOREM AttributionIsKept == Spec => AttributionKept
<1>1. Init => Attribution!Init
  BY InitImplements
<1>2. Inv /\ [Next]_vars => [Attribution!Next]_(Attribution!vars)
  BY NextImplements
<1>3. QED
  BY <1>1, <1>2, Invariance, PTL DEF Spec, AttributionKept, Attribution!Spec
=============================================================================
