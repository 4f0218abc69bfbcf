--------------------------- MODULE ConfigStoreProofs ---------------------------
(***************************************************************************)
(* Theorems about ConfigStore, for any servers, programs and patches, and  *)
(* any number of accidents.                                                *)
(***************************************************************************)
EXTENDS ConfigStore, TLAPS

USE ConfigAssumption

InStore(i) == progress[i] # "idle"
InFile == IF Valid(config) THEN config ELSE {}
Solid(t) == t \ {Defaults}

(* Nothing is in a text that no patch has put there.                       *)
Known == spent \cup {Defaults}
TextsKnown ==
  /\ Valid(config) => config \subseteq Known
  /\ \A a \in Actor : draft[a] \subseteq Known
  /\ \A i \in Instance :
       /\ lkg[i] \subseteq Known /\ baseLkg[i] \subseteq Known /\ patched[i] \subseteq spent
       /\ Valid(ytext[i]) => ytext[i] \subseteq Known

(* Who works under the lock has made the lock file ...                     *)
LockHeld == ~Excused({"snatched"}) => \A a \in Actor : Working(a) => holder = a

(* ... so what it wrote is still there when it lets the lock go.           *)
NamedIsThere ==
  ~Excused({"snatched", "slipped"}) =>
    \A a \in Actor : progress[a] = "named" => config = draft[a]

(* The defaults alone are never stored: a document that has them is as it  *)
(* was loaded, or has been set back to that.                               *)
NoBareDefaults ==
  /\ config # {Defaults}
  /\ \A a \in Actor : InStore(a) => draft[a] \notin {{}, {Defaults}}
  /\ \A i \in Instance : ytext[i] = {Defaults} => lkg[i] = {Defaults} /\ ~InStore(i)

(* A text that is to be stored has something the last known good text has  *)
(* not; what is written is what the document has, or a later edit of it    *)
(* waits; and while it is written, nothing else is imported.               *)
StoreIsFresh ==
  ~Excused({"late", "slipped", "snatched"}) => \A i \in Instance :
    /\ Valid(ytext[i]) => ytext[i] \in {{}, lkg[i]} \/ ~(ytext[i] \subseteq lkg[i])
    /\ InStore(i) => ~(draft[i] \subseteq baseLkg[i])
    /\ progress[i] \in {"wait", "unlink"} /\ ~storeDue[i] => ytext[i] \in {draft[i], lkg[i]}
    /\ progress[i] = "write" => lkg[i] = baseLkg[i] /\ (Valid(config) => config = baseLkg[i])
    /\ Working(i) /\ ~storeDue[i] => ytext[i] = draft[i]
    /\ Working(i) /\ Valid(ytext[i]) => ytext[i] = draft[i] \/ ~(ytext[i] \subseteq draft[i])
    /\ ytext[i] = {} => lkg[i] \in {{}, {Defaults}} /\ ~Working(i)
    /\ ytext[i] = Broken => storeDue[i] \/ (~InStore(i) /\ lkg[i] = {Defaults})
    /\ Settled(i) /\ ~unsaved[i] =>
         ytext[i] = lkg[i] \/ (ytext[i] \in {{}, Broken} /\ lkg[i] = {Defaults})

(* What the watcher has seen of the file is the last known good text.      *)
SeenIsKnown ==
  ~Excused({"undone", "late", "slipped", "snatched"}) => \A i \in Instance :
    ytext[i] # NoText /\ Valid(config) /\ seen[i] = config =>
      /\ \/ lkg[i] = config
         \/ config = {} /\ lkg[i] = {Defaults}
         \/ progress[i] = "named"
      /\ ytext[i] # Broken \/ storeDue[i]

(* A patch made at a server that any other text has is in the file.        *)
Landing == ~Excused({"mistaken", "snatched", "dropped", "slipped"})
Elsewhere ==
  Landing => \A j \in Instance :
    /\ \A i \in Instance :
         /\ patched[j] \cap lkg[i] \subseteq InFile
         /\ patched[j] \cap baseLkg[i] \subseteq InFile
         /\ i # j /\ Valid(ytext[i]) => patched[j] \cap ytext[i] \subseteq InFile
    /\ \A a \in Actor : a # j => patched[j] \cap draft[a] \subseteq InFile

(* What a server took from the file stays in what it goes on to store.     *)
Taken ==
  Landing => \A i, j \in Instance :
    /\ Valid(ytext[i]) => patched[j] \cap lkg[i] \subseteq ytext[i]
    /\ InStore(i) /\ Valid(ytext[i]) => patched[j] \cap draft[i] \subseteq ytext[i]
    /\ InStore(i) => patched[j] \cap baseLkg[i] \subseteq draft[i]

(* Whoever is about to write has all patches of the file in its text.      *)
Carried ==
  Landing => \A a \in Actor : progress[a] = "write" =>
    \A j \in Instance : patched[j] \cap InFile \subseteq draft[a]

(* A patch is in the file, or in what is being stored, or in what is due   *)
(* to be stored; after a store that failed, it is still in the document.   *)
Waiting(i) ==
  IF ~storeDue[i] THEN {} ELSE IF ytext[i] = Broken THEN Patch ELSE ytext[i]
Unsaved(i) == IF Valid(ytext[i]) THEN ytext[i] ELSE {}
Pending ==
  Landing => \A i \in Instance :
    /\ ytext[i] = Broken => storeDue[i] \/ (~InStore(i) /\ ~unsaved[i])
    /\ InStore(i) => patched[i] \subseteq InFile \cup draft[i] \cup Waiting(i)
    /\ ~InStore(i) /\ ~unsaved[i] => patched[i] \subseteq InFile \cup Waiting(i)
    /\ ~InStore(i) /\ unsaved[i] =>
         ytext[i] # NoText /\ patched[i] \subseteq InFile \cup Waiting(i) \cup Unsaved(i)

(* Of a text nothing is lost from one place it is copied to to the next.   *)
Whole ==
  ~Excused({"slipped", "snatched", "dropped", "late"}) =>
    /\ \A i \in Instance :
         /\ Valid(ytext[i]) => Solid(lkg[i]) \subseteq ytext[i]
         /\ InStore(i) => Solid(baseLkg[i]) \subseteq draft[i]
         /\ Working(i) /\ Valid(ytext[i]) => Solid(draft[i]) \subseteq ytext[i]
    /\ \A a \in Actor :
         progress[a] = "write" /\ Valid(config) => Solid(config) \subseteq draft[a]

ConfigInv ==
  /\ ConfigTypeOK /\ TextsKnown /\ LockHeld /\ NamedIsThere /\ NoBareDefaults
  /\ StoreIsFresh /\ SeenIsKnown /\ Elsewhere /\ Taken /\ Carried /\ Pending /\ Whole

-----------------------------------------------------------------------------
(* Types *)

LEMMA ConfigTexts ==
  /\ \A t \in ValidText : Valid(t)
  /\ \A t \in ConfigText : Valid(t) => t \in ValidText
  /\ ValidText \subseteq ConfigText /\ NoText \in ConfigText /\ Broken \in ConfigText
  /\ {} \in ValidText /\ {Defaults} \in ValidText /\ Broken # {} /\ NoText # {}
  BY DEF ValidText, ConfigText, Valid

(* The steps with which a server's store or another program's patch ends.  *)
LEMMA EndsTyped ==
  ASSUME ConfigTypeOK, NEW a \in Actor, Ends(a)
  PROVE  /\ progress' \in [Actor -> {"idle", "wait", "unlink", "write", "named"}]
         /\ draft' \in [Actor -> ValidText] /\ baseLkg' \in [Instance -> ValidText]
         /\ \A i \in Instance : progress[i] = "idle" => progress'[i] = "idle"
  BY ConfigTexts DEF ConfigTypeOK, Ends, GetsTo, Actor

LEMMA MarkTyped ==
  ASSUME flaws \subseteq Flaw, NEW flaw \in Flaw, NEW yes, Mark(flaw, yes)
  PROVE  flaws' \subseteq Flaw /\ flaws \subseteq flaws'
  BY DEF Mark

LEMMA FlawNames == {"slipped", "snatched", "dropped", "undone", "mistaken", "late"} = Flaw
  BY DEF Flaw

LEMMA ImportTyped ==
  ASSUME ConfigTypeOK, NEW i \in Instance, NEW t \in ValidText, Import(i, t)
  PROVE  /\ ytext' \in [Instance -> ConfigText] /\ lkg' \in [Instance -> ValidText]
         /\ unsaved' \in [Instance -> BOOLEAN]
         /\ ytext' = [ytext EXCEPT ![i] = t] /\ t # NoText
  BY ConfigTexts DEF ConfigTypeOK, Import, Valid

LEMMA ConfigStepTyped ==
  ASSUME ConfigTypeOK, [ConfigNext]_configVars
  PROVE  ConfigTypeOK'
<1> USE ConfigTexts DEF ConfigTypeOK, lockPart, storePart, docPart, ghosts, bounds
<1>0. CASE UNCHANGED configVars
  BY <1>0 DEF configVars
<1>1. ASSUME NEW i \in Instance, Load(i) PROVE ConfigTypeOK'
  BY <1>1 DEF Load
<1>2. ASSUME NEW i \in Instance, Unload(i) PROVE ConfigTypeOK'
  BY <1>2 DEF Unload
<1>3. ASSUME NEW i \in Instance, Clash(i) PROVE ConfigTypeOK'
  BY <1>3 DEF Clash, Accident, ConfigText
<1>4. ASSUME NEW i \in Instance, SkipStore(i) PROVE ConfigTypeOK'
  BY <1>4 DEF SkipStore, StoreRuns
<1>5. ASSUME NEW i \in Instance, Revert(i) PROVE ConfigTypeOK'
  BY <1>5 DEF Revert, StoreRuns, Overrun
<1>6. ASSUME NEW i \in Instance, BeginStore(i) PROVE ConfigTypeOK'
  BY <1>6 DEF BeginStore, StoreRuns, GetsTo, Actor, Valid
<1>7. ASSUME NEW i \in Instance, Reconcile(i) PROVE ConfigTypeOK'
  <2>1. config \in ValidText
    BY <1>7 DEF Reconcile, Diverged
  <2>2. i \in Actor /\ Ends(i)
    BY <1>7 DEF Reconcile, Actor
  <2>3. flaws' \subseteq Flaw
    BY <1>7, FlawNames, MarkTyped DEF Reconcile
  <2>4. patched' \in [Instance -> SUBSET Patch]
    BY <1>7 DEF Reconcile, Overrun
  <2>5. /\ ytext' \in [Instance -> ConfigText] /\ lkg' \in [Instance -> ValidText]
        /\ unsaved' \in [Instance -> BOOLEAN] /\ ytext' = [ytext EXCEPT ![i] = config] /\ config # NoText
    BY <1>7, <2>1, ImportTyped DEF Reconcile
  <2> QED BY <1>7, <2>2, <2>3, <2>4, <2>5, EndsTyped DEF Reconcile
<1>8. ASSUME NEW i \in Instance, ProceedStore(i) PROVE ConfigTypeOK'
  BY <1>8 DEF ProceedStore, TakeLock, GetsTo, Mark, Flaw, Actor
<1>9. ASSUME NEW i \in Instance, FinishStore(i) PROVE ConfigTypeOK'
  <2>1. i \in Actor /\ Ends(i) /\ flaws' \subseteq Flaw
    BY <1>9, FlawNames, MarkTyped DEF FinishStore, Unlock, Actor
  <2> QED BY <1>9, <2>1, EndsTyped DEF FinishStore, Unlock
<1>10. ASSUME NEW i \in Instance, Poll(i) PROVE ConfigTypeOK'
  <2>1. CASE ytext[i] # NoText /\ Valid(config) /\ config # lkg[i]
    <3>1. flaws' \subseteq Flaw
      BY <1>10, <2>1, FlawNames, MarkTyped DEF Poll
    <3>2. patched' \in [Instance -> SUBSET Patch]
      BY <1>10, <2>1 DEF Poll, Overrun
    <3>3. /\ ytext' \in [Instance -> ConfigText] /\ lkg' \in [Instance -> ValidText]
          /\ unsaved' \in [Instance -> BOOLEAN] /\ ytext' = [ytext EXCEPT ![i] = config]
          /\ config # NoText
      BY <1>10, <2>1, ImportTyped DEF Poll
    <3> QED BY <1>10, <2>1, <3>1, <3>2, <3>3 DEF Poll
  <2> QED BY <1>10, <2>1 DEF Poll
<1>11. ASSUME NEW i \in Instance, CrashServer(i) PROVE ConfigTypeOK'
  <2>1. i \in Actor /\ Ends(i)
    BY <1>11 DEF CrashServer, Actor
  <2>2. edits' = edits /\ accidents' = accidents + 1 /\ edits + accidents < MaxTroubles
    BY <1>11 DEF CrashServer, Accident
  <2>3. /\ ytext' \in [Instance -> ConfigText] /\ seen' \in [Instance -> ConfigText]
        /\ lkg' \in [Instance -> ValidText] /\ storeDue' \in [Instance -> BOOLEAN]
        /\ patched' \in [Instance -> SUBSET Patch] /\ unsaved' \in [Instance -> BOOLEAN]
        /\ UNCHANGED <<config, lockPart, spent, flaws>>
    BY <1>11 DEF CrashServer
  <2>4. \A j \in Instance : ytext'[j] = NoText => ~storeDue'[j] /\ progress'[j] = "idle"
    BY <1>11, <2>1 DEF CrashServer, Ends, GetsTo, Actor
  <2> QED BY <2>1, <2>2, <2>3, <2>4, EndsTyped
<1>12. ASSUME NEW i \in Instance, NEW p \in Patch, UserPatch(i, p) PROVE ConfigTypeOK'
  <2> DEFINE kept == IF ytext[i] = Broken THEN {} ELSE ytext[i]
  <2>1. kept \cup {p} \in ValidText
    BY <1>12 DEF UserPatch, ConfigText, ValidText
  <2>2. flaws' \subseteq Flaw
    BY <1>12, FlawNames, MarkTyped DEF UserPatch
  <2>3. ytext' = [ytext EXCEPT ![i] = kept \cup {p}] /\ kept \cup {p} # NoText
    BY <1>12, <2>1 DEF UserPatch, Valid
  <2>4. patched' \in [Instance -> SUBSET Patch]
    BY <1>12 DEF UserPatch
  <2>5. ytext[i] # NoText /\ storeDue' = [storeDue EXCEPT ![i] = TRUE] /\ spent' = spent \cup {p}
        /\ UNCHANGED <<config, lockPart, storePart, lkg, seen, unsaved, bounds>>
    BY <1>12 DEF UserPatch
  <2> HIDE DEF kept
  <2> QED BY <2>1, <2>2, <2>3, <2>4, <2>5
<1>13. ASSUME NEW w \in Patcher, RefusePatch(w) PROVE ConfigTypeOK'
  BY <1>13, EndsTyped DEF RefusePatch, Actor
<1>14. ASSUME NEW w \in Patcher, ProceedPatch(w) PROVE ConfigTypeOK'
  BY <1>14 DEF ProceedPatch, TakeLock, GetsTo, ConfigText, ValidText, Actor
<1>15. ASSUME NEW w \in Patcher, FinishPatch(w) PROVE ConfigTypeOK'
  BY <1>15, EndsTyped DEF FinishPatch, Unlock, Mark, Flaw, Actor
<1>16. ASSUME NEW w \in Patcher, CrashPatcher(w) PROVE ConfigTypeOK'
  BY <1>16, EndsTyped DEF CrashPatcher, Accident, Actor
<1>17. ASSUME NEW w \in Patcher, NEW p \in Patch, BeginPatch(w, p) PROVE ConfigTypeOK'
  BY <1>17 DEF BeginPatch, GetsTo, ValidText, Actor
<1>18. ASSUME NEW a \in Actor, Rename(a) PROVE ConfigTypeOK'
  BY <1>18 DEF Rename, GetsTo, Mark, Flaw, ConfigText
<1>19. ASSUME NEW a \in Actor, FailWrite(a) PROVE ConfigTypeOK'
  <2>1. flaws' \subseteq Flaw
    BY <1>19, FlawNames, MarkTyped DEF FailWrite, Unlock
  <2>2. /\ holder' = Nobody /\ aged' = FALSE /\ edits' \in Nat /\ accidents' \in Nat
        /\ edits' + accidents' <= MaxTroubles
    BY <1>19 DEF FailWrite, Accident, Unlock
  <2>3. /\ unsaved' \in [Instance -> BOOLEAN] /\ Ends(a)
        /\ UNCHANGED <<config, ytext, lkg, storeDue, seen, patched, spent>>
    BY <1>19 DEF FailWrite, NotSaved
  <2>4. /\ progress' \in [Actor -> {"idle", "wait", "unlink", "write", "named"}]
        /\ draft' \in [Actor -> ValidText] /\ baseLkg' \in [Instance -> ValidText]
        /\ \A i \in Instance : progress[i] = "idle" => progress'[i] = "idle"
    BY <2>3, EndsTyped
  <2> QED BY <2>1, <2>2, <2>3, <2>4
<1>20. ASSUME NEW a \in Actor, JudgeStale(a) PROVE ConfigTypeOK'
  BY <1>20 DEF JudgeStale, GetsTo
<1>21. ASSUME NEW a \in Actor, ClearStale(a) PROVE ConfigTypeOK'
  <2>1. flaws' \subseteq Flaw
    BY <1>21, FlawNames, MarkTyped DEF ClearStale
  <2>2. progress' = [progress EXCEPT ![a] = "wait"] /\ progress[a] = "unlink"
    BY <1>21 DEF ClearStale, GetsTo
  <2>3. /\ holder' = Nobody /\ aged' = FALSE
        /\ UNCHANGED <<config, draft, baseLkg, docPart, seen, patched, unsaved, spent, bounds>>
    BY <1>21 DEF ClearStale
  <2> QED BY <2>1, <2>2, <2>3 DEF Actor
<1>22. ASSUME NEW a \in Actor, LockTimeout(a) PROVE ConfigTypeOK'
  BY <1>22, EndsTyped DEF LockTimeout, NotSaved
<1>23. CASE LockAges
  BY <1>23 DEF LockAges
<1>24. CASE HandEdit
  BY <1>24 DEF HandEdit, PutsBack, Flaw, ConfigText, ValidText
<1> QED
  BY <1>0, <1>1, <1>2, <1>3, <1>4, <1>5, <1>6, <1>7, <1>8, <1>9, <1>10, <1>11, <1>12, <1>13,
     <1>14, <1>15, <1>16, <1>17, <1>18, <1>19, <1>20, <1>21, <1>22, <1>23, <1>24
     DEF ConfigNext


(* What a user's patch changes: it is new to every text.                   *)
LEMMA PatchIsNew ==
  ASSUME ConfigTypeOK, TextsKnown, NEW i \in Instance, NEW p \in Patch, UserPatch(i, p)
  PROVE  /\ \A a \in Actor : p \notin draft[a]
         /\ \A j \in Instance : p \notin lkg[j] /\ p \notin baseLkg[j] /\ p \notin patched[j]
         /\ Valid(config) => p \notin config
         /\ \A j \in Instance : j # i =>
              ytext'[j] = ytext[j] /\ patched'[j] = patched[j] /\ storeDue'[j] = storeDue[j]
         /\ Valid(ytext'[i]) /\ p \in ytext'[i] /\ storeDue'[i] /\ ytext[i] # NoText
         /\ Valid(ytext[i]) =>
              ytext'[i] = ytext[i] \cup {p} /\ patched'[i] = patched[i] \cup {p}
         /\ ~Valid(ytext[i]) =>
              /\ ytext'[i] = {p} /\ patched'[i] = {p}
              /\ "dropped" \in flaws' \/ (lkg[i] \subseteq {Defaults} /\ ~InStore(i))
         /\ flaws \subseteq flaws'
         /\ UNCHANGED <<config, progress, draft, baseLkg, lkg, seen, unsaved>>
<1> USE ConfigTexts DEF ConfigTypeOK, TextsKnown, Known
<1>1. /\ \A a \in Actor : p \notin draft[a]
      /\ \A j \in Instance : p \notin lkg[j] /\ p \notin baseLkg[j] /\ p \notin patched[j]
      /\ Valid(config) => p \notin config
  BY DEF UserPatch
<1>2. /\ \A j \in Instance : j # i =>
           ytext'[j] = ytext[j] /\ patched'[j] = patched[j] /\ storeDue'[j] = storeDue[j]
      /\ storeDue'[i] /\ ytext[i] # NoText
      /\ UNCHANGED <<config, progress, draft, baseLkg, lkg, seen, unsaved>>
  BY DEF UserPatch, storePart
<1>3. CASE Valid(ytext[i])
  <2>1. ytext'[i] = ytext[i] \cup {p} /\ patched'[i] = patched[i] \cup {p} /\ flaws \subseteq flaws'
    BY <1>3 DEF UserPatch, Valid, Mark
  <2>2. ytext[i] \cup {p} \in ValidText
    BY <1>3 DEF ValidText, ConfigText, Valid
  <2> QED BY <1>1, <1>2, <1>3, <2>1, <2>2
<1>4. CASE ~Valid(ytext[i])
  <2>1. ytext[i] = Broken
    BY <1>4 DEF UserPatch, Valid
  <2>2. ytext'[i] = {p} /\ patched'[i] = {p} /\ flaws \subseteq flaws'
    BY <2>1 DEF UserPatch, Mark
  <2>3. "dropped" \in flaws' \/ (lkg[i] \subseteq {Defaults} /\ ~InStore(i))
    BY <2>1 DEF UserPatch, Mark, InStore
  <2>4. {p} \in ValidText
    BY DEF ValidText
  <2> QED BY <1>1, <1>2, <1>4, <2>2, <2>3, <2>4
<1> QED BY <1>3, <1>4

-----------------------------------------------------------------------------
(* The invariant *)

LEMMA KnownStep ==
  ASSUME ConfigTypeOK, TextsKnown, [ConfigNext]_configVars
  PROVE  TextsKnown'
<1> USE ConfigTexts DEF ConfigTypeOK, lockPart, storePart, docPart, ghosts, bounds, Actor,
       Excused, Valid, TextsKnown, Known
<1>0. CASE UNCHANGED configVars
  BY <1>0 DEF configVars
<1>1. ASSUME NEW i \in Instance, Load(i) \/ Unload(i) \/ Clash(i) PROVE TextsKnown'
  BY <1>1 DEF Load, Unload, Clash, Accident
<1>2. ASSUME NEW i \in Instance, SkipStore(i) \/ Revert(i) \/ BeginStore(i) PROVE TextsKnown'
  BY <1>2 DEF SkipStore, StoreRuns, Revert, Overrun, BeginStore, GetsTo
<1>3. ASSUME NEW i \in Instance, Reconcile(i) PROVE TextsKnown'
  BY <1>3 DEF Reconcile, Import, Overrun, Mark, Ends, GetsTo, Diverged
<1>4. ASSUME NEW i \in Instance, ProceedStore(i) PROVE TextsKnown'
  BY <1>4 DEF ProceedStore, TakeLock, GetsTo, Mark, Diverged, Outdated
<1>5. ASSUME NEW i \in Instance, FinishStore(i) PROVE TextsKnown'
  BY <1>5 DEF FinishStore, Unlock, Mark, Ends, GetsTo
<1>6. ASSUME NEW i \in Instance, Poll(i) PROVE TextsKnown'
  BY <1>6 DEF Poll, Import, Overrun, Mark, OwnText
<1>7. ASSUME NEW i \in Instance, CrashServer(i) PROVE TextsKnown'
  BY <1>7 DEF CrashServer, Accident, Ends, GetsTo
<1>8. ASSUME NEW i \in Instance, NEW p \in Patch, UserPatch(i, p) PROVE TextsKnown'
  BY <1>8 DEF UserPatch, Mark
<1>9. ASSUME NEW w \in Patcher, RefusePatch(w) \/ FinishPatch(w) \/ CrashPatcher(w) PROVE TextsKnown'
  BY <1>9 DEF RefusePatch, Ends, GetsTo, FinishPatch, Unlock, Mark, CrashPatcher, Accident
<1>10. ASSUME NEW w \in Patcher, ProceedPatch(w) PROVE TextsKnown'
  BY <1>10 DEF ProceedPatch, TakeLock, GetsTo
<1>11. ASSUME NEW w \in Patcher, NEW p \in Patch, BeginPatch(w, p) PROVE TextsKnown'
  BY <1>11 DEF BeginPatch, GetsTo
<1>12. ASSUME NEW a \in Actor, Rename(a) PROVE TextsKnown'
  BY <1>12 DEF Rename, GetsTo, Mark, PutsBack
<1>13. ASSUME NEW a \in Actor, FailWrite(a) \/ LockTimeout(a) PROVE TextsKnown'
  BY <1>13 DEF FailWrite, Accident, NotSaved, Unlock, Mark, Ends, GetsTo, LockTimeout
<1>14. ASSUME NEW a \in Actor, JudgeStale(a) \/ ClearStale(a) PROVE TextsKnown'
  BY <1>14 DEF JudgeStale, GetsTo, ClearStale, Mark
<1>15. CASE LockAges
  BY <1>15 DEF LockAges
<1>16. CASE HandEdit
  BY <1>16 DEF HandEdit, PutsBack
<1> QED
  BY <1>0, <1>1, <1>2, <1>3, <1>4, <1>5, <1>6, <1>7, <1>8, <1>9, <1>10, <1>11, <1>12, <1>13,
     <1>14, <1>15, <1>16 DEF ConfigNext

LEMMA HeldStep ==
  ASSUME ConfigTypeOK, LockHeld, [ConfigNext]_configVars
  PROVE  LockHeld'
<1> USE ConfigTexts DEF ConfigTypeOK, lockPart, storePart, docPart, ghosts, bounds, Actor,
       Excused, Valid, LockHeld, Working
<1>0. CASE UNCHANGED configVars
  BY <1>0 DEF configVars
<1>1. ASSUME NEW i \in Instance, Load(i) \/ Unload(i) \/ Clash(i) PROVE LockHeld'
  BY <1>1 DEF Load, Unload, Clash, Accident
<1>2. ASSUME NEW i \in Instance, SkipStore(i) \/ Revert(i) \/ BeginStore(i) PROVE LockHeld'
  BY <1>2 DEF SkipStore, StoreRuns, Revert, Overrun, BeginStore, GetsTo
<1>3. ASSUME NEW i \in Instance, Reconcile(i) PROVE LockHeld'
  BY <1>3 DEF Reconcile, Import, Overrun, Mark, Ends, GetsTo, Diverged
<1>4. ASSUME NEW i \in Instance, ProceedStore(i) PROVE LockHeld'
  BY <1>4 DEF ProceedStore, TakeLock, GetsTo, Mark, Diverged, Outdated
<1>5. ASSUME NEW i \in Instance, FinishStore(i) PROVE LockHeld'
  BY <1>5 DEF FinishStore, Unlock, Mark, Ends, GetsTo
<1>6. ASSUME NEW i \in Instance, Poll(i) PROVE LockHeld'
  BY <1>6 DEF Poll, Import, Overrun, Mark, OwnText
<1>7. ASSUME NEW i \in Instance, CrashServer(i) PROVE LockHeld'
  BY <1>7 DEF CrashServer, Accident, Ends, GetsTo
<1>8. ASSUME NEW i \in Instance, NEW p \in Patch, UserPatch(i, p) PROVE LockHeld'
  BY <1>8 DEF UserPatch, Mark
<1>9. ASSUME NEW w \in Patcher, RefusePatch(w) \/ FinishPatch(w) \/ CrashPatcher(w) PROVE LockHeld'
  BY <1>9 DEF RefusePatch, Ends, GetsTo, FinishPatch, Unlock, Mark, CrashPatcher, Accident
<1>10. ASSUME NEW w \in Patcher, ProceedPatch(w) PROVE LockHeld'
  BY <1>10 DEF ProceedPatch, TakeLock, GetsTo
<1>11. ASSUME NEW w \in Patcher, NEW p \in Patch, BeginPatch(w, p) PROVE LockHeld'
  BY <1>11 DEF BeginPatch, GetsTo
<1>12. ASSUME NEW a \in Actor, Rename(a) PROVE LockHeld'
  BY <1>12 DEF Rename, GetsTo, Mark, PutsBack
<1>13. ASSUME NEW a \in Actor, FailWrite(a) \/ LockTimeout(a) PROVE LockHeld'
  BY <1>13 DEF FailWrite, Accident, NotSaved, Unlock, Mark, Ends, GetsTo, LockTimeout
<1>14. ASSUME NEW a \in Actor, JudgeStale(a) \/ ClearStale(a) PROVE LockHeld'
  BY <1>14 DEF JudgeStale, GetsTo, ClearStale, Mark
<1>15. CASE LockAges
  BY <1>15 DEF LockAges
<1>16. CASE HandEdit
  BY <1>16 DEF HandEdit, PutsBack
<1> QED
  BY <1>0, <1>1, <1>2, <1>3, <1>4, <1>5, <1>6, <1>7, <1>8, <1>9, <1>10, <1>11, <1>12, <1>13,
     <1>14, <1>15, <1>16 DEF ConfigNext

LEMMA NamedStep ==
  ASSUME ConfigTypeOK, LockHeld, NamedIsThere, [ConfigNext]_configVars
  PROVE  NamedIsThere'
<1> USE ConfigTexts DEF ConfigTypeOK, lockPart, storePart, docPart, ghosts, bounds, Actor,
       Excused, Valid, LockHeld, NamedIsThere, Working
<1>0. CASE UNCHANGED configVars
  BY <1>0 DEF configVars
<1>1. ASSUME NEW i \in Instance, Load(i) \/ Unload(i) \/ Clash(i) PROVE NamedIsThere'
  BY <1>1 DEF Load, Unload, Clash, Accident
<1>2. ASSUME NEW i \in Instance, SkipStore(i) \/ Revert(i) \/ BeginStore(i) PROVE NamedIsThere'
  BY <1>2 DEF SkipStore, StoreRuns, Revert, Overrun, BeginStore, GetsTo
<1>3. ASSUME NEW i \in Instance, Reconcile(i) PROVE NamedIsThere'
  BY <1>3 DEF Reconcile, Import, Overrun, Mark, Ends, GetsTo, Diverged
<1>4. ASSUME NEW i \in Instance, ProceedStore(i) PROVE NamedIsThere'
  BY <1>4 DEF ProceedStore, TakeLock, GetsTo, Mark, Diverged, Outdated
<1>5. ASSUME NEW i \in Instance, FinishStore(i) PROVE NamedIsThere'
  BY <1>5 DEF FinishStore, Unlock, Mark, Ends, GetsTo
<1>6. ASSUME NEW i \in Instance, Poll(i) PROVE NamedIsThere'
  BY <1>6 DEF Poll, Import, Overrun, Mark, OwnText
<1>7. ASSUME NEW i \in Instance, CrashServer(i) PROVE NamedIsThere'
  BY <1>7 DEF CrashServer, Accident, Ends, GetsTo
<1>8. ASSUME NEW i \in Instance, NEW p \in Patch, UserPatch(i, p) PROVE NamedIsThere'
  BY <1>8 DEF UserPatch, Mark
<1>9. ASSUME NEW w \in Patcher, RefusePatch(w) \/ FinishPatch(w) \/ CrashPatcher(w) PROVE NamedIsThere'
  BY <1>9 DEF RefusePatch, Ends, GetsTo, FinishPatch, Unlock, Mark, CrashPatcher, Accident
<1>10. ASSUME NEW w \in Patcher, ProceedPatch(w) PROVE NamedIsThere'
  BY <1>10 DEF ProceedPatch, TakeLock, GetsTo
<1>11. ASSUME NEW w \in Patcher, NEW p \in Patch, BeginPatch(w, p) PROVE NamedIsThere'
  BY <1>11 DEF BeginPatch, GetsTo
<1>12. ASSUME NEW a \in Actor, Rename(a) PROVE NamedIsThere'
  BY <1>12 DEF Rename, GetsTo, Mark, PutsBack
<1>13. ASSUME NEW a \in Actor, FailWrite(a) \/ LockTimeout(a) PROVE NamedIsThere'
  BY <1>13 DEF FailWrite, Accident, NotSaved, Unlock, Mark, Ends, GetsTo, LockTimeout
<1>14. ASSUME NEW a \in Actor, JudgeStale(a) \/ ClearStale(a) PROVE NamedIsThere'
  BY <1>14 DEF JudgeStale, GetsTo, ClearStale, Mark
<1>15. CASE LockAges
  BY <1>15 DEF LockAges
<1>16. CASE HandEdit
  BY <1>16 DEF HandEdit, PutsBack
<1> QED
  BY <1>0, <1>1, <1>2, <1>3, <1>4, <1>5, <1>6, <1>7, <1>8, <1>9, <1>10, <1>11, <1>12, <1>13,
     <1>14, <1>15, <1>16 DEF ConfigNext

LEMMA DefaultsStep ==
  ASSUME ConfigTypeOK, TextsKnown, NoBareDefaults, [ConfigNext]_configVars
  PROVE  NoBareDefaults'
<1> USE ConfigTexts DEF ConfigTypeOK, lockPart, storePart, docPart, ghosts, bounds, Actor,
       Excused, Valid, TextsKnown, Known, NoBareDefaults, InStore
<1>0. CASE UNCHANGED configVars
  BY <1>0 DEF configVars
<1>1. ASSUME NEW i \in Instance, Load(i) \/ Unload(i) \/ Clash(i) PROVE NoBareDefaults'
  BY <1>1 DEF Load, Unload, Clash, Accident
<1>2. ASSUME NEW i \in Instance, SkipStore(i) \/ Revert(i) \/ BeginStore(i) PROVE NoBareDefaults'
  <2>1. CASE SkipStore(i)
    BY <2>1 DEF SkipStore, StoreRuns
  <2>2. CASE Revert(i)
    BY <2>2 DEF Revert, StoreRuns, Overrun
  <2>3. CASE BeginStore(i)
    BY <2>3 DEF BeginStore, StoreRuns, GetsTo
  <2> QED BY <1>2, <2>1, <2>2, <2>3
<1>3. ASSUME NEW i \in Instance, Reconcile(i) PROVE NoBareDefaults'
  BY <1>3 DEF Reconcile, Import, Overrun, Mark, Ends, GetsTo, Diverged
<1>4. ASSUME NEW i \in Instance, ProceedStore(i) PROVE NoBareDefaults'
  BY <1>4 DEF ProceedStore, TakeLock, GetsTo, Mark, Diverged, Outdated
<1>5. ASSUME NEW i \in Instance, FinishStore(i) PROVE NoBareDefaults'
  BY <1>5 DEF FinishStore, Unlock, Mark, Ends, GetsTo
<1>6. ASSUME NEW i \in Instance, Poll(i) PROVE NoBareDefaults'
  BY <1>6 DEF Poll, Import, Overrun, Mark, OwnText
<1>7. ASSUME NEW i \in Instance, CrashServer(i) PROVE NoBareDefaults'
  BY <1>7 DEF CrashServer, Accident, Ends, GetsTo
<1>8. ASSUME NEW i \in Instance, NEW p \in Patch, UserPatch(i, p) PROVE NoBareDefaults'
  BY <1>8 DEF UserPatch, Mark
<1>9. ASSUME NEW w \in Patcher, RefusePatch(w) \/ FinishPatch(w) \/ CrashPatcher(w) PROVE NoBareDefaults'
  BY <1>9 DEF RefusePatch, Ends, GetsTo, FinishPatch, Unlock, Mark, CrashPatcher, Accident
<1>10. ASSUME NEW w \in Patcher, ProceedPatch(w) PROVE NoBareDefaults'
  BY <1>10 DEF ProceedPatch, TakeLock, GetsTo
<1>11. ASSUME NEW w \in Patcher, NEW p \in Patch, BeginPatch(w, p) PROVE NoBareDefaults'
  BY <1>11 DEF BeginPatch, GetsTo
<1>12. ASSUME NEW a \in Actor, Rename(a) PROVE NoBareDefaults'
  BY <1>12 DEF Rename, GetsTo, Mark, PutsBack
<1>13. ASSUME NEW a \in Actor, FailWrite(a) \/ LockTimeout(a) PROVE NoBareDefaults'
  BY <1>13 DEF FailWrite, Accident, NotSaved, Unlock, Mark, Ends, GetsTo, LockTimeout
<1>14. ASSUME NEW a \in Actor, JudgeStale(a) \/ ClearStale(a) PROVE NoBareDefaults'
  BY <1>14 DEF JudgeStale, GetsTo, ClearStale, Mark
<1>15. CASE LockAges
  BY <1>15 DEF LockAges
<1>16. CASE HandEdit
  BY <1>16 DEF HandEdit, PutsBack
<1> QED
  BY <1>0, <1>1, <1>2, <1>3, <1>4, <1>5, <1>6, <1>7, <1>8, <1>9, <1>10, <1>11, <1>12, <1>13,
     <1>14, <1>15, <1>16 DEF ConfigNext

LEMMA FreshStep ==
  ASSUME ConfigTypeOK, TextsKnown, LockHeld, NamedIsThere, NoBareDefaults, StoreIsFresh,
     [ConfigNext]_configVars
  PROVE  StoreIsFresh'
<1> USE ConfigTexts DEF ConfigTypeOK, lockPart, storePart, docPart, ghosts, bounds, Actor,
       Excused, Valid, TextsKnown, Known, LockHeld, Working, NamedIsThere, NoBareDefaults,
       InStore, StoreIsFresh, Settled
<1>0. CASE UNCHANGED configVars
  BY <1>0 DEF configVars
<1>1. ASSUME NEW i \in Instance, Load(i) \/ Unload(i) \/ Clash(i) PROVE StoreIsFresh'
  BY <1>1 DEF Load, Unload, Clash, Accident
<1>2. ASSUME NEW i \in Instance, SkipStore(i) \/ Revert(i) \/ BeginStore(i) PROVE StoreIsFresh'
  <2>1. CASE SkipStore(i)
    <3>1. progress[i] = "idle" /\ storeDue' = [storeDue EXCEPT ![i] = FALSE]
          /\ (ytext[i] = {} \/ ytext[i] = lkg[i])
          /\ UNCHANGED <<config, progress, draft, baseLkg, ytext, lkg, unsaved, flaws>>
      BY <2>1 DEF SkipStore, StoreRuns
    <3>2. SUFFICES ASSUME ~Excused({"late", "slipped", "snatched"})'
                   PROVE  Settled(i)' /\ ~unsaved'[i] =>
                            ytext[i] = lkg[i] \/ (ytext[i] \in {{}, Broken} /\ lkg[i] = {Defaults})
      BY <3>1
    <3> QED BY <3>1, <3>2
  <2>2. CASE Revert(i)
    BY <2>2 DEF Revert, StoreRuns, Overrun
  <2>3. CASE BeginStore(i)
    BY <2>3 DEF BeginStore, StoreRuns, GetsTo
  <2> QED BY <1>2, <2>1, <2>2, <2>3
<1>3. ASSUME NEW i \in Instance, Reconcile(i) PROVE StoreIsFresh'
  BY <1>3 DEF Reconcile, Import, Overrun, Mark, Ends, GetsTo, Diverged
<1>4. ASSUME NEW i \in Instance, ProceedStore(i) PROVE StoreIsFresh'
  BY <1>4 DEF ProceedStore, TakeLock, GetsTo, Mark, Diverged, Outdated
<1>5. ASSUME NEW i \in Instance, FinishStore(i) PROVE StoreIsFresh'
  BY <1>5 DEF FinishStore, Unlock, Mark, Ends, GetsTo
<1>6. ASSUME NEW i \in Instance, Poll(i) PROVE StoreIsFresh'
  BY <1>6 DEF Poll, Import, Overrun, Mark, OwnText
<1>7. ASSUME NEW i \in Instance, CrashServer(i) PROVE StoreIsFresh'
  BY <1>7 DEF CrashServer, Accident, Ends, GetsTo
<1>8. ASSUME NEW i \in Instance, NEW p \in Patch, UserPatch(i, p) PROVE StoreIsFresh'
  BY <1>8, PatchIsNew
<1>9. ASSUME NEW w \in Patcher, RefusePatch(w) \/ FinishPatch(w) \/ CrashPatcher(w) PROVE StoreIsFresh'
  BY <1>9 DEF RefusePatch, Ends, GetsTo, FinishPatch, Unlock, Mark, CrashPatcher, Accident
<1>10. ASSUME NEW w \in Patcher, ProceedPatch(w) PROVE StoreIsFresh'
  BY <1>10 DEF ProceedPatch, TakeLock, GetsTo
<1>11. ASSUME NEW w \in Patcher, NEW p \in Patch, BeginPatch(w, p) PROVE StoreIsFresh'
  BY <1>11 DEF BeginPatch, GetsTo
<1>12. ASSUME NEW a \in Actor, Rename(a) PROVE StoreIsFresh'
  BY <1>12 DEF Rename, GetsTo, Mark, PutsBack
<1>13. ASSUME NEW a \in Actor, FailWrite(a) \/ LockTimeout(a) PROVE StoreIsFresh'
  <2>1. CASE FailWrite(a)
    BY <2>1 DEF FailWrite, Accident, NotSaved, Unlock, Mark, Ends, GetsTo
  <2>2. CASE LockTimeout(a)
    BY <2>2 DEF LockTimeout, NotSaved, Ends, GetsTo
  <2> QED BY <1>13, <2>1, <2>2
<1>14. ASSUME NEW a \in Actor, JudgeStale(a) \/ ClearStale(a) PROVE StoreIsFresh'
  BY <1>14 DEF JudgeStale, GetsTo, ClearStale, Mark
<1>15. CASE LockAges
  BY <1>15 DEF LockAges
<1>16. CASE HandEdit
  BY <1>16 DEF HandEdit, PutsBack
<1> QED
  BY <1>0, <1>1, <1>2, <1>3, <1>4, <1>5, <1>6, <1>7, <1>8, <1>9, <1>10, <1>11, <1>12, <1>13,
     <1>14, <1>15, <1>16 DEF ConfigNext

LEMMA SeenStep ==
  ASSUME ConfigTypeOK, TextsKnown, LockHeld, NamedIsThere, NoBareDefaults, StoreIsFresh,
     SeenIsKnown, [ConfigNext]_configVars
  PROVE  SeenIsKnown'
<1> USE ConfigTexts DEF ConfigTypeOK, lockPart, storePart, docPart, ghosts, bounds, Actor,
       Excused, Valid, TextsKnown, Known, LockHeld, Working, NamedIsThere, NoBareDefaults,
       InStore, StoreIsFresh, Settled, SeenIsKnown
<1>0. CASE UNCHANGED configVars
  BY <1>0 DEF configVars
<1>1. ASSUME NEW i \in Instance, Load(i) \/ Unload(i) \/ Clash(i) PROVE SeenIsKnown'
  BY <1>1 DEF Load, Unload, Clash, Accident
<1>2. ASSUME NEW i \in Instance, SkipStore(i) \/ Revert(i) \/ BeginStore(i) PROVE SeenIsKnown'
  BY <1>2 DEF SkipStore, StoreRuns, Revert, Overrun, BeginStore, GetsTo
<1>3. ASSUME NEW i \in Instance, Reconcile(i) PROVE SeenIsKnown'
  BY <1>3 DEF Reconcile, Import, Overrun, Mark, Ends, GetsTo, Diverged
<1>4. ASSUME NEW i \in Instance, ProceedStore(i) PROVE SeenIsKnown'
  BY <1>4 DEF ProceedStore, TakeLock, GetsTo, Mark, Diverged, Outdated
<1>5. ASSUME NEW i \in Instance, FinishStore(i) PROVE SeenIsKnown'
  BY <1>5 DEF FinishStore, Unlock, Mark, Ends, GetsTo
<1>6. ASSUME NEW i \in Instance, Poll(i) PROVE SeenIsKnown'
  BY <1>6 DEF Poll, Import, Overrun, Mark, OwnText
<1>7. ASSUME NEW i \in Instance, CrashServer(i) PROVE SeenIsKnown'
  BY <1>7 DEF CrashServer, Accident, Ends, GetsTo
<1>8. ASSUME NEW i \in Instance, NEW p \in Patch, UserPatch(i, p) PROVE SeenIsKnown'
  BY <1>8 DEF UserPatch, Mark
<1>9. ASSUME NEW w \in Patcher, RefusePatch(w) \/ FinishPatch(w) \/ CrashPatcher(w) PROVE SeenIsKnown'
  BY <1>9 DEF RefusePatch, Ends, GetsTo, FinishPatch, Unlock, Mark, CrashPatcher, Accident
<1>10. ASSUME NEW w \in Patcher, ProceedPatch(w) PROVE SeenIsKnown'
  BY <1>10 DEF ProceedPatch, TakeLock, GetsTo
<1>11. ASSUME NEW w \in Patcher, NEW p \in Patch, BeginPatch(w, p) PROVE SeenIsKnown'
  BY <1>11 DEF BeginPatch, GetsTo
<1>12. ASSUME NEW a \in Actor, Rename(a) PROVE SeenIsKnown'
  BY <1>12 DEF Rename, GetsTo, Mark, PutsBack
<1>13. ASSUME NEW a \in Actor, FailWrite(a) \/ LockTimeout(a) PROVE SeenIsKnown'
  BY <1>13 DEF FailWrite, Accident, NotSaved, Unlock, Mark, Ends, GetsTo, LockTimeout
<1>14. ASSUME NEW a \in Actor, JudgeStale(a) \/ ClearStale(a) PROVE SeenIsKnown'
  BY <1>14 DEF JudgeStale, GetsTo, ClearStale, Mark
<1>15. CASE LockAges
  BY <1>15 DEF LockAges
<1>16. CASE HandEdit
  BY <1>16 DEF HandEdit, PutsBack
<1> QED
  BY <1>0, <1>1, <1>2, <1>3, <1>4, <1>5, <1>6, <1>7, <1>8, <1>9, <1>10, <1>11, <1>12, <1>13,
     <1>14, <1>15, <1>16 DEF ConfigNext

LEMMA ElsewhereStep ==
  ASSUME ConfigTypeOK, TextsKnown, LockHeld, NamedIsThere, NoBareDefaults, Elsewhere, Carried,
     [ConfigNext]_configVars
  PROVE  Elsewhere'
<1> USE ConfigTexts DEF ConfigTypeOK, lockPart, storePart, docPart, ghosts, bounds, Actor,
       Excused, Valid, TextsKnown, Known, LockHeld, Working, NamedIsThere, NoBareDefaults,
       InStore, Elsewhere, Carried, InFile, Landing
<1>0. CASE UNCHANGED configVars
  BY <1>0 DEF configVars
<1>1. ASSUME NEW i \in Instance, Load(i) \/ Unload(i) \/ Clash(i) PROVE Elsewhere'
  BY <1>1 DEF Load, Unload, Clash, Accident
<1>2. ASSUME NEW i \in Instance, SkipStore(i) \/ Revert(i) \/ BeginStore(i) PROVE Elsewhere'
  BY <1>2 DEF SkipStore, StoreRuns, Revert, Overrun, BeginStore, GetsTo
<1>3. ASSUME NEW i \in Instance, Reconcile(i) PROVE Elsewhere'
  BY <1>3 DEF Reconcile, Import, Overrun, Mark, Ends, GetsTo, Diverged
<1>4. ASSUME NEW i \in Instance, ProceedStore(i) PROVE Elsewhere'
  BY <1>4 DEF ProceedStore, TakeLock, GetsTo, Mark, Diverged, Outdated
<1>5. ASSUME NEW i \in Instance, FinishStore(i) PROVE Elsewhere'
  BY <1>5 DEF FinishStore, Unlock, Mark, Ends, GetsTo
<1>6. ASSUME NEW i \in Instance, Poll(i) PROVE Elsewhere'
  BY <1>6 DEF Poll, Import, Overrun, Mark, OwnText
<1>7. ASSUME NEW i \in Instance, CrashServer(i) PROVE Elsewhere'
  BY <1>7 DEF CrashServer, Accident, Ends, GetsTo
<1>8. ASSUME NEW i \in Instance, NEW p \in Patch, UserPatch(i, p) PROVE Elsewhere'
  BY <1>8 DEF UserPatch, Mark
<1>9. ASSUME NEW w \in Patcher, RefusePatch(w) \/ FinishPatch(w) \/ CrashPatcher(w) PROVE Elsewhere'
  BY <1>9 DEF RefusePatch, Ends, GetsTo, FinishPatch, Unlock, Mark, CrashPatcher, Accident
<1>10. ASSUME NEW w \in Patcher, ProceedPatch(w) PROVE Elsewhere'
  BY <1>10 DEF ProceedPatch, TakeLock, GetsTo
<1>11. ASSUME NEW w \in Patcher, NEW p \in Patch, BeginPatch(w, p) PROVE Elsewhere'
  BY <1>11 DEF BeginPatch, GetsTo
<1>12. ASSUME NEW a \in Actor, Rename(a) PROVE Elsewhere'
  BY <1>12 DEF Rename, GetsTo, Mark, PutsBack
<1>13. ASSUME NEW a \in Actor, FailWrite(a) \/ LockTimeout(a) PROVE Elsewhere'
  BY <1>13 DEF FailWrite, Accident, NotSaved, Unlock, Mark, Ends, GetsTo, LockTimeout
<1>14. ASSUME NEW a \in Actor, JudgeStale(a) \/ ClearStale(a) PROVE Elsewhere'
  BY <1>14 DEF JudgeStale, GetsTo, ClearStale, Mark
<1>15. CASE LockAges
  BY <1>15 DEF LockAges
<1>16. CASE HandEdit
  BY <1>16 DEF HandEdit, PutsBack
<1> QED
  BY <1>0, <1>1, <1>2, <1>3, <1>4, <1>5, <1>6, <1>7, <1>8, <1>9, <1>10, <1>11, <1>12, <1>13,
     <1>14, <1>15, <1>16 DEF ConfigNext

LEMMA TakenStep ==
  ASSUME ConfigTypeOK, TextsKnown, LockHeld, NamedIsThere, NoBareDefaults, Elsewhere, Taken,
     [ConfigNext]_configVars
  PROVE  Taken'
<1> USE ConfigTexts DEF ConfigTypeOK, lockPart, storePart, docPart, ghosts, bounds, Actor,
       Excused, Valid, TextsKnown, Known, LockHeld, Working, NamedIsThere, NoBareDefaults,
       InStore, Elsewhere, Taken, InFile, Landing
<1>0. CASE UNCHANGED configVars
  BY <1>0 DEF configVars
<1>1. ASSUME NEW i \in Instance, Load(i) \/ Unload(i) \/ Clash(i) PROVE Taken'
  BY <1>1 DEF Load, Unload, Clash, Accident
<1>2. ASSUME NEW i \in Instance, SkipStore(i) \/ Revert(i) \/ BeginStore(i) PROVE Taken'
  BY <1>2 DEF SkipStore, StoreRuns, Revert, Overrun, BeginStore, GetsTo
<1>3. ASSUME NEW i \in Instance, Reconcile(i) PROVE Taken'
  BY <1>3 DEF Reconcile, Import, Overrun, Mark, Ends, GetsTo, Diverged
<1>4. ASSUME NEW i \in Instance, ProceedStore(i) PROVE Taken'
  BY <1>4 DEF ProceedStore, TakeLock, GetsTo, Mark, Diverged, Outdated
<1>5. ASSUME NEW i \in Instance, FinishStore(i) PROVE Taken'
  BY <1>5 DEF FinishStore, Unlock, Mark, Ends, GetsTo
<1>6. ASSUME NEW i \in Instance, Poll(i) PROVE Taken'
  BY <1>6 DEF Poll, Import, Overrun, Mark, OwnText
<1>7. ASSUME NEW i \in Instance, CrashServer(i) PROVE Taken'
  BY <1>7 DEF CrashServer, Accident, Ends, GetsTo
<1>8. ASSUME NEW i \in Instance, NEW p \in Patch, UserPatch(i, p) PROVE Taken'
  BY <1>8, PatchIsNew
<1>9. ASSUME NEW w \in Patcher, RefusePatch(w) \/ FinishPatch(w) \/ CrashPatcher(w) PROVE Taken'
  BY <1>9 DEF RefusePatch, Ends, GetsTo, FinishPatch, Unlock, Mark, CrashPatcher, Accident
<1>10. ASSUME NEW w \in Patcher, ProceedPatch(w) PROVE Taken'
  BY <1>10 DEF ProceedPatch, TakeLock, GetsTo
<1>11. ASSUME NEW w \in Patcher, NEW p \in Patch, BeginPatch(w, p) PROVE Taken'
  BY <1>11 DEF BeginPatch, GetsTo
<1>12. ASSUME NEW a \in Actor, Rename(a) PROVE Taken'
  BY <1>12 DEF Rename, GetsTo, Mark, PutsBack
<1>13. ASSUME NEW a \in Actor, FailWrite(a) \/ LockTimeout(a) PROVE Taken'
  BY <1>13 DEF FailWrite, Accident, NotSaved, Unlock, Mark, Ends, GetsTo, LockTimeout
<1>14. ASSUME NEW a \in Actor, JudgeStale(a) \/ ClearStale(a) PROVE Taken'
  BY <1>14 DEF JudgeStale, GetsTo, ClearStale, Mark
<1>15. CASE LockAges
  BY <1>15 DEF LockAges
<1>16. CASE HandEdit
  BY <1>16 DEF HandEdit, PutsBack
<1> QED
  BY <1>0, <1>1, <1>2, <1>3, <1>4, <1>5, <1>6, <1>7, <1>8, <1>9, <1>10, <1>11, <1>12, <1>13,
     <1>14, <1>15, <1>16 DEF ConfigNext

LEMMA CarriedStep ==
  ASSUME ConfigTypeOK, TextsKnown, LockHeld, NamedIsThere, NoBareDefaults, Taken, Carried,
     [ConfigNext]_configVars
  PROVE  Carried'
<1> USE ConfigTexts DEF ConfigTypeOK, lockPart, storePart, docPart, ghosts, bounds, Actor,
       Excused, Valid, TextsKnown, Known, LockHeld, Working, NamedIsThere, NoBareDefaults,
       InStore, Taken, Carried, InFile, Landing
<1>0. CASE UNCHANGED configVars
  BY <1>0 DEF configVars
<1>1. ASSUME NEW i \in Instance, Load(i) \/ Unload(i) \/ Clash(i) PROVE Carried'
  BY <1>1 DEF Load, Unload, Clash, Accident
<1>2. ASSUME NEW i \in Instance, SkipStore(i) \/ Revert(i) \/ BeginStore(i) PROVE Carried'
  BY <1>2 DEF SkipStore, StoreRuns, Revert, Overrun, BeginStore, GetsTo
<1>3. ASSUME NEW i \in Instance, Reconcile(i) PROVE Carried'
  BY <1>3 DEF Reconcile, Import, Overrun, Mark, Ends, GetsTo, Diverged
<1>4. ASSUME NEW i \in Instance, ProceedStore(i) PROVE Carried'
  BY <1>4 DEF ProceedStore, TakeLock, GetsTo, Mark, Diverged, Outdated
<1>5. ASSUME NEW i \in Instance, FinishStore(i) PROVE Carried'
  BY <1>5 DEF FinishStore, Unlock, Mark, Ends, GetsTo
<1>6. ASSUME NEW i \in Instance, Poll(i) PROVE Carried'
  BY <1>6 DEF Poll, Import, Overrun, Mark, OwnText
<1>7. ASSUME NEW i \in Instance, CrashServer(i) PROVE Carried'
  BY <1>7 DEF CrashServer, Accident, Ends, GetsTo
<1>8. ASSUME NEW i \in Instance, NEW p \in Patch, UserPatch(i, p) PROVE Carried'
  BY <1>8 DEF UserPatch, Mark
<1>9. ASSUME NEW w \in Patcher, RefusePatch(w) \/ FinishPatch(w) \/ CrashPatcher(w) PROVE Carried'
  BY <1>9 DEF RefusePatch, Ends, GetsTo, FinishPatch, Unlock, Mark, CrashPatcher, Accident
<1>10. ASSUME NEW w \in Patcher, ProceedPatch(w) PROVE Carried'
  BY <1>10 DEF ProceedPatch, TakeLock, GetsTo
<1>11. ASSUME NEW w \in Patcher, NEW p \in Patch, BeginPatch(w, p) PROVE Carried'
  BY <1>11 DEF BeginPatch, GetsTo
<1>12. ASSUME NEW a \in Actor, Rename(a) PROVE Carried'
  BY <1>12 DEF Rename, GetsTo, Mark, PutsBack
<1>13. ASSUME NEW a \in Actor, FailWrite(a) \/ LockTimeout(a) PROVE Carried'
  BY <1>13 DEF FailWrite, Accident, NotSaved, Unlock, Mark, Ends, GetsTo, LockTimeout
<1>14. ASSUME NEW a \in Actor, JudgeStale(a) \/ ClearStale(a) PROVE Carried'
  BY <1>14 DEF JudgeStale, GetsTo, ClearStale, Mark
<1>15. CASE LockAges
  BY <1>15 DEF LockAges
<1>16. CASE HandEdit
  BY <1>16 DEF HandEdit, PutsBack
<1> QED
  BY <1>0, <1>1, <1>2, <1>3, <1>4, <1>5, <1>6, <1>7, <1>8, <1>9, <1>10, <1>11, <1>12, <1>13,
     <1>14, <1>15, <1>16 DEF ConfigNext

LEMMA PendingStep ==
  ASSUME ConfigTypeOK, TextsKnown, LockHeld, NamedIsThere, NoBareDefaults, Elsewhere, Taken,
     Carried, Pending, [ConfigNext]_configVars
  PROVE  Pending'
<1> USE ConfigTexts DEF ConfigTypeOK, lockPart, storePart, docPart, ghosts, bounds, Actor,
       Excused, Valid, TextsKnown, Known, LockHeld, Working, NamedIsThere, NoBareDefaults,
       InStore, Elsewhere, Taken, Carried, Pending, InFile, Waiting, Unsaved, Landing
<1>0. CASE UNCHANGED configVars
  BY <1>0 DEF configVars
<1>1. ASSUME NEW i \in Instance, Load(i) \/ Unload(i) \/ Clash(i) PROVE Pending'
  BY <1>1 DEF Load, Unload, Clash, Accident
<1>2. ASSUME NEW i \in Instance, SkipStore(i) \/ Revert(i) \/ BeginStore(i) PROVE Pending'
  BY <1>2 DEF SkipStore, StoreRuns, Revert, Overrun, BeginStore, GetsTo
<1>3. ASSUME NEW i \in Instance, Reconcile(i) PROVE Pending'
  <2>1. /\ ytext' = [ytext EXCEPT ![i] = config] /\ unsaved' = [unsaved EXCEPT ![i] = FALSE]
        /\ progress' = [progress EXCEPT ![i] = "idle"] /\ draft' = [draft EXCEPT ![i] = {}]
        /\ Valid(config) /\ UNCHANGED <<config, storeDue>>
        /\ Landing' => Landing /\ patched' = [patched EXCEPT ![i] = @ \cap config]
    BY <1>3 DEF Reconcile, Import, Overrun, Mark, Ends, GetsTo, Diverged
  <2> QED BY <2>1
<1>4. ASSUME NEW i \in Instance, ProceedStore(i) PROVE Pending'
  BY <1>4 DEF ProceedStore, TakeLock, GetsTo, Mark, Diverged, Outdated
<1>5. ASSUME NEW i \in Instance, FinishStore(i) PROVE Pending'
  BY <1>5 DEF FinishStore, Unlock, Mark, Ends, GetsTo
<1>6. ASSUME NEW i \in Instance, Poll(i) PROVE Pending'
  <2>1. CASE ytext[i] # NoText /\ Valid(config) /\ config # lkg[i]
    <3>1. /\ ytext' = [ytext EXCEPT ![i] = config] /\ unsaved' = [unsaved EXCEPT ![i] = FALSE]
          /\ UNCHANGED <<config, progress, draft, storeDue>>
      BY <1>6, <2>1 DEF Poll, Import
    <3>2. CASE OwnText(i)
      <4>1. "mistaken" \in flaws'
        BY <1>6, <2>1, <3>2 DEF Poll, Mark
      <4> QED BY <4>1
    <3>3. CASE ~OwnText(i)
      <4>1. flaws' = flaws /\ patched' = [patched EXCEPT ![i] = @ \cap config]
        BY <1>6, <2>1, <3>3 DEF Poll, Mark, Overrun
      <4> QED BY <2>1, <3>1, <4>1
    <3> QED BY <3>2, <3>3
  <2> QED BY <1>6, <2>1 DEF Poll
<1>7. ASSUME NEW i \in Instance, CrashServer(i) PROVE Pending'
  BY <1>7 DEF CrashServer, Accident, Ends, GetsTo
<1>8. ASSUME NEW i \in Instance, NEW p \in Patch, UserPatch(i, p) PROVE Pending'
  BY <1>8, PatchIsNew
<1>9. ASSUME NEW w \in Patcher, RefusePatch(w) \/ FinishPatch(w) \/ CrashPatcher(w) PROVE Pending'
  BY <1>9 DEF RefusePatch, Ends, GetsTo, FinishPatch, Unlock, Mark, CrashPatcher, Accident
<1>10. ASSUME NEW w \in Patcher, ProceedPatch(w) PROVE Pending'
  BY <1>10 DEF ProceedPatch, TakeLock, GetsTo
<1>11. ASSUME NEW w \in Patcher, NEW p \in Patch, BeginPatch(w, p) PROVE Pending'
  BY <1>11 DEF BeginPatch, GetsTo
<1>12. ASSUME NEW a \in Actor, Rename(a) PROVE Pending'
  BY <1>12 DEF Rename, GetsTo, Mark, PutsBack
<1>13. ASSUME NEW a \in Actor, FailWrite(a) \/ LockTimeout(a) PROVE Pending'
  <2>1. CASE FailWrite(a)
    BY <2>1 DEF FailWrite, Accident, NotSaved, Unlock, Mark, Ends, GetsTo
  <2>2. CASE LockTimeout(a)
    BY <2>2 DEF LockTimeout, NotSaved, Ends, GetsTo
  <2> QED BY <1>13, <2>1, <2>2
<1>14. ASSUME NEW a \in Actor, JudgeStale(a) \/ ClearStale(a) PROVE Pending'
  BY <1>14 DEF JudgeStale, GetsTo, ClearStale, Mark
<1>15. CASE LockAges
  BY <1>15 DEF LockAges
<1>16. CASE HandEdit
  BY <1>16 DEF HandEdit, PutsBack
<1> QED
  BY <1>0, <1>1, <1>2, <1>3, <1>4, <1>5, <1>6, <1>7, <1>8, <1>9, <1>10, <1>11, <1>12, <1>13,
     <1>14, <1>15, <1>16 DEF ConfigNext

LEMMA WholeStep ==
  ASSUME ConfigTypeOK, TextsKnown, LockHeld, NamedIsThere, NoBareDefaults, StoreIsFresh, Whole,
     [ConfigNext]_configVars
  PROVE  Whole'
<1> USE ConfigTexts DEF ConfigTypeOK, lockPart, storePart, docPart, ghosts, bounds, Actor,
       Excused, Valid, TextsKnown, Known, LockHeld, Working, NamedIsThere, NoBareDefaults,
       InStore, StoreIsFresh, Whole, Solid
<1>0. CASE UNCHANGED configVars
  BY <1>0 DEF configVars
<1>1. ASSUME NEW i \in Instance, Load(i) \/ Unload(i) \/ Clash(i) PROVE Whole'
  BY <1>1 DEF Load, Unload, Clash, Accident
<1>2. ASSUME NEW i \in Instance, SkipStore(i) \/ Revert(i) \/ BeginStore(i) PROVE Whole'
  BY <1>2 DEF SkipStore, StoreRuns, Revert, Overrun, BeginStore, GetsTo
<1>3. ASSUME NEW i \in Instance, Reconcile(i) PROVE Whole'
  BY <1>3 DEF Reconcile, Import, Overrun, Mark, Ends, GetsTo, Diverged
<1>4. ASSUME NEW i \in Instance, ProceedStore(i) PROVE Whole'
  BY <1>4 DEF ProceedStore, TakeLock, GetsTo, Mark, Diverged, Outdated
<1>5. ASSUME NEW i \in Instance, FinishStore(i) PROVE Whole'
  BY <1>5 DEF FinishStore, Unlock, Mark, Ends, GetsTo
<1>6. ASSUME NEW i \in Instance, Poll(i) PROVE Whole'
  BY <1>6 DEF Poll, Import, Overrun, Mark, OwnText
<1>7. ASSUME NEW i \in Instance, CrashServer(i) PROVE Whole'
  BY <1>7 DEF CrashServer, Accident, Ends, GetsTo
<1>8. ASSUME NEW i \in Instance, NEW p \in Patch, UserPatch(i, p) PROVE Whole'
  BY <1>8, PatchIsNew
<1>9. ASSUME NEW w \in Patcher, RefusePatch(w) \/ FinishPatch(w) \/ CrashPatcher(w) PROVE Whole'
  BY <1>9 DEF RefusePatch, Ends, GetsTo, FinishPatch, Unlock, Mark, CrashPatcher, Accident
<1>10. ASSUME NEW w \in Patcher, ProceedPatch(w) PROVE Whole'
  BY <1>10 DEF ProceedPatch, TakeLock, GetsTo
<1>11. ASSUME NEW w \in Patcher, NEW p \in Patch, BeginPatch(w, p) PROVE Whole'
  BY <1>11 DEF BeginPatch, GetsTo
<1>12. ASSUME NEW a \in Actor, Rename(a) PROVE Whole'
  BY <1>12 DEF Rename, GetsTo, Mark, PutsBack
<1>13. ASSUME NEW a \in Actor, FailWrite(a) \/ LockTimeout(a) PROVE Whole'
  BY <1>13 DEF FailWrite, Accident, NotSaved, Unlock, Mark, Ends, GetsTo, LockTimeout
<1>14. ASSUME NEW a \in Actor, JudgeStale(a) \/ ClearStale(a) PROVE Whole'
  BY <1>14 DEF JudgeStale, GetsTo, ClearStale, Mark
<1>15. CASE LockAges
  BY <1>15 DEF LockAges
<1>16. CASE HandEdit
  BY <1>16 DEF HandEdit, PutsBack
<1> QED
  BY <1>0, <1>1, <1>2, <1>3, <1>4, <1>5, <1>6, <1>7, <1>8, <1>9, <1>10, <1>11, <1>12, <1>13,
     <1>14, <1>15, <1>16 DEF ConfigNext

LEMMA ConfigInitInv == ConfigInit => ConfigInv
<1> SUFFICES ASSUME ConfigInit PROVE ConfigInv
  OBVIOUS
<1> USE ConfigTexts DEF ConfigInit, Excused, Valid
<1>1. ConfigTypeOK
  <2>1. 0 + 0 <= MaxTroubles
    OBVIOUS
  <2>2. config \in ConfigText /\ Instance \subseteq Actor
    BY DEF Actor
  <2> QED BY <2>1, <2>2 DEF ConfigTypeOK
<1>2. TextsKnown /\ LockHeld /\ NamedIsThere /\ NoBareDefaults
  BY DEF TextsKnown, Known, LockHeld, NamedIsThere, NoBareDefaults, InStore, Working, Actor
<1>3. StoreIsFresh /\ SeenIsKnown /\ Whole
  BY DEF StoreIsFresh, SeenIsKnown, Whole, Solid, InStore, Working, Settled, Actor
<1>4. Elsewhere /\ Taken /\ Carried /\ Pending
  BY DEF Elsewhere, Taken, Carried, Pending, Landing, InStore, InFile, Waiting, Actor
<1> QED BY <1>1, <1>2, <1>3, <1>4 DEF ConfigInv

LEMMA ConfigInvStep == ConfigInv /\ [ConfigNext]_configVars => ConfigInv'
  BY ConfigStepTyped, KnownStep, HeldStep, NamedStep, DefaultsStep, FreshStep, SeenStep,
     ElsewhereStep, TakenStep, CarriedStep, PendingStep, WholeStep DEF ConfigInv

LEMMA ConfigInvariant == ConfigSpec => []ConfigInv
  BY ConfigInitInv, ConfigInvStep, PTL DEF ConfigSpec

-----------------------------------------------------------------------------
(* Every reachable state of the configuration store is well typed, and no  *)
(* store is due or running for a document that is not open.                *)
THEOREM ConfigTypeCorrect == ConfigSpec => []ConfigTypeOK
  BY ConfigInvariant, PTL DEF ConfigInv

(* A settled document gives the settings of the file its watcher has seen  *)
(* (applyExternalConfigChange, storeConfigDoc): while it is settled, it is *)
(* its last known good text (StoreIsFresh), which is what the watcher saw  *)
(* (SeenIsKnown).                                                          *)
THEOREM DocumentsFollowFile == ConfigSpec => []DocumentsAgree
<1>1. ConfigInv => DocumentsAgree
  BY ConfigTexts DEF ConfigInv, StoreIsFresh, SeenIsKnown, DocumentsAgree, Settled, Excused, Valid
<1> QED BY <1>1, ConfigInvariant, PTL

(* A patch made in the settings reaches the file (storeConfigDoc), from    *)
(* Pending.                                                                *)
THEOREM SettingsReachFile == ConfigSpec => []UserPatchLands
<1>1. ConfigInv => UserPatchLands
  BY DEF ConfigInv, Pending, Landing, UserPatchLands, Settled, InStore, InFile, Waiting
<1> QED BY <1>1, ConfigInvariant, PTL

(* Nobody who writes the file drops what others had written to it          *)
(* (config-persistence.ts:316-352, write-config-patch.ts:129-162): only a  *)
(* rename and a hand edit change the file, and the text to be written has  *)
(* all that the file has (Whole).                                          *)
THEOREM NobodysPatchIsDropped == ConfigSpec => PatchesStay
<1> DEFINE Kept ==
      /\ Valid(config) /\ Valid(config') /\ edits' = edits
      /\ {"slipped", "snatched", "dropped", "late"} \cap flaws' = {}
      => config \ {Defaults} \subseteq config'
<1>1. ASSUME ConfigInv, [ConfigNext]_configVars PROVE [Kept]_configVars
  <2>1. CASE UNCHANGED config
    BY <2>1
  <2>2. ASSUME NEW a \in Actor, Rename(a) PROVE Kept
    <3>1. progress[a] = "write" /\ config' = draft[a] /\ flaws \subseteq flaws'
      BY <2>2 DEF Rename, Mark
    <3> QED BY <3>1, <1>1 DEF ConfigInv, Whole, Solid, Excused
  <2>3. CASE HandEdit
    BY <2>3, <1>1 DEF HandEdit, ConfigInv, ConfigTypeOK
  <2>4. UNCHANGED config \/ HandEdit \/ \E a \in Actor : Rename(a)
    BY <1>1 DEF ConfigNext, configVars, lockPart, storePart, docPart, ghosts, bounds, Load,
       Unload, Clash, SkipStore, Revert, BeginStore, Reconcile, ProceedStore, FinishStore, Poll,
       CrashServer, UserPatch, RefusePatch, ProceedPatch, FinishPatch, CrashPatcher, BeginPatch,
       FailWrite, JudgeStale, ClearStale, LockTimeout, LockAges
  <2> QED BY <2>1, <2>2, <2>3, <2>4
<1>2. ConfigInv /\ [ConfigNext]_configVars => [Kept]_configVars
  BY <1>1
<1> QED BY <1>2, ConfigInvariant, PTL DEF ConfigSpec, PatchesStay
=============================================================================
