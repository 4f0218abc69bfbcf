------------------------------ MODULE ConfigStore ------------------------------
(***************************************************************************)
(* Configuration documents: one file, edited through the settings of the   *)
(* servers that share it (config-persistence.ts), by programs that patch   *)
(* it (write-config-patch.ts), and by hand.  All but the hand take turns   *)
(* by a lock file (file-lock.ts); a server compares the file with what it  *)
(* last knew to be good before it writes, and watches it for changes.      *)
(* A text is the set of settings it gives; the settings of one user's      *)
(* patch are one element, and those of the serialized defaults another.    *)
(***************************************************************************)
EXTENDS Naturals

CONSTANTS
  Instance,     \* servers that share the file
  Patcher,      \* other programs that patch it
  Patch,        \* patches; each is made once
  Defaults,     \* the settings of the serialized defaults
  Broken,       \* a text that does not parse, or not to a configuration
  NoText,       \* no file; or a document that is not open
  Nobody,       \* there is no lock file
  MaxTroubles   \* bound: edits by hand, failed writes, crashes, clashing edits

Actor == Instance \cup Patcher

ASSUME ConfigAssumption ==
  /\ MaxTroubles \in Nat
  /\ Nobody \notin Actor /\ Instance \cap Patcher = {}
  /\ Defaults \notin Patch
  /\ Broken # NoText
  /\ \A t \in SUBSET (Patch \cup {Defaults}) : t \notin {Broken, NoText}

VARIABLES
  config,    \* the text of the file
  holder,    \* who made the lock file
  aged,      \* whether it is older than staleThresholdMs
  progress,  \* how far each actor's store or patch has got
  draft,     \* the text it is to write; of a patcher, first its patch
  baseLkg,   \* the lkg that a server's store began with
  ytext,     \* the text of each server's document
  lkg,       \* lkgCache: the last known good text
  storeDue,  \* Hocuspocus' debounced store is pending
  seen,      \* lastContent of the server's file watcher
  patched,   \* history: patches accepted from users, not yet overrun
  unsaved,   \* history: a server's last store failed
  spent,     \* patches already made
  edits,     \* edits by hand so far
  accidents, \* accidents so far
  flaws      \* history: what the properties except

configVars == <<config, holder, aged, progress, draft, baseLkg, ytext, lkg, storeDue, seen,
                patched, unsaved, spent, edits, accidents, flaws>>

ValidText == SUBSET (Patch \cup {Defaults})
ConfigText == {Broken, NoText} \cup ValidText
Valid(t) == t \notin {Broken, NoText}
Flaw == {"slipped", "snatched", "dropped", "undone", "mistaken", "late"}

ConfigTypeOK ==
  /\ config \in ConfigText /\ holder \in Actor \cup {Nobody} /\ aged \in BOOLEAN
  /\ progress \in [Actor -> {"idle", "wait", "unlink", "write", "named"}]
  /\ draft \in [Actor -> ValidText]
  /\ baseLkg \in [Instance -> ValidText] /\ lkg \in [Instance -> ValidText]
  /\ ytext \in [Instance -> ConfigText] /\ seen \in [Instance -> ConfigText]
  /\ storeDue \in [Instance -> BOOLEAN] /\ unsaved \in [Instance -> BOOLEAN]
  /\ patched \in [Instance -> SUBSET Patch] /\ spent \subseteq Patch
  /\ edits \in Nat /\ accidents \in Nat /\ edits + accidents <= MaxTroubles
  /\ flaws \subseteq Flaw
  /\ \A i \in Instance : ytext[i] = NoText => ~storeDue[i] /\ progress[i] = "idle"

(* A file with settings, or one that is broken, comes about later.         *)
ConfigInit ==
  /\ config \in {NoText, {}}
  /\ holder = Nobody /\ aged = FALSE
  /\ progress = [a \in Actor |-> "idle"] /\ draft = [a \in Actor |-> {}]
  /\ baseLkg = [i \in Instance |-> {}] /\ lkg = [i \in Instance |-> {}]
  /\ ytext = [i \in Instance |-> NoText] /\ seen = [i \in Instance |-> config]
  /\ storeDue = [i \in Instance |-> FALSE] /\ unsaved = [i \in Instance |-> FALSE]
  /\ patched = [i \in Instance |-> {}] /\ spent = {}
  /\ edits = 0 /\ accidents = 0 /\ flaws = {}

Working(a) == progress[a] \in {"write", "named"}
GetsTo(a, s) == progress' = [progress EXCEPT ![a] = s]

(* An actor is done; what it held of its store is of no use any more.      *)
Ends(a) ==
  /\ GetsTo(a, "idle")
  /\ draft' = [draft EXCEPT ![a] = {}]
  /\ baseLkg' = [i \in Instance |-> IF i = a THEN {} ELSE baseLkg[i]]

Mark(flaw, yes) == flaws' = IF yes THEN flaws \cup {flaw} ELSE flaws
Accident == edits + accidents < MaxTroubles /\ accidents' = accidents + 1

(* Text t of the file becomes document and last known good of i.           *)
Import(i, t) ==
  /\ ytext' = [ytext EXCEPT ![i] = t]
  /\ lkg' = [lkg EXCEPT ![i] = t]
  /\ unsaved' = [unsaved EXCEPT ![i] = FALSE]

(* Patches that text t does not have are overrun by it.                    *)
Overrun(i, t) == patched' = [patched EXCEPT ![i] = @ \cap t]

lockPart == <<holder, aged>>
storePart == <<progress, draft, baseLkg>>
docPart == <<ytext, lkg, storeDue>>
ghosts == <<patched, unsaved, spent, flaws>>
bounds == <<edits, accidents>>

-----------------------------------------------------------------------------
(* The document *)

(* loadConfigDoc: an empty text counts as none.                            *)
Load(i) ==
  /\ ytext[i] = NoText
  /\ ytext' = [ytext EXCEPT ![i] = IF config = NoText THEN {} ELSE config]
  /\ lkg' = [lkg EXCEPT ![i] =
                IF Valid(config) /\ config # {} THEN config ELSE {Defaults}]
  /\ UNCHANGED <<config, lockPart, storePart, storeDue, seen, ghosts, bounds>>

(* The last client leaves: Hocuspocus stores what is due, then unloads.    *)
(* What could not be stored goes with it.  The next load replaces the lkg. *)
Unload(i) ==
  /\ ytext[i] # NoText /\ ~storeDue[i] /\ progress[i] = "idle"
  /\ ytext' = [ytext EXCEPT ![i] = NoText] /\ lkg' = [lkg EXCEPT ![i] = {}]
  /\ patched' = [patched EXCEPT ![i] = IF unsaved[i] THEN {} ELSE @]
  /\ unsaved' = [unsaved EXCEPT ![i] = FALSE]
  /\ UNCHANGED <<config, lockPart, storePart, storeDue, seen, spent, flaws, bounds>>

(* patchInner, in a client: a broken text is dropped, the patch applied to *)
(* an empty one.                                                           *)
UserPatch(i, p) ==
  /\ ytext[i] # NoText /\ p \notin spent
  /\ LET kept == IF ytext[i] = Broken THEN {} ELSE ytext[i]
     IN  ytext' = [ytext EXCEPT ![i] = kept \cup {p}]
  /\ patched' = [patched EXCEPT ![i] = IF ytext[i] = Broken THEN {p} ELSE @ \cup {p}]
  /\ storeDue' = [storeDue EXCEPT ![i] = TRUE]
  /\ spent' = spent \cup {p}
  /\ Mark("dropped", ytext[i] = Broken /\ (lkg[i] \ {Defaults} # {} \/ progress[i] # "idle"))
  /\ UNCHANGED <<config, lockPart, storePart, lkg, seen, unsaved, bounds>>

(* Two clients replace the whole text at once, and their texts are joined. *)
Clash(i) ==
  /\ ytext[i] # NoText /\ Accident
  /\ ytext' = [ytext EXCEPT ![i] = Broken]
  /\ storeDue' = [storeDue EXCEPT ![i] = TRUE]
  /\ UNCHANGED <<config, lockPart, storePart, lkg, seen, ghosts, edits>>

-----------------------------------------------------------------------------
(* storeConfigDoc *)

StoreRuns(i) ==
  /\ storeDue[i] /\ progress[i] = "idle"
  /\ storeDue' = [storeDue EXCEPT ![i] = FALSE]

(* Nothing to store.                                                       *)
SkipStore(i) ==
  /\ StoreRuns(i) /\ ytext[i] \in {{}, lkg[i]}
  /\ UNCHANGED <<config, lockPart, storePart, ytext, lkg, seen, ghosts, bounds>>

Revert(i) ==
  /\ StoreRuns(i) /\ ytext[i] = Broken
  /\ ytext' = [ytext EXCEPT ![i] = lkg[i]]
  /\ Overrun(i, lkg[i])
  /\ UNCHANGED <<config, lockPart, storePart, lkg, seen, unsaved, spent, flaws, bounds>>

(* Text and lkg are read now, and the lock asked for.                      *)
BeginStore(i) ==
  /\ StoreRuns(i) /\ ytext[i] \notin {{}, lkg[i], Broken}
  /\ GetsTo(i, "wait")
  /\ draft' = [draft EXCEPT ![i] = ytext[i]]
  /\ baseLkg' = [baseLkg EXCEPT ![i] = lkg[i]]
  /\ UNCHANGED <<config, lockPart, ytext, lkg, seen, ghosts, bounds>>

(* Mutant of Diverged: the lkg of now, not the one the store began with.   *)
DivergedNow(i) == Valid(config) /\ config # lkg[i]

(* What the file has is not what the store began from.                     *)
Diverged(i) == Valid(config) /\ config # baseLkg[i]

(* Under the lock, which comes and goes with this step, the text of        *)
(* somebody else is imported, not overwritten.                             *)
Reconcile(i) ==
  /\ progress[i] = "wait" /\ holder = Nobody /\ Diverged(i)
  /\ Import(i, config)
  /\ LET mistaken == config = {} /\ baseLkg[i] = {Defaults}
     IN  /\ Mark("mistaken", mistaken)
         /\ IF mistaken THEN UNCHANGED patched ELSE Overrun(i, config)
  /\ Ends(i)
  /\ UNCHANGED <<config, lockPart, storeDue, seen, spent, bounds>>

TakeLock(a) ==
  /\ progress[a] = "wait" /\ holder = Nobody
  /\ holder' = a /\ aged' = FALSE
  /\ GetsTo(a, "write")

(* The text was read before the wait for the lock.  If the document has    *)
(* taken in an external text since, which then was taken back or broken,   *)
(* the older text is written after the newer one.                          *)
Outdated(i) ==
  /\ ~Valid(config) \/ config = baseLkg[i]
  /\ lkg[i] # baseLkg[i] \/ (ytext[i] # Broken /\ ~(draft[i] \subseteq ytext[i]))

ProceedStore(i) ==
  /\ TakeLock(i) /\ ~Diverged(i)
  /\ Mark("late", Outdated(i))
  /\ UNCHANGED <<config, draft, baseLkg, docPart, seen, patched, unsaved, spent, bounds>>

(* Text t puts the file back to what a watcher saw last, before it has     *)
(* seen what came between.                                                 *)
PutsBack(t) == \E i \in Instance : config # t /\ seen[i] = t

(* atomicWriteConfig, atomicWriteFile: the rename.                         *)
Rename(a) ==
  /\ progress[a] = "write"
  /\ config' = draft[a]
  /\ Mark("undone", PutsBack(draft[a]))
  /\ GetsTo(a, "named")
  /\ UNCHANGED <<lockPart, draft, baseLkg, docPart, seen, patched, unsaved, spent, bounds>>

(* Whose ever lock file it is by now.                                      *)
Unlock(a) ==
  /\ holder' = Nobody /\ aged' = FALSE
  /\ Mark("snatched", holder \notin {a, Nobody})

(* Mutant of FinishStore: the last known good text is the one of now.      *)
FinishStoreNow(i) ==
  /\ progress[i] = "named"
  /\ lkg' = [lkg EXCEPT ![i] = IF ytext[i] = Broken THEN @ ELSE ytext[i]]
  /\ unsaved' = [unsaved EXCEPT ![i] = FALSE]
  /\ Unlock(i) /\ Ends(i)
  /\ UNCHANGED <<config, ytext, storeDue, seen, patched, spent, bounds>>

FinishStore(i) ==
  /\ progress[i] = "named"
  /\ lkg' = [lkg EXCEPT ![i] = draft[i]]
  /\ unsaved' = [unsaved EXCEPT ![i] = FALSE]
  /\ Unlock(i) /\ Ends(i)
  /\ UNCHANGED <<config, ytext, storeDue, seen, patched, spent, bounds>>

(* 'write-failed': reported, and not tried again.                          *)
NotSaved(i) == unsaved' = [j \in Instance |-> unsaved[j] \/ j = i]

FailWrite(a) ==
  /\ progress[a] = "write" /\ Accident
  /\ NotSaved(a) /\ Unlock(a) /\ Ends(a)
  /\ UNCHANGED <<config, docPart, seen, patched, spent, edits>>

-----------------------------------------------------------------------------
(* withFileLock, for those who find the lock taken *)

(* Time passes; the holder may be dead, or slow, or its machine asleep.    *)
LockAges ==
  /\ holder # Nobody /\ ~aged
  /\ aged' = TRUE
  /\ UNCHANGED <<config, holder, storePart, docPart, seen, ghosts, bounds>>

(* statSync, ...                                                           *)
JudgeStale(a) ==
  /\ progress[a] = "wait" /\ holder # Nobody /\ aged
  /\ GetsTo(a, "unlink")
  /\ UNCHANGED <<config, lockPart, draft, baseLkg, docPart, seen, ghosts, bounds>>

(* ... then unlinkSync of what is there now.                               *)
ClearStale(a) ==
  /\ progress[a] = "unlink"
  /\ holder' = Nobody /\ aged' = FALSE
  /\ Mark("snatched", holder # Nobody /\ Working(holder))
  /\ GetsTo(a, "wait")
  /\ UNCHANGED <<config, draft, baseLkg, docPart, seen, patched, unsaved, spent, bounds>>

LockTimeout(a) ==
  /\ progress[a] = "wait" /\ holder # Nobody
  /\ NotSaved(a) /\ Ends(a)
  /\ UNCHANGED <<config, lockPart, docPart, seen, patched, spent, flaws, bounds>>

-----------------------------------------------------------------------------
(* writeConfigPatch *)

BeginPatch(w, p) ==
  /\ progress[w] = "idle" /\ p \notin spent
  /\ spent' = spent \cup {p}
  /\ draft' = [draft EXCEPT ![w] = {p}]
  /\ GetsTo(w, "wait")
  /\ UNCHANGED <<config, lockPart, baseLkg, docPart, seen, patched, unsaved, flaws, bounds>>

(* A file that does not parse is left alone.                               *)
RefusePatch(w) ==
  /\ progress[w] = "wait" /\ holder = Nobody /\ config = Broken
  /\ Ends(w)
  /\ UNCHANGED <<config, lockPart, docPart, seen, ghosts, bounds>>

ProceedPatch(w) ==
  /\ TakeLock(w) /\ config # Broken
  /\ draft' = [draft EXCEPT ![w] = @ \cup (IF config = NoText THEN {} ELSE config)]
  /\ UNCHANGED <<config, baseLkg, docPart, seen, ghosts, bounds>>

FinishPatch(w) ==
  /\ progress[w] = "named"
  /\ Unlock(w) /\ Ends(w)
  /\ UNCHANGED <<config, docPart, seen, patched, unsaved, spent, bounds>>

-----------------------------------------------------------------------------
(* The file changes under the server *)

(* handlePath, and applyExternalConfigChange if the document is open.  The *)
(* server's own text may be met here before FinishStore has run.           *)
OwnText(i) == progress[i] = "named" /\ config = draft[i]

Poll(i) ==
  /\ config \notin {NoText, seen[i]}
  /\ seen' = [seen EXCEPT ![i] = config]
  /\ IF ytext[i] # NoText /\ Valid(config) /\ config # lkg[i]
       THEN /\ Import(i, config)
            /\ Mark("mistaken", OwnText(i))
            /\ IF OwnText(i) THEN UNCHANGED patched ELSE Overrun(i, config)
       ELSE UNCHANGED <<ytext, lkg, unsaved, patched, flaws>>
  /\ UNCHANGED <<config, lockPart, storePart, storeDue, spent, bounds>>

(* Without the lock, while others write.                                   *)
HandEdit ==
  /\ edits + accidents < MaxTroubles /\ edits' = edits + 1
  /\ \E t \in {NoText, Broken} \cup SUBSET spent :
       /\ t # config
       /\ config' = t
       /\ flaws' = flaws
            \cup (IF \E a \in Actor : Working(a) THEN {"slipped"} ELSE {})
            \cup (IF PutsBack(t) THEN {"undone"} ELSE {})
  /\ patched' = [i \in Instance |-> IF Valid(config) THEN patched[i] \ config
                                   ELSE patched[i]]
  /\ UNCHANGED <<lockPart, storePart, docPart, seen, unsaved, spent, accidents>>

(* A server is killed and started again; the lock file stays.              *)
CrashServer(i) ==
  /\ Accident /\ Ends(i)
  /\ ytext' = [ytext EXCEPT ![i] = NoText] /\ storeDue' = [storeDue EXCEPT ![i] = FALSE]
  /\ lkg' = [lkg EXCEPT ![i] = {}] /\ seen' = [seen EXCEPT ![i] = config]
  /\ patched' = [patched EXCEPT ![i] = {}] /\ unsaved' = [unsaved EXCEPT ![i] = FALSE]
  /\ UNCHANGED <<config, lockPart, spent, edits, flaws>>

CrashPatcher(w) ==
  /\ progress[w] # "idle" /\ Accident /\ Ends(w)
  /\ UNCHANGED <<config, lockPart, docPart, seen, ghosts, edits>>

ConfigNext ==
  \/ \E i \in Instance :
       \/ Load(i) \/ Unload(i) \/ Clash(i)
       \/ SkipStore(i) \/ Revert(i) \/ BeginStore(i)
       \/ Reconcile(i) \/ ProceedStore(i) \/ FinishStore(i)
       \/ Poll(i) \/ CrashServer(i)
       \/ \E p \in Patch : UserPatch(i, p)
  \/ \E w \in Patcher :
       \/ RefusePatch(w) \/ ProceedPatch(w) \/ FinishPatch(w) \/ CrashPatcher(w)
       \/ \E p \in Patch : BeginPatch(w, p)
  \/ \E a \in Actor :
       Rename(a) \/ FailWrite(a) \/ JudgeStale(a) \/ ClearStale(a) \/ LockTimeout(a)
  \/ LockAges \/ HandEdit

ConfigSpec == ConfigInit /\ [][ConfigNext]_configVars

-----------------------------------------------------------------------------
Settled(i) == ytext[i] # NoText /\ ~storeDue[i] /\ progress[i] = "idle"
Excused(ways) == ways \cap flaws # {}

(* Whoever writes the file keeps what others wrote before (the comparison  *)
(* under the lock, config-persistence.ts:316-352; the reading under it,    *)
(* write-config-patch.ts:129-162).  Not so if the lock was cleared under   *)
(* its living holder, if a hand edit slipped in between reading and        *)
(* writing, or if a client dropped a broken text with all it had held.     *)
PatchesStay ==
  [][ /\ Valid(config) /\ Valid(config') /\ edits' = edits
      /\ {"slipped", "snatched", "dropped", "late"} \cap flaws' = {}
      => config \ {Defaults} \subseteq config' ]_configVars

(* A settled document gives the settings of the file, once the watcher has *)
(* seen it: no import is forgotten, none comes too late.  Not so after a   *)
(* failed store, and if the file was set back to what the watcher had seen *)
(* before it saw the change (config-file-watcher.ts:57).                   *)
DocumentsAgree ==
  \A i \in Instance :
    Settled(i) /\ Valid(config) /\ seen[i] = config /\ ~unsaved[i]
      /\ ~Excused({"undone", "late", "slipped", "snatched"})
    => ytext[i] \ {Defaults} = config \ {Defaults}

(* A patch made in the settings is in the file when the document has       *)
(* settled, unless an external text overran it, its store failed, or the   *)
(* server took its own text, or an empty file, for an external one.        *)
UserPatchLands ==
  \A i \in Instance :
    Settled(i) /\ Valid(config) /\ ~unsaved[i]
      /\ ~Excused({"mistaken", "snatched", "dropped", "slipped"})
    => patched[i] \subseteq config
=============================================================================
