--------------------------- MODULE BatchGateProofs ---------------------------
(***************************************************************************)
(* Proofs about BatchGate: its types, that git batches keep the texts of   *)
(* the branches apart, and that what was typed is there again when its     *)
(* branch is. TypeOK is not inductive: EndDone hands the branch its call   *)
(* was told of to the watcher, so the calls and the tasks have to be known *)
(* to be in step (EndsKnow, TasksEnd). BranchIsolation says something of   *)
(* the file only; where the next store takes its text from is in Apart,    *)
(* which says it of every text the server or git holds. DraftReturns says  *)
(* something of the open document only; KeptInv says where a paragraph is  *)
(* while its branch is away, while it is being parked and while it is      *)
(* being restored.                                                         *)
(***************************************************************************)
EXTENDS BatchGate, WellFoundedInduction, TLAPS

DocState == [loaded : BOOLEAN, doc : Text, base : Text \cup {Undefined},
             tombstone : BOOLEAN, storeTimer : BOOLEAN, deferred : Branch \cup {None},
             atRisk : Text, mixed : BOOLEAN]
Event == [kind : {"create", "update", "delete"}, text : Text, branch : Branch]

(* A set of naturals that has zero and each successor has them all.        *)
LEMMA NatSetInduction ==
  ASSUME NEW S, 0 \in S, \A n \in Nat : n \in S => n + 1 \in S
  PROVE  \A n \in Nat : n \in S
<1> DEFINE R == {ss \in Nat \X Nat : ss[1] < ss[2]}
           T == {n \in Nat : n \notin S}
<1>1. IsWellFoundedOn(R, Nat)
  BY NatLessThanWellFounded DEF OpToRel
<1>2. SUFFICES ASSUME T # {} PROVE FALSE
  OBVIOUS
<1>3. PICK x \in T : \A y \in T : <<y, x>> \notin R
  <2> HIDE DEF R, T
  <2>1. T \subseteq Nat
    BY DEF T
  <2> QED BY <1>1, <1>2, <2>1, WFMin
<1>4. x \in Nat /\ x \notin S /\ x # 0
  BY DEF T
<1>5. x - 1 \in Nat /\ x - 1 < x /\ (x - 1) + 1 = x
  BY <1>4
<1>6. x - 1 \in S
  <2> SUFFICES ASSUME x - 1 \in T PROVE FALSE
    BY <1>5
  <2>1. <<x - 1, x>> \in R
    BY <1>4, <1>5
  <2> QED BY <1>3, <2>1
<1> QED BY <1>4, <1>5, <1>6

(* The replay of the buffer is defined: each event acts on the state the   *)
(* ones before it left.                                                    *)
LEMMA ReplayDefined ==
  ASSUME buffer \in Seq(Event)
  PROVE  /\ After[0] = Doc
         /\ \A i \in 1 .. Len(buffer) : After[i] = HandleEvent(After[i - 1], buffer[i])
<1> DEFINE G(g, m) == g = [i \in 0 .. m |-> IF i = 0 THEN Doc
                                            ELSE HandleEvent(g[i - 1], buffer[i])]
           T == {m \in Nat : \E g : G(g, m)}
<1>1. Len(buffer) \in Nat
  OBVIOUS
<1>2. 0 \in T
  <2>1. G([i \in 0 .. 0 |-> Doc], 0)
    OBVIOUS
  <2> QED BY <2>1
<1>3. ASSUME NEW m \in Nat, m \in T PROVE m + 1 \in T
  <2>1. PICK g : G(g, m)
    BY <1>3
  <2> DEFINE h == [i \in 0 .. m + 1 |-> IF i = m + 1 THEN HandleEvent(g[m], buffer[m + 1])
                                        ELSE g[i]]
             k == [i \in 0 .. m + 1 |-> IF i = 0 THEN Doc ELSE HandleEvent(h[i - 1], buffer[i])]
  <2>2. ASSUME NEW i \in 0 .. m + 1 PROVE h[i] = k[i]
    <3>1. CASE i = m + 1
      <4>1. h[i - 1] = g[m] /\ i # 0
        BY <3>1
      <4> QED BY <3>1, <4>1
    <3>2. CASE i = 0
      <4>1. g[0] = Doc
        BY <2>1
      <4> QED BY <3>2, <4>1
    <3>3. CASE i \in 1 .. m
      <4>1. g[i] = HandleEvent(g[i - 1], buffer[i])
        BY <2>1, <3>3
      <4>2. h[i] = g[i] /\ h[i - 1] = g[i - 1]
        BY <3>3
      <4> QED BY <4>1, <4>2, <3>3
    <3> QED BY <3>1, <3>2, <3>3
  <2>3. h = k
    <3> HIDE DEF G
    <3> QED BY <2>2, Zenon
  <2>4. G(h, m + 1)
    BY <2>3
  <2>5. m + 1 \in Nat
    OBVIOUS
  <2> QED
    <3> HIDE DEF G, h
    <3> QED BY <2>4, <2>5
<1>4. Len(buffer) \in T
  <2> HIDE DEF T
  <2> QED BY <1>1, <1>2, <1>3, NatSetInduction
<1>5. \E g : G(g, Len(buffer))
  BY <1>4
<1>6. G(After, Len(buffer))
  <2> QED BY <1>5 DEF After
<1> QED BY <1>6, <1>1

(* What one event does to the document is again a state of the document.   *)
LEMMA HandledTyped ==
  ASSUME TypeOK, NEW st \in DocState, NEW event \in Event
  PROVE  HandleEvent(st, event) \in DocState
BY DEF HandleEvent, HandleDelete, HandleUpdate, MergeTexts, DocState, Event, TypeOK,
   Text

LEMMA DocTyped ==
  ASSUME TypeOK PROVE Doc \in DocState /\ Base \in Text \cup {Undefined}
BY DEF Doc, DocState, TypeOK, Base

(* What one event preserves, the replay of the buffer preserves.           *)
LEMMA ReplayKeeps ==
  ASSUME TypeOK, NEW S, Doc \in S,
         \A st \in DocState \cap S, i \in 1 .. Len(buffer) : HandleEvent(st, buffer[i]) \in S
  PROVE  After[Len(buffer)] \in DocState \cap S
<1> DEFINE T == {i \in Nat : i <= Len(buffer) => After[i] \in DocState \cap S}
<1>1. buffer \in Seq(Event) /\ Len(buffer) \in Nat
  BY DEF TypeOK, Event
<1>2. 0 \in T
  BY <1>1, ReplayDefined, DocTyped
<1>3. ASSUME NEW i \in Nat, i \in T PROVE i + 1 \in T
  <2>1. SUFFICES ASSUME i + 1 <= Len(buffer) PROVE After[i + 1] \in DocState \cap S
    OBVIOUS
  <2>2. i + 1 \in 1 .. Len(buffer) /\ buffer[i + 1] \in Event /\ (i + 1) - 1 = i
    BY <1>1, <2>1
  <2>3. After[i] \in DocState \cap S
    BY <1>3, <2>1, <1>1
  <2>4. After[i + 1] = HandleEvent(After[i], buffer[i + 1])
    BY <1>1, <2>2, ReplayDefined
  <2> QED BY <2>2, <2>3, <2>4, HandledTyped
<1> QED
  <2> HIDE DEF T
  <2>1. Len(buffer) \in T
    BY <1>1, <1>2, <1>3, NatSetInduction
  <2> QED BY <1>1, <2>1 DEF T

LEMMA ReplayTyped ==
  ASSUME TypeOK PROVE After[Len(buffer)] \in DocState
<1>1. buffer \in Seq(Event)
  BY DEF TypeOK, Event
<1> QED BY <1>1, ReplayKeeps, DocTyped, HandledTyped

-----------------------------------------------------------------------------
(* TypeOK, cut into what an action leaves alone and what it touches.       *)
GitTyped ==
  /\ tree \in [Branch -> Text \cup {NoFile}] /\ disk \in Text \cup {NoFile}
  /\ checkout \in Branch \cup {None}
  /\ known \in BOOLEAN /\ fileEvent \in BOOLEAN
DocumentTyped ==
  /\ loaded \in BOOLEAN /\ doc \in Text
  /\ tombstone \in BOOLEAN /\ storeTimer \in BOOLEAN
StoresTyped ==
  /\ inflight \in [Channel -> Text \cup {Idle}] /\ deferred \in Branch \cup {None}
  /\ draining \in BOOLEAN /\ nextFlush \in {"none", "within", "discard"}
GateTyped ==
  /\ gate \in BOOLEAN /\ holders \in SUBSET Holder
  /\ active \in Branch /\ base \in [Branch -> Text \cup {Undefined}]
  /\ buffer \in Seq(Event)
Task == [at : {"none", "commit", "park", "drain", "rebuild", "reopen", "flush"},
         park : ParkedDoc \cup {None}]
TasksTyped ==
  /\ task \in [Call -> Task] /\ parked \in [Branch -> ParkedDoc \cup {None}]
GhostsTyped ==
  /\ typed \in Text /\ atRisk \in Text /\ leak \in BOOLEAN /\ mixed \in BOOLEAN
CountsTyped ==
  /\ edits \in 0 .. MaxEdits /\ gitOps \in 0 .. MaxGit
  /\ holds \in 0 .. MaxHolds /\ failures \in 0 .. MaxFailures

LEMMA TypeParts ==
  TypeOK <=> /\ HeadTypeOK /\ GitTyped /\ DocumentTyped /\ StoresTyped /\ GateTyped
             /\ TasksTyped /\ GhostsTyped /\ CountsTyped
BY DEF TypeOK, GitTyped, DocumentTyped, StoresTyped, GateTyped, Task, TasksTyped,
       GhostsTyped, CountsTyped, Event

LEMMA TypePartsNext ==
  TypeOK' <=> /\ HeadTypeOK' /\ GitTyped' /\ DocumentTyped' /\ StoresTyped' /\ GateTyped'
              /\ TasksTyped' /\ GhostsTyped' /\ CountsTyped'
BY DEF TypeOK, GitTyped, DocumentTyped, StoresTyped, GateTyped, Task, TasksTyped,
       GhostsTyped, CountsTyped, Event

LEMMA TypeInit ==
  Init => TypeOK
<1> SUFFICES ASSUME Init PROVE TypeOK
  OBVIOUS
<1>1. HeadTypeOK
  BY DEF Init, HeadInit, HeadTypeOK
<1>2. tree \in [Branch -> Text \cup {NoFile}]
  BY GateAssumption DEF Init, Text, Paragraph
<1>3. head \in Branch
  BY <1>1 DEF HeadTypeOK
<1>4. parked \in [Branch -> ParkedDoc \cup {None}] /\ typed \in Text
  <2>1. CASE parked = [b \in Branch |-> None] /\ typed = {}
    BY <2>1 DEF Text
  <2>2. CASE ~(parked = [b \in Branch |-> None] /\ typed = {})
    <3> DEFINE draft(b) == <<b, MaxEdits + 1>>
    <3>1. PICK b \in Branch : /\ tree[b] # NoFile /\ typed = {draft(b)}
               /\ parked = [other \in Branch |-> IF other # b THEN None ELSE
                    [branch |-> b, markdown |-> tree[b] \cup {draft(b)},
                     diskSnapshot |-> tree[b]]]
      BY <2>2 DEF Init
    <3>2. draft(b) \in Paragraph
      BY GateAssumption DEF Paragraph
    <3>3. tree[b] \in Text
      BY <3>1, <1>2
    <3> QED BY <3>1, <3>2, <3>3 DEF Text, ParkedDoc
  <2> QED BY <2>1, <2>2
<1>5. GitTyped /\ DocumentTyped
  BY <1>1, <1>2, <1>3 DEF Init, GitTyped, DocumentTyped, Text
<1>6. /\ inflight = [ch \in Channel |-> Idle] /\ deferred = None /\ draining = FALSE
      /\ nextFlush = "none" /\ gate = FALSE /\ holders = {} /\ active = head
      /\ base = [b \in Branch |-> Undefined] /\ buffer = <<>>
  BY DEF Init
<1>7. StoresTyped /\ GateTyped
  <2>1. StoresTyped
    BY <1>6 DEF StoresTyped
  <2>2. <<>> \in Seq(Event)
    OBVIOUS
  <2>3. base \in [Branch -> Text \cup {Undefined}]
    BY <1>6
  <2> QED BY <1>3, <1>6, <2>1, <2>2, <2>3 DEF GateTyped
<1>8. TasksTyped
  BY <1>4 DEF Init, TasksTyped, Task, NoTask
<1>9. /\ atRisk = {} /\ leak = FALSE /\ mixed = FALSE
      /\ edits = 0 /\ gitOps = 0 /\ holds = 0 /\ failures = 0
  BY DEF Init
<1>10. GhostsTyped /\ CountsTyped
  <2>1. GhostsTyped
    BY <1>4, <1>9 DEF GhostsTyped, Text
  <2>2. CountsTyped
    BY <1>9, GateAssumption DEF CountsTyped
  <2> QED BY <2>1, <2>2
<1> QED BY <1>1, <1>5, <1>7, <1>8, <1>10, TypeParts

(* Paragraphs and texts.                                                   *)
LEMMA TextsTyped ==
  ASSUME TypeOK
  PROVE  /\ BaseText \in Text /\ DiskText \in Text /\ Worktree \in Branch
         /\ Base \in Text \cup {Undefined}
         /\ edits < MaxEdits => \A b \in Branch : {<<b, edits + 1>>} \in Text
<1>1. BaseText \in Text /\ DiskText \in Text /\ Base \in Text \cup {Undefined}
  BY DEF TypeOK, BaseText, DiskText, Base, Text
<1>2. Worktree \in Branch
  BY DEF TypeOK, HeadTypeOK, Worktree
<1>3. edits < MaxEdits => edits + 1 \in 0 .. MaxEdits + 1
  BY GateAssumption DEF TypeOK
<1> QED BY <1>1, <1>2, <1>3 DEF Text, Paragraph

LEMMA UnionTyped ==
  ASSUME NEW s \in Text, NEW t \in Text
  PROVE  s \cup t \in Text /\ s \cap t \in Text /\ s \ t \in Text
BY DEF Text

LEMMA MergeTyped ==
  ASSUME NEW r \in Text, NEW s \in Text, NEW t \in Text
  PROVE  MergeTexts(r, s, t) \in Text
BY DEF Text, MergeTexts

LEMMA MisreadTyped ==
  ASSUME TypeOK, NEW b \in Branch PROVE Misread(b) \in Text
<1>1. Misread(b) \subseteq typed
  BY DEF Misread
<1> QED BY <1>1 DEF TypeOK, Text

(* What the flush of the deferred stores leaves.                           *)
LEMMA RoundTyped ==
  ASSUME TypeOK, NEW mode, NEW bs, DrainRound(mode, bs)
  PROVE  StoresTyped' /\ leak' \in BOOLEAN
<1>1. StoresTyped /\ DocumentTyped /\ GhostsTyped
  BY TypeParts
<1>2. {"hook", "drain"} = Channel
  BY DEF Channel
<1> QED BY <1>1, <1>2 DEF DrainRound, StoresTyped, DocumentTyped, GhostsTyped

LEMMA FlushTyped ==
  ASSUME TypeOK, NEW mode \in {"within", "discard"}, FlushDeferredStores(mode)
  PROVE  StoresTyped' /\ leak' \in BOOLEAN
<1>1. StoresTyped /\ GhostsTyped
  BY TypeParts
<1>2. CASE draining
  BY <1>1, <1>2 DEF FlushDeferredStores, StoresTyped, GhostsTyped
<1>3. CASE ~draining
  BY <1>3, RoundTyped DEF FlushDeferredStores
<1> QED BY <1>2, <1>3

LEMMA NextRoundTyped ==
  ASSUME TypeOK, NEW bs, NextRound(bs)
  PROVE  StoresTyped' /\ leak' \in BOOLEAN
<1>1. StoresTyped /\ GhostsTyped
  BY TypeParts
<1>2. CASE deferred = None /\ nextFlush = "none"
  BY <1>1, <1>2 DEF NextRound, StoresTyped, GhostsTyped
<1>3. CASE ~(deferred = None /\ nextFlush = "none")
  BY <1>3, RoundTyped DEF NextRound
<1> QED BY <1>2, <1>3

(* The document's state, once one event or the buffer has been handled.    *)
LEMMA BecomesTyped ==
  ASSUME TypeOK, NEW st \in DocState, Becomes(st)
  PROVE  /\ DocumentTyped' /\ base' \in [Branch -> Text \cup {Undefined}]
         /\ deferred' \in Branch \cup {None} /\ atRisk' \in Text /\ mixed' \in BOOLEAN
BY DEF TypeOK, DocState, Becomes, DocumentTyped

LEMMA LoadTyped ==
  ASSUME TypeOK, Load PROVE TypeOK'
<1>0. HeadTypeOK /\ GitTyped /\ DocumentTyped /\ StoresTyped /\ GateTyped /\
      TasksTyped /\ GhostsTyped /\ CountsTyped
  BY TypeParts
<1>1. HeadTypeOK' /\ GitTyped' /\ StoresTyped' /\ TasksTyped' /\ CountsTyped'
  BY <1>0 DEF Load, CountsTyped, GitTyped, HeadTypeOK, StoresTyped, TasksTyped,
     counters, gateVars, git, headVars, stores
<1>2. DocumentTyped'
  BY <1>0, TextsTyped DEF Load, DocumentTyped, document
<1>3. GateTyped'
  BY <1>0, TextsTyped DEF Load, GateTyped, gateVars, GitTyped
<1>4. GhostsTyped'
  BY <1>0, MisreadTyped, UnionTyped DEF Load, GhostsTyped, GateTyped
<1> QED BY <1>1, <1>2, <1>3, <1>4, TypePartsNext

LEMMA UnloadTyped ==
  ASSUME TypeOK, Unload PROVE TypeOK'
<1>0. HeadTypeOK /\ GitTyped /\ DocumentTyped /\ StoresTyped /\ GateTyped /\
      TasksTyped /\ GhostsTyped /\ CountsTyped
  BY TypeParts
<1>1. HeadTypeOK' /\ GitTyped' /\ StoresTyped' /\ GateTyped' /\ TasksTyped' /\
      GhostsTyped' /\ CountsTyped'
  BY <1>0 DEF Unload, CountsTyped, GateTyped, GhostsTyped, GitTyped, HeadTypeOK,
     StoresTyped, TasksTyped, counters, gateVars, ghosts, git, headVars, stores
<1>2. DocumentTyped'
  BY <1>0 DEF Unload, DocumentTyped, document
<1> QED BY <1>1, <1>2, TypePartsNext

LEMMA UserEditTyped ==
  ASSUME TypeOK, UserEdit PROVE TypeOK'
<1>0. HeadTypeOK /\ GitTyped /\ DocumentTyped /\ StoresTyped /\ GateTyped /\
      TasksTyped /\ GhostsTyped /\ CountsTyped
  BY TypeParts
<1>1. HeadTypeOK' /\ GitTyped' /\ StoresTyped' /\ GateTyped' /\ TasksTyped'
  BY <1>0 DEF UserEdit, GateTyped, GitTyped, HeadTypeOK, StoresTyped, TasksTyped,
     gateVars, git, headVars, stores
<1>2. DocumentTyped'
  BY <1>0, TextsTyped, UnionTyped DEF UserEdit, DocumentTyped, document, GateTyped
<1>3. GhostsTyped'
  BY <1>0, TextsTyped, UnionTyped DEF UserEdit, GhostsTyped, ghosts, GateTyped
<1>4. CountsTyped'
  BY <1>0, GateAssumption DEF UserEdit, CountsTyped, counters
<1> QED BY <1>1, <1>2, <1>3, <1>4, TypePartsNext

LEMMA DeferStoreTyped ==
  ASSUME TypeOK, DeferStore PROVE TypeOK'
<1>0. HeadTypeOK /\ GitTyped /\ DocumentTyped /\ StoresTyped /\ GateTyped /\
      TasksTyped /\ GhostsTyped /\ CountsTyped
  BY TypeParts
<1>1. HeadTypeOK' /\ GitTyped' /\ GateTyped' /\ TasksTyped' /\ GhostsTyped' /\
      CountsTyped'
  BY <1>0 DEF DeferStore, CountsTyped, GateTyped, GhostsTyped, GitTyped, HeadTypeOK,
     TasksTyped, counters, gateVars, ghosts, git, headVars
<1>2. DocumentTyped'
  BY <1>0 DEF DeferStore, DocumentTyped, document, StoreDue
<1>3. StoresTyped'
  BY <1>0 DEF DeferStore, StoresTyped, stores, GateTyped
<1> QED BY <1>1, <1>2, <1>3, TypePartsNext

LEMMA SkipStoreTyped ==
  ASSUME TypeOK, SkipStore PROVE TypeOK'
<1>0. HeadTypeOK /\ GitTyped /\ DocumentTyped /\ StoresTyped /\ GateTyped /\
      TasksTyped /\ GhostsTyped /\ CountsTyped
  BY TypeParts
<1>1. HeadTypeOK' /\ GitTyped' /\ StoresTyped' /\ GateTyped' /\ TasksTyped' /\
      GhostsTyped' /\ CountsTyped'
  BY <1>0 DEF SkipStore, CountsTyped, GateTyped, GhostsTyped, GitTyped, HeadTypeOK,
     StoresTyped, TasksTyped, counters, gateVars, ghosts, git, headVars, stores
<1>2. DocumentTyped'
  BY <1>0 DEF SkipStore, DocumentTyped, document, StoreDue
<1> QED BY <1>1, <1>2, TypePartsNext

LEMMA BeginStoreTyped ==
  ASSUME TypeOK, BeginStore PROVE TypeOK'
<1>0. HeadTypeOK /\ GitTyped /\ DocumentTyped /\ StoresTyped /\ GateTyped /\
      TasksTyped /\ GhostsTyped /\ CountsTyped
  BY TypeParts
<1>1. HeadTypeOK' /\ GitTyped' /\ GateTyped' /\ TasksTyped' /\ CountsTyped'
  BY <1>0 DEF BeginStore, CountsTyped, GateTyped, GitTyped, HeadTypeOK, TasksTyped,
     counters, gateVars, git, headVars
<1>2. DocumentTyped'
  BY <1>0 DEF BeginStore, DocumentTyped, document, StoreDue
<1>3. StoresTyped'
  BY <1>0 DEF BeginStore, StoresTyped, stores, DocumentTyped
<1>4. GhostsTyped'
  BY <1>0 DEF BeginStore, GhostsTyped, ghosts, Misplaced
<1> QED BY <1>1, <1>2, <1>3, <1>4, TypePartsNext

(* A store that has landed.                                                *)
LEMMA LandedTyped ==
  ASSUME TypeOK, NEW text \in Text, Landed(text)
  PROVE  /\ HeadTypeOK' /\ GitTyped' /\ DocumentTyped' /\ GateTyped' /\ TasksTyped'
         /\ typed' \in Text /\ atRisk' \in Text /\ mixed' \in BOOLEAN /\ CountsTyped'
<1>0. HeadTypeOK /\ GitTyped /\ DocumentTyped /\ GateTyped /\ TasksTyped /\
      GhostsTyped /\ CountsTyped
  BY TypeParts
<1>1. HeadTypeOK' /\ DocumentTyped' /\ TasksTyped' /\ CountsTyped' /\ typed' \in Text /\
      mixed' \in BOOLEAN
  BY <1>0 DEF Landed, HeadTypeOK, headVars, DocumentTyped, document, TasksTyped,
     CountsTyped, GhostsTyped
<1>2. GitTyped'
  BY <1>0 DEF Landed, GitTyped
<1>3. GateTyped'
  BY <1>0 DEF Landed, GateTyped
<1>4. atRisk' \in Text
  BY <1>0, TextsTyped DEF Landed, GhostsTyped, Text
<1> QED BY <1>1, <1>2, <1>3, <1>4

LEMMA FinishStoreTyped ==
  ASSUME TypeOK, FinishStore PROVE TypeOK'
<1>0. HeadTypeOK /\ StoresTyped /\ GhostsTyped /\ "hook" \in Channel
  BY TypeParts DEF Channel
<1>1. inflight["hook"] \in Text /\ Landed(inflight["hook"])
  BY <1>0 DEF FinishStore, StoresTyped
<1>2. StoresTyped' /\ leak' \in BOOLEAN
  BY <1>0 DEF FinishStore, StoresTyped, GhostsTyped
<1> QED BY <1>1, <1>2, LandedTyped, TypePartsNext DEF GhostsTyped

LEMMA FinishDrainTyped ==
  ASSUME TypeOK, FinishDrain PROVE TypeOK'
<1>0. StoresTyped /\ "drain" \in Channel
  BY TypeParts DEF Channel
<1>1. inflight["drain"] \in Text /\ Landed(inflight["drain"])
  BY <1>0 DEF FinishDrain, StoresTyped
<1>2. StoresTyped' /\ leak' \in BOOLEAN
  BY NextRoundTyped DEF FinishDrain
<1> QED BY <1>1, <1>2, LandedTyped, TypePartsNext DEF GhostsTyped

LEMMA FailStoreTyped ==
  ASSUME TypeOK, NEW ch \in Channel, FailStore(ch) PROVE TypeOK'
<1>0. HeadTypeOK /\ GitTyped /\ DocumentTyped /\ StoresTyped /\ GateTyped /\
      TasksTyped /\ GhostsTyped /\ CountsTyped
  BY TypeParts
<1>1. HeadTypeOK' /\ GitTyped' /\ DocumentTyped' /\ GateTyped' /\ TasksTyped' /\
      typed' \in Text /\ mixed' \in BOOLEAN
  BY <1>0 DEF FailStore, HeadTypeOK, headVars, GitTyped, git, DocumentTyped, document,
     GateTyped,
              TasksTyped, gateVars, GhostsTyped
<1>2. CountsTyped'
  BY <1>0, GateAssumption DEF FailStore, Failing, CountsTyped
<1>3. atRisk' \in Text
  <2>1. inflight[ch] \in Text
    BY <1>0 DEF FailStore, StoresTyped
  <2> QED BY <1>0, <2>1 DEF FailStore, GhostsTyped, Text
<1>4. StoresTyped' /\ leak' \in BOOLEAN
  <2>1. CASE ch = "drain"
    BY <2>1, NextRoundTyped DEF FailStore
  <2>2. CASE ch # "drain"
    BY <1>0, <2>2 DEF FailStore, StoresTyped, GhostsTyped
  <2> QED BY <2>1, <2>2
<1> QED BY <1>1, <1>2, <1>3, <1>4, TypePartsNext DEF GhostsTyped

LEMMA DiskEventTyped ==
  ASSUME TypeOK, DiskEvent PROVE TypeOK'
<1>0. HeadTypeOK /\ GitTyped /\ DocumentTyped /\ StoresTyped /\ GateTyped /\
      TasksTyped /\ GhostsTyped /\ CountsTyped
  BY TypeParts
<1>1. HeadTypeOK' /\ GitTyped' /\ TasksTyped' /\ CountsTyped'
  BY <1>0 DEF DiskEvent, HeadTypeOK, headVars, GitTyped, TasksTyped, CountsTyped,
     counters
<1>2. PICK event : /\ event = [kind |-> IF disk = NoFile THEN "delete"
                                          ELSE IF known THEN "update" ELSE "create",
                                text |-> DiskText, branch |-> Worktree]
                   /\ IF disk = NoFile /\ ~known
                        THEN UNCHANGED <<document, deferred, base, atRisk, mixed,
                                         buffer>>
                      ELSE IF gate
                        THEN buffer' = Append(buffer, event)
                             /\ UNCHANGED <<document, deferred, base, atRisk, mixed>>
                        ELSE Becomes(HandleEvent(Doc, event)) /\ UNCHANGED buffer
  BY DEF DiskEvent
<1>3. event \in Event
  BY <1>2, TextsTyped DEF Event
<1>4. Becomes(HandleEvent(Doc, event)) =>
        /\ DocumentTyped' /\ base' \in [Branch -> Text \cup {Undefined}]
        /\ deferred' \in Branch \cup {None} /\ atRisk' \in Text /\ mixed' \in BOOLEAN
  BY <1>3, BecomesTyped, HandledTyped, DocTyped
<1>5. DocumentTyped' /\ StoresTyped' /\ GateTyped' /\ GhostsTyped'
  <2>0. UNCHANGED <<inflight, draining, nextFlush, gate, holders, active, typed, leak>>
    BY DEF DiskEvent
  <2>1. CASE UNCHANGED <<document, deferred, base, atRisk, mixed, buffer>>
    BY <1>0, <2>0, <2>1 DEF document, DocumentTyped, StoresTyped, GateTyped, GhostsTyped
  <2>2. CASE buffer' = Append(buffer, event) /\ UNCHANGED <<document, deferred, base,
                                                            atRisk, mixed>>
    BY <1>0, <1>3, <2>0, <2>2 DEF document, DocumentTyped, StoresTyped, GateTyped,
       GhostsTyped
  <2>3. CASE Becomes(HandleEvent(Doc, event)) /\ UNCHANGED buffer
    BY <1>0, <1>4, <2>0, <2>3 DEF StoresTyped, GateTyped, GhostsTyped
  <2> QED BY <1>2, <2>1, <2>2, <2>3
<1> QED BY <1>1, <1>5, TypePartsNext

LEMMA ForeignWriteTyped ==
  ASSUME TypeOK, ForeignWrite PROVE TypeOK'
<1>0. HeadTypeOK /\ GitTyped /\ DocumentTyped /\ StoresTyped /\ GateTyped /\
      TasksTyped /\ GhostsTyped /\ CountsTyped
  BY TypeParts
<1>1. HeadTypeOK' /\ DocumentTyped' /\ StoresTyped' /\ GateTyped' /\ TasksTyped' /\
      GhostsTyped'
  BY <1>0 DEF ForeignWrite, DocumentTyped, GateTyped, GhostsTyped, HeadTypeOK,
     StoresTyped, TasksTyped, document, gateVars, ghosts, headVars, stores, WorldMoves
<1>2. GitTyped'
  BY <1>0, TextsTyped, UnionTyped DEF ForeignWrite, GitTyped, git, WorldMoves, document,
     stores, gateVars
<1>3. CountsTyped'
  BY <1>0, GateAssumption DEF ForeignWrite, CountsTyped, counters, WorldMoves, document,
     stores, gateVars
<1> QED BY <1>1, <1>2, <1>3, TypePartsNext

LEMMA GitCommitTyped ==
  ASSUME TypeOK, GitCommit PROVE TypeOK'
<1>0. HeadTypeOK /\ GitTyped /\ DocumentTyped /\ StoresTyped /\ GateTyped /\
      TasksTyped /\ GhostsTyped /\ CountsTyped
  BY TypeParts
<1>1. HeadTypeOK' /\ DocumentTyped' /\ StoresTyped' /\ GateTyped' /\ TasksTyped' /\
      GhostsTyped'
  BY <1>0 DEF GitCommit, DocumentTyped, GateTyped, GhostsTyped, HeadTypeOK, StoresTyped,
     TasksTyped, document, gateVars, ghosts, headVars, stores, WorldMoves, GitOp,
     Signal, HeadUnchanged
<1>2. GitTyped'
  BY <1>0 DEF GitCommit, GitTyped, git, HeadTypeOK, WorldMoves, GitOp, document, stores,
     gateVars, Signal, HeadUnchanged
<1>3. CountsTyped'
  BY <1>0, GateAssumption DEF GitCommit, CountsTyped, counters, WorldMoves, GitOp,
     document, stores, gateVars, Signal, HeadUnchanged
<1> QED BY <1>1, <1>2, <1>3, TypePartsNext

LEMMA CheckoutFilesTyped ==
  ASSUME TypeOK, NEW b \in Branch, CheckoutFiles(b) PROVE TypeOK'
<1>0. HeadTypeOK /\ GitTyped /\ DocumentTyped /\ StoresTyped /\ GateTyped /\
      TasksTyped /\ GhostsTyped /\ CountsTyped
  BY TypeParts
<1>1. HeadTypeOK' /\ DocumentTyped' /\ StoresTyped' /\ GateTyped' /\ TasksTyped'
  BY <1>0 DEF CheckoutFiles, DocumentTyped, GateTyped, HeadTypeOK, StoresTyped,
     TasksTyped, document, gateVars, headVars, stores, WorldMoves, GitOp, Signal,
     HeadUnchanged
<1>2. GitTyped'
  BY <1>0 DEF CheckoutFiles, GitTyped, git, WorldMoves, GitOp, document, stores,
     gateVars, Signal, HeadUnchanged
<1>3. GhostsTyped'
  BY <1>0 DEF CheckoutFiles, GhostsTyped, ghosts, WorldMoves, GitOp, document, stores,
     gateVars, Signal, HeadUnchanged
<1>4. CountsTyped'
  BY <1>0, GateAssumption DEF CheckoutFiles, CountsTyped, counters, WorldMoves, GitOp,
     document, stores, gateVars, Signal, HeadUnchanged
<1> QED BY <1>1, <1>2, <1>3, <1>4, TypePartsNext

LEMMA CheckoutHeadTyped ==
  ASSUME TypeOK, CheckoutHead PROVE TypeOK'
<1>0. HeadTypeOK /\ GitTyped /\ DocumentTyped /\ StoresTyped /\ GateTyped /\
      TasksTyped /\ GhostsTyped /\ CountsTyped
  BY TypeParts
<1>1. DocumentTyped' /\ StoresTyped' /\ GateTyped' /\ TasksTyped' /\ GhostsTyped' /\
      CountsTyped'
  BY <1>0 DEF CheckoutHead, CountsTyped, DocumentTyped, GateTyped, GhostsTyped,
     StoresTyped, TasksTyped, counters, document, gateVars, ghosts, stores, WorldMoves,
     MoveHead
<1>2. HeadTypeOK'
  BY <1>0 DEF CheckoutHead, HeadTypeOK, headVars, GitTyped, MoveHead, Signal,
     WorldMoves, document, stores, gateVars
<1>3. GitTyped'
  BY <1>0 DEF CheckoutHead, GitTyped, git, WorldMoves, document, stores, gateVars,
     MoveHead
<1> QED BY <1>1, <1>2, <1>3, TypePartsNext

LEMMA GitEventJoinsTyped ==
  ASSUME TypeOK, GitEventJoins PROVE TypeOK'
<1>0. HeadTypeOK /\ GitTyped /\ DocumentTyped /\ StoresTyped /\ GateTyped /\
      TasksTyped /\ GhostsTyped /\ CountsTyped
  BY TypeParts
<1>1. GitTyped' /\ DocumentTyped' /\ StoresTyped' /\ GateTyped' /\ TasksTyped' /\
      GhostsTyped' /\ CountsTyped'
  BY <1>0 DEF GitEventJoins, CountsTyped, DocumentTyped, GateTyped, GhostsTyped,
     GitTyped, StoresTyped, TasksTyped, counters, document, gateVars, ghosts, git,
     stores
<1>2. HeadTypeOK'
  BY <1>0 DEF GitEventJoins, HeadTypeOK, headVars, JoinBatch
<1> QED BY <1>1, <1>2, TypePartsNext

LEMMA BeginBatchTyped ==
  ASSUME TypeOK, NEW c \in Call, BeginBatch(c) PROVE TypeOK'
<1>0. HeadTypeOK /\ GitTyped /\ DocumentTyped /\ StoresTyped /\ GateTyped /\
      TasksTyped /\ GhostsTyped /\ CountsTyped
  BY TypeParts
<1>1. GitTyped' /\ DocumentTyped' /\ StoresTyped' /\ GateTyped' /\ GhostsTyped' /\
      CountsTyped'
  BY <1>0 DEF BeginBatch, CountsTyped, DocumentTyped, GateTyped, GhostsTyped, GitTyped,
     StoresTyped, counters, document, gateVars, ghosts, git, stores
<1>2. HeadTypeOK'
  BY <1>0 DEF BeginBatch, HeadTypeOK, headVars, OpenBatch, CallState
<1>3. TasksTyped'
  BY <1>0 DEF BeginBatch, TasksTyped, gateVars, Step, Now, Task
<1> QED BY <1>1, <1>2, <1>3, TypePartsNext

LEMMA RaiseGateTyped ==
  ASSUME TypeOK, NEW c \in Call, RaiseGate(c) PROVE TypeOK'
<1>0. HeadTypeOK /\ GitTyped /\ DocumentTyped /\ StoresTyped /\ GateTyped /\
      TasksTyped /\ GhostsTyped /\ CountsTyped
  BY TypeParts
<1>1. HeadTypeOK' /\ GitTyped' /\ DocumentTyped' /\ StoresTyped' /\ CountsTyped'
  BY <1>0 DEF RaiseGate, CountsTyped, DocumentTyped, GitTyped, HeadTypeOK, StoresTyped,
     counters, document, git, headVars, stores
<1>2. GateTyped'
  BY <1>0 DEF RaiseGate, GateTyped, gateVars
<1>3. TasksTyped'
  BY <1>0, TextsTyped DEF RaiseGate, TasksTyped, gateVars, Step, Task, ParkedDoc,
     DocumentTyped, GateTyped
<1>4. GhostsTyped'
  BY <1>0, UnionTyped DEF RaiseGate, GhostsTyped, ghosts, DocumentTyped
<1> QED BY <1>1, <1>2, <1>3, <1>4, TypePartsNext

LEMMA EndOtherBranchTyped ==
  ASSUME TypeOK, NEW e \in Call, EndOtherBranch(e) PROVE TypeOK'
<1>0. HeadTypeOK /\ GitTyped /\ DocumentTyped /\ StoresTyped /\ GateTyped /\
      TasksTyped /\ GhostsTyped /\ CountsTyped
  BY TypeParts
<1>1. GitTyped' /\ StoresTyped' /\ CountsTyped'
  BY <1>0 DEF EndOtherBranch, CountsTyped, GitTyped, StoresTyped, counters, git, stores
<1>2. HeadTypeOK'
  BY <1>0 DEF EndOtherBranch, HeadTypeOK, headVars, EndBatch, CallState
<1>3. DocumentTyped'
  BY <1>0 DEF EndOtherBranch, DocumentTyped, document, GitTyped
<1>4. GateTyped'
  BY <1>0 DEF EndOtherBranch, GateTyped, gateVars, GitTyped, HeadTypeOK
<1>5. TasksTyped'
  BY <1>0 DEF EndOtherBranch, TasksTyped, gateVars, Step, Now, Task
<1>6. GhostsTyped'
  BY <1>0, MisreadTyped, UnionTyped DEF EndOtherBranch, GhostsTyped, HeadTypeOK
<1> QED BY <1>1, <1>2, <1>3, <1>4, <1>5, <1>6, TypePartsNext

LEMMA FlushWithinBranchTyped ==
  ASSUME TypeOK, NEW e \in Call, FlushWithinBranch(e) PROVE TypeOK'
<1>0. HeadTypeOK /\ GitTyped /\ DocumentTyped /\ StoresTyped /\ GateTyped /\
      TasksTyped /\ GhostsTyped /\ CountsTyped
  BY TypeParts
<1>1. HeadTypeOK' /\ GitTyped' /\ DocumentTyped' /\ GateTyped' /\ CountsTyped'
  BY <1>0 DEF FlushWithinBranch, CountsTyped, DocumentTyped, GateTyped, GitTyped,
     HeadTypeOK, counters, document, gateVars, git, headVars
<1>2. StoresTyped'
  BY <1>0, FlushTyped DEF FlushWithinBranch, StoresTyped, stores
<1>3. TasksTyped'
  BY <1>0 DEF FlushWithinBranch, TasksTyped, gateVars, Step, Now, Task
<1>4. GhostsTyped'
  BY <1>0, FlushTyped DEF FlushWithinBranch, GhostsTyped, ghosts
<1> QED BY <1>1, <1>2, <1>3, <1>4, TypePartsNext

LEMMA ReopenTyped ==
  ASSUME TypeOK, NEW e \in Call, Reopen(e) PROVE TypeOK'
<1>0. HeadTypeOK /\ GitTyped /\ DocumentTyped /\ StoresTyped /\ GateTyped /\
      TasksTyped /\ GhostsTyped /\ CountsTyped
  BY TypeParts
<1>1. HeadTypeOK' /\ GitTyped' /\ DocumentTyped' /\ CountsTyped'
  BY <1>0 DEF Reopen, CountsTyped, DocumentTyped, GitTyped, HeadTypeOK, counters,
     document, git, headVars
<1>2. StoresTyped'
  BY <1>0, FlushTyped DEF Reopen, StoresTyped, stores
<1>3. GateTyped'
  BY <1>0 DEF Reopen, GateTyped, gateVars
<1>4. TasksTyped'
  BY <1>0 DEF Reopen, TasksTyped, gateVars, Step, Now, Task
<1>5. GhostsTyped'
  BY <1>0, FlushTyped DEF Reopen, GhostsTyped, ghosts
<1> QED BY <1>1, <1>2, <1>3, <1>4, <1>5, TypePartsNext

LEMMA SyncHoldsTyped ==
  ASSUME TypeOK, NEW h \in Holder, SyncHolds(h) PROVE TypeOK'
<1>0. HeadTypeOK /\ GitTyped /\ DocumentTyped /\ StoresTyped /\ GateTyped /\
      TasksTyped /\ GhostsTyped /\ CountsTyped
  BY TypeParts
<1>1. HeadTypeOK' /\ GitTyped' /\ DocumentTyped' /\ StoresTyped' /\ TasksTyped' /\
      GhostsTyped'
  BY <1>0 DEF SyncHolds, DocumentTyped, GhostsTyped, GitTyped, HeadTypeOK, StoresTyped,
     TasksTyped, document, gateVars, ghosts, git, headVars, stores
<1>2. GateTyped'
  BY <1>0 DEF SyncHolds, GateTyped, gateVars
<1>3. CountsTyped'
  BY <1>0, GateAssumption DEF SyncHolds, CountsTyped, counters
<1> QED BY <1>1, <1>2, <1>3, TypePartsNext

LEMMA SyncMergesTyped ==
  ASSUME TypeOK, NEW h \in Holder, SyncMerges(h) PROVE TypeOK'
<1>0. HeadTypeOK /\ GitTyped /\ DocumentTyped /\ StoresTyped /\ GateTyped /\
      TasksTyped /\ GhostsTyped /\ CountsTyped
  BY TypeParts
<1>1. HeadTypeOK' /\ DocumentTyped' /\ StoresTyped' /\ GateTyped' /\ TasksTyped' /\
      GhostsTyped'
  BY <1>0 DEF SyncMerges, DocumentTyped, GateTyped, GhostsTyped, HeadTypeOK,
     StoresTyped, TasksTyped, document, gateVars, ghosts, headVars, stores, WorldMoves,
     Signal, HeadUnchanged
<1>2. GitTyped'
  BY <1>0, TextsTyped, UnionTyped DEF SyncMerges, GitTyped, git, HeadTypeOK, WorldMoves,
     document, stores, gateVars, Signal, HeadUnchanged
<1>3. CountsTyped'
  BY <1>0, GateAssumption DEF SyncMerges, CountsTyped, counters, WorldMoves, document,
     stores, gateVars, Signal, HeadUnchanged
<1> QED BY <1>1, <1>2, <1>3, TypePartsNext

LEMMA SyncReleasesTyped ==
  ASSUME TypeOK, NEW h \in Holder, SyncReleases(h) PROVE TypeOK'
<1>0. HeadTypeOK /\ GitTyped /\ DocumentTyped /\ StoresTyped /\ GateTyped /\
      TasksTyped /\ GhostsTyped /\ CountsTyped
  BY TypeParts
<1>1. HeadTypeOK' /\ GitTyped' /\ DocumentTyped' /\ TasksTyped' /\ CountsTyped'
  BY <1>0 DEF SyncReleases, CountsTyped, DocumentTyped, GitTyped, HeadTypeOK,
     TasksTyped, counters, document, gateVars, git, headVars
<1>2. StoresTyped'
  BY <1>0, FlushTyped DEF SyncReleases, StoresTyped, stores
<1>3. GateTyped'
  BY <1>0 DEF SyncReleases, GateTyped, gateVars
<1>4. GhostsTyped'
  BY <1>0, FlushTyped DEF SyncReleases, GhostsTyped, ghosts
<1> QED BY <1>1, <1>2, <1>3, <1>4, TypePartsNext

(* What the HEAD watcher tells an end: two branches.                       *)
EndsKnow == \A c \in Call : At(c, "end") => call[c].old \in Branch /\ call[c].new \in Branch

(* What server-factory.ts does at an end is done while it is awaited.      *)
EndTask   == {"drain", "rebuild", "reopen", "flush"}
TasksEnd  == \A c \in Call : task[c].at \in EndTask => At(c, "end")

LEMMA ParkDoneTyped ==
  ASSUME TypeOK, NEW c \in Call, ParkDone(c) PROVE TypeOK'
<1>0. HeadTypeOK /\ GitTyped /\ DocumentTyped /\ StoresTyped /\ GateTyped /\
      TasksTyped /\ GhostsTyped /\ CountsTyped
  BY TypeParts
<1>1. GitTyped' /\ DocumentTyped' /\ StoresTyped' /\ GateTyped'
  BY <1>0 DEF ParkDone, GitTyped, git, DocumentTyped, document, StoresTyped, stores,
     GateTyped
<1>2. HeadTypeOK'
  BY <1>0 DEF ParkDone, BeginReturns, HeadTypeOK
<1>3. task' \in [Call -> Task]
  BY <1>0 DEF ParkDone, Step, NoTask, Task, TasksTyped
<1>4. UNCHANGED <<typed, leak, mixed, edits, gitOps, holds>>
  BY DEF ParkDone
<1>5. CASE UNCHANGED <<parked, atRisk, failures>>
  BY <1>0, <1>1, <1>2, <1>3, <1>4, <1>5, TypePartsNext DEF TasksTyped, GhostsTyped,
     CountsTyped
<1>6. CASE task[c].park # None
  <2>1. task[c].park \in ParkedDoc
    BY <1>0, <1>6 DEF TasksTyped, Task
  <2>2. /\ task[c].park.branch \in Branch
        /\ typed \cap task[c].park.markdown \in Text
    BY <1>0, <2>1, UnionTyped DEF ParkedDoc, GhostsTyped
  <2>3. CASE /\ parked' = [parked EXCEPT ![task[c].park.branch] = task[c].park]
             /\ UNCHANGED <<atRisk, failures>>
    BY <1>0, <1>1, <1>2, <1>3, <1>4, <2>1, <2>2, <2>3, TypePartsNext DEF TasksTyped,
       GhostsTyped, CountsTyped
  <2>4. CASE Failing /\ atRisk' = atRisk \cup (typed \cap task[c].park.markdown) /\
        UNCHANGED parked
    <3>1. CountsTyped'
      BY <1>0, <1>4, <2>4, GateAssumption DEF CountsTyped, Failing
    <3>2. GhostsTyped'
      BY <1>0, <1>4, <2>2, <2>4, UnionTyped DEF GhostsTyped
    <3> QED BY <1>0, <1>1, <1>2, <1>3, <2>4, <3>1, <3>2, TypePartsNext DEF TasksTyped
  <2> QED BY <1>6, <2>3, <2>4 DEF ParkDone
<1> QED BY <1>5, <1>6 DEF ParkDone

LEMMA NoBatchToEndTyped ==
  ASSUME TypeOK, NEW e \in Call, NoBatchToEnd(e) PROVE TypeOK'
<1>0. HeadTypeOK /\ GitTyped /\ DocumentTyped /\ StoresTyped /\ GateTyped /\
      TasksTyped /\ GhostsTyped /\ CountsTyped
  BY TypeParts
<1>1. GitTyped' /\ DocumentTyped' /\ StoresTyped' /\ GateTyped' /\ TasksTyped' /\
      GhostsTyped' /\ CountsTyped'
  BY <1>0 DEF NoBatchToEnd, CountsTyped, DocumentTyped, GateTyped, GhostsTyped,
     GitTyped,
     StoresTyped, TasksTyped, counters, document, gateVars, ghosts, git, stores
<1>2. CASE EndNothing(e)
  BY <1>0, <1>1, <1>2, TypePartsNext DEF EndNothing, Fired, HeadTypeOK
<1>3. CASE AwaitBegin(e)
  BY <1>0, <1>1, <1>3, TypePartsNext DEF AwaitBegin, Fired, HeadTypeOK, CallState
<1> QED BY <1>2, <1>3 DEF NoBatchToEnd

LEMMA RestoreParkedTyped ==
  ASSUME TypeOK, EndsKnow, TasksEnd, NEW e \in Call, RestoreParked(e) PROVE TypeOK'
<1>0. HeadTypeOK /\ GitTyped /\ DocumentTyped /\ StoresTyped /\ GateTyped /\
      TasksTyped /\ GhostsTyped /\ CountsTyped
  BY TypeParts
<1>1. HeadTypeOK' /\ GitTyped' /\ StoresTyped' /\ CountsTyped'
  BY <1>0 DEF RestoreParked, HeadTypeOK, headVars, GitTyped, git, StoresTyped, stores,
     CountsTyped, counters
<1>2. TasksTyped'
  BY <1>0 DEF RestoreParked, TasksTyped, Step, Now, Task
<1>3. PICK park, text :
        /\ park = IF BatchKind(call[e].old, call[e].new) = "cross-branch"
                    THEN parked[call[e].new] ELSE None
        /\ text = MergeTexts(park.diskSnapshot, park.markdown, Base)
        /\ IF ToRestore(park)
             THEN /\ doc' = text /\ base' = [base EXCEPT ![active] = text]
                  /\ atRisk' = atRisk \cup (typed \cap (text \ DiskText))
             ELSE /\ UNCHANGED <<doc, base>>
                  /\ atRisk' = IF (loaded /\ BaseText # {}) \/ parked[active] = None THEN atRisk
                               ELSE atRisk \cup (typed \cap parked[active].markdown)
  BY DEF RestoreParked
<1>4. UNCHANGED <<loaded, tombstone, storeTimer, gate, holders, active, buffer, typed,
                  leak, mixed>>
  BY DEF RestoreParked
<1>5. CASE ToRestore(park)
  <2>1. park \in ParkedDoc
    <3>1. park # None
      BY <1>5 DEF ToRestore
    <3>2. park = parked[call[e].new] /\ call[e].new \in Branch
      <4>1. At(e, "end")
        BY DEF RestoreParked, InTask, TasksEnd, EndTask
      <4> QED BY <1>3, <3>1, <4>1 DEF EndsKnow
    <3> QED BY <1>0, <3>1, <3>2 DEF TasksTyped
  <2>2. Base \in Text
    BY <1>5, TextsTyped DEF ToRestore, BaseText
  <2>3. text \in Text
    BY <1>3, <2>1, <2>2, MergeTyped DEF ParkedDoc
  <2>4. typed \cap (text \ DiskText) \in Text
    BY <1>0, <2>3, TextsTyped, UnionTyped DEF GhostsTyped
  <2>5. DocumentTyped' /\ GateTyped' /\ GhostsTyped'
    <3>1. doc' = text /\ base' = [base EXCEPT ![active] = text] /\
          atRisk' = atRisk \cup (typed \cap (text \ DiskText))
      BY <1>3, <1>5
    <3>2. DocumentTyped'
      BY <1>0, <1>4, <2>3, <3>1 DEF DocumentTyped
    <3>3. GateTyped'
      BY <1>0, <1>4, <2>3, <3>1 DEF GateTyped
    <3>4. GhostsTyped'
      BY <1>0, <1>4, <2>4, <3>1, UnionTyped DEF GhostsTyped
    <3> QED BY <3>2, <3>3, <3>4
  <2> QED BY <1>1, <1>2, <2>5, TypePartsNext
<1>6. CASE ~ToRestore(park)
  <2>1. DocumentTyped' /\ GateTyped'
    BY <1>0, <1>3, <1>4, <1>6 DEF DocumentTyped, GateTyped
  <2>2. parked[active] # None => typed \cap parked[active].markdown \in Text
    BY <1>0, UnionTyped DEF TasksTyped, GateTyped, GhostsTyped, ParkedDoc
  <2>3. GhostsTyped'
    BY <1>0, <1>3, <1>4, <1>6, <2>2, UnionTyped DEF GhostsTyped
  <2> QED BY <1>1, <1>2, <2>1, <2>3, TypePartsNext
<1> QED BY <1>5, <1>6

LEMMA EndDoneTyped ==
  ASSUME TypeOK, EndsKnow, NEW e \in Call, EndDone(e) PROVE TypeOK'
<1>0. HeadTypeOK /\ GitTyped /\ DocumentTyped /\ StoresTyped /\ GateTyped /\
      TasksTyped /\ GhostsTyped /\ CountsTyped
  BY TypeParts
<1>1. GitTyped' /\ DocumentTyped' /\ StoresTyped' /\ GateTyped' /\ GhostsTyped' /\
      CountsTyped'
  BY <1>0 DEF EndDone, CountsTyped, DocumentTyped, GateTyped, GhostsTyped, GitTyped,
     StoresTyped, counters, document, ghosts, git, stores
<1>2. TasksTyped'
  BY <1>0 DEF EndDone, TasksTyped, Step, NoTask, Task
<1>3. call[e].new \in Branch
  BY DEF EndDone, EndReturns, EndsKnow
<1>4. HeadTypeOK'
  BY <1>0, <1>3 DEF EndDone, EndReturns, HeadTypeOK
<1> QED BY <1>1, <1>2, <1>4, TypePartsNext

LEMMA EndWithinBranchTyped ==
  ASSUME TypeOK, NEW e \in Call, EndWithinBranch(e) PROVE TypeOK'
<1>0. HeadTypeOK /\ GitTyped /\ DocumentTyped /\ StoresTyped /\ GateTyped /\
      TasksTyped /\ GhostsTyped /\ CountsTyped
  BY TypeParts
<1>1. GitTyped' /\ CountsTyped'
  BY <1>0 DEF EndWithinBranch, GitTyped, git, CountsTyped, counters
<1>2. HeadTypeOK'
  BY <1>0 DEF EndWithinBranch, HeadTypeOK, EndBatch, CallState
<1>3. TasksTyped'
  BY <1>0 DEF EndWithinBranch, TasksTyped, Step, Now, Task
<1>4. Becomes(After[Len(buffer)])
  BY DEF EndWithinBranch
<1>5. /\ DocumentTyped' /\ base' \in [Branch -> Text \cup {Undefined}]
      /\ deferred' \in Branch \cup {None} /\ atRisk' \in Text /\ mixed' \in BOOLEAN
  BY <1>4, ReplayTyped, BecomesTyped
<1>6. StoresTyped' /\ GhostsTyped'
  BY <1>0, <1>5 DEF EndWithinBranch, StoresTyped, GhostsTyped
<1>7. GateTyped'
  <2>1. <<>> \in Seq(Event)
    OBVIOUS
  <2> QED BY <1>0, <1>5, <2>1 DEF EndWithinBranch, GateTyped
<1> QED BY <1>1, <1>2, <1>3, <1>5, <1>6, <1>7, TypePartsNext

LEMMA TypeNext ==
  ASSUME TypeOK, EndsKnow, TasksEnd, [Next]_vars PROVE TypeOK'
<1>1. CASE Load
  BY <1>1, LoadTyped
<1>2. CASE Unload
  BY <1>2, UnloadTyped
<1>3. CASE UserEdit
  BY <1>3, UserEditTyped
<1>4. CASE DeferStore
  BY <1>4, DeferStoreTyped
<1>5. CASE SkipStore
  BY <1>5, SkipStoreTyped
<1>6. CASE BeginStore
  BY <1>6, BeginStoreTyped
<1>7. CASE FinishStore
  BY <1>7, FinishStoreTyped
<1>8. CASE FinishDrain
  BY <1>8, FinishDrainTyped
<1>9. ASSUME NEW ch \in Channel, FailStore(ch) PROVE TypeOK'
  BY <1>9, FailStoreTyped
<1>10. CASE DiskEvent
  BY <1>10, DiskEventTyped
<1>11. CASE ForeignWrite
  BY <1>11, ForeignWriteTyped
<1>12. CASE GitCommit
  BY <1>12, GitCommitTyped
<1>13. ASSUME NEW b \in Branch, CheckoutFiles(b) PROVE TypeOK'
  BY <1>13, CheckoutFilesTyped
<1>14. CASE CheckoutHead
  BY <1>14, CheckoutHeadTyped
<1>15. CASE GitEventJoins
  BY <1>15, GitEventJoinsTyped
<1>16. ASSUME NEW c \in Call, BeginBatch(c) PROVE TypeOK'
  BY <1>16, BeginBatchTyped
<1>17. ASSUME NEW c \in Call, RaiseGate(c) PROVE TypeOK'
  BY <1>17, RaiseGateTyped
<1>18. ASSUME NEW c \in Call, ParkDone(c) PROVE TypeOK'
  BY <1>18, ParkDoneTyped
<1>19. ASSUME NEW c \in Call, NoBatchToEnd(c) PROVE TypeOK'
  BY <1>19, NoBatchToEndTyped
<1>20. ASSUME NEW c \in Call, EndWithinBranch(c) PROVE TypeOK'
  BY <1>20, EndWithinBranchTyped
<1>21. ASSUME NEW c \in Call, FlushWithinBranch(c) PROVE TypeOK'
  BY <1>21, FlushWithinBranchTyped
<1>22. ASSUME NEW c \in Call, EndOtherBranch(c) PROVE TypeOK'
  BY <1>22, EndOtherBranchTyped
<1>23. ASSUME NEW c \in Call, RestoreParked(c) PROVE TypeOK'
  BY <1>23, RestoreParkedTyped
<1>24. ASSUME NEW c \in Call, Reopen(c) PROVE TypeOK'
  BY <1>24, ReopenTyped
<1>25. ASSUME NEW c \in Call, EndDone(c) PROVE TypeOK'
  BY <1>25, EndDoneTyped
<1>26. ASSUME NEW h \in Holder, SyncHolds(h) PROVE TypeOK'
  BY <1>26, SyncHoldsTyped
<1>27. ASSUME NEW h \in Holder, SyncMerges(h) PROVE TypeOK'
  BY <1>27, SyncMergesTyped
<1>28. ASSUME NEW h \in Holder, SyncReleases(h) PROVE TypeOK'
  BY <1>28, SyncReleasesTyped
<1>29. CASE UNCHANGED vars
  BY <1>29 DEF vars, headVars, git, document, stores, gateVars, ghosts, counters,
     TypeOK, HeadTypeOK
<1> QED BY <1>1, <1>2, <1>3, <1>4, <1>5, <1>6, <1>7, <1>8, <1>9, <1>10, <1>11, <1>12,
        <1>13, <1>14, <1>15, <1>16, <1>17, <1>18, <1>19, <1>20, <1>21, <1>22, <1>23,
        <1>24, <1>25, <1>26, <1>27, <1>28, <1>29
        DEF Next, Client, World, Store, Callback

(* The watcher's calls and the tasks stay in step.                         *)
LEMMA CallsNext ==
  ASSUME TypeOK, EndsKnow, TasksEnd, [Next]_vars PROVE EndsKnow' /\ TasksEnd'
<1>0. /\ call \in [Call -> CallState \cup {Free}] /\ task \in [Call -> Task]
      /\ head \in Branch /\ lastKnownBranch \in Branch
  BY TypeParts DEF HeadTypeOK, TasksTyped
<1>1. CASE UNCHANGED <<call, task>>
  BY <1>1 DEF EndsKnow, TasksEnd, At
<1>2. ASSUME NEW c \in Call, BeginBatch(c) PROVE EndsKnow' /\ TasksEnd'
  BY <1>0, <1>2 DEF BeginBatch, OpenBatch, Step, Now, EndsKnow, TasksEnd, EndTask, At,
     Task
<1>3. ASSUME NEW c \in Call, RaiseGate(c) PROVE EndsKnow' /\ TasksEnd'
  BY <1>0, <1>3 DEF RaiseGate, headVars, Step, EndsKnow, TasksEnd, EndTask, At, Task
<1>4. ASSUME NEW c \in Call, ParkDone(c) PROVE EndsKnow' /\ TasksEnd'
  BY <1>0, <1>4 DEF ParkDone, BeginReturns, Step, NoTask, EndsKnow, TasksEnd, EndTask,
     At, Task
<1>5. ASSUME NEW c \in Call, NoBatchToEnd(c) PROVE EndsKnow' /\ TasksEnd'
  <2>1. ~At(c, "end") /\ UNCHANGED task
    BY <1>5 DEF NoBatchToEnd, EndNothing, AwaitBegin, Resumed, At, gateVars
  <2>2. UNCHANGED call \/ call' = [call EXCEPT ![c] = Free]
          \/ call' = [call EXCEPT ![c] =
               [stage |-> "waiting", awaits |-> beginInFlight, old |-> None, new |-> None]]
    BY <1>5 DEF NoBatchToEnd, EndNothing, AwaitBegin
  <2> QED BY <1>0, <2>1, <2>2 DEF EndsKnow, TasksEnd, At
<1>6. ASSUME NEW c \in Call, EndBatch(c), NEW at \in EndTask, Step(c, Now(at))
      PROVE  EndsKnow' /\ TasksEnd'
  <2>1. [stage |-> "end", awaits |-> None, old |-> lastKnownBranch, new |-> head] # Free
    BY <1>0, NoneAssumption
  <2> QED BY <1>0, <1>6, <2>1 DEF EndBatch, Step, Now, EndsKnow, TasksEnd, EndTask, At,
          Task
<1>7. ASSUME NEW c \in Call, UNCHANGED call, At(c, "end"),
             NEW at \in EndTask, Step(c, Now(at))
      PROVE  EndsKnow' /\ TasksEnd'
  BY <1>0, <1>7 DEF Step, Now, EndsKnow, TasksEnd, EndTask, At, Task
<1>8. ASSUME NEW c \in Call, EndDone(c) PROVE EndsKnow' /\ TasksEnd'
  BY <1>0, <1>8 DEF EndDone, EndReturns, Step, NoTask, EndsKnow, TasksEnd, EndTask, At,
     Task
<1>9. ASSUME NEW c \in Call, FlushWithinBranch(c) \/ RestoreParked(c) \/ Reopen(c)
      PROVE  EndsKnow' /\ TasksEnd'
  <2>1. At(c, "end")
    BY <1>9 DEF FlushWithinBranch, RestoreParked, Reopen, InTask, TasksEnd, EndTask
  <2>2. UNCHANGED call /\ \E at \in EndTask : Step(c, Now(at))
    BY <1>9 DEF FlushWithinBranch, RestoreParked, Reopen, headVars, EndTask
  <2> QED BY <1>7, <2>1, <2>2
<1>10. ASSUME NEW c \in Call, EndWithinBranch(c) \/ EndOtherBranch(c)
      PROVE EndsKnow' /\ TasksEnd'
  <2>1. EndBatch(c) /\ \E at \in EndTask : Step(c, Now(at))
    BY <1>10 DEF EndWithinBranch, EndOtherBranch, EndTask
  <2> QED BY <1>6, <2>1
<1>11. ASSUME NEW c \in Call, Callback(c) PROVE EndsKnow' /\ TasksEnd'
  BY <1>2, <1>3, <1>4, <1>5, <1>8, <1>9, <1>10, <1>11 DEF Callback
<1>12. CASE Store \/ \E ch \in Channel : FailStore(ch)
  BY <1>1, <1>12 DEF Store, DeferStore, SkipStore, BeginStore, FinishStore, FinishDrain,
     FailStore,
     Landed, headVars, gateVars
<1>13. CASE Client \/ DiskEvent \/ GitEventJoins \/ CheckoutHead \/ UNCHANGED vars
  BY <1>1, <1>13 DEF Client, Load, Unload, UserEdit, DiskEvent, GitEventJoins,
     JoinBatch, CheckoutHead,
     MoveHead, WorldMoves, vars, headVars, gateVars
<1>14. CASE World \/ \E h \in Holder : SyncReleases(h)
  BY <1>1, <1>14 DEF World, ForeignWrite, GitCommit, CheckoutFiles, SyncHolds,
     SyncMerges, SyncReleases,
     HeadUnchanged, WorldMoves, headVars, gateVars
<1> QED BY <1>11, <1>12, <1>13, <1>14 DEF Next

TypeInv == TypeOK /\ EndsKnow /\ TasksEnd

LEMMA TypeInvInit == Init => TypeInv
<1>1. Init => EndsKnow /\ TasksEnd
  BY DEF Init, HeadInit, EndsKnow, TasksEnd, EndTask, At, NoTask
<1> QED BY <1>1, TypeInit DEF TypeInv

LEMMA TypeInvNext == TypeInv /\ [Next]_vars => TypeInv'
BY TypeNext, CallsNext DEF TypeInv

(* The gate's state has its type in every behaviour.                       *)
THEOREM GateTypeCorrect == Spec => []TypeOK
BY TypeInvInit, TypeInvNext, PTL DEF Spec, TypeInv

-----------------------------------------------------------------------------
(* Whose text is where.  Unless something is excused, every text belongs   *)
(* to one branch: the file to the branch checked out, a base to its scope, *)
(* the document to the active branch, a store in flight to both.  The one  *)
(* document that does not is open on a branch without its file: it has the *)
(* text of the branch before and is marked deleted, nothing of it is in    *)
(* flight and it has no base; parked, it equals its own snapshot, which    *)
(* nobody restores.                                                        *)
Excused == leak \/ mixed \/ overlapped
Written(text, b) == \A p \in text : p[1] = b
Exists(b) == tree[b] # NoFile \/ (Worktree = b /\ disk # NoFile)

FilesApart ==
  /\ \A b \in Branch : tree[b] # NoFile => Written(tree[b], b)
  /\ disk # NoFile => Written(disk, Worktree)
  /\ disk = NoFile => tree[Worktree] = NoFile
Stale == tombstone /\ ~Exists(active) /\ \A ch \in Channel : inflight[ch] = Idle
DocumentApart == (Written(doc, active) \/ Stale) /\ (~loaded => doc = {})
BasesApart == \A b \in Branch : base[b] # Undefined => Written(base[b], b) /\ Exists(b)
FlightsApart ==
  \A ch \in Channel : inflight[ch] # Idle => Written(inflight[ch], Worktree) /\ active = Worktree
EventApart(event) ==
  Written(event.text, event.branch) /\ (event.kind = "update" => Exists(event.branch))
EventsApart == \A i \in 1 .. Len(buffer) : EventApart(buffer[i])
ParkApart(park) ==
  \/ Written(park.markdown, park.branch) /\ Written(park.diskSnapshot, park.branch)
  \/ park.markdown = park.diskSnapshot
ParksApart ==
  /\ \A b \in Branch : parked[b] # None => parked[b].branch = b /\ ParkApart(parked[b])
  /\ \A c \in Call : task[c].park # None => ParkApart(task[c].park)
Switching == \A c \in Call : InTask(c, "rebuild") => call[c].new = active

TextsApart == FilesApart /\ DocumentApart /\ BasesApart /\ FlightsApart /\ EventsApart
Apart == TextsApart /\ ParksApart /\ Switching

LEMMA NoFileIsNoText == NoFile \notin Text /\ Undefined \notin Text
BY NoFileAssumption

(* While the files stay, so does where they belong.                        *)
LEMMA SamePlace ==
  ASSUME UNCHANGED <<head, tree, disk, checkout>>
  PROVE  /\ Worktree' = Worktree /\ \A b : Exists(b)' = Exists(b)
         /\ FilesApart => FilesApart'
<1>1. Worktree' = Worktree
  BY DEF Worktree
<1>2. \A b : Exists(b)' = Exists(b)
  BY <1>1 DEF Exists
<1> QED BY <1>1, <1>2 DEF FilesApart, Written

(* A step that only starts, drops or ends stores.                          *)
Taken(ch) ==
  \/ inflight'[ch] \in {Idle, inflight[ch]}
  \/ inflight'[ch] = doc /\ ~tombstone /\ active = Worktree

LEMMA StoresApart ==
  ASSUME TextsApart, UNCHANGED <<head, tree, disk, checkout, loaded, doc, tombstone,
                                 active, base, buffer>>,
         \A ch \in Channel : Taken(ch)
  PROVE  TextsApart'
<1>1. Worktree' = Worktree /\ (\A b : Exists(b)' = Exists(b)) /\ FilesApart'
  BY SamePlace DEF TextsApart
<1>2. DocumentApart'
  BY <1>1 DEF TextsApart, DocumentApart, Stale, Taken, Written
<1>3. BasesApart'
  BY <1>1 DEF TextsApart, BasesApart, Written
<1>4. FlightsApart'
  <2> SUFFICES ASSUME NEW ch \in Channel, inflight'[ch] # Idle
               PROVE  Written(inflight'[ch], Worktree') /\ active' = Worktree'
    BY DEF FlightsApart, Written
  <2>1. CASE inflight'[ch] = inflight[ch]
    BY <1>1, <2>1 DEF TextsApart, FlightsApart
  <2>2. CASE inflight'[ch] = doc /\ ~tombstone /\ active = Worktree
    BY <1>1, <2>2 DEF TextsApart, DocumentApart, Stale
  <2> QED BY <2>1, <2>2 DEF Taken
<1>5. EventsApart'
  BY <1>1 DEF TextsApart, EventsApart, EventApart, Written
<1> QED BY <1>1, <1>2, <1>3, <1>4, <1>5 DEF TextsApart

(* git, and other programs: every branch keeps its file or its lack of it. *)
LEMMA WorldApart ==
  ASSUME TextsApart, UNCHANGED <<loaded, doc, tombstone, active, base, buffer,
                                 inflight>>,
         FilesApart', \A b \in Branch : Exists(b)' <=> Exists(b), active \in Branch,
         \A i \in 1 .. Len(buffer) : buffer[i].branch \in Branch,
         Worktree' = Worktree \/ \A ch \in Channel : inflight[ch] = Idle
  PROVE  TextsApart'
<1>1. DocumentApart'
  BY DEF TextsApart, DocumentApart, Stale, Written
<1>2. BasesApart'
  BY DEF TextsApart, BasesApart, Written
<1>3. FlightsApart'
  BY DEF TextsApart, FlightsApart, Written
<1>4. EventsApart'
  BY DEF TextsApart, EventsApart, EventApart, Written
<1> QED BY <1>1, <1>2, <1>3, <1>4 DEF TextsApart

LEMMA RoundTaken ==
  ASSUME TypeOK, NEW mode, NEW bs, DrainRound(mode, bs), ~leak'
  PROVE  \A ch \in Channel : Taken(ch)
<1>1. inflight \in [Channel -> Text \cup {Idle}] /\ Channel = {"hook", "drain"}
  BY DEF TypeOK, Channel
<1> QED BY <1>1 DEF DrainRound, Taken

LEMMA FlushTaken ==
  ASSUME TypeOK, NEW mode, FlushDeferredStores(mode), ~leak'
  PROVE  \A ch \in Channel : Taken(ch)
BY RoundTaken DEF FlushDeferredStores, Taken

LEMMA NextRoundTaken ==
  ASSUME TypeOK, NEW bs, NextRound(bs), ~leak'
  PROVE  \A ch \in Channel : Taken(ch)
<1>1. CASE deferred = None /\ nextFlush = "none"
  <2>1. inflight \in [Channel -> Text \cup {Idle}]
    BY DEF TypeOK
  <2> QED BY <1>1, <2>1 DEF NextRound, Taken, Channel
<1>2. CASE ~(deferred = None /\ nextFlush = "none")
  BY <1>2, RoundTaken DEF NextRound
<1> QED BY <1>1, <1>2

LEMMA EventsBranches ==
  ASSUME TypeOK
  PROVE  \A i \in 1 .. Len(buffer) : buffer[i] \in Event /\ buffer[i].branch \in Branch
<1>1. buffer \in Seq(Event)
  BY DEF TypeOK, Event
<1>2. \A i \in 1 .. Len(buffer) : buffer[i] \in Event
  BY <1>1
<1> QED BY <1>2 DEF Event

LEMMA BeginStoreApart ==
  ASSUME TypeOK, TextsApart, BeginStore, ~leak' PROVE TextsApart'
<1>1. UNCHANGED <<head, tree, disk, checkout, loaded, doc, tombstone, active, base,
                  buffer>>
  BY DEF BeginStore, headVars, git, gateVars
<1>2. \A ch \in Channel : Taken(ch)
  <2>1. inflight \in [Channel -> Text \cup {Idle}]
    BY DEF TypeOK
  <2> QED BY <2>1 DEF BeginStore, Misplaced, Taken
<1> QED BY <1>1, <1>2, StoresApart

LEMMA FailStoreApart ==
  ASSUME TypeOK, TextsApart, NEW ch \in Channel, FailStore(ch), ~leak' PROVE TextsApart'
<1>1. UNCHANGED <<head, tree, disk, checkout, loaded, doc, tombstone, active, base,
                  buffer>>
  BY DEF FailStore, headVars, git, gateVars, document
<1>2. \A other \in Channel : Taken(other)
  <2>1. CASE ch = "drain"
    BY <2>1, NextRoundTaken DEF FailStore
  <2>2. CASE ch # "drain"
    <3>1. inflight \in [Channel -> Text \cup {Idle}]
      BY DEF TypeOK
    <3> QED BY <2>2, <3>1 DEF FailStore, Taken
  <2> QED BY <2>1, <2>2
<1> QED BY <1>1, <1>2, StoresApart

(* A store of the document lands: the branch has the file from now on.     *)
LEMMA LandedApart ==
  ASSUME TypeOK, TextsApart,
         NEW own \in Channel, inflight[own] # Idle, Landed(inflight[own]),
         \A ch \in Channel : Taken(ch)
  PROVE  TextsApart'
<1>0. /\ UNCHANGED <<head, tree, checkout, loaded, doc, tombstone, active, buffer>>
      /\ disk' = inflight[own] /\ base' = [base EXCEPT ![active] = inflight[own]]
  BY DEF Landed, headVars, document
<1>1. Worktree' = Worktree
  BY <1>0 DEF Worktree
<1>2. inflight[own] \in Text /\ Written(inflight[own], Worktree) /\ active = Worktree
  BY DEF TypeOK, TextsApart, FlightsApart
<1>3. disk' # NoFile
  BY <1>0, <1>2, NoFileIsNoText
<1>4. (\A b : Exists(b) => Exists(b)') /\ Exists(active)'
  BY <1>0, <1>1, <1>2, <1>3 DEF Exists
<1>5. FilesApart'
  BY <1>0, <1>1, <1>2, <1>3 DEF TextsApart, FilesApart, Written
<1>6. Written(doc, active)
  BY DEF TextsApart, DocumentApart, Stale
<1>7. DocumentApart'
  BY <1>0, <1>6 DEF TextsApart, DocumentApart, Written
<1>8. BasesApart'
  <2> SUFFICES ASSUME NEW b \in Branch, base'[b] # Undefined
               PROVE  Written(base'[b], b) /\ Exists(b)'
    BY DEF BasesApart, Written
  <2>1. base \in [Branch -> Text \cup {Undefined}]
    BY DEF TypeOK
  <2> QED BY <1>0, <1>2, <1>4, <2>1 DEF TextsApart, BasesApart
<1>9. FlightsApart'
  <2> SUFFICES ASSUME NEW ch \in Channel, inflight'[ch] # Idle
               PROVE  Written(inflight'[ch], Worktree') /\ active' = Worktree'
    BY DEF FlightsApart, Written
  <2>1. CASE inflight'[ch] = inflight[ch]
    BY <1>0, <1>1, <2>1 DEF TextsApart, FlightsApart
  <2>2. CASE inflight'[ch] = doc
    BY <1>0, <1>1, <1>2, <1>6, <2>2
  <2> QED BY <2>1, <2>2 DEF Taken
<1>10. EventsApart'
  BY <1>0, <1>4 DEF TextsApart, EventsApart, EventApart, Written
<1> QED BY <1>5, <1>7, <1>8, <1>9, <1>10 DEF TextsApart

LEMMA FinishStoreApart ==
  ASSUME TypeOK, TextsApart, FinishStore PROVE TextsApart'
<1>1. "hook" \in Channel /\ inflight \in [Channel -> Text \cup {Idle}]
  BY DEF TypeOK, Channel
<1>2. \A ch \in Channel : Taken(ch)
  BY <1>1 DEF FinishStore, Taken
<1> QED BY <1>1, <1>2, LandedApart DEF FinishStore

LEMMA FinishDrainApart ==
  ASSUME TypeOK, TextsApart, FinishDrain, ~leak' PROVE TextsApart'
<1>1. "drain" \in Channel
  BY DEF Channel
<1>2. \A ch \in Channel : Taken(ch)
  BY NextRoundTaken DEF FinishDrain
<1> QED BY <1>1, <1>2, LandedApart DEF FinishDrain

LEMMA ForeignWriteApart ==
  ASSUME TypeOK, TextsApart, ForeignWrite PROVE TextsApart'
<1>0. /\ UNCHANGED <<head, tree, checkout, loaded, doc, tombstone, active, base, buffer,
                     inflight>>
      /\ disk # NoFile /\ disk' = disk \cup {<<Worktree, edits + 1>>} /\ edits < MaxEdits
  BY DEF ForeignWrite, headVars, WorldMoves, document, stores, gateVars
<1>1. Worktree' = Worktree
  BY <1>0 DEF Worktree
<1>2. disk' # NoFile
  <2>1. disk \in Text /\ {<<Worktree, edits + 1>>} \in Text
    BY <1>0, TextsTyped DEF TypeOK
  <2> QED BY <1>0, <2>1, UnionTyped, NoFileIsNoText
<1>3. \A b \in Branch : Exists(b)' <=> Exists(b)
  BY <1>0, <1>1, <1>2 DEF Exists
<1>4. FilesApart'
  BY <1>0, <1>1, <1>2 DEF TextsApart, FilesApart, Written
<1> QED BY <1>0, <1>1, <1>3, <1>4, WorldApart, EventsBranches DEF TypeOK

LEMMA GitCommitApart ==
  ASSUME TypeOK, TextsApart, GitCommit PROVE TextsApart'
<1>0. /\ UNCHANGED <<head, disk, checkout, loaded, doc, tombstone, active, base, buffer,
                     inflight>>
      /\ checkout = None /\ (tree' = tree \/ tree' = [tree EXCEPT ![head] = disk])
  BY DEF GitCommit, GitOp, HeadUnchanged, WorldMoves, document, stores, gateVars
<1>1. Worktree' = Worktree /\ Worktree = head
  BY <1>0 DEF Worktree
<1>2. tree \in [Branch -> Text \cup {NoFile}] /\ head \in Branch
  BY DEF TypeOK, HeadTypeOK
<1>3. \A b \in Branch : Exists(b)' <=> Exists(b)
  BY <1>0, <1>1, <1>2 DEF TextsApart, FilesApart, Exists
<1>4. FilesApart'
  BY <1>0, <1>1, <1>2 DEF TextsApart, FilesApart, Written
<1> QED BY <1>0, <1>1, <1>3, <1>4, WorldApart, EventsBranches DEF TypeOK

LEMMA CheckoutFilesApart ==
  ASSUME TypeOK, TextsApart, NEW b \in Branch, CheckoutFiles(b), ~leak' PROVE TextsApart'
<1>0. /\ UNCHANGED <<head, tree, loaded, doc, tombstone, active, base, buffer,
                     inflight>>
      /\ checkout = None /\ disk = tree[head] /\ checkout' = b /\ disk' = tree[b]
      /\ \A ch \in Channel : inflight[ch] = Idle
  BY DEF CheckoutFiles, GitOp, HeadUnchanged, WorldMoves, document, stores, gateVars
<1>1. Worktree' = b /\ Worktree = head
  BY <1>0, NoneAssumption DEF Worktree
<1>2. \A other \in Branch : Exists(other)' <=> Exists(other)
  BY <1>0, <1>1 DEF Exists
<1>3. FilesApart'
  BY <1>0, <1>1 DEF TextsApart, FilesApart, Written
<1> QED BY <1>0, <1>2, <1>3, WorldApart, EventsBranches DEF TypeOK

LEMMA CheckoutHeadApart ==
  ASSUME TypeOK, TextsApart, CheckoutHead PROVE TextsApart'
<1>0. /\ UNCHANGED <<disk, tree, loaded, doc, tombstone, active, base, buffer,
                     inflight>>
      /\ checkout # None /\ checkout' = None /\ head' = checkout
  BY DEF CheckoutHead, MoveHead, WorldMoves, document, stores, gateVars
<1>1. Worktree' = Worktree
  BY <1>0 DEF Worktree
<1>2. \A b \in Branch : Exists(b)' <=> Exists(b)
  BY <1>0, <1>1 DEF Exists
<1>3. FilesApart'
  BY <1>0, <1>1 DEF TextsApart, FilesApart, Written
<1> QED BY <1>0, <1>1, <1>2, <1>3, WorldApart, EventsBranches DEF TypeOK

LEMMA SyncMergesApart ==
  ASSUME TypeOK, TextsApart, NEW h \in Holder, SyncMerges(h) PROVE TextsApart'
<1>0. /\ UNCHANGED <<head, checkout, loaded, doc, tombstone, active, base, buffer,
                     inflight>>
      /\ checkout = None /\ disk # NoFile /\ edits < MaxEdits
      /\ disk' = disk \cup {<<head, edits + 1>>} /\ tree' = [tree EXCEPT ![head] = disk']
  BY DEF SyncMerges, HeadUnchanged, WorldMoves, document, stores, gateVars
<1>1. Worktree' = Worktree /\ Worktree = head
  BY <1>0 DEF Worktree
<1>2. tree \in [Branch -> Text \cup {NoFile}] /\ head \in Branch
  BY DEF TypeOK, HeadTypeOK
<1>3. disk' # NoFile
  <2>1. disk \in Text /\ {<<head, edits + 1>>} \in Text
    BY <1>0, <1>2, TextsTyped DEF TypeOK
  <2> QED BY <1>0, <2>1, UnionTyped, NoFileIsNoText
<1>4. \A b \in Branch : Exists(b)' <=> Exists(b)
  BY <1>0, <1>1, <1>2, <1>3 DEF Exists
<1>5. FilesApart'
  <2>1. Written(disk', head)
    BY <1>0, <1>1 DEF TextsApart, FilesApart, Written
  <2>2. ASSUME NEW b \in Branch, tree'[b] # NoFile PROVE Written(tree'[b], b)
    BY <1>0, <1>2, <2>1, <2>2 DEF TextsApart, FilesApart
  <2> QED BY <1>0, <1>1, <1>3, <2>1, <2>2 DEF FilesApart, Written
<1> QED BY <1>0, <1>1, <1>4, <1>5, WorldApart, EventsBranches DEF TypeOK

-----------------------------------------------------------------------------
(* The document's own steps.                                               *)

LEMMA LoadApart ==
  ASSUME TypeOK, TextsApart, Load, ~mixed' PROVE TextsApart'
<1>0. /\ UNCHANGED <<head, tree, disk, checkout, active, buffer, inflight>>
      /\ loaded' = TRUE /\ doc' = DiskText /\ tombstone' = FALSE
      /\ base' = IF disk = NoFile THEN base ELSE [base EXCEPT ![active] = disk]
      /\ disk = NoFile \/ active = Worktree
  BY DEF Load, headVars, git, stores
<1>1. Worktree' = Worktree /\ (\A b : Exists(b)' = Exists(b)) /\ FilesApart'
  BY <1>0, SamePlace DEF TextsApart
<1>2. DocumentApart'
  BY <1>0 DEF TextsApart, FilesApart, DocumentApart, DiskText, Written
<1>3. BasesApart'
  <2> SUFFICES ASSUME NEW b \in Branch, base'[b] # Undefined
               PROVE  Written(base'[b], b) /\ Exists(b)
    BY <1>1 DEF BasesApart, Written
  <2>1. base \in [Branch -> Text \cup {Undefined}]
    BY DEF TypeOK
  <2> QED BY <1>0, <2>1 DEF TextsApart, BasesApart, FilesApart, Exists
<1>4. FlightsApart' /\ EventsApart'
  BY <1>0, <1>1 DEF TextsApart, FlightsApart, EventsApart, EventApart, Written
<1> QED BY <1>1, <1>2, <1>3, <1>4 DEF TextsApart

LEMMA UnloadApart ==
  ASSUME TypeOK, TextsApart, Unload PROVE TextsApart'
<1>0. /\ UNCHANGED <<head, tree, disk, checkout, active, buffer, inflight, base,
                     doc>> /\ doc = {}
  BY DEF Unload, headVars, git, stores, gateVars
<1>1. Worktree' = Worktree /\ (\A b : Exists(b)' = Exists(b)) /\ FilesApart'
  BY <1>0, SamePlace DEF TextsApart
<1> QED BY <1>0, <1>1 DEF TextsApart, DocumentApart, BasesApart, FlightsApart,
        EventsApart, EventApart, Written

LEMMA UserEditApart ==
  ASSUME TypeOK, TextsApart, UserEdit PROVE TextsApart'
<1>0. /\ UNCHANGED <<head, tree, disk, checkout, loaded, tombstone, active, buffer,
                     inflight, base>>
      /\ loaded /\ doc' = doc \cup {<<active, edits + 1>>}
  BY DEF UserEdit, headVars, git, stores, gateVars
<1>1. Worktree' = Worktree /\ (\A b : Exists(b)' = Exists(b)) /\ FilesApart'
  BY <1>0, SamePlace DEF TextsApart
<1>2. DocumentApart'
  BY <1>0, <1>1 DEF TextsApart, DocumentApart, Stale, Written
<1> QED BY <1>0, <1>1, <1>2 DEF TextsApart, BasesApart, FlightsApart, EventsApart,
        EventApart, Written

(* One event, and the replay of the buffer: either a text of another       *)
(* branch is noticed, or the document stays its branch's.                  *)
FineState(st) ==
  \/ st.mixed
  \/ /\ \/ Written(st.doc, active)
        \/ st.tombstone /\ ~Exists(active) /\ \A ch \in Channel : inflight[ch] = Idle
     /\ ~st.loaded => st.doc = {}
     /\ st.base # Undefined => Written(st.base, active) /\ Exists(active)

LEMMA HandledFine ==
  ASSUME TypeOK, NEW st \in DocState, NEW event \in Event, FineState(st), EventApart(event)
  PROVE  FineState(HandleEvent(st, event))
<1>1. CASE ~st.loaded \/ event.kind = "create"
  BY <1>1 DEF HandleEvent
<1>2. CASE st.loaded /\ event.kind = "delete"
  BY <1>2 DEF HandleEvent, HandleDelete, FineState, Written
<1>3. CASE st.loaded /\ event.kind = "update"
  <2> DEFINE bs  == IF st.base = Undefined THEN {} ELSE st.base
             new == MergeTexts(bs, st.doc, event.text)
             after == HandleUpdate(st, event)
  <2>0. HandleEvent(st, event) = after
    BY <1>3 DEF HandleEvent
  <2>1. CASE event.text = bs
    BY <2>0, <2>1 DEF HandleUpdate
  <2>2. CASE event.text # bs
    <3>1. /\ after.doc = new /\ after.base = new /\ after.loaded = st.loaded
          /\ after.mixed = (st.mixed \/ event.branch # active)
      BY <2>2 DEF HandleUpdate, DocState
    <3>2. CASE st.mixed \/ event.branch # active
      BY <2>0, <3>1, <3>2 DEF FineState
    <3>3. CASE ~st.mixed /\ event.branch = active
      <4>1. Exists(active) /\ Written(event.text, active)
        BY <1>3, <3>3 DEF EventApart
      <4>2. Written(st.doc, active) /\ Written(bs, active)
        BY <3>3, <4>1 DEF FineState, Written
      <4>3. Written(new, active)
        BY <4>1, <4>2 DEF MergeTexts, Written
      <4> QED BY <1>3, <2>0, <3>1, <4>1, <4>3 DEF FineState
    <3> QED BY <3>2, <3>3
  <2> QED BY <2>1, <2>2
<1> QED BY <1>1, <1>2, <1>3 DEF Event

LEMMA DocFine ==
  ASSUME TypeOK, TextsApart PROVE FineState(Doc)
<1>1. active \in Branch
  BY DEF TypeOK
<1> QED BY <1>1 DEF TextsApart, DocumentApart, Stale, BasesApart, FineState, Doc, Base

LEMMA ReplayFine ==
  ASSUME TypeOK, TextsApart PROVE FineState(After[Len(buffer)])
<1> DEFINE S == {st \in DocState : FineState(st)}
<1>1. buffer \in Seq(Event)
  BY DEF TypeOK, Event
<1>2. Doc \in S
  BY DocTyped, DocFine
<1>3. ASSUME NEW st \in DocState \cap S, NEW i \in 1 .. Len(buffer)
      PROVE  HandleEvent(st, buffer[i]) \in S
  <2>1. buffer[i] \in Event /\ EventApart(buffer[i])
    BY <1>1 DEF TextsApart, EventsApart
  <2> QED BY <2>1, HandledTyped, HandledFine
<1>4. After[Len(buffer)] \in S
  <2> HIDE DEF S
  <2> QED BY <1>2, <1>3, ReplayKeeps
<1> QED BY <1>4

LEMMA BecomesApart ==
  ASSUME TypeOK, TextsApart, NEW st \in DocState, FineState(st), Becomes(st), ~mixed',
         UNCHANGED <<head, tree, disk, checkout, active, inflight>>
  PROVE  FilesApart' /\ DocumentApart' /\ BasesApart' /\ FlightsApart'
<1>1. Worktree' = Worktree /\ (\A b : Exists(b)' = Exists(b)) /\ FilesApart'
  BY SamePlace DEF TextsApart
<1>2. /\ \/ Written(st.doc, active)
         \/ st.tombstone /\ ~Exists(active) /\ \A ch \in Channel : inflight[ch] = Idle
      /\ ~st.loaded => st.doc = {}
      /\ st.base # Undefined => Written(st.base, active) /\ Exists(active)
  BY DEF FineState, Becomes
<1>3. DocumentApart'
  BY <1>1, <1>2 DEF Becomes, DocumentApart, Stale, Written
<1>4. BasesApart'
  <2> SUFFICES ASSUME NEW b \in Branch, base'[b] # Undefined
               PROVE  Written(base'[b], b) /\ Exists(b)
    BY <1>1 DEF BasesApart, Written
  <2>1. base \in [Branch -> Text \cup {Undefined}]
    BY DEF TypeOK
  <2> QED BY <1>2, <2>1 DEF Becomes, TextsApart, BasesApart
<1>5. FlightsApart'
  BY <1>1 DEF TextsApart, FlightsApart, Written
<1> QED BY <1>1, <1>3, <1>4, <1>5

LEMMA DiskEventApart ==
  ASSUME TypeOK, TextsApart, DiskEvent, ~mixed' PROVE TextsApart'
<1>0. UNCHANGED <<head, tree, disk, checkout, active, inflight>>
  BY DEF DiskEvent, headVars
<1>1. Worktree' = Worktree /\ (\A b : Exists(b)' = Exists(b)) /\ FilesApart'
  BY <1>0, SamePlace DEF TextsApart
<1>2. PICK event : /\ event = [kind |-> IF disk = NoFile THEN "delete"
                                          ELSE IF known THEN "update" ELSE "create",
                                text |-> DiskText, branch |-> Worktree]
                   /\ IF disk = NoFile /\ ~known
                        THEN UNCHANGED <<document, deferred, base, atRisk, mixed,
                                         buffer>>
                      ELSE IF gate
                        THEN buffer' = Append(buffer, event)
                             /\ UNCHANGED <<document, deferred, base, atRisk, mixed>>
                        ELSE Becomes(HandleEvent(Doc, event)) /\ UNCHANGED buffer
  BY DEF DiskEvent
<1>3. event \in Event /\ EventApart(event)
  BY <1>2, TextsTyped DEF Event, EventApart, TextsApart, FilesApart, DiskText, Exists,
     Written
<1>4. CASE Becomes(HandleEvent(Doc, event)) /\ UNCHANGED buffer
  <2>1. HandleEvent(Doc, event) \in DocState /\ FineState(HandleEvent(Doc, event))
    BY <1>3, DocTyped, DocFine, HandledTyped, HandledFine
  <2>2. FilesApart' /\ DocumentApart' /\ BasesApart' /\ FlightsApart'
    BY <1>0, <1>4, <2>1, BecomesApart
  <2> QED BY <1>1, <1>4, <2>2 DEF TextsApart, EventsApart, EventApart, Written
<1>5. CASE UNCHANGED <<loaded, doc, tombstone, base>>
  <2>1. DocumentApart' /\ BasesApart' /\ FlightsApart'
    BY <1>0, <1>1, <1>5 DEF TextsApart, DocumentApart, Stale, BasesApart, FlightsApart,
       Written
  <2>2. CASE UNCHANGED buffer
    BY <1>1, <2>1, <2>2 DEF TextsApart, EventsApart, EventApart, Written
  <2>3. CASE buffer' = Append(buffer, event)
    <3>1. ASSUME NEW i \in 1 .. Len(buffer') PROVE EventApart(buffer'[i])
      <4>1. buffer \in Seq(Event)
        BY DEF TypeOK, Event
      <4>2. CASE i \in 1 .. Len(buffer)
        BY <2>3, <4>1, <4>2 DEF TextsApart, EventsApart
      <4>3. CASE i = Len(buffer) + 1
        BY <1>3, <2>3, <4>1, <4>3
      <4> QED BY <2>3, <4>1, <4>2, <4>3
    <3>2. EventsApart'
      BY <1>1, <3>1 DEF EventsApart, EventApart, Written
    <3> QED BY <1>1, <2>1, <3>2 DEF TextsApart
  <2> QED BY <1>2, <1>4, <2>2, <2>3
<1> QED BY <1>2, <1>4, <1>5 DEF document

LEMMA EndWithinBranchApart ==
  ASSUME TypeOK, TextsApart, NEW e \in Call, EndWithinBranch(e), ~mixed' PROVE TextsApart'
<1>0. /\ UNCHANGED <<head, tree, disk, checkout, active, inflight>>
      /\ Becomes(After[Len(buffer)]) /\ buffer' = <<>>
  BY DEF EndWithinBranch, EndBatch, git
<1>1. FilesApart' /\ DocumentApart' /\ BasesApart' /\ FlightsApart'
  BY <1>0, ReplayTyped, ReplayFine, BecomesApart
<1>2. EventsApart'
  BY <1>0 DEF EventsApart
<1> QED BY <1>1, <1>2 DEF TextsApart

LEMMA EndOtherBranchApart ==
  ASSUME TypeOK, TextsApart, NEW e \in Call, EndOtherBranch(e), ~mixed' PROVE TextsApart'
<1>0. /\ UNCHANGED <<head, tree, disk, checkout, loaded, inflight>>
      /\ buffer' = <<>> /\ active' = head /\ head = Worktree
      /\ IF ~loaded THEN UNCHANGED <<doc, tombstone, base>>
         ELSE IF disk = NoFile
           THEN tombstone' = TRUE /\ UNCHANGED <<doc, base>>
           ELSE doc' = disk /\ base' = [base EXCEPT ![head] = disk] /\ UNCHANGED tombstone
  BY DEF EndOtherBranch, EndBatch, git, stores
<1>1. Worktree' = Worktree /\ (\A b : Exists(b)' = Exists(b)) /\ FilesApart'
  BY <1>0, SamePlace DEF TextsApart
<1>2. head \in Branch /\ base \in [Branch -> Text \cup {Undefined}]
  BY DEF TypeOK, HeadTypeOK
<1>3. FlightsApart'
  BY <1>0, <1>1 DEF TextsApart, FlightsApart, Written
<1>4. EventsApart'
  BY <1>0 DEF EventsApart
<1>5. CASE ~loaded
  BY <1>0, <1>1, <1>3, <1>4, <1>5 DEF TextsApart, DocumentApart, BasesApart, Written
<1>6. CASE loaded /\ disk # NoFile
  <2>1. Written(disk, head) /\ Exists(head)
    BY <1>0, <1>6 DEF TextsApart, FilesApart, Exists
  <2>2. DocumentApart'
    BY <1>0, <1>6, <2>1 DEF DocumentApart, Written
  <2>3. ASSUME NEW b \in Branch, base'[b] # Undefined
        PROVE Written(base'[b], b) /\ Exists(b)
    BY <1>0, <1>2, <1>6, <2>1, <2>3 DEF TextsApart, BasesApart
  <2>4. BasesApart'
    BY <1>1, <2>3 DEF BasesApart, Written
  <2> QED BY <1>1, <1>3, <1>4, <2>2, <2>4 DEF TextsApart
<1>7. CASE loaded /\ disk = NoFile
  <2>1. ~Exists(head)
    BY <1>0, <1>7 DEF TextsApart, FilesApart, Exists
  <2>2. CASE active = head
    BY <1>0, <1>1, <1>3, <1>4, <1>7, <2>2 DEF TextsApart, DocumentApart, Stale,
       BasesApart, Written
  <2>3. CASE active # head
    <3>1. \A ch \in Channel : inflight[ch] = Idle
      BY <1>0, <2>3 DEF TextsApart, FlightsApart
    <3> QED BY <1>0, <1>1, <1>3, <1>4, <1>7, <2>1, <3>1
            DEF TextsApart, DocumentApart, Stale, BasesApart, Written
  <2> QED BY <2>2, <2>3
<1> QED BY <1>5, <1>6, <1>7

(* What was parked comes back to the branch it was parked on.              *)
LEMMA RestoreParkedApart ==
  ASSUME TypeOK, TextsApart, ParksApart, Switching, NEW e \in Call, RestoreParked(e)
  PROVE  TextsApart'
<1>0. UNCHANGED <<head, tree, disk, checkout, loaded, tombstone, active, buffer,
                  inflight>>
  BY DEF RestoreParked, headVars, git, stores
<1>1. Worktree' = Worktree /\ (\A b : Exists(b)' = Exists(b)) /\ FilesApart'
  BY <1>0, SamePlace DEF TextsApart
<1>2. FlightsApart' /\ EventsApart'
  BY <1>0, <1>1 DEF TextsApart, FlightsApart, EventsApart, EventApart, Written
<1>3. PICK park, text :
        /\ park = IF BatchKind(call[e].old, call[e].new) = "cross-branch"
                    THEN parked[call[e].new] ELSE None
        /\ text = MergeTexts(park.diskSnapshot, park.markdown, Base)
        /\ IF ToRestore(park)
             THEN doc' = text /\ base' = [base EXCEPT ![active] = text]
             ELSE UNCHANGED <<doc, base>>
  BY DEF RestoreParked
<1>4. active \in Branch /\ base \in [Branch -> Text \cup {Undefined}]
  BY DEF TypeOK
<1>5. CASE ToRestore(park)
  <2>1. park = parked[active] /\ park # None /\ park.markdown # park.diskSnapshot
    BY <1>3, <1>5 DEF ToRestore, Switching, RestoreParked
  <2>2. Written(park.markdown, active) /\ Written(park.diskSnapshot, active)
    BY <1>4, <2>1 DEF ParksApart, ParkApart
  <2>3. loaded /\ Base # Undefined
    BY <1>5 DEF ToRestore, BaseText
  <2>4. Written(Base, active) /\ Exists(active)
    BY <1>4, <2>3 DEF TextsApart, BasesApart, Base
  <2>5. Written(text, active)
    BY <1>3, <2>2, <2>4 DEF MergeTexts, Written
  <2>6. DocumentApart'
    BY <1>0, <1>3, <1>5, <2>3, <2>5 DEF DocumentApart, Written
  <2>7. ASSUME NEW b \in Branch, base'[b] # Undefined
        PROVE Written(base'[b], b) /\ Exists(b)
    BY <1>3, <1>4, <1>5, <2>4, <2>5, <2>7 DEF TextsApart, BasesApart
  <2>8. BasesApart'
    BY <1>1, <2>7 DEF BasesApart, Written
  <2> QED BY <1>1, <1>2, <2>6, <2>8 DEF TextsApart
<1>6. CASE ~ToRestore(park)
  BY <1>0, <1>1, <1>2, <1>3, <1>6 DEF TextsApart, DocumentApart, Stale, BasesApart,
     Written
<1> QED BY <1>5, <1>6

(* The steps that touch no text.                                           *)
LEMMA QuietApart ==
  ASSUME TextsApart, UNCHANGED <<head, tree, disk, checkout, loaded, doc, tombstone,
                                 active, base, buffer, inflight>>
  PROVE  TextsApart'
BY StoresApart DEF Taken

-----------------------------------------------------------------------------
(* What is parked, and for whom.                                           *)
LEMMA ParksNext ==
  ASSUME TypeOK, TextsApart, ParksApart, [Next]_vars PROVE ParksApart'
<1>0. /\ task \in [Call -> Task] /\ parked \in [Branch -> ParkedDoc \cup {None}]
      /\ active \in Branch
  BY TypeParts DEF TasksTyped, GateTyped
<1>1. CASE UNCHANGED <<parked, task>>
  BY <1>1 DEF ParksApart, ParkApart, Written
<1>2. ASSUME NEW c \in Call, NEW at, Step(c, Now(at)), UNCHANGED parked
      PROVE ParksApart'
  BY <1>0, <1>2 DEF Step, Now, ParksApart, ParkApart, Written, Task
<1>3. ASSUME NEW c \in Call, RaiseGate(c) PROVE ParksApart'
  <2> DEFINE taken == [branch |-> active, markdown |-> doc,
                       diskSnapshot |-> IF Base = Undefined THEN doc ELSE Base]
  <2>1. UNCHANGED parked /\
        task' = [task EXCEPT ![c] = [at |-> "park", park |-> IF loaded THEN taken ELSE None]]
    BY <1>3 DEF RaiseGate, Step
  <2>2. ParkApart(taken)
    <3>1. CASE Base = Undefined
      BY <3>1 DEF ParkApart
    <3>2. CASE Base # Undefined
      <4>1. Written(Base, active) /\ Exists(active)
        BY <1>0, <3>2 DEF TextsApart, BasesApart, Base
      <4>2. Written(doc, active)
        BY <4>1 DEF TextsApart, DocumentApart, Stale
      <4> QED BY <3>2, <4>1, <4>2 DEF ParkApart
    <3> QED BY <3>1, <3>2
  <2>3. ASSUME NEW d \in Call, task'[d].park # None PROVE ParkApart(task'[d].park)
    BY <1>0, <2>1, <2>2, <2>3 DEF ParksApart, Task
  <2> QED BY <2>1, <2>3 DEF ParksApart, ParkApart, Written
<1>4. ASSUME NEW c \in Call, ParkDone(c) PROVE ParksApart'
  <2>1. task' = [task EXCEPT ![c] = NoTask]
    BY <1>4 DEF ParkDone, Step
  <2>2. \/ UNCHANGED parked
        \/ /\ task[c].park # None
           /\ parked' = [parked EXCEPT ![task[c].park.branch] = task[c].park]
    BY <1>4 DEF ParkDone
  <2>3. ASSUME NEW d \in Call, task'[d].park # None PROVE ParkApart(task'[d].park)
    BY <1>0, <2>1, <2>3 DEF ParksApart, NoTask, Task
  <2>4. ASSUME NEW b \in Branch, parked'[b] # None
        PROVE parked'[b].branch = b /\ ParkApart(parked'[b])
    BY <1>0, <2>2, <2>4 DEF ParksApart
  <2> QED BY <2>3, <2>4 DEF ParksApart, ParkApart, Written
<1>5. ASSUME NEW c \in Call, EndDone(c) PROVE ParksApart'
  BY <1>0, <1>5 DEF EndDone, Step, NoTask, ParksApart, ParkApart, Written, Task
<1>6. ASSUME NEW c \in Call, Reopen(c) PROVE ParksApart'
  <2>1. task' = [task EXCEPT ![c] = Now("flush")]
    BY <1>6 DEF Reopen, Step
  <2>2. UNCHANGED parked \/ parked' = [parked EXCEPT ![call[c].old] = None]
    BY <1>6 DEF Reopen
  <2>3. ASSUME NEW d \in Call, task'[d].park # None PROVE ParkApart(task'[d].park)
    BY <1>0, <2>1, <2>3 DEF ParksApart, Now, Task
  <2>4. ASSUME NEW b \in Branch, parked'[b] # None
        PROVE parked'[b].branch = b /\ ParkApart(parked'[b])
    BY <1>0, <2>2, <2>4 DEF ParksApart
  <2> QED BY <2>3, <2>4 DEF ParksApart, ParkApart, Written
<1>7. ASSUME NEW c \in Call, Callback(c) PROVE ParksApart'
  <2>1. CASE BeginBatch(c) \/ EndWithinBranch(c) \/ FlushWithinBranch(c) \/
            EndOtherBranch(c) \/ RestoreParked(c)
    <3>1. UNCHANGED parked /\ \E at : Step(c, Now(at))
      BY <2>1 DEF BeginBatch, EndWithinBranch, FlushWithinBranch, EndOtherBranch,
         RestoreParked
    <3> QED BY <1>2, <3>1
  <2>2. CASE NoBatchToEnd(c)
    BY <1>1, <2>2 DEF NoBatchToEnd, gateVars
  <2> QED BY <1>3, <1>4, <1>5, <1>6, <1>7, <2>1, <2>2 DEF Callback
<1>8. CASE Store \/ \E ch \in Channel : FailStore(ch)
  BY <1>1, <1>8 DEF Store, DeferStore, SkipStore, BeginStore, FinishStore, FinishDrain,
     FailStore,
     Landed, gateVars
<1>9. CASE Client \/ DiskEvent \/ GitEventJoins \/ CheckoutHead \/ UNCHANGED vars
  BY <1>1, <1>9 DEF Client, Load, Unload, UserEdit, DiskEvent, GitEventJoins,
     CheckoutHead,
     WorldMoves, vars, gateVars
<1>10. CASE World \/ \E h \in Holder : SyncReleases(h)
  BY <1>1, <1>10 DEF World, ForeignWrite, GitCommit, CheckoutFiles, SyncHolds,
     SyncMerges, SyncReleases,
     WorldMoves, gateVars
<1> QED BY <1>7, <1>8, <1>9, <1>10 DEF Next

(* Only an end that nobody overtook restores, and it restores the branch   *)
(* it has made the active one.                                             *)
LEMMA SwitchingNext ==
  ASSUME TypeOK, TasksEnd, Switching, ~overlapped', [Next]_vars PROVE Switching'
<1>0. task \in [Call -> Task] /\ call \in [Call -> CallState \cup {Free}]
  BY TypeParts DEF TasksTyped, HeadTypeOK
<1>1. CASE UNCHANGED <<task, call, active>>
  BY <1>1 DEF Switching, InTask
<1>2. ASSUME NEW c \in Call, UNCHANGED active, ~InTask(c, "rebuild")', NEW state,
             UNCHANGED call \/ (call' = [call EXCEPT ![c] = state] /\ ~InTask(c, "rebuild")),
             NEW t, UNCHANGED task \/ Step(c, t)
      PROVE  Switching'
  BY <1>0, <1>2 DEF Step, Switching, InTask
<1>3. ASSUME NEW c \in Call, EndBatch(c) PROVE \A d \in Call : ~InTask(d, "rebuild")
  BY <1>3 DEF EndBatch, Ending, TasksEnd, EndTask, InTask
<1>4. ASSUME NEW c \in Call, EndOtherBranch(c) PROVE Switching'
  <2>1. /\ call' = [call EXCEPT ![c] =
              [stage |-> "end", awaits |-> None, old |-> lastKnownBranch, new |-> head]]
        /\ active' = head /\ task' = [task EXCEPT ![c] = Now("rebuild")] /\ EndBatch(c)
    BY <1>4 DEF EndOtherBranch, EndBatch, Step
  <2> QED BY <1>0, <1>3, <2>1 DEF Switching, InTask
<1>5. ASSUME NEW c \in Call, EndWithinBranch(c) PROVE Switching'
  <2>1. EndBatch(c) /\ UNCHANGED active /\ task' = [task EXCEPT ![c] = Now("drain")]
    BY <1>5 DEF EndWithinBranch, Step
  <2> QED BY <1>0, <1>3, <2>1 DEF Switching, InTask, Now
<1>6. ASSUME NEW c \in Call, BeginBatch(c) \/ ParkDone(c) \/ EndDone(c) \/ RaiseGate(c)
                               \/ FlushWithinBranch(c) \/ RestoreParked(c) \/ Reopen(c)
      PROVE  Switching'
  <2>1. UNCHANGED active /\ \E t : Step(c, t) /\ t.at # "rebuild"
    BY <1>6 DEF BeginBatch, ParkDone, EndDone, RaiseGate, FlushWithinBranch,
       RestoreParked, Reopen, Now, NoTask
  <2>2. PICK t : task' = [task EXCEPT ![c] = t] /\ t.at # "rebuild"
    BY <2>1 DEF Step
  <2>3. \A d \in Call \ {c} : call'[d] = call[d]
    BY <1>0, <1>6 DEF BeginBatch, OpenBatch, ParkDone, BeginReturns, EndDone,
       EndReturns, RaiseGate,
       FlushWithinBranch, RestoreParked, Reopen, headVars
  <2> QED BY <1>0, <2>1, <2>2, <2>3 DEF Switching, InTask
<1>7. ASSUME NEW c \in Call, NoBatchToEnd(c) PROVE Switching'
  <2>1. UNCHANGED <<active, task>> /\ ~At(c,
                    "end") /\ \A d \in Call \ {c} : call'[d] = call[d]
    BY <1>0, <1>7 DEF NoBatchToEnd, EndNothing, AwaitBegin, Resumed, At, gateVars
  <2> QED BY <2>1 DEF Switching, InTask, TasksEnd, EndTask
<1>8. ASSUME NEW c \in Call, Callback(c) PROVE Switching'
  BY <1>4, <1>5, <1>6, <1>7, <1>8 DEF Callback
<1>9. CASE Store \/ \E ch \in Channel : FailStore(ch)
  BY <1>1, <1>9 DEF Store, DeferStore, SkipStore, BeginStore, FinishStore, FinishDrain,
     FailStore,
     Landed, headVars, gateVars
<1>10. CASE Client \/ DiskEvent \/ GitEventJoins \/ CheckoutHead \/ UNCHANGED vars
  BY <1>1, <1>10 DEF Client, Load, Unload, UserEdit, DiskEvent, GitEventJoins,
     JoinBatch, CheckoutHead,
     MoveHead, WorldMoves, vars, headVars, gateVars
<1>11. CASE World \/ \E h \in Holder : SyncReleases(h)
  BY <1>1, <1>11 DEF World, ForeignWrite, GitCommit, CheckoutFiles, SyncHolds,
     SyncMerges, SyncReleases,
     HeadUnchanged, WorldMoves, headVars, gateVars
<1> QED BY <1>8, <1>9, <1>10, <1>11 DEF Next

LEMMA ReplayMixed ==
  ASSUME TypeOK, mixed PROVE After[Len(buffer)].mixed
<1> DEFINE S == {st \in DocState : st.mixed}
<1>1. buffer \in Seq(Event)
  BY DEF TypeOK, Event
<1>2. Doc \in S
  BY DocTyped DEF Doc
<1>3. ASSUME NEW st \in DocState \cap S, NEW i \in 1 .. Len(buffer)
      PROVE  HandleEvent(st, buffer[i]) \in S
  <2>1. HandleEvent(st, buffer[i]).mixed
    BY DEF HandleEvent, HandleDelete, HandleUpdate, DocState
  <2> QED BY <1>1, <2>1, HandledTyped
<1>4. After[Len(buffer)] \in S
  <2> HIDE DEF S
  <2> QED BY <1>2, <1>3, ReplayKeeps
<1> QED BY <1>4

(* What is excused stays excused.                                          *)
LEMMA LeakStays ==
  ASSUME leak, [Next]_vars PROVE leak'
<1>1. CASE UNCHANGED vars
  BY <1>1 DEF vars, ghosts
<1>2. ASSUME NEW mode, NEW bs, DrainRound(mode, bs) PROVE leak'
  BY <1>2 DEF DrainRound
<1>3. ASSUME NEW mode, FlushDeferredStores(mode) PROVE leak'
  BY <1>2, <1>3 DEF FlushDeferredStores
<1>4. ASSUME NEW bs, NextRound(bs) PROVE leak'
  BY <1>2, <1>4 DEF NextRound
<1>5. CASE Store \/ \E ch \in Channel : FailStore(ch)
  BY <1>4, <1>5 DEF Store, DeferStore, SkipStore, BeginStore, FinishStore, FinishDrain,
     FailStore, ghosts
<1>6. CASE Client \/ DiskEvent \/ GitEventJoins \/ CheckoutHead
  BY <1>6 DEF Client, Load, Unload, UserEdit, DiskEvent, GitEventJoins, CheckoutHead,
     ghosts
<1>7. CASE World \/ \E h \in Holder : SyncReleases(h)
  BY <1>3, <1>7 DEF World, ForeignWrite, GitCommit, CheckoutFiles, SyncHolds,
     SyncMerges, SyncReleases, ghosts
<1>8. ASSUME NEW c \in Call, Callback(c) PROVE leak'
  BY <1>3, <1>8 DEF Callback, BeginBatch, RaiseGate, ParkDone, NoBatchToEnd,
     EndWithinBranch, FlushWithinBranch, EndOtherBranch, RestoreParked, Reopen, EndDone,
     ghosts
<1> QED BY <1>1, <1>5, <1>6, <1>7, <1>8 DEF Next

LEMMA OverlapStays ==
  ASSUME overlapped, [Next]_vars PROVE overlapped'
<1>1. CASE Store \/ \E ch \in Channel : FailStore(ch)
  BY <1>1 DEF Store, DeferStore, SkipStore, BeginStore, FinishStore, FinishDrain,
     FailStore, Landed, headVars
<1>2. CASE Client \/ DiskEvent \/ GitEventJoins \/ CheckoutHead \/ UNCHANGED vars
  BY <1>2 DEF Client, Load, Unload, UserEdit, DiskEvent, GitEventJoins, JoinBatch,
     CheckoutHead, MoveHead, vars, headVars
<1>3. CASE World \/ \E h \in Holder : SyncReleases(h)
  BY <1>3 DEF World, ForeignWrite, GitCommit, CheckoutFiles, SyncHolds, SyncMerges,
     SyncReleases, HeadUnchanged, headVars
<1>4. ASSUME NEW c \in Call, Callback(c) PROVE overlapped'
  BY <1>4 DEF Callback, BeginBatch, OpenBatch, RaiseGate, ParkDone, BeginReturns,
     NoBatchToEnd, EndNothing, AwaitBegin, EndWithinBranch, EndBatch, FlushWithinBranch,
     EndOtherBranch, RestoreParked, Reopen, EndDone, EndReturns, headVars
<1> QED BY <1>1, <1>2, <1>3, <1>4 DEF Next

LEMMA ExcusedStays ==
  ASSUME TypeOK, Excused, [Next]_vars PROVE Excused'
<1>1. CASE UNCHANGED vars
  BY <1>1 DEF vars, headVars, ghosts, Excused
<1>7. ASSUME NEW st \in DocState, NEW event, st.mixed PROVE HandleEvent(st, event).mixed
  BY <1>7 DEF HandleEvent, HandleDelete, HandleUpdate, DocState
<1>8. mixed => mixed'
  <2>0. SUFFICES ASSUME mixed PROVE mixed'
    OBVIOUS
  <2>1. CASE Store \/ \E ch \in Channel : FailStore(ch)
    BY <2>0, <2>1 DEF Store, DeferStore, SkipStore, BeginStore, FinishStore,
       FinishDrain, FailStore, Landed, ghosts
  <2>2. CASE Client \/ GitEventJoins \/ CheckoutHead
    BY <2>0, <2>2 DEF Client, Load, Unload, UserEdit, GitEventJoins, CheckoutHead,
       WorldMoves, ghosts
  <2>3. CASE DiskEvent
    BY <1>7, <2>0, <2>3, DocTyped DEF DiskEvent, Becomes, Doc
  <2>4. CASE World \/ \E h \in Holder : SyncReleases(h)
    BY <2>0, <2>4 DEF World, ForeignWrite, GitCommit, CheckoutFiles, SyncHolds,
       SyncMerges, SyncReleases,
       WorldMoves, ghosts
  <2>5. ASSUME NEW c \in Call, EndWithinBranch(c) PROVE mixed'
    BY <2>0, <2>5, ReplayMixed DEF EndWithinBranch, Becomes
  <2>6. ASSUME NEW c \in Call, Callback(c) PROVE mixed'
    BY <2>0, <2>5, <2>6 DEF Callback, BeginBatch, RaiseGate, ParkDone, NoBatchToEnd,
       FlushWithinBranch,
       EndOtherBranch, RestoreParked, Reopen, EndDone, ghosts
  <2> QED BY <1>1, <2>0, <2>1, <2>2, <2>3, <2>4, <2>6 DEF Next, vars, ghosts
<1> QED BY LeakStays, OverlapStays, <1>8 DEF Excused

Isolated == Excused \/ Apart

LEMMA IsolatedNext ==
  ASSUME TypeInv, Isolated, [Next]_vars PROVE Isolated'
<1>1. SUFFICES ASSUME ~Excused' PROVE Apart'
  BY DEF Isolated
<1>2. TypeOK /\ TasksEnd /\ TextsApart /\ ParksApart /\ Switching /\ ~leak' /\
      ~mixed' /\ ~overlapped'
  BY <1>1, ExcusedStays DEF TypeInv, Isolated, Apart, Excused
<1>3. ParksApart' /\ Switching'
  BY <1>2, ParksNext, SwitchingNext
<1>4. TextsApart'
  <2>1. CASE Client
    BY <1>2, <2>1, LoadApart, UnloadApart, UserEditApart DEF Client
  <2>2. CASE DeferStore \/ SkipStore \/ GitEventJoins
    <3>1. UNCHANGED <<head, tree, disk, checkout, loaded, doc, tombstone, active, base,
                      buffer, inflight>>
      BY <2>2 DEF DeferStore, SkipStore, GitEventJoins, JoinBatch, headVars, git,
         document, stores, gateVars
    <3> QED BY <1>2, <3>1, QuietApart
  <2>3. CASE Store \/ \E ch \in Channel : FailStore(ch)
    BY <1>2, <2>2, <2>3, BeginStoreApart, FinishStoreApart, FinishDrainApart,
       FailStoreApart DEF Store
  <2>4. CASE World
    <3>1. ASSUME NEW h \in Holder, SyncHolds(h) PROVE TextsApart'
      <4>1. UNCHANGED <<head, tree, disk, checkout, loaded, doc, tombstone, active,
                        base, buffer, inflight>>
        BY <3>1 DEF SyncHolds, headVars, git, document, stores
      <4> QED BY <1>2, <4>1, QuietApart
    <3> QED BY <1>2, <2>4, <3>1, ForeignWriteApart, GitCommitApart, CheckoutFilesApart,
            SyncMergesApart DEF World
  <2>5. CASE DiskEvent \/ CheckoutHead
    BY <1>2, <2>5, DiskEventApart, CheckoutHeadApart
  <2>6. ASSUME NEW c \in Call, BeginBatch(c) \/ RaiseGate(c) \/ ParkDone(c) \/
            NoBatchToEnd(c) \/ EndDone(c)
        PROVE  TextsApart'
    <3>1. UNCHANGED <<head, tree, disk, checkout, loaded, doc, tombstone, active, base,
                      buffer, inflight>>
      BY <2>6 DEF BeginBatch, OpenBatch, RaiseGate, ParkDone, BeginReturns,
         NoBatchToEnd, EndNothing, AwaitBegin,
         EndDone, EndReturns, headVars, git, document, stores, gateVars
    <3> QED BY <1>2, <3>1, QuietApart
  <2>7. ASSUME NEW c \in Call, FlushWithinBranch(c) \/ Reopen(c) PROVE TextsApart'
    <3>1. UNCHANGED <<head, tree, disk, checkout, loaded, doc, tombstone, active, base,
                      buffer>>
      BY <2>7 DEF FlushWithinBranch, Reopen, headVars, git, document
    <3>2. \A ch \in Channel : Taken(ch)
      BY <1>2, <2>7, FlushTaken DEF FlushWithinBranch, Reopen
    <3> QED BY <1>2, <3>1, <3>2, StoresApart
  <2>8. ASSUME NEW h \in Holder, SyncReleases(h) PROVE TextsApart'
    <3>1. UNCHANGED <<head, tree, disk, checkout, loaded, doc, tombstone, active, base,
                      buffer>>
      BY <2>8 DEF SyncReleases, headVars, git, document
    <3>2. \A ch \in Channel : Taken(ch)
      BY <1>2, <2>8, FlushTaken DEF SyncReleases
    <3> QED BY <1>2, <3>1, <3>2, StoresApart
  <2>9. ASSUME NEW c \in Call, Callback(c) PROVE TextsApart'
    BY <1>2, <2>6, <2>7, <2>9, EndWithinBranchApart, EndOtherBranchApart,
       RestoreParkedApart DEF Callback
  <2>10. CASE UNCHANGED vars
    BY <1>2, <2>10, QuietApart DEF vars, headVars, git, document, stores, gateVars
  <2> QED BY <2>1, <2>2, <2>3, <2>4, <2>5, <2>8, <2>9, <2>10 DEF Next
<1> QED BY <1>3, <1>4 DEF Apart

LEMMA IsolatedInit ==
  ASSUME Init PROVE Isolated
<1>1. TypeOK /\ Worktree = head /\ head \in Branch
  BY TypeInit DEF Init, Worktree, TypeOK, HeadTypeOK
<1>2. PICK absent \in SUBSET MayLack :
        tree = [b \in Branch |-> IF b \in absent THEN NoFile ELSE {<<b, 0>>}]
  BY DEF Init
<1>3. \A b \in Branch : tree[b] # NoFile => Written(tree[b], b)
  BY <1>2 DEF Written
<1>4. FilesApart
  BY <1>1, <1>3 DEF Init, FilesApart
<1>5. /\ doc = {} /\ base = [b \in Branch |-> Undefined]
      /\ inflight = [ch \in Channel |-> Idle]
      /\ buffer = <<>> /\ task = [c \in Call |-> NoTask]
  BY DEF Init
<1>6. DocumentApart /\ BasesApart /\ FlightsApart /\ EventsApart
  BY <1>5 DEF DocumentApart, BasesApart, FlightsApart, EventsApart, Written
<1>7. Switching
  BY <1>5 DEF Switching, InTask, NoTask
<1>8. \A b \in Branch : parked[b] # None => parked[b].branch = b /\ ParkApart(parked[b])
  <2>1. CASE parked = [b \in Branch |-> None]
    BY <2>1
  <2>2. CASE parked # [b \in Branch |-> None]
    <3>1. PICK b \in Branch : /\ tree[b] # NoFile
               /\ parked = [other \in Branch |-> IF other # b THEN None ELSE
                    [branch |-> b, markdown |-> tree[b] \cup {<<b, MaxEdits + 1>>},
                     diskSnapshot |-> tree[b]]]
      BY <2>2 DEF Init
    <3> QED BY <1>3, <3>1 DEF ParkApart, Written
  <2> QED BY <2>1, <2>2
<1> QED BY <1>4, <1>5, <1>6, <1>7, <1>8 DEF Isolated, Apart, TextsApart, ParksApart,
        NoTask

(* What was written on one branch is never in the file of another.         *)
THEOREM BranchesStayApart == Spec => []BranchIsolation
<1>1. Init => TypeInv /\ Isolated
  BY TypeInvInit, IsolatedInit
<1>2. TypeInv /\ Isolated /\ [Next]_vars => TypeInv' /\ Isolated'
  BY TypeInvNext, IsolatedNext
<1>3. TypeInv /\ Isolated => BranchIsolation
  BY DEF TypeInv, TypeOK, Isolated, Excused, Apart, TextsApart, FilesApart,
     BranchIsolation, Written, DiskText
<1> QED BY <1>1, <1>2, <1>3, PTL DEF Spec

-----------------------------------------------------------------------------
(* The order of a batch, while no event overtakes an end: the begin of the *)
(* batch is over when its end is called, one end runs at a time, and what  *)
(* is parked is the active branch's.                                       *)
Parking(c) == InTask(c, "park") /\ task[c].park # None
BeginTask  == {"commit", "park"}

CallInOrder(c) ==
  /\ At(c, "begin") <=> beginInFlight = c
  /\ At(c, "begin") <=> task[c].at \in BeginTask
  /\ At(c, "end") <=> task[c].at \in EndTask
  /\ At(c, "end") => inBatch /\ active = call[c].new
  /\ At(c, "waiting") => call[c].awaits # None /\ beginInFlight \in {None, call[c].awaits}
  /\ InTask(c, "rebuild") => call[c].new \in Detached \/ call[c].old # call[c].new
  /\ Parking(c) => task[c].park.branch = active
BatchInOrder ==
  /\ \A c, d \in Call : At(c, "end") /\ At(d, "end") => c = d
  /\ beginInFlight # None => inBatch /\ ~Ending
  /\ ~Ending => active = lastKnownBranch
InOrder == BatchInOrder /\ \A c \in Call : CallInOrder(c)

batchVars == <<inBatch, beginInFlight, lastKnownBranch, call, task, active>>

LEMMA OrderStays ==
  ASSUME InOrder, UNCHANGED batchVars PROVE InOrder'
BY DEF InOrder, BatchInOrder, CallInOrder, batchVars, At, Ending, InTask, Parking

(* No end is called while a begin is under way.                            *)
LEMMA EndAlone ==
  ASSUME InOrder, NEW e \in Call, EndBatch(e), ~overlapped'
  PROVE  /\ beginInFlight = None /\ inBatch /\ active = lastKnownBranch
         /\ \A c \in Call : task[c].at \notin BeginTask \cup EndTask /\ ~At(c, "end")
<1>1. beginInFlight = None
  BY DEF EndBatch, Resumed, InOrder, CallInOrder
<1>2. ~Ending /\ inBatch
  BY DEF EndBatch
<1> QED BY <1>1, <1>2, NoneAssumption DEF InOrder, BatchInOrder, CallInOrder, Ending

LEMMA OrderNext ==
  ASSUME TypeOK, InOrder, [Next]_vars, ~overlapped' PROVE InOrder'
<1>0. /\ call \in [Call -> CallState \cup {Free}] /\ task \in [Call -> Task]
      /\ head \in Branch /\ lastKnownBranch \in Branch
      /\ beginInFlight \in Call \cup {None}
  BY TypeParts DEF HeadTypeOK, TasksTyped
<1>a. \A x \in Call \cup {None}, y, z \in Branch \cup {None}, s \in {"begin", "waiting", "end"} :
        [stage |-> s, awaits |-> x, old |-> y, new |-> z] # Free
  BY NoneAssumption
<1>1. CASE UNCHANGED batchVars
  BY <1>1, OrderStays
<1>2. ASSUME NEW c \in Call, BeginBatch(c) PROVE InOrder'
  <2>0. /\ call[c] = Free /\ ~inBatch /\ inBatch' = TRUE /\ beginInFlight' = c
        /\ call' = [call EXCEPT ![c] =
             [stage |-> "begin", awaits |-> None, old |-> None, new |-> None]]
        /\ task' = [task EXCEPT ![c] = Now("commit")]
        /\ UNCHANGED <<lastKnownBranch, active>> /\ ~Ending
        /\ \A e \in Call : ~Resumed(e)
    BY <1>2 DEF BeginBatch, OpenBatch, Step
  <2>1. beginInFlight = None
    BY <2>0 DEF InOrder, BatchInOrder
  <2>2. \A d \in Call : ~At(d, "waiting")
    BY <2>0, <2>1 DEF Resumed, InOrder, CallInOrder
  <2>3. At(c, "begin")'
    BY <1>0, <1>a, <2>0 DEF At
  <2>4. \A d \in Call : ~At(d, "end")' /\ ~At(d, "waiting")'
    BY <1>0, <2>0, <2>2 DEF At, Ending
  <2>5. ASSUME NEW d \in Call PROVE CallInOrder(d)'
    <3>1. CASE d = c
      BY <1>0, <2>0, <2>3, <2>4, <3>1 DEF CallInOrder, Now, BeginTask, EndTask, InTask,
         Parking, At
    <3>2. CASE d # c
      <4>1. call'[d] = call[d] /\ task'[d] = task[d]
        BY <1>0, <2>0, <3>2
      <4>2. ~At(d, "begin")
        BY <2>1, NoneAssumption DEF InOrder, CallInOrder
      <4> QED BY <2>0, <2>4, <3>2, <4>1, <4>2 DEF InOrder, CallInOrder, At, InTask,
              Parking, BeginTask
    <3> QED BY <3>1, <3>2
  <2>6. BatchInOrder'
    BY <2>0, <2>4 DEF InOrder, BatchInOrder, Ending
  <2> QED BY <2>5, <2>6 DEF InOrder
<1>3. ASSUME NEW c \in Call, RaiseGate(c) PROVE InOrder'
  <2>0. /\ InTask(c, "commit") /\ UNCHANGED headVars /\ UNCHANGED active
        /\ task' = [task EXCEPT ![c] = [at |-> "park",
             park |-> IF loaded
                         THEN [branch |-> active, markdown |-> doc,
                               diskSnapshot |-> IF Base = Undefined THEN doc ELSE Base]
                         ELSE None]]
    BY <1>3 DEF RaiseGate, Step
  <2>1. ASSUME NEW d \in Call PROVE CallInOrder(d)'
    <3>1. CASE d = c
      BY <1>0, <2>0, <3>1 DEF InOrder, CallInOrder, BeginTask, EndTask, InTask, Parking,
         At, headVars
    <3>2. CASE d # c
      BY <1>0, <2>0, <3>2 DEF InOrder, CallInOrder, BeginTask, EndTask, InTask, Parking,
         At, headVars
    <3> QED BY <3>1, <3>2
  <2>2. BatchInOrder'
    BY <2>0 DEF InOrder, BatchInOrder, Ending, At, headVars
  <2> QED BY <2>1, <2>2 DEF InOrder
<1>4. ASSUME NEW c \in Call, ParkDone(c) PROVE InOrder'
  <2>0. /\ InTask(c, "park") /\ At(c, "begin") /\ beginInFlight' = None
        /\ call' = [call EXCEPT ![c] = Free] /\ task' = [task EXCEPT ![c] = NoTask]
        /\ UNCHANGED <<inBatch, lastKnownBranch, active>>
    BY <1>4 DEF ParkDone, BeginReturns, Step
  <2>1. beginInFlight = c
    BY <2>0 DEF InOrder, CallInOrder
  <2>2. ASSUME NEW d \in Call PROVE CallInOrder(d)'
    <3>1. CASE d = c
      BY <1>0, <2>0, <3>1, NoneAssumption DEF CallInOrder, NoTask, BeginTask, EndTask,
         InTask, Parking, At
    <3>2. CASE d # c
      BY <1>0, <2>0, <2>1, <3>2, NoneAssumption
         DEF InOrder, CallInOrder, BeginTask, EndTask, InTask, Parking, At
    <3> QED BY <3>1, <3>2
  <2>3. BatchInOrder'
    <3>1. Ending' <=> Ending
      BY <1>0, <2>0 DEF Ending, At
    <3> QED BY <1>0, <2>0, <3>1 DEF InOrder, BatchInOrder, At
  <2> QED BY <2>2, <2>3 DEF InOrder
<1>5. ASSUME NEW c \in Call, NoBatchToEnd(c) PROVE InOrder'
  <2>0. ~At(c, "begin") /\ ~At(c, "end") /\ task[c].at \notin BeginTask \cup EndTask
        /\ UNCHANGED <<inBatch, beginInFlight, lastKnownBranch, active, task>>
    BY <1>5 DEF NoBatchToEnd, EndNothing, AwaitBegin, Resumed, At, gateVars, InOrder,
       CallInOrder
  <2>1. \/ UNCHANGED call \/ call' = [call EXCEPT ![c] = Free]
        \/ /\ call' = [call EXCEPT ![c] =
                [stage |-> "waiting", awaits |-> beginInFlight, old |-> None, new |-> None]]
           /\ beginInFlight # None
    BY <1>5 DEF NoBatchToEnd, EndNothing, AwaitBegin
  <2>2. \A d \in Call : (At(d, "begin")' <=> At(d, "begin")) /\
        (At(d, "end")' <=> At(d, "end"))
    BY <1>0, <1>a, <2>0, <2>1 DEF At
  <2>3. ASSUME NEW d \in Call PROVE CallInOrder(d)'
    <3>1. CASE d # c
      BY <1>0, <2>0, <2>1, <2>2, <3>1 DEF InOrder, CallInOrder, InTask, Parking, At
    <3>2. CASE d = c
      BY <1>0, <2>0, <2>1, <2>2, <3>2
         DEF InOrder, CallInOrder, InTask, Parking, At, BeginTask, EndTask
    <3> QED BY <3>1, <3>2
  <2>4. BatchInOrder'
    BY <2>0, <2>2 DEF InOrder, BatchInOrder, Ending
  <2> QED BY <2>3, <2>4 DEF InOrder
<1>6. ASSUME NEW c \in Call, EndBatch(c), NEW at \in EndTask, Step(c, Now(at)),
             \/ at # "rebuild" /\ UNCHANGED active /\ head = lastKnownBranch
             \/ at = "rebuild" /\ active' = head /\ (head \in Detached \/ head # lastKnownBranch)
      PROVE  InOrder'
  <2>0. /\ beginInFlight = None /\ inBatch /\ active = lastKnownBranch
        /\ \A d \in Call : task[d].at \notin BeginTask \cup EndTask /\ ~At(d, "end")
    BY <1>6, EndAlone
  <2>1. /\ call' = [call EXCEPT ![c] =
             [stage |-> "end", awaits |-> None, old |-> lastKnownBranch, new |-> head]]
        /\ task' = [task EXCEPT ![c] = Now(at)]
        /\ UNCHANGED <<inBatch, beginInFlight, lastKnownBranch>>
    BY <1>6 DEF EndBatch, Step
  <2>2. At(c, "end")' /\ active' = head
    BY <1>0, <1>a, <1>6, <2>0, <2>1 DEF At
  <2>3. ASSUME NEW d \in Call PROVE CallInOrder(d)'
    <3>1. CASE d = c
      <4>1. task'[d].at = at /\ at \notin BeginTask
        BY <1>0, <1>6, <2>1, <3>1 DEF Now, EndTask, BeginTask
      <4>2. call'[d].new = head /\ call'[d].old = lastKnownBranch /\
            call'[d].stage = "end"
        BY <1>0, <2>1, <3>1
      <4> QED BY <1>0, <1>6, <2>0, <2>1, <2>2, <3>1, <4>1, <4>2, NoneAssumption
              DEF CallInOrder, InTask, Parking, At, BeginTask, EndTask
    <3>2. CASE d # c
      <4>1. call'[d] = call[d] /\ task'[d] = task[d]
        BY <1>0, <2>1, <3>2
      <4>2. ~InTask(d, "rebuild") /\ ~Parking(d)
        BY <2>0 DEF InTask, Parking, BeginTask, EndTask
      <4>3. CallInOrder(d)
        BY DEF InOrder
      <4> QED BY <2>0, <2>1, <4>1, <4>2, <4>3 DEF CallInOrder, InTask, Parking, At
    <3> QED BY <3>1, <3>2
  <2>4. BatchInOrder'
    <3>1. Ending'
      BY <2>2 DEF Ending
    <3>2. \A d \in Call : At(d, "end")' => d = c
      BY <1>0, <2>0, <2>1 DEF At
    <3> QED BY <2>0, <2>1, <3>1, <3>2 DEF BatchInOrder
  <2> QED BY <2>3, <2>4 DEF InOrder
<1>7. ASSUME NEW c \in Call, EndWithinBranch(c) \/ EndOtherBranch(c) PROVE InOrder'
  <2>1. CASE EndWithinBranch(c)
    <3>1. "drain" \in EndTask /\ EndBatch(c) /\ Step(c, Now("drain")) /\
          UNCHANGED active
      BY <2>1 DEF EndWithinBranch, EndTask
    <3>2. head = lastKnownBranch
      BY <2>1 DEF EndWithinBranch, BatchKind
    <3> QED BY <1>6, <3>1, <3>2
  <2>2. CASE EndOtherBranch(c)
    <3>1. "rebuild" \in EndTask /\ EndBatch(c) /\ Step(c, Now("rebuild")) /\
          active' = head
      BY <2>2 DEF EndOtherBranch, EndTask
    <3>2. head \in Detached \/ head # lastKnownBranch
      BY <2>2 DEF EndOtherBranch, BatchKind
    <3> QED BY <1>6, <3>1, <3>2
  <2> QED BY <1>7, <2>1, <2>2
<1>8. ASSUME NEW c \in Call, FlushWithinBranch(c) \/ RestoreParked(c) \/ Reopen(c)
      PROVE InOrder'
  <2>0. PICK at \in {"flush", "reopen"} : task' = [task EXCEPT ![c] = Now(at)]
    BY <1>8 DEF FlushWithinBranch, RestoreParked, Reopen, Step
  <2>1. UNCHANGED <<inBatch, beginInFlight, lastKnownBranch, call, active>>
    BY <1>8 DEF FlushWithinBranch, RestoreParked, Reopen, headVars
  <2>2. task[c].at \in EndTask
    BY <1>8 DEF FlushWithinBranch, RestoreParked, Reopen, InTask, EndTask
  <2>3. ASSUME NEW d \in Call PROVE CallInOrder(d)'
    <3>1. CASE d = c
      <4>1. task'[d].at = at
        BY <1>0, <2>0, <3>1 DEF Now
      <4> QED BY <2>0, <2>1, <2>2, <3>1, <4>1
              DEF InOrder, CallInOrder, InTask, Parking, At, BeginTask, EndTask
    <3>2. CASE d # c
      BY <1>0, <2>0, <2>1, <3>2 DEF InOrder, CallInOrder, InTask, Parking, At
    <3> QED BY <3>1, <3>2
  <2>4. BatchInOrder'
    BY <2>1 DEF InOrder, BatchInOrder, Ending, At
  <2> QED BY <2>3, <2>4 DEF InOrder
<1>9. ASSUME NEW c \in Call, EndDone(c) PROVE InOrder'
  <2>0. /\ At(c, "end") /\ inBatch' = FALSE /\ lastKnownBranch' = call[c].new
        /\ call' = [call EXCEPT ![c] = Free] /\ task' = [task EXCEPT ![c] = NoTask]
        /\ UNCHANGED <<beginInFlight, active>>
    BY <1>9 DEF EndDone, EndReturns, Step
  <2>1. /\ \A d \in Call : At(d, "end") => d = c
        /\ beginInFlight = None /\ active = call[c].new
    BY <2>0 DEF InOrder, BatchInOrder, CallInOrder, Ending
  <2>2. \A d \in Call : ~At(d, "end")'
    BY <1>0, <2>0, <2>1 DEF At
  <2>3. ASSUME NEW d \in Call PROVE CallInOrder(d)'
    <3>1. CASE d = c
      BY <1>0, <2>0, <2>1, <2>2, <3>1, NoneAssumption
         DEF CallInOrder, NoTask, BeginTask, EndTask, InTask, Parking, At
    <3>2. CASE d # c
      BY <1>0, <2>0, <2>1, <2>2, <3>2 DEF InOrder, CallInOrder, InTask, Parking, At
    <3> QED BY <3>1, <3>2
  <2>4. BatchInOrder'
    BY <2>0, <2>1, <2>2 DEF BatchInOrder, Ending
  <2> QED BY <2>3, <2>4 DEF InOrder
<1>10. ASSUME NEW c \in Call, Callback(c) PROVE InOrder'
  BY <1>2, <1>3, <1>4, <1>5, <1>7, <1>8, <1>9, <1>10 DEF Callback
<1>11. CASE Store \/ \E ch \in Channel : FailStore(ch)
  BY <1>1, <1>11 DEF Store, DeferStore, SkipStore, BeginStore, FinishStore, FinishDrain,
     FailStore, Landed, headVars, gateVars, batchVars
<1>12. CASE Client \/ DiskEvent \/ GitEventJoins \/ CheckoutHead \/ UNCHANGED vars
  BY <1>1, <1>12 DEF Client, Load, Unload, UserEdit, DiskEvent, GitEventJoins,
     JoinBatch, CheckoutHead, MoveHead, WorldMoves, vars, headVars, gateVars, batchVars
<1>13. CASE World \/ \E h \in Holder : SyncReleases(h)
  BY <1>1, <1>13 DEF World, ForeignWrite, GitCommit, CheckoutFiles, SyncHolds,
     SyncMerges, SyncReleases, HeadUnchanged, WorldMoves, headVars, gateVars, batchVars
<1> QED BY <1>10, <1>11, <1>12, <1>13 DEF Next
-----------------------------------------------------------------------------
(* The paragraphs there are: those written so far and the one that was     *)
(* parked before the server started.  What is typed next is none of them.  *)
Numbers   == (0 .. edits) \cup {MaxEdits + 1}
Old(text) == \A p \in text : p[2] \in Numbers
ParkOld(park) == park # None => Old(park.markdown) /\ Old(park.diskSnapshot)

FilesOld    == Old(DiskText) /\ \A b \in Branch : tree[b] # NoFile => Old(tree[b])
DocumentOld == Old(doc) /\ \A b \in Branch : base[b] # Undefined => Old(base[b])
FlightsOld  == \A ch \in Channel : inflight[ch] # Idle => Old(inflight[ch])
EventsOld   == \A i \in 1 .. Len(buffer) : Old(buffer[i].text)
ParksOld    == /\ \A b \in Branch : ParkOld(parked[b])
               /\ \A c \in Call : ParkOld(task[c].park)
Numbered == FilesOld /\ DocumentOld /\ FlightsOld /\ EventsOld /\ ParksOld

LEMMA NumbersGrow ==
  ASSUME TypeOK, [Next]_vars PROVE Numbers \subseteq Numbers'
<1>1. edits \in Nat
  BY GateAssumption DEF TypeOK
<1>2. edits' \in {edits, edits + 1}
  <2>1. CASE Store \/ \E ch \in Channel : FailStore(ch)
    BY <2>1 DEF Store, DeferStore, SkipStore, BeginStore, FinishStore, FinishDrain,
       FailStore, Landed, counters
  <2>2. CASE Client \/ DiskEvent \/ GitEventJoins \/ CheckoutHead \/ UNCHANGED vars
    BY <2>2 DEF Client, Load, Unload, UserEdit, DiskEvent, GitEventJoins, CheckoutHead,
       vars, counters
  <2>3. CASE World \/ \E h \in Holder : SyncReleases(h)
    BY <2>3 DEF World, ForeignWrite, GitCommit, CheckoutFiles, SyncHolds, SyncMerges,
       SyncReleases, counters
  <2>4. ASSUME NEW c \in Call, Callback(c) PROVE edits' = edits
    BY <2>4 DEF Callback, BeginBatch, RaiseGate, ParkDone, NoBatchToEnd,
       EndWithinBranch, FlushWithinBranch, EndOtherBranch, RestoreParked, Reopen,
       EndDone, counters
  <2> QED BY <2>1, <2>2, <2>3, <2>4 DEF Next
<1> QED BY <1>1, <1>2 DEF Numbers

LEMMA FilesOldNext ==
  ASSUME TypeOK, FilesOld, FlightsOld, [Next]_vars PROVE FilesOld'
<1>0. /\ Numbers \subseteq Numbers' /\ edits \in Nat
      /\ tree \in [Branch -> Text \cup {NoFile}] /\ head \in Branch
  BY NumbersGrow, GateAssumption DEF TypeOK, HeadTypeOK
<1>1. CASE UNCHANGED <<tree, disk>>
  BY <1>0, <1>1 DEF FilesOld, Old, DiskText
<1>2. ASSUME NEW ch \in Channel, Landed(inflight[ch]), inflight[ch] # Idle
      PROVE FilesOld'
  BY <1>0, <1>2 DEF Landed, FilesOld, FlightsOld, Old, DiskText
<1>3. ASSUME disk # NoFile, NEW b, disk' = disk \cup {<<b, edits + 1>>}, edits' = edits + 1,
             UNCHANGED tree \/ tree' = [tree EXCEPT ![head] = disk']
      PROVE  FilesOld'
  <2>1. edits + 1 \in Numbers'
    BY <1>0, <1>3 DEF Numbers
  <2>2. \A p \in disk : p[2] \in Numbers
    BY <1>3 DEF FilesOld, Old, DiskText
  <2>3. \A p \in disk' : p[2] \in Numbers'
    BY <1>0, <1>3, <2>1, <2>2
  <2>4. Old(DiskText)'
    BY <2>3 DEF Old, DiskText
  <2>5. ASSUME NEW b2 \in Branch, tree'[b2] # NoFile
        PROVE \A p \in tree'[b2] : p[2] \in Numbers'
    BY <1>0, <1>3, <2>3, <2>5 DEF FilesOld, Old
  <2> QED BY <2>4, <2>5 DEF FilesOld, Old
<1>4. CASE Store \/ \E ch \in Channel : FailStore(ch)
  <2>1. CASE FinishStore \/ FinishDrain
    BY <1>2, <2>1 DEF FinishStore, FinishDrain, Channel
  <2> QED BY <1>1, <1>4, <2>1 DEF Store, DeferStore, SkipStore, BeginStore, FailStore,
          git
<1>5. CASE Client \/ DiskEvent \/ GitEventJoins \/ CheckoutHead \/ UNCHANGED vars
  BY <1>1, <1>5 DEF Client, Load, Unload, UserEdit, DiskEvent, GitEventJoins,
     CheckoutHead, vars, git
<1>6. CASE ForeignWrite
  BY <1>3, <1>6 DEF ForeignWrite
<1>7. CASE GitCommit
  BY <1>0, <1>7 DEF GitCommit, FilesOld, Old, DiskText
<1>8. ASSUME NEW b \in Branch, CheckoutFiles(b) PROVE FilesOld'
  BY <1>0, <1>8 DEF CheckoutFiles, FilesOld, Old, DiskText
<1>9. ASSUME NEW h \in Holder, SyncMerges(h) PROVE FilesOld'
  BY <1>3, <1>9 DEF SyncMerges
<1>10. ASSUME NEW h \in Holder, SyncHolds(h) \/ SyncReleases(h) PROVE FilesOld'
  BY <1>1, <1>10 DEF SyncHolds, SyncReleases, git
<1>11. ASSUME NEW c \in Call, Callback(c) PROVE FilesOld'
  BY <1>1, <1>11 DEF Callback, BeginBatch, RaiseGate, ParkDone, NoBatchToEnd,
     EndWithinBranch, FlushWithinBranch, EndOtherBranch, RestoreParked, Reopen,
     EndDone, git
<1> QED BY <1>4, <1>5, <1>6, <1>7, <1>8, <1>9, <1>10, <1>11 DEF Next, World

(* A store takes its text from the document.                               *)
Began(ch) == inflight'[ch] \in {Idle, inflight[ch], doc}

LEMMA StoresBegun ==
  ASSUME TypeOK, [Next]_vars PROVE \A ch \in Channel : Began(ch)
<1>0. inflight \in [Channel -> Text \cup {Idle}]
  BY DEF TypeOK
<1>1. CASE UNCHANGED inflight
  BY <1>1 DEF Began
<1>2. ASSUME NEW mode, NEW bs, DrainRound(mode, bs) PROVE \A ch \in Channel : Began(ch)
  BY <1>0, <1>2 DEF DrainRound, Began
<1>3. ASSUME NEW mode, FlushDeferredStores(mode) PROVE \A ch \in Channel : Began(ch)
  BY <1>1, <1>2, <1>3 DEF FlushDeferredStores
<1>4. ASSUME NEW bs, NextRound(bs) PROVE \A ch \in Channel : Began(ch)
  <2>1. CASE deferred = None /\ nextFlush = "none"
    BY <1>0, <1>4, <2>1 DEF NextRound, Began
  <2> QED BY <1>2, <1>4, <2>1 DEF NextRound
<1>5. CASE Store \/ \E ch \in Channel : FailStore(ch)
  <2>1. CASE FinishDrain
    BY <1>4, <2>1 DEF FinishDrain
  <2>2. ASSUME NEW ch \in Channel, FailStore(ch)
        PROVE \A other \in Channel : Began(other)
    <3>1. CASE ch = "drain"
      BY <1>4, <2>2, <3>1 DEF FailStore
    <3>2. CASE ch # "drain"
      BY <1>0, <2>2, <3>2 DEF FailStore, Began
    <3> QED BY <3>1, <3>2
  <2>3. CASE BeginStore \/ FinishStore
    BY <1>0, <2>3 DEF BeginStore, FinishStore, Began
  <2>4. CASE DeferStore \/ SkipStore
    BY <1>1, <2>4 DEF DeferStore, SkipStore, stores
  <2> QED BY <1>5, <2>1, <2>2, <2>3, <2>4 DEF Store
<1>6. CASE Client \/ DiskEvent \/ GitEventJoins \/ CheckoutHead \/ UNCHANGED vars
  BY <1>1, <1>6 DEF Client, Load, Unload, UserEdit, DiskEvent, GitEventJoins,
     CheckoutHead, WorldMoves, vars, stores
<1>7. CASE World
  BY <1>1, <1>7 DEF World, ForeignWrite, GitCommit, CheckoutFiles, SyncHolds,
     SyncMerges,
     WorldMoves, stores
<1>8. ASSUME NEW h \in Holder, SyncReleases(h) PROVE \A ch \in Channel : Began(ch)
  BY <1>3, <1>8 DEF SyncReleases
<1>9. ASSUME NEW c \in Call, Callback(c) PROVE \A ch \in Channel : Began(ch)
  <2>1. CASE FlushWithinBranch(c) \/ Reopen(c)
    BY <1>3, <2>1 DEF FlushWithinBranch, Reopen
  <2> QED BY <1>1, <1>9, <2>1 DEF Callback, BeginBatch, RaiseGate, ParkDone,
          NoBatchToEnd,
          EndWithinBranch, EndOtherBranch, RestoreParked, EndDone, stores
<1> QED BY <1>5, <1>6, <1>7, <1>8, <1>9 DEF Next

LEMMA FlightsOldNext ==
  ASSUME TypeOK, FlightsOld, DocumentOld, [Next]_vars PROVE FlightsOld'
<1>1. Numbers \subseteq Numbers' /\ \A ch \in Channel : Began(ch)
  BY NumbersGrow, StoresBegun
<1> QED BY <1>1 DEF FlightsOld, DocumentOld, Began, Old

LEMMA EventsOldNext ==
  ASSUME TypeOK, FilesOld, EventsOld, [Next]_vars PROVE EventsOld'
<1>0. Numbers \subseteq Numbers' /\ buffer \in Seq(Event)
  BY NumbersGrow DEF TypeOK, Event
<1>1. CASE UNCHANGED buffer
  BY <1>0, <1>1 DEF EventsOld, Old
<1>2. CASE buffer' = <<>>
  BY <1>2 DEF EventsOld
<1>3. ASSUME NEW event, buffer' = Append(buffer, event), event.text = DiskText
      PROVE EventsOld'
  <2> SUFFICES ASSUME NEW i \in 1 .. Len(buffer'), NEW p \in buffer'[i].text
               PROVE  p[2] \in Numbers
    BY <1>0 DEF EventsOld, Old
  <2>1. CASE i \in 1 .. Len(buffer)
    BY <1>0, <1>3, <2>1 DEF EventsOld, Old
  <2>2. CASE i = Len(buffer) + 1
    BY <1>0, <1>3, <2>2 DEF FilesOld, Old
  <2> QED BY <1>0, <1>3, <2>1, <2>2
<1>4. CASE Store \/ \E ch \in Channel : FailStore(ch)
  BY <1>1, <1>4 DEF Store, DeferStore, SkipStore, BeginStore, FinishStore, FinishDrain,
     FailStore, Landed, gateVars
<1>5. CASE Client \/ GitEventJoins \/ CheckoutHead \/ UNCHANGED vars
  BY <1>1, <1>5 DEF Client, Load, Unload, UserEdit, GitEventJoins, CheckoutHead,
     WorldMoves, vars, gateVars
<1>6. CASE DiskEvent
  <2>1. PICK event : /\ event.text = DiskText
                     /\ UNCHANGED buffer \/ buffer' = Append(buffer, event)
    BY <1>6 DEF DiskEvent
  <2> QED BY <1>1, <1>3, <2>1
<1>7. CASE World \/ \E h \in Holder : SyncReleases(h)
  BY <1>1, <1>7 DEF World, ForeignWrite, GitCommit, CheckoutFiles, SyncHolds,
     SyncMerges,
     SyncReleases, WorldMoves, gateVars
<1>8. ASSUME NEW c \in Call, Callback(c) PROVE EventsOld'
  BY <1>1, <1>2, <1>8 DEF Callback, BeginBatch, RaiseGate, ParkDone, NoBatchToEnd,
     EndWithinBranch, FlushWithinBranch, EndOtherBranch, RestoreParked, Reopen,
     EndDone, gateVars
<1> QED BY <1>4, <1>5, <1>6, <1>7, <1>8 DEF Next

LEMMA ParksOldNext ==
  ASSUME TypeOK, DocumentOld, ParksOld, [Next]_vars PROVE ParksOld'
<1>0. /\ task \in [Call -> Task] /\ parked \in [Branch -> ParkedDoc \cup {None}]
      /\ active \in Branch
  BY TypeParts DEF TasksTyped, GateTyped
<1>1. \A park : ParkOld(park) => ParkOld(park)'
  BY NumbersGrow DEF ParkOld, Old
<1>2. \A c \in Call : \A t : Step(c, t) =>
        \A d \in Call : task'[d] = (IF d = c THEN t ELSE task[d])
  BY <1>0 DEF Step
<1>3. ASSUME NEW c \in Call, NEW t, Step(c, t), ParkOld(t.park),
             \A b \in Branch : parked'[b] \in {None, parked[b], task[c].park}
      PROVE  ParksOld'
  <2>1. \A b \in Branch : ParkOld(parked'[b])
    BY <1>3 DEF ParksOld, ParkOld
  <2>2. \A d \in Call : ParkOld(task'[d].park)
    BY <1>2, <1>3 DEF ParksOld
  <2> QED BY <1>1, <2>1, <2>2 DEF ParksOld, ParkOld, Old
<1>4. CASE UNCHANGED <<parked, task>>
  BY <1>1, <1>4 DEF ParksOld, ParkOld, Old
<1>5. ASSUME NEW c \in Call, RaiseGate(c) PROVE ParksOld'
  <2> DEFINE taken == [branch |-> active, markdown |-> doc,
                       diskSnapshot |-> IF Base = Undefined THEN doc ELSE Base]
             t == [at |-> "park", park |-> IF loaded THEN taken ELSE None]
  <2>1. UNCHANGED parked /\ Step(c, t)
    BY <1>5 DEF RaiseGate
  <2>2. ParkOld(t.park)
    BY <1>0 DEF ParkOld, DocumentOld, Base
  <2> QED BY <1>3, <2>1, <2>2
<1>6. ASSUME NEW c \in Call, ParkDone(c) \/ EndDone(c) PROVE ParksOld'
  <2>1. Step(c, NoTask) /\ ParkOld(NoTask.park)
    BY <1>6 DEF ParkDone, EndDone, NoTask, ParkOld
  <2>2. \A b \in Branch : parked'[b] \in {None, parked[b], task[c].park}
    BY <1>0, <1>6 DEF ParkDone, EndDone
  <2> QED BY <1>3, <2>1, <2>2
<1>7. ASSUME NEW c \in Call, BeginBatch(c) \/ EndWithinBranch(c) \/
          FlushWithinBranch(c) \/
                             EndOtherBranch(c) \/ RestoreParked(c) \/ Reopen(c)
      PROVE  ParksOld'
  <2>1. \E at : Step(c, Now(at))
    BY <1>7 DEF BeginBatch, EndWithinBranch, FlushWithinBranch, EndOtherBranch,
       RestoreParked, Reopen
  <2>2. \A at : ParkOld(Now(at).park)
    BY DEF Now, ParkOld
  <2>3. \A b \in Branch : parked'[b] \in {None, parked[b], task[c].park}
    BY <1>0, <1>7 DEF BeginBatch, EndWithinBranch, FlushWithinBranch, EndOtherBranch,
       RestoreParked, Reopen
  <2> QED BY <1>3, <2>1, <2>2, <2>3
<1>8. ASSUME NEW c \in Call, Callback(c) PROVE ParksOld'
  BY <1>4, <1>5, <1>6, <1>7, <1>8 DEF Callback, NoBatchToEnd, gateVars
<1>9. CASE Store \/ \E ch \in Channel : FailStore(ch)
  BY <1>4, <1>9 DEF Store, DeferStore, SkipStore, BeginStore, FinishStore, FinishDrain,
     FailStore, Landed, gateVars
<1>10. CASE Client \/ DiskEvent \/ GitEventJoins \/ CheckoutHead \/ UNCHANGED vars
  BY <1>4, <1>10 DEF Client, Load, Unload, UserEdit, DiskEvent, GitEventJoins,
     CheckoutHead, WorldMoves, vars, gateVars
<1>11. CASE World \/ \E h \in Holder : SyncReleases(h)
  BY <1>4, <1>11 DEF World, ForeignWrite, GitCommit, CheckoutFiles, SyncHolds,
     SyncMerges, SyncReleases, WorldMoves, gateVars
<1> QED BY <1>8, <1>9, <1>10, <1>11 DEF Next

(* The document after an event has no paragraph that it, its base and the  *)
(* event had not.                                                          *)
StateOld(st) == Old(st.doc) /\ (st.base # Undefined => Old(st.base))

LEMMA HandledOld ==
  ASSUME NEW st \in DocState, NEW event \in Event, StateOld(st), Old(event.text)
  PROVE  StateOld(HandleEvent(st, event))
BY DEF HandleEvent, HandleDelete, HandleUpdate, MergeTexts, StateOld, Old, DocState,
   Event

LEMMA ReplayOld ==
  ASSUME TypeOK, DocumentOld, EventsOld PROVE StateOld(After[Len(buffer)])
<1> DEFINE S == {st \in DocState : StateOld(st)}
<1>1. buffer \in Seq(Event) /\ active \in Branch
  BY DEF TypeOK, Event
<1>2. Doc \in S
  BY <1>1, DocTyped DEF StateOld, DocumentOld, Doc, Base
<1>3. ASSUME NEW st \in DocState \cap S, NEW i \in 1 .. Len(buffer)
      PROVE  HandleEvent(st, buffer[i]) \in S
  <2>1. buffer[i] \in Event /\ Old(buffer[i].text)
    BY <1>1 DEF EventsOld
  <2> QED BY <2>1, HandledTyped, HandledOld
<1>4. After[Len(buffer)] \in S
  <2> HIDE DEF S
  <2> QED BY <1>2, <1>3, ReplayKeeps
<1> QED BY <1>4

LEMMA DocumentOldNext ==
  ASSUME TypeOK, EndsKnow, TasksEnd, Numbered, [Next]_vars PROVE DocumentOld'
<1>0. /\ Numbers \subseteq Numbers' /\ edits \in Nat /\ active \in Branch /\ head \in Branch
      /\ base \in [Branch -> Text \cup {Undefined}] /\ task \in [Call -> Task]
  BY NumbersGrow, GateAssumption, TypeParts DEF TypeOK, HeadTypeOK, TasksTyped
<1>1. CASE UNCHANGED <<doc, base>>
  BY <1>0, <1>1 DEF Numbered, DocumentOld, Old
<1>2. ASSUME Old(doc'), NEW b \in Branch, NEW text, text # Undefined => Old(text),
             UNCHANGED base \/ base' = [base EXCEPT ![b] = text]
      PROVE  DocumentOld'
  <2>1. \A p \in doc' : p[2] \in Numbers'
    BY <1>0, <1>2 DEF Old
  <2>2. ASSUME NEW other \in Branch, base'[other] # Undefined
        PROVE  \A p \in base'[other] : p[2] \in Numbers'
    BY <1>0, <1>2, <2>2 DEF Numbered, DocumentOld, Old
  <2> QED BY <2>1, <2>2 DEF DocumentOld, Old
<1>3. ASSUME NEW st, StateOld(st), Becomes(st) PROVE DocumentOld'
  BY <1>0, <1>2, <1>3 DEF StateOld, Becomes
<1>4. Old(DiskText) /\ Old(doc) /\ (disk # NoFile => Old(disk))
  BY DEF Numbered, FilesOld, DocumentOld, DiskText
<1>5. CASE Load
  <2>1. /\ doc' = DiskText
        /\ UNCHANGED base \/ (disk # NoFile /\ base' = [base EXCEPT ![active] = disk])
    BY <1>5 DEF Load
  <2> QED BY <1>0, <1>2, <1>4, <2>1
<1>6. CASE Unload
  BY <1>1, <1>6 DEF Unload, gateVars
<1>7. CASE UserEdit
  <2>1. doc' = doc \cup {<<active, edits + 1>>} /\ UNCHANGED base /\ edits' = edits + 1
    BY <1>7 DEF UserEdit, gateVars
  <2>2. edits + 1 \in Numbers'
    BY <1>0, <2>1 DEF Numbers
  <2> QED BY <1>0, <1>4, <2>1, <2>2 DEF Numbered, DocumentOld, Old
<1>8. CASE Store \/ \E ch \in Channel : FailStore(ch)
  <2>1. ASSUME NEW ch \in Channel, inflight[ch] # Idle, Landed(inflight[ch])
        PROVE DocumentOld'
    BY <1>0, <1>2, <1>4, <2>1 DEF Landed, document, Numbered, FlightsOld
  <2>2. CASE FinishStore \/ FinishDrain
    BY <2>1, <2>2 DEF FinishStore, FinishDrain, Channel
  <2> QED BY <1>1, <1>8, <2>2 DEF Store, DeferStore, SkipStore, BeginStore, FailStore,
          document, gateVars
<1>9. CASE DiskEvent
  <2>1. PICK event : /\ event = [kind |-> IF disk = NoFile THEN "delete"
                                            ELSE IF known THEN "update" ELSE "create",
                                  text |-> DiskText, branch |-> Worktree]
                     /\ UNCHANGED <<doc, base>> \/ Becomes(HandleEvent(Doc, event))
    BY <1>9 DEF DiskEvent, document
  <2>2. event \in Event /\ Old(event.text)
    BY <1>4, <2>1, TextsTyped DEF Event
  <2>3. StateOld(Doc)
    BY <1>0 DEF StateOld, Numbered, DocumentOld, Doc, Base
  <2> QED BY <1>1, <1>3, <2>1, <2>2, <2>3, HandledOld, DocTyped
<1>10. CASE World \/ GitEventJoins \/ CheckoutHead \/ UNCHANGED vars
  BY <1>1, <1>10 DEF World, ForeignWrite, GitCommit, CheckoutFiles, SyncHolds,
     SyncMerges, GitEventJoins, CheckoutHead, WorldMoves, document, gateVars, vars
<1>11. ASSUME NEW h \in Holder, SyncReleases(h) PROVE DocumentOld'
  BY <1>1, <1>11 DEF SyncReleases, document
<1>12. ASSUME NEW c \in Call, EndWithinBranch(c) PROVE DocumentOld'
  BY <1>3, <1>12, ReplayOld DEF EndWithinBranch, Numbered
<1>13. ASSUME NEW c \in Call, EndOtherBranch(c) PROVE DocumentOld'
  <2>1. \/ UNCHANGED <<doc, base>>
        \/ disk # NoFile /\ doc' = disk /\ base' = [base EXCEPT ![head] = disk]
    BY <1>13 DEF EndOtherBranch
  <2> QED BY <1>0, <1>1, <1>2, <1>4, <2>1
<1>14. ASSUME NEW c \in Call, RestoreParked(c) PROVE DocumentOld'
  <2>1. PICK park, text :
          /\ park = IF BatchKind(call[c].old, call[c].new) = "cross-branch"
                      THEN parked[call[c].new] ELSE None
          /\ text = MergeTexts(park.diskSnapshot, park.markdown, Base)
          /\ IF ToRestore(park)
               THEN doc' = text /\ base' = [base EXCEPT ![active] = text]
               ELSE UNCHANGED <<doc, base>>
    BY <1>14 DEF RestoreParked
  <2>2. CASE ToRestore(park)
    <3>1. park # None /\ Base # Undefined
      BY <2>2 DEF ToRestore, BaseText
    <3>2. park = parked[call[c].new] /\ call[c].new \in Branch
      BY <1>14, <2>1, <3>1 DEF RestoreParked, InTask, EndsKnow, TasksEnd, EndTask
    <3>3. Old(park.markdown) /\ Old(park.diskSnapshot) /\ Old(Base)
      BY <1>0, <3>1, <3>2 DEF Numbered, ParksOld, ParkOld, DocumentOld, Base
    <3>4. Old(text)
      BY <2>1, <3>3 DEF MergeTexts, Old
    <3> QED BY <1>0, <1>2, <2>1, <2>2, <3>4
  <2> QED BY <1>1, <2>1, <2>2
<1>15. ASSUME NEW c \in Call, Callback(c) PROVE DocumentOld'
  <2>1. CASE BeginBatch(c) \/ RaiseGate(c) \/ ParkDone(c) \/ NoBatchToEnd(c) \/
             FlushWithinBranch(c) \/ Reopen(c) \/ EndDone(c)
    BY <1>1, <2>1 DEF BeginBatch, RaiseGate, ParkDone, NoBatchToEnd, FlushWithinBranch,
       Reopen, EndDone, document, gateVars
  <2> QED BY <1>12, <1>13, <1>14, <1>15, <2>1 DEF Callback
<1> QED BY <1>5, <1>6, <1>7, <1>8, <1>9, <1>10, <1>11, <1>15 DEF Next, Client

LEMMA NumberedNext ==
  ASSUME TypeOK, EndsKnow, TasksEnd, Numbered, [Next]_vars PROVE Numbered'
BY FilesOldNext, DocumentOldNext, FlightsOldNext, EventsOldNext, ParksOldNext
   DEF Numbered

(* A document that is not open has no text.                                *)
Closed == ~loaded => doc = {}

LEMMA ReplayClosed ==
  ASSUME TypeOK, Closed PROVE ~After[Len(buffer)].loaded => After[Len(buffer)].doc = {}
<1> DEFINE S == {st \in DocState : ~st.loaded => st.doc = {}}
<1>1. buffer \in Seq(Event)
  BY DEF TypeOK, Event
<1>2. Doc \in S
  BY DocTyped DEF Doc, Closed
<1>3. ASSUME NEW st \in DocState \cap S, NEW event \in Event
      PROVE HandleEvent(st, event) \in S
  <2>1. LET after == HandleEvent(st, event) IN ~after.loaded => after.doc = {}
    BY DEF HandleEvent, HandleDelete, HandleUpdate, DocState
  <2> QED BY <2>1, HandledTyped
<1>4. After[Len(buffer)] \in S
  <2> HIDE DEF S
  <2> QED BY <1>1, <1>2, <1>3, ReplayKeeps
<1> QED BY <1>4

LEMMA ClosedNext ==
  ASSUME TypeOK, Closed, [Next]_vars PROVE Closed'
<1>1. CASE UNCHANGED <<loaded, doc>>
  BY <1>1 DEF Closed
<1>2. CASE Client
  BY <1>2 DEF Client, Load, Unload, UserEdit, Closed
<1>3. CASE DiskEvent
  <2>1. \/ UNCHANGED document
        \/ \E event : /\ Becomes(HandleEvent(Doc, event))
                      /\ event.kind \in {"create", "update", "delete"}
    BY <1>3 DEF DiskEvent
  <2> QED BY <1>1, <2>1 DEF document, Becomes, HandleEvent, HandleDelete, HandleUpdate,
          Doc, Closed
<1>4. CASE World \/ GitEventJoins \/ CheckoutHead \/ UNCHANGED vars
  BY <1>1, <1>4 DEF World, ForeignWrite, GitCommit, CheckoutFiles, SyncHolds,
     SyncMerges,
     GitEventJoins, CheckoutHead, WorldMoves, document, vars
<1>5. CASE Store \/ \E ch \in Channel : FailStore(ch)
  BY <1>1, <1>5 DEF Store, DeferStore, SkipStore, BeginStore, FinishStore, FinishDrain,
     FailStore, Landed, document
<1>6. ASSUME NEW h \in Holder, SyncReleases(h) PROVE Closed'
  BY <1>1, <1>6 DEF SyncReleases, document
<1>7. ASSUME NEW c \in Call, EndWithinBranch(c) PROVE Closed'
  BY <1>7, ReplayClosed DEF EndWithinBranch, Becomes, Closed
<1>8. ASSUME NEW c \in Call, EndOtherBranch(c) \/ RestoreParked(c) PROVE Closed'
  BY <1>8 DEF EndOtherBranch, RestoreParked, ToRestore, Closed
<1>9. ASSUME NEW c \in Call, Callback(c) PROVE Closed'
  BY <1>1, <1>7, <1>8, <1>9 DEF Callback, BeginBatch, RaiseGate, ParkDone, NoBatchToEnd,
     FlushWithinBranch, Reopen, EndDone, document
<1> QED BY <1>2, <1>3, <1>4, <1>5, <1>6, <1>9 DEF Next
-----------------------------------------------------------------------------
(* What was typed and is not at risk is never lost.  It is in its branch's *)
(* file, or in what was parked on that branch and not in the snapshot it   *)
(* is restored against, or, on the active branch, in the document.  In     *)
(* whatever text it is elsewhere, it is there because its file has it      *)
(* (Recorded): no merge then takes it away unnoticed.                      *)
Safe == typed \ atRisk
In(p, text, none) == text # none /\ p \in text

FileOf(b) == IF b = Worktree THEN DiskText ELSE IF tree[b] = NoFile THEN {} ELSE tree[b]
Stored(p) == p \in FileOf(p[1])
Loose(p) ==
  /\ \A b \in Branch : ~In(p, tree[b], NoFile)
  /\ p \notin DiskText
  /\ \A i \in 1 .. Len(buffer) : p \notin buffer[i].text
  /\ ~In(p, base[p[1]], Undefined)
  /\ p \in doc /\ ~tombstone => p[1] = active
  /\ \A ch \in Channel : In(p, inflight[ch], Idle) => p[1] = Worktree
Recorded(p) == Stored(p) \/ Loose(p)

LEMMA SafeTyped ==
  ASSUME TypeOK, NEW p \in typed PROVE p \in Paragraph /\ p[1] \in Branch
BY DEF TypeOK, Text, Paragraph

LEMMA LandedStored ==
  ASSUME TypeOK, NEW p \in typed, p \notin atRisk', NEW text \in Text, Landed(text)
  PROVE  /\ Worktree' = Worktree /\ DiskText' = text
         /\ Stored(p) => Stored(p)'
         /\ p \in text /\ p[1] = Worktree => Stored(p)'
<1>1. /\ UNCHANGED <<head, tree, checkout>> /\ disk' = text /\ text # NoFile
      /\ p \in DiskText => p \in text
  BY NoFileIsNoText DEF Landed, headVars
<1>2. Worktree' = Worktree /\ DiskText' = text
  BY <1>1 DEF Worktree, DiskText
<1> QED BY <1>1, <1>2 DEF Stored, FileOf

(* No step takes it out of its file, but those that mark it.               *)
LEMMA StoredStays ==
  ASSUME TypeOK, NEW p \in typed, p \notin atRisk', Stored(p), [Next]_vars PROVE Stored(p)'
<1>0. /\ tree \in [Branch -> Text \cup {NoFile}] /\ head \in Branch /\ p[1] \in Branch
      /\ inflight \in [Channel -> Text \cup {Idle}]
  BY SafeTyped DEF TypeOK, HeadTypeOK
<1>1. CASE UNCHANGED <<head, tree, disk, checkout>>
  BY <1>1 DEF Stored, FileOf, Worktree, DiskText
<1>2. CASE Store \/ \E ch \in Channel : FailStore(ch)
  <2>1. CASE FinishStore \/ FinishDrain
    BY <1>0, <2>1, LandedStored DEF FinishStore, FinishDrain, Channel
  <2> QED BY <1>1, <1>2, <2>1 DEF Store, DeferStore, SkipStore, BeginStore, FailStore,
          git, headVars
<1>3. CASE Client \/ DiskEvent \/ GitEventJoins \/ UNCHANGED vars
  BY <1>1, <1>3 DEF Client, Load, Unload, UserEdit, DiskEvent, GitEventJoins, JoinBatch,
     vars, git, headVars
<1>4. CASE CheckoutHead
  BY <1>0, <1>4 DEF CheckoutHead, MoveHead, Stored, FileOf, Worktree, DiskText
<1>5. CASE ForeignWrite
  <2>1. /\ UNCHANGED <<head, tree, checkout>> /\ Worktree' = Worktree
        /\ disk # NoFile /\ disk' = disk \cup {<<Worktree, edits + 1>>}
    BY <1>5 DEF ForeignWrite, headVars, Worktree
  <2>2. disk' # NoFile
    <3>1. edits < MaxEdits /\ disk \in Text
      BY <1>5, <2>1 DEF ForeignWrite, TypeOK
    <3> QED BY <1>0, <2>1, <3>1, TextsTyped, UnionTyped, NoFileIsNoText
  <2> QED BY <2>1, <2>2 DEF Stored, FileOf, DiskText
<1>6. CASE GitCommit
  <2>1. UNCHANGED <<head, disk, checkout>> /\ Worktree = head /\ Worktree' = head
        /\ (UNCHANGED tree \/ tree' = [tree EXCEPT ![head] = disk])
    BY <1>6 DEF GitCommit, GitOp, HeadUnchanged, Worktree
  <2> QED BY <1>0, <2>1 DEF Stored, FileOf, DiskText
<1>7. ASSUME NEW b \in Branch, CheckoutFiles(b) PROVE Stored(p)'
  <2>1. UNCHANGED <<head, tree>> /\ disk = tree[head] /\ disk' = tree[b]
        /\ Worktree = head /\ Worktree' = b
    BY <1>7, NoneAssumption DEF CheckoutFiles, GitOp, HeadUnchanged, Worktree
  <2> QED BY <1>0, <2>1 DEF Stored, FileOf, DiskText
<1>8. ASSUME NEW h \in Holder, SyncMerges(h) PROVE Stored(p)'
  <2>1. /\ UNCHANGED <<head, checkout>> /\ Worktree = head /\ Worktree' = head
        /\ disk # NoFile /\ disk' = disk \cup {<<head, edits + 1>>}
        /\ tree' = [tree EXCEPT ![head] = disk']
    BY <1>8 DEF SyncMerges, HeadUnchanged, Worktree
  <2>2. p[1] = head => p \in disk'
    BY <1>0, <2>1 DEF Stored, FileOf, DiskText
  <2>3. disk' # NoFile
    <3>1. edits < MaxEdits /\ disk \in Text
      BY <1>8, <2>1 DEF SyncMerges, TypeOK
    <3> QED BY <1>0, <2>1, <3>1, TextsTyped, UnionTyped, NoFileIsNoText
  <2> QED BY <1>0, <2>1, <2>2, <2>3 DEF Stored, FileOf, DiskText
<1>9. ASSUME NEW h \in Holder, SyncHolds(h) \/ SyncReleases(h) PROVE Stored(p)'
  BY <1>1, <1>9 DEF SyncHolds, SyncReleases, git, headVars
<1>10. ASSUME NEW c \in Call, Callback(c) PROVE Stored(p)'
  BY <1>1, <1>10 DEF Callback, BeginBatch, OpenBatch, RaiseGate, ParkDone, BeginReturns,
     NoBatchToEnd, EndNothing, AwaitBegin, EndWithinBranch, EndBatch, FlushWithinBranch,
     EndOtherBranch, RestoreParked, Reopen, EndDone, EndReturns, git, headVars
<1> QED BY <1>2, <1>3, <1>4, <1>5, <1>6, <1>7, <1>8, <1>9, <1>10 DEF Next, World

(* A store that begins takes the active branch's text, if nothing leaks.   *)
LEMMA TakenNext ==
  ASSUME TypeOK, [Next]_vars, ~leak' PROVE \A ch \in Channel : Taken(ch)
<1>0. inflight \in [Channel -> Text \cup {Idle}]
  BY DEF TypeOK
<1>1. CASE UNCHANGED inflight
  BY <1>1 DEF Taken
<1>2. CASE Store \/ \E ch \in Channel : FailStore(ch)
  <2>1. CASE FinishDrain
    BY <2>1, NextRoundTaken DEF FinishDrain
  <2>2. ASSUME NEW ch \in Channel, FailStore(ch)
        PROVE \A other \in Channel : Taken(other)
    <3>1. CASE ch = "drain"
      BY <2>2, <3>1, NextRoundTaken DEF FailStore
    <3>2. CASE ch # "drain"
      BY <1>0, <2>2, <3>2 DEF FailStore, Taken
    <3> QED BY <3>1, <3>2
  <2>3. CASE BeginStore \/ FinishStore
    BY <1>0, <2>3 DEF BeginStore, FinishStore, Misplaced, Taken
  <2>4. CASE DeferStore \/ SkipStore
    BY <1>1, <2>4 DEF DeferStore, SkipStore, stores
  <2> QED BY <1>2, <2>1, <2>2, <2>3, <2>4 DEF Store
<1>3. CASE Client \/ DiskEvent \/ GitEventJoins \/ CheckoutHead \/ UNCHANGED vars
  BY <1>1, <1>3 DEF Client, Load, Unload, UserEdit, DiskEvent, GitEventJoins,
     CheckoutHead, WorldMoves, vars, stores
<1>4. CASE World
  BY <1>1, <1>4 DEF World, ForeignWrite, GitCommit, CheckoutFiles, SyncHolds,
     SyncMerges,
     WorldMoves, stores
<1>5. ASSUME NEW h \in Holder, SyncReleases(h) PROVE \A ch \in Channel : Taken(ch)
  BY <1>5, FlushTaken DEF SyncReleases
<1>6. ASSUME NEW c \in Call, Callback(c) PROVE \A ch \in Channel : Taken(ch)
  <2>1. CASE FlushWithinBranch(c) \/ Reopen(c)
    BY <2>1, FlushTaken DEF FlushWithinBranch, Reopen
  <2> QED BY <1>1, <1>6, <2>1 DEF Callback, BeginBatch, RaiseGate, ParkDone,
          NoBatchToEnd,
          EndWithinBranch, EndOtherBranch, RestoreParked, EndDone, stores
<1> QED BY <1>2, <1>3, <1>4, <1>5, <1>6 DEF Next

(* Each part of Recorded is left by a step as it was, or its file has it.  *)
LEMMA LooseFiles ==
  ASSUME TypeOK, NEW p \in typed, p \notin atRisk', Loose(p), [Next]_vars
  PROVE  Stored(p)' \/ (p \notin DiskText' /\ \A b \in Branch : ~In(p, tree'[b], NoFile))
<1>0. /\ tree \in [Branch -> Text \cup {NoFile}] /\ head \in Branch /\ p[1] \in Branch
      /\ inflight \in [Channel -> Text \cup {Idle}]
      /\ p \notin DiskText /\ \A b \in Branch : ~In(p, tree[b], NoFile)
  BY SafeTyped DEF TypeOK, HeadTypeOK, Loose
<1> SUFFICES ASSUME ~Stored(p)'
             PROVE  p \notin DiskText' /\ \A b \in Branch : ~In(p, tree'[b], NoFile)
  OBVIOUS
<1>1. CASE UNCHANGED <<tree, disk>>
  BY <1>0, <1>1 DEF DiskText
<1>2. CASE Store \/ \E ch \in Channel : FailStore(ch)
  <2>1. ASSUME NEW ch \in Channel, inflight[ch] # Idle, Landed(inflight[ch])
        PROVE  p \notin DiskText' /\ \A b \in Branch : ~In(p, tree'[b], NoFile)
    <3>1. p \in inflight[ch] => p[1] = Worktree
      BY <2>1 DEF Loose, In
    <3>2. p \notin inflight[ch] /\ DiskText' = inflight[ch]
      BY <1>0, <2>1, <3>1, LandedStored
    <3> QED BY <1>0, <2>1, <3>2 DEF Landed
  <2>2. CASE FinishStore \/ FinishDrain
    BY <2>1, <2>2 DEF FinishStore, FinishDrain, Channel
  <2> QED BY <1>1, <1>2, <2>2 DEF Store, DeferStore, SkipStore, BeginStore, FailStore,
          git
<1>3. CASE Client \/ DiskEvent \/ GitEventJoins \/ CheckoutHead \/ UNCHANGED vars
  BY <1>1, <1>3 DEF Client, Load, Unload, UserEdit, DiskEvent, GitEventJoins,
     CheckoutHead, vars, git
<1>4. CASE ForeignWrite
  <2>1. /\ UNCHANGED <<head, tree, checkout>> /\ Worktree' = Worktree
        /\ disk # NoFile /\ disk' = disk \cup {<<Worktree, edits + 1>>}
    BY <1>4 DEF ForeignWrite, headVars, Worktree
  <2>2. p \in disk' => p[1] = Worktree
    BY <1>0, <2>1 DEF DiskText
  <2>3. p \notin DiskText'
    BY <2>1, <2>2 DEF Stored, FileOf, DiskText
  <2> QED BY <1>0, <2>1, <2>3
<1>5. CASE GitCommit
  <2>1. UNCHANGED disk /\ (UNCHANGED tree \/ tree' = [tree EXCEPT ![head] = disk])
    BY <1>5 DEF GitCommit
  <2> QED BY <1>0, <2>1 DEF DiskText, In
<1>6. ASSUME NEW b \in Branch, CheckoutFiles(b)
      PROVE p \notin DiskText' /\ \A other \in Branch : ~In(p, tree'[other], NoFile)
  BY <1>0, <1>6 DEF CheckoutFiles, DiskText, In
<1>7. ASSUME NEW h \in Holder, SyncMerges(h)
      PROVE p \notin DiskText' /\ \A b \in Branch : ~In(p, tree'[b], NoFile)
  <2>1. /\ UNCHANGED <<head, checkout>> /\ Worktree' = head
        /\ disk # NoFile /\ disk' = disk \cup {<<head, edits + 1>>}
        /\ tree' = [tree EXCEPT ![head] = disk']
    BY <1>7 DEF SyncMerges, HeadUnchanged, Worktree
  <2>2. p \in disk' => p[1] = head
    BY <1>0, <2>1 DEF DiskText
  <2>3. p \notin DiskText'
    BY <2>1, <2>2 DEF Stored, FileOf, DiskText
  <2> QED BY <1>0, <2>1, <2>3 DEF In, DiskText
<1>8. ASSUME NEW h \in Holder, SyncHolds(h) \/ SyncReleases(h)
      PROVE p \notin DiskText' /\ \A b \in Branch : ~In(p, tree'[b], NoFile)
  BY <1>1, <1>8 DEF SyncHolds, SyncReleases, git
<1>9. ASSUME NEW c \in Call, Callback(c)
      PROVE p \notin DiskText' /\ \A b \in Branch : ~In(p, tree'[b], NoFile)
  BY <1>1, <1>9 DEF Callback, BeginBatch, RaiseGate, ParkDone, NoBatchToEnd,
     EndWithinBranch, FlushWithinBranch, EndOtherBranch, RestoreParked, Reopen,
     EndDone, git
<1> QED BY <1>2, <1>3, <1>4, <1>5, <1>6, <1>7, <1>8, <1>9 DEF Next, World

LEMMA LooseEvents ==
  ASSUME TypeOK, NEW p, Loose(p), [Next]_vars
  PROVE  \A i \in 1 .. Len(buffer') : p \notin buffer'[i].text
<1>0. buffer \in Seq(Event) /\ p \notin DiskText /\
      \A i \in 1 .. Len(buffer) : p \notin buffer[i].text
  BY DEF TypeOK, Event, Loose
<1>1. CASE UNCHANGED buffer \/ buffer' = <<>>
  BY <1>0, <1>1
<1>2. CASE DiskEvent
  <2>1. PICK event : /\ event.text = DiskText
                     /\ UNCHANGED buffer \/ buffer' = Append(buffer, event)
    BY <1>2 DEF DiskEvent
  <2>2. SUFFICES ASSUME buffer' = Append(buffer, event), NEW i \in 1 .. Len(buffer')
                 PROVE  p \notin buffer'[i].text
    BY <1>1, <2>1
  <2>3. CASE i \in 1 .. Len(buffer)
    BY <1>0, <2>2, <2>3
  <2>4. CASE i = Len(buffer) + 1
    BY <1>0, <2>1, <2>2, <2>4
  <2> QED BY <1>0, <2>2, <2>3, <2>4
<1>3. CASE Store \/ \E ch \in Channel : FailStore(ch)
  BY <1>1, <1>3 DEF Store, DeferStore, SkipStore, BeginStore, FinishStore, FinishDrain,
     FailStore, Landed, gateVars
<1>4. CASE Client \/ GitEventJoins \/ CheckoutHead \/ UNCHANGED vars
  BY <1>1, <1>4 DEF Client, Load, Unload, UserEdit, GitEventJoins, CheckoutHead,
     WorldMoves, vars, gateVars
<1>5. CASE World \/ \E h \in Holder : SyncReleases(h)
  BY <1>1, <1>5 DEF World, ForeignWrite, GitCommit, CheckoutFiles, SyncHolds,
     SyncMerges,
     SyncReleases, WorldMoves, gateVars
<1>6. ASSUME NEW c \in Call, Callback(c)
      PROVE \A i \in 1 .. Len(buffer') : p \notin buffer'[i].text
  BY <1>1, <1>6 DEF Callback, BeginBatch, RaiseGate, ParkDone, NoBatchToEnd,
     EndWithinBranch, FlushWithinBranch, EndOtherBranch, RestoreParked, Reopen,
     EndDone, gateVars
<1> QED BY <1>2, <1>3, <1>4, <1>5, <1>6 DEF Next

(* Where the files are of another branch from now on, no store was running.*)
LEMMA WorktreeStays ==
  ASSUME TypeOK, [Next]_vars, ~leak'
  PROVE  Worktree' = Worktree \/ \A ch \in Channel : inflight[ch] = Idle /\ inflight'[ch] = Idle
<1>1. CASE UNCHANGED <<head, checkout>>
  BY <1>1 DEF Worktree
<1>2. CASE Store \/ \E ch \in Channel : FailStore(ch)
  BY <1>1, <1>2 DEF Store, DeferStore, SkipStore, BeginStore, FinishStore, FinishDrain,
     FailStore, Landed, git, headVars
<1>3. CASE Client \/ DiskEvent \/ GitEventJoins \/ UNCHANGED vars
  BY <1>1, <1>3 DEF Client, Load, Unload, UserEdit, DiskEvent, GitEventJoins, JoinBatch,
     vars, git, headVars
<1>4. CASE CheckoutHead
  BY <1>4 DEF CheckoutHead, MoveHead, Worktree
<1>5. CASE World \/ \E h \in Holder : SyncReleases(h)
  <2>1. ASSUME NEW b \in Branch, CheckoutFiles(b)
        PROVE  \A ch \in Channel : inflight[ch] = Idle /\ inflight'[ch] = Idle
    BY <2>1 DEF CheckoutFiles, WorldMoves, stores
  <2> QED BY <1>1, <1>5, <2>1 DEF World, ForeignWrite, GitCommit, SyncHolds, SyncMerges,
          SyncReleases, HeadUnchanged, headVars, git
<1>6. ASSUME NEW c \in Call, Callback(c) PROVE Worktree' = Worktree
  <2>1. UNCHANGED <<head, checkout>>
    BY <1>6 DEF Callback, BeginBatch, OpenBatch, RaiseGate, ParkDone, BeginReturns,
       NoBatchToEnd, EndNothing, AwaitBegin, EndWithinBranch, EndBatch,
       FlushWithinBranch, EndOtherBranch, RestoreParked, Reopen, EndDone, EndReturns,
       git, headVars
  <2> QED BY <2>1 DEF Worktree
<1> QED BY <1>2, <1>3, <1>4, <1>5, <1>6 DEF Next

LEMMA LooseFlights ==
  ASSUME TypeOK, NEW p, Loose(p), [Next]_vars, ~leak'
  PROVE  \A ch \in Channel : In(p, inflight'[ch], Idle) => p[1] = Worktree'
BY TakenNext, WorktreeStays DEF Taken, Loose, In

(* What a document has, as one of its states.                              *)
LooseState(p, st) ==
  /\ p[1] = active => ~In(p, st.base, Undefined)
  /\ p \in st.doc /\ ~st.tombstone => p[1] = active
NotRisked(p, st) == p \in typed /\ p \notin st.atRisk

LEMMA HandledLoose ==
  ASSUME NEW p, NEW st \in DocState, NEW event \in Event, p \notin event.text,
         NotRisked(p, st) => LooseState(p, st)
  PROVE  NotRisked(p, HandleEvent(st, event)) => LooseState(p, HandleEvent(st, event))
<1>1. CASE ~st.loaded \/ event.kind = "create"
  BY <1>1 DEF HandleEvent
<1>2. CASE st.loaded /\ event.kind = "delete"
  BY <1>2 DEF HandleEvent, HandleDelete, NotRisked, LooseState, In
<1>3. CASE st.loaded /\ event.kind = "update"
  <2> DEFINE bs  == IF st.base = Undefined THEN {} ELSE st.base
             new == MergeTexts(bs, st.doc, event.text)
             after == HandleUpdate(st, event)
  <2>0. HandleEvent(st, event) = after
    BY <1>3 DEF HandleEvent
  <2>1. CASE event.text = bs
    BY <2>0, <2>1 DEF HandleUpdate
  <2>2. CASE event.text # bs
    <3>1. /\ after.doc = new /\ after.base = new
          /\ after.atRisk = st.atRisk \cup (typed \cap ((st.doc \cup new) \ event.text))
      BY <2>2 DEF HandleUpdate, DocState
    <3>2. NotRisked(p, after) => p \notin new
      BY <3>1 DEF NotRisked
    <3> QED BY <2>0, <3>1, <3>2 DEF LooseState, In
  <2> QED BY <2>1, <2>2
<1> QED BY <1>1, <1>2, <1>3 DEF Event

LEMMA LooseDocument ==
  ASSUME TypeOK, Closed, NEW p \in Safe, p \notin atRisk', Loose(p), [Next]_vars
  PROVE  \/ Stored(p)'
         \/ ~In(p, base'[p[1]], Undefined) /\ (p \in doc' /\ ~tombstone' => p[1] = active')
<1> DEFINE Goal == /\ ~In(p, base'[p[1]], Undefined)
                   /\ p \in doc' /\ ~tombstone' => p[1] = active'
<1>0. /\ p \in typed /\ p[1] \in Branch /\ head \in Branch /\ active \in Branch
      /\ base \in [Branch -> Text \cup {Undefined}]
      /\ inflight \in [Channel -> Text \cup {Idle}]
      /\ buffer \in Seq(Event) /\ p \notin DiskText
  BY SafeTyped DEF TypeOK, HeadTypeOK, Safe, Event, Loose
<1>1. CASE UNCHANGED <<doc, base, tombstone, active>>
  BY <1>1 DEF Loose
<1>2. ASSUME NEW st, NotRisked(p, st) => LooseState(p, st), Becomes(st), UNCHANGED active
      PROVE  Goal
  <2>1. LooseState(p, st)
    BY <1>0, <1>2 DEF NotRisked, Becomes
  <2> QED BY <1>0, <1>2, <2>1 DEF LooseState, Becomes, Loose
<1>3. NotRisked(p, Doc) => LooseState(p, Doc)
  BY DEF LooseState, Doc, Base, Loose
<1>4. CASE Client
  <2>1. CASE Load
    BY <1>0, <2>1 DEF Load, DiskText, Loose, In
  <2>2. CASE Unload
    BY <1>0, <2>2 DEF Unload, gateVars, Loose
  <2>3. CASE UserEdit
    BY <1>0, <2>3 DEF UserEdit, gateVars, Loose
  <2> QED BY <1>4, <2>1, <2>2, <2>3 DEF Client
<1>5. CASE Store \/ \E ch \in Channel : FailStore(ch)
  <2>1. ASSUME NEW ch \in Channel, inflight[ch] # Idle, Landed(inflight[ch])
        PROVE  Stored(p)' \/ Goal
    <3>1. p \in inflight[ch] => Stored(p)'
      BY <1>0, <2>1, LandedStored DEF Loose, In
    <3>2. p \notin inflight[ch] => Goal
      BY <1>0, <2>1 DEF Landed, document, Loose, In
    <3> QED BY <3>1, <3>2
  <2>2. CASE FinishStore \/ FinishDrain
    BY <2>1, <2>2 DEF FinishStore, FinishDrain, Channel
  <2> QED BY <1>1, <1>5, <2>2 DEF Store, DeferStore, SkipStore, BeginStore, FailStore,
          document, gateVars
<1>6. CASE DiskEvent
  <2>1. PICK event : /\ event = [kind |-> IF disk = NoFile THEN "delete"
                                            ELSE IF known THEN "update" ELSE "create",
                                  text |-> DiskText, branch |-> Worktree]
                     /\ UNCHANGED <<doc, base, tombstone>> \/ Becomes(HandleEvent(Doc,
                                    event))
                     /\ UNCHANGED active
    BY <1>6 DEF DiskEvent, document
  <2>2. event \in Event /\ p \notin event.text
    BY <1>0, <2>1, TextsTyped DEF Event
  <2> QED BY <1>1, <1>2, <1>3, <2>1, <2>2, HandledLoose, DocTyped
<1>7. CASE World \/ GitEventJoins \/ CheckoutHead \/ UNCHANGED vars
  BY <1>1, <1>7 DEF World, ForeignWrite, GitCommit, CheckoutFiles, SyncHolds,
     SyncMerges,
     GitEventJoins, CheckoutHead, WorldMoves, document, gateVars, vars
<1>8. ASSUME NEW h \in Holder, SyncReleases(h) PROVE Stored(p)' \/ Goal
  BY <1>1, <1>8 DEF SyncReleases, document
<1>9. ASSUME NEW c \in Call, EndWithinBranch(c) PROVE Goal
  <2> DEFINE S == {st \in DocState : NotRisked(p, st) => LooseState(p, st)}
  <2>1. Doc \in S
    BY <1>3, DocTyped
  <2>2. ASSUME NEW st \in DocState \cap S, NEW i \in 1 .. Len(buffer)
        PROVE  HandleEvent(st, buffer[i]) \in S
    BY <1>0, HandledLoose, HandledTyped, EventsBranches DEF Loose
  <2>3. After[Len(buffer)] \in S
    <3> HIDE DEF S
    <3> QED BY <2>1, <2>2, ReplayKeeps
  <2> QED BY <1>2, <1>9, <2>3 DEF EndWithinBranch
<1>10. ASSUME NEW c \in Call, EndOtherBranch(c) PROVE Goal
  <2>1. active' = head /\ p \notin atRisk'
        /\ IF ~loaded THEN UNCHANGED <<doc, tombstone, base>>
           ELSE IF disk = NoFile
             THEN tombstone' = TRUE /\ UNCHANGED <<doc, base>>
             ELSE doc' = disk /\ base' = [base EXCEPT ![head] = disk] /\ UNCHANGED tombstone
    BY <1>10 DEF EndOtherBranch
  <2>2. CASE ~loaded
    BY <2>1, <2>2 DEF Closed, Loose
  <2>3. CASE loaded /\ disk = NoFile
    BY <2>1, <2>3 DEF Loose
  <2>4. CASE loaded /\ disk # NoFile
    BY <1>0, <2>1, <2>4 DEF Loose, In, DiskText
  <2> QED BY <2>2, <2>3, <2>4
<1>11. ASSUME NEW c \in Call, RestoreParked(c) PROVE Stored(p)' \/ Goal
  <2>1. PICK park, text :
          /\ IF ToRestore(park)
               THEN /\ doc' = text /\ base' = [base EXCEPT ![active] = text]
                    /\ atRisk' = atRisk \cup (typed \cap (text \ DiskText))
               ELSE UNCHANGED <<doc, base>>
          /\ UNCHANGED <<tombstone, active>>
    BY <1>11 DEF RestoreParked
  <2>2. CASE ToRestore(park)
    <3>1. p \notin text
      BY <1>0, <2>1, <2>2
    <3> QED BY <1>0, <2>1, <2>2, <3>1 DEF Loose, In
  <2> QED BY <1>1, <2>1, <2>2
<1>12. ASSUME NEW c \in Call, Callback(c) PROVE Stored(p)' \/ Goal
  <2>1. CASE BeginBatch(c) \/ RaiseGate(c) \/ ParkDone(c) \/ NoBatchToEnd(c) \/
             FlushWithinBranch(c) \/ Reopen(c) \/ EndDone(c)
    BY <1>1, <2>1 DEF BeginBatch, RaiseGate, ParkDone, NoBatchToEnd, FlushWithinBranch,
       Reopen, EndDone, document, gateVars
  <2> QED BY <1>9, <1>10, <1>11, <1>12, <2>1 DEF Callback
<1> QED BY <1>4, <1>5, <1>6, <1>7, <1>8, <1>12 DEF Next

LEMMA RecordedNext ==
  ASSUME TypeOK, Closed, NEW p \in Safe, p \notin atRisk', Recorded(p), [Next]_vars, ~leak'
  PROVE  Recorded(p)'
<1>1. p \in typed
  BY DEF Safe
<1>2. CASE Stored(p)
  BY <1>1, <1>2, StoredStays DEF Recorded
<1>3. CASE Loose(p)
  BY <1>1, <1>3, LooseFiles, LooseEvents, LooseDocument, LooseFlights DEF Recorded,
     Loose, In
<1> QED BY <1>2, <1>3 DEF Recorded
-----------------------------------------------------------------------------
(* Where it is.  Waits: on a branch that is not active its file has it, or *)
(* what is parked there restores it.  Holding: on the active branch the    *)
(* document has it, and so has the base if a restore is pending, for the   *)
(* restore merges with the base; until the restore it may be parked only.  *)
(* Snapped: from the snapshot a batch takes to its end, what it parks, or  *)
(* has parked, must do for the branch that may be left.                    *)
Drafted(park, p) == park # None /\ p \in park.markdown \ park.diskSnapshot
Waits(park, p) ==
  /\ Stored(p) \/ Drafted(park, p)
  /\ park # None /\ p \in park.diskSnapshot => p \in park.markdown

Restoring == \E e \in Call : InTask(e, "rebuild")
Storing   == \E ch \in Channel : inflight[ch] # Idle
Snapped   == inBatch /\ \A c \in Call : ~InTask(c, "commit") /\ ~Parking(c)

Holding(p, st) ==
  IF ~st.loaded THEN Waits(parked[active], p) /\ (Restoring \/ Stored(p))
  ELSE IF Restoring THEN Drafted(parked[active], p) \/ (p \in st.doc /\ In(p, st.base, Undefined))
  ELSE p \in st.doc

Away(p)  == p[1] # active => p[1] \notin Detached /\ Waits(parked[p[1]], p)
Held(p)  == Holding(p, Doc)
Onto(p)  == loaded /\ Restoring /\ Storing => Drafted(parked[active], p) \/ p \in DiskText
Taking(p) ==
  /\ Snapped => Waits(parked[active], p)
  /\ \A c \in Call : Parking(c) => p \in task[c].park.markdown /\ Waits(task[c].park, p)
Here(p)  == p[1] = active => active \notin Detached /\ Held(p) /\ Onto(p) /\ Taking(p)
Present(p) == Away(p) /\ Here(p)

LEMMA WaitsStays ==
  ASSUME TypeOK, NEW p \in typed, p \notin atRisk', NEW park, Waits(park, p), [Next]_vars
  PROVE  Waits(park, p)'
BY StoredStays DEF Waits, Drafted

(* A restore is pending only while an end runs, and no begin does.         *)
LEMMA RestoringSnapped ==
  ASSUME InOrder, Restoring PROVE Snapped /\ Ending
<1>1. PICK e \in Call : InTask(e, "rebuild")
  BY DEF Restoring
<1>2. At(e, "end") /\ inBatch /\ Ending
  BY <1>1 DEF InOrder, CallInOrder, EndTask, InTask, Ending
<1>3. beginInFlight = None
  BY <1>2 DEF InOrder, BatchInOrder
<1>4. \A c \in Call : ~At(c, "begin")
  BY <1>3, NoneAssumption DEF InOrder, CallInOrder
<1> QED BY <1>2, <1>4 DEF InOrder, CallInOrder, BeginTask, InTask, Parking, Snapped

(* While a store runs, no step takes it out of the file on disk.           *)
LEMMA DiskStays ==
  ASSUME TypeOK, NEW p \in typed, p \notin atRisk', p \in DiskText, Storing, [Next]_vars,
         ~leak'
  PROVE  p \in DiskText'
<1>0. inflight \in [Channel -> Text \cup {Idle}]
  BY DEF TypeOK
<1>1. CASE UNCHANGED disk
  BY <1>1 DEF DiskText
<1>2. CASE Store \/ \E ch \in Channel : FailStore(ch)
  <2>1. ASSUME NEW ch \in Channel, inflight[ch] # Idle, Landed(inflight[ch])
        PROVE  p \in DiskText'
    <3>1. DiskText' = inflight[ch]
      BY <1>0, <2>1, LandedStored
    <3> QED BY <2>1, <3>1 DEF Landed
  <2>2. CASE FinishStore \/ FinishDrain
    BY <2>1, <2>2 DEF FinishStore, FinishDrain, Channel
  <2> QED BY <1>1, <1>2, <2>2 DEF Store, DeferStore, SkipStore, BeginStore, FailStore,
          git
<1>3. CASE Client \/ DiskEvent \/ GitEventJoins \/ CheckoutHead \/ UNCHANGED vars
  BY <1>1, <1>3 DEF Client, Load, Unload, UserEdit, DiskEvent, GitEventJoins,
     CheckoutHead, vars, git
<1>4. ASSUME disk # NoFile, edits < MaxEdits, NEW b \in Branch,
             disk' = disk \cup {<<b, edits + 1>>}
      PROVE  p \in DiskText'
  <2>1. disk' # NoFile
    <3>1. disk \in Text /\ {<<b, edits + 1>>} \in Text
      BY <1>4, TextsTyped DEF TypeOK
    <3> QED BY <1>4, <3>1, UnionTyped, NoFileIsNoText
  <2> QED BY <1>4, <2>1 DEF DiskText
<1>5. CASE World \/ \E h \in Holder : SyncReleases(h)
  <2>1. CASE ForeignWrite
    BY <1>4, <2>1, TextsTyped DEF ForeignWrite
  <2>2. ASSUME NEW h \in Holder, SyncMerges(h) PROVE p \in DiskText'
    BY <1>4, <2>2 DEF SyncMerges, TypeOK, HeadTypeOK
  <2>3. ASSUME NEW b \in Branch, CheckoutFiles(b) PROVE FALSE
    BY <2>3 DEF CheckoutFiles, Storing
  <2> QED BY <1>1, <1>5, <2>1, <2>2, <2>3 DEF World, GitCommit, SyncHolds, SyncReleases,
          git
<1>6. ASSUME NEW c \in Call, Callback(c) PROVE p \in DiskText'
  BY <1>1, <1>6 DEF Callback, BeginBatch, RaiseGate, ParkDone, NoBatchToEnd,
     EndWithinBranch, FlushWithinBranch, EndOtherBranch, RestoreParked, Reopen,
     EndDone, git
<1> QED BY <1>2, <1>3, <1>5, <1>6 DEF Next

LEMMA OntoNext ==
  ASSUME TypeOK, InOrder, NEW p \in Safe, p \notin atRisk', p[1] = active, Here(p),
         [Next]_vars, ~leak',
         loaded, Restoring, UNCHANGED active, parked'[active] = parked[active]
  PROVE  Onto(p)'
<1>0. p \in typed /\ parked \in [Branch -> ParkedDoc \cup {None}] /\ Snapped
  BY RestoringSnapped DEF Safe, TypeOK
<1> SUFFICES ASSUME Storing', ~Drafted(parked[active], p) PROVE p \in DiskText'
  BY DEF Onto, Drafted
<1>1. CASE Storing
  BY <1>0, <1>1, DiskStays DEF Here, Onto
<1>2. CASE ~Storing
  <2>1. PICK ch \in Channel : inflight'[ch] # Idle
    BY DEF Storing
  <2>2. active = Worktree /\ Worktree' = Worktree
    BY <1>2, <2>1, TakenNext, WorktreeStays DEF Taken, Storing
  <2>3. Stored(p)'
    BY <1>0, StoredStays DEF Here, Taking, Waits
  <2> QED BY <2>2, <2>3 DEF Stored, FileOf
<1> QED BY <1>1, <1>2

(* The steps that leave it where it is.                                    *)
LEMMA TakingStays ==
  ASSUME TypeOK, NEW p \in typed, p \notin atRisk', Taking(p), [Next]_vars,
         UNCHANGED <<parked, task, active, inBatch>>
  PROVE  Taking(p)' /\ (Restoring' <=> Restoring)
<1>1. \A park : Waits(park, p) => Waits(park, p)'
  BY WaitsStays
<1> QED BY <1>1 DEF Taking, Restoring, Snapped, Parking, InTask

LEMMA PresentStays ==
  ASSUME TypeOK, InOrder, NEW p \in Safe, p \notin atRisk', Present(p), [Next]_vars, ~leak',
         UNCHANGED <<active, loaded>>, doc \subseteq doc', parked'[p[1]] = parked[p[1]],
         UNCHANGED base \/ (Storing /\ (p \in DiskText => In(p, base'[active], Undefined))),
         p[1] = active => Taking(p)' /\ (Restoring' <=> Restoring)
  PROVE  Present(p)'
<1>0. p \in typed
  BY DEF Safe
<1>1. /\ \A park : Waits(park, p) => Waits(park, p)'
      /\ Stored(p) => Stored(p)'
  BY <1>0, WaitsStays, StoredStays
<1>2. Away(p)'
  BY <1>1 DEF Present, Away
<1>3. ASSUME p[1] = active PROVE Held(p)'
  <2>0. Holding(p, Doc) /\ Onto(p) /\ parked'[active] = parked[active] /\
        (Restoring' <=> Restoring)
    BY <1>3 DEF Present, Here, Held
  <2>1. CASE ~loaded
    BY <1>1, <2>0, <2>1 DEF Held, Holding, Doc
  <2>2. CASE loaded /\ ~Restoring
    BY <2>0, <2>2 DEF Held, Holding, Doc
  <2>3. CASE loaded /\ Restoring
    <3>1. CASE Drafted(parked[active], p)
      BY <2>0, <2>3, <3>1 DEF Held, Holding, Doc, Drafted
    <3>2. CASE ~Drafted(parked[active], p)
      <4>1. p \in doc' /\ In(p, base[active], Undefined)
        BY <2>0, <2>3, <3>2 DEF Holding, Doc, Base
      <4>2. In(p, base'[active], Undefined)
        BY <2>0, <2>3, <3>2, <4>1 DEF Onto
      <4> QED BY <2>0, <2>3, <4>1, <4>2 DEF Held, Holding, Doc, Base, In
    <3> QED BY <3>1, <3>2
  <2> QED BY <2>1, <2>2, <2>3
<1>4. ASSUME p[1] = active PROVE Onto(p)'
  BY <1>4, OntoNext DEF Present, Onto
<1> QED BY <1>2, <1>3, <1>4 DEF Present, Here

LEMMA PresentQuiet ==
  ASSUME TypeOK, InOrder, NEW p \in Safe, p \notin atRisk', Present(p), [Next]_vars, ~leak',
         UNCHANGED <<active, loaded, parked, task, inBatch>>, doc \subseteq doc',
         UNCHANGED base \/ (Storing /\ (p \in DiskText => In(p, base'[active], Undefined)))
  PROVE  Present(p)'
<1>1. p[1] = active => Taking(p)' /\ (Restoring' <=> Restoring)
  BY TakingStays DEF Present, Here, Safe
<1> QED BY <1>1, PresentStays

(* A store lands.                                                          *)
LEMMA LandedPresent ==
  ASSUME TypeOK, InOrder, NEW p \in Safe, p \notin atRisk', Present(p), [Next]_vars, ~leak',
         NEW ch \in Channel, inflight[ch] # Idle, Landed(inflight[ch])
  PROVE  Present(p)'
<1>0. inflight[ch] \in Text /\ active \in Branch /\
      base \in [Branch -> Text \cup {Undefined}]
  BY DEF TypeOK
<1>1. UNCHANGED <<parked, task, active, inBatch, loaded, doc>> /\ Storing
  BY DEF Landed, headVars, document, Storing
<1>2. p \in DiskText => p \in inflight[ch]
  BY DEF Landed, Safe
<1>3. p \in DiskText => In(p, base'[active], Undefined)
  BY <1>0, <1>2, NoFileIsNoText DEF Landed, In
<1> QED BY <1>1, <1>3, PresentQuiet

(* A document is opened, or a branch switched to: what its file has is in  *)
(* the text that was read, unless another branch's file was read.          *)
LEMMA MisreadMarked ==
  ASSUME NEW p \in typed, NEW b, p \notin Misread(b), p \in FileOf(b) PROVE p \in DiskText
BY DEF Misread, FileOf

LEMMA LoadPresent ==
  ASSUME TypeOK, InOrder, NEW p \in Safe, p \notin atRisk', Present(p), [Next]_vars,
         ~leak', Load
  PROVE  Present(p)'
<1>0. /\ p \in typed /\ active \in Branch /\ base \in [Branch -> Text \cup {Undefined}]
      /\ ~loaded /\ loaded' = TRUE /\ doc' = DiskText
      /\ base' = IF disk = NoFile THEN base ELSE [base EXCEPT ![active] = disk]
      /\ UNCHANGED <<parked, task, active, inBatch, head, checkout, disk>>
      /\ p \notin Misread(active)
  BY DEF Load, Safe, TypeOK, headVars, git
<1>1. /\ \A park : Waits(park, p) => Waits(park, p)'
      /\ (Restoring' <=> Restoring) /\ (Snapped' <=> Snapped)
      /\ \A c : Parking(c)' <=> Parking(c)
  BY <1>0, WaitsStays DEF Restoring, Snapped, Parking, InTask
<1>2. Away(p)'
  BY <1>0, <1>1 DEF Present, Away
<1>3. ASSUME p[1] = active
      PROVE  Held(p)' /\ Onto(p)' /\ Taking(p)'
  <2>1. Waits(parked[active], p) /\ (Restoring \/ Stored(p)) /\ Taking(p)
    BY <1>0, <1>3 DEF Present, Here, Held, Holding, Doc
  <2>2. Stored(p) => p \in DiskText /\ DiskText' = DiskText
    BY <1>0, <1>3, MisreadMarked DEF Stored, DiskText
  <2>3. Stored(p) => p \in doc' /\ In(p, base'[active], Undefined)
    BY <1>0, <2>2, NoFileIsNoText DEF DiskText, In, TypeOK
  <2>4. Held(p)'
    BY <1>0, <1>1, <2>1, <2>3 DEF Held, Holding, Doc, Base, Waits, Drafted, In
  <2>5. Onto(p)'
    BY <1>0, <2>1, <2>2 DEF Onto, Waits, Drafted
  <2>6. Taking(p)'
    BY <1>0, <1>1, <2>1 DEF Taking
  <2> QED BY <2>4, <2>5, <2>6
<1> QED BY <1>0, <1>2, <1>3 DEF Present, Here

LEMMA UnloadPresent ==
  ASSUME TypeOK, InOrder, NEW p \in Safe, p \notin atRisk', Present(p), [Next]_vars, Unload
  PROVE  Present(p)'
<1>0. /\ p \in typed /\ loaded /\ loaded' = FALSE /\ p \notin doc
      /\ UNCHANGED <<parked, task, active, inBatch>>
  BY DEF Unload, Safe, headVars, gateVars
<1>1. /\ \A park : Waits(park, p) => Waits(park, p)'
      /\ (Restoring' <=> Restoring) /\ (Snapped' <=> Snapped)
      /\ \A c : Parking(c)' <=> Parking(c)
  BY <1>0, WaitsStays DEF Restoring, Snapped, Parking, InTask
<1>2. Away(p)'
  BY <1>0, <1>1 DEF Present, Away
<1>3. ASSUME p[1] = active
      PROVE  Held(p)' /\ Onto(p)' /\ Taking(p)'
  <2>1. Restoring /\ Drafted(parked[active], p) /\ Taking(p)
    BY <1>0, <1>3 DEF Present, Here, Held, Holding, Doc
  <2>2. Held(p)'
    BY <1>0, <1>1, <2>1 DEF Held, Holding, Doc, Waits, Drafted
  <2>3. Onto(p)'
    BY <1>0 DEF Onto
  <2>4. Taking(p)'
    BY <1>0, <1>1, <2>1 DEF Taking
  <2> QED BY <2>2, <2>3, <2>4
<1> QED BY <1>0, <1>2, <1>3 DEF Present, Here

(* One event: what the document loses with it is marked.                   *)
LEMMA HandledHolding ==
  ASSUME NEW p, NEW st \in DocState, NEW event \in Event,
         NotRisked(p, st) => Holding(p, st)
  PROVE  LET after == HandleEvent(st, event)
         IN  (NotRisked(p, after) => Holding(p, after)) /\ (after.loaded => st.loaded)
<1>1. CASE ~st.loaded \/ event.kind = "create"
  BY <1>1 DEF HandleEvent
<1>2. CASE st.loaded /\ event.kind = "delete"
  BY <1>2 DEF HandleEvent, HandleDelete, NotRisked, Holding, Waits, Drafted
<1>3. CASE st.loaded /\ event.kind = "update"
  <2> DEFINE bs  == IF st.base = Undefined THEN {} ELSE st.base
             new == MergeTexts(bs, st.doc, event.text)
             after == HandleUpdate(st, event)
  <2>0. HandleEvent(st, event) = after
    BY <1>3 DEF HandleEvent
  <2>1. CASE event.text = bs
    BY <2>0, <2>1 DEF HandleUpdate
  <2>2. CASE event.text # bs
    <3>1. /\ after.doc = new /\ after.base = new /\ after.loaded = st.loaded
          /\ after.atRisk = st.atRisk \cup (typed \cap ((st.doc \cup new) \ event.text))
      BY <2>2 DEF HandleUpdate, DocState
    <3>2. NotRisked(p, after) /\ p \in st.doc => p \in new
      BY <3>1 DEF NotRisked, MergeTexts
    <3>3. new \in Text /\ new # Undefined
      <4>1. bs \in Text /\ st.doc \in Text /\ event.text \in Text
        BY DEF DocState, Event, Text
      <4> QED BY <4>1, MergeTyped, NoFileIsNoText
    <3> QED BY <1>3, <2>0, <3>1, <3>2, <3>3 DEF NotRisked, Holding, In
  <2> QED BY <2>1, <2>2
<1> QED BY <1>1, <1>2, <1>3 DEF Event

LEMMA BecomesPresent ==
  ASSUME TypeOK, InOrder, NEW p \in Safe, p \notin atRisk', Present(p), [Next]_vars, ~leak',
         NEW st, p[1] = active /\ NotRisked(p, st) => Holding(p, st), st.loaded => loaded,
         Becomes(st), UNCHANGED <<parked, active, inBatch>>,
         Restoring' <=> Restoring, Snapped' <=> Snapped,
         \A c \in Call : Parking(c)' => Parking(c) /\ task'[c] = task[c]
  PROVE  Present(p)'
<1>0. /\ p \in typed /\ active \in Branch /\ base \in [Branch -> Text \cup {Undefined}]
      /\ loaded' = st.loaded /\ doc' = st.doc /\ base'[active] = st.base
  BY DEF Becomes, Safe, TypeOK
<1>1. (\A park : Waits(park, p) => Waits(park, p)') /\ (Stored(p) => Stored(p)')
  BY <1>0, WaitsStays, StoredStays
<1>2. Away(p)'
  BY <1>1 DEF Present, Away
<1>3. ASSUME p[1] = active
      PROVE  Held(p)' /\ Onto(p)' /\ Taking(p)'
  <2>1. Holding(p, st)
    BY <1>0, <1>3 DEF NotRisked, Becomes
  <2>2. Held(p)'
    BY <1>0, <1>1, <2>1 DEF Held, Holding, Doc, Base, Drafted, In
  <2>3. Onto(p)'
    BY <1>0, <1>3, OntoNext DEF Present, Onto
  <2>4. Taking(p)'
    BY <1>1, <1>3 DEF Present, Here, Taking
  <2> QED BY <2>2, <2>3, <2>4
<1> QED BY <1>2, <1>3 DEF Present, Here

LEMMA DiskEventPresent ==
  ASSUME TypeOK, InOrder, NEW p \in Safe, p \notin atRisk', Present(p), [Next]_vars,
         ~leak', DiskEvent
  PROVE  Present(p)'
<1>0. UNCHANGED <<parked, task, active, inBatch>>
  BY DEF DiskEvent, headVars
<1>1. PICK event : /\ event = [kind |-> IF disk = NoFile THEN "delete"
                                          ELSE IF known THEN "update" ELSE "create",
                                text |-> DiskText, branch |-> Worktree]
                   /\ \/ UNCHANGED <<document, base>>
                      \/ Becomes(HandleEvent(Doc, event))
  BY DEF DiskEvent
<1>2. CASE UNCHANGED <<document, base>>
  BY <1>0, <1>2, PresentQuiet DEF document
<1>3. CASE Becomes(HandleEvent(Doc, event))
  <2>1. event \in Event
    BY <1>1, TextsTyped DEF Event
  <2>2. (Restoring' <=> Restoring) /\ (Snapped' <=> Snapped) /\
        \A c : Parking(c)' <=> Parking(c)
    BY <1>0 DEF Restoring, Snapped, Parking, InTask
  <2>3. p[1] = active => Holding(p, Doc)
    BY DEF Present, Here, Held
  <2>4. HandleEvent(Doc, event).loaded => loaded
    BY <2>1, HandledHolding DEF HandleEvent, HandleDelete, HandleUpdate, Doc
  <2> QED BY <1>0, <1>3, <2>1, <2>2, <2>3, <2>4, DocTyped, HandledHolding,
          BecomesPresent
<1> QED BY <1>1, <1>2, <1>3

(* A task goes on, but does not begin or end the taking or the restoring.  *)
LEMMA TaskGoesOn ==
  ASSUME TypeOK, NEW c \in Call, NEW t, Step(c, t),
         task[c].at \notin BeginTask \cup {"rebuild"}, t.at \notin BeginTask \cup {"rebuild"}
  PROVE  /\ Restoring' <=> Restoring
         /\ \A d \in Call : (InTask(d, "commit")' <=> InTask(d, "commit"))
                            /\ (Parking(d)' <=> Parking(d))
                            /\ (Parking(d) => task'[d] = task[d])
<1>1. task \in [Call -> Task]
  BY TypeParts DEF TasksTyped
<1>2. \A d \in Call : task'[d] = IF d = c THEN t ELSE task[d]
  BY <1>1 DEF Step
<1> QED BY <1>2 DEF Restoring, InTask, Parking, BeginTask

LEMMA TaskPresent ==
  ASSUME TypeOK, InOrder, NEW p \in Safe, p \notin atRisk', Present(p), [Next]_vars, ~leak',
         NEW c \in Call, NEW t, Step(c, t), inBatch' => inBatch,
         task[c].at \notin BeginTask \cup {"rebuild"}, t.at \notin BeginTask \cup {"rebuild"},
         UNCHANGED <<active, loaded, doc, base>>, parked'[p[1]] = parked[p[1]]
  PROVE  Present(p)'
<1>1. /\ Restoring' <=> Restoring
      /\ \A d \in Call : (InTask(d, "commit")' <=> InTask(d, "commit"))
                         /\ (Parking(d)' <=> Parking(d))
                         /\ (Parking(d) => task'[d] = task[d])
  BY TaskGoesOn
<1>2. \A park : Waits(park, p) => Waits(park, p)'
  BY WaitsStays DEF Safe
<1>3. ASSUME p[1] = active PROVE Taking(p)'
  <2>1. Taking(p)
    BY <1>3 DEF Present, Here
  <2>2. Snapped' => Snapped
    BY <1>1 DEF Snapped
  <2> QED BY <1>1, <1>2, <1>3, <2>1, <2>2 DEF Taking
<1> QED BY <1>1, <1>3, PresentStays

LEMMA BeginBatchPresent ==
  ASSUME TypeOK, InOrder, NEW p \in Safe, p \notin atRisk', Present(p), [Next]_vars, ~leak',
         NEW c \in Call, BeginBatch(c), ~overlapped'
  PROVE  Present(p)'
<1>0. /\ ~Ending /\ ~inBatch /\ UNCHANGED <<active, loaded, doc, base, parked>>
      /\ task' = [task EXCEPT ![c] = Now("commit")] /\ task \in [Call -> Task]
  BY TypeParts DEF BeginBatch, OpenBatch, Step, document, TasksTyped
<1>1. beginInFlight = None
  BY <1>0 DEF InOrder, BatchInOrder
<1>2. \A d \in Call : task[d].at # "park" /\ task[d].at # "rebuild"
  BY <1>0, <1>1, NoneAssumption DEF InOrder, CallInOrder, BeginTask, EndTask, Ending
<1>3. (\A d \in Call : ~Parking(d)') /\ ~Restoring' /\ ~Restoring /\ ~Snapped'
  BY <1>0, <1>2 DEF Parking, Restoring, Snapped, InTask, Now
<1>4. Taking(p)'
  BY <1>3 DEF Taking
<1> QED BY <1>0, <1>3, <1>4, PresentStays

(* The snapshot has what the document has, and what the base has the file  *)
(* has too.                                                                *)
LEMMA RaiseGatePresent ==
  ASSUME TypeOK, InOrder, NEW p \in Safe, p \notin atRisk', Recorded(p), Present(p),
         [Next]_vars, ~leak',
         NEW c \in Call, RaiseGate(c)
  PROVE  Present(p)'
<1> DEFINE park == IF loaded
                     THEN [branch |-> active, markdown |-> doc,
                           diskSnapshot |-> IF Base = Undefined THEN doc ELSE Base]
                     ELSE None
<1>0. /\ InTask(c, "commit") /\ UNCHANGED <<active, loaded, doc, base, parked>>
      /\ task' = [task EXCEPT ![c] = [at |-> "park", park |-> park]]
      /\ task \in [Call -> Task]
      /\ loaded /\ Base = Undefined => p \notin doc
  BY TypeParts DEF RaiseGate, Step, document, TasksTyped, Safe
<1>1. beginInFlight = c /\ ~Ending
  BY <1>0, NoneAssumption DEF InOrder, CallInOrder, BatchInOrder, BeginTask, InTask
<1>2. ~Restoring
  BY <1>1, RestoringSnapped
<1>3. ~Restoring'
  BY <1>0, <1>2 DEF Restoring, InTask
<1>4. ASSUME NEW d \in Call, Parking(d)' PROVE d = c /\ loaded
  <2>1. d # c => Parking(d)
    BY <1>0, <1>4 DEF Parking, InTask
  <2>2. Parking(d) => beginInFlight = d
    BY DEF Parking, InTask, InOrder, CallInOrder, BeginTask
  <2>3. d = c
    BY <1>1, <2>1, <2>2
  <2> QED BY <1>0, <1>4, <2>3 DEF Parking
<1>5. \A other : Waits(other, p) => Waits(other, p)'
  BY WaitsStays DEF Safe
<1>6. ASSUME p[1] = active PROVE Taking(p)'
  <2>1. CASE ~loaded
    <3>1. Waits(parked[active], p)
      BY <1>6, <2>1 DEF Present, Here, Held, Holding, Doc
    <3> QED BY <1>0, <1>4, <1>5, <2>1, <3>1 DEF Taking
  <2>2. CASE loaded
    <3>1. p \in doc /\ Base # Undefined
      BY <1>0, <1>2, <1>6, <2>2 DEF Present, Here, Held, Holding, Doc
    <3>2. p \in Base => Stored(p)
      BY <1>6, <3>1 DEF Recorded, Loose, In, Base
    <3>3. park # None /\ park.markdown = doc /\ park.diskSnapshot = Base
      <4>1. active \in Branch /\ doc \in Text /\ Base \in Text
        BY <3>1 DEF TypeOK, Base
      <4>2. park = [branch |-> active, markdown |-> doc, diskSnapshot |-> Base]
        BY <2>2, <3>1
      <4>3. park \in ParkedDoc
        BY <4>1, <4>2 DEF ParkedDoc
      <4> QED BY <4>2, <4>3, ParkedAssumption
    <3>4. p \in park.markdown /\ Waits(park, p)
      BY <3>1, <3>2, <3>3 DEF Waits, Drafted
    <3>5. task'[c].park = park /\ Parking(c)'
      BY <1>0, <3>3 DEF Parking, InTask
    <3>6. ~Snapped'
      BY <3>5 DEF Snapped
    <3> QED BY <1>4, <1>5, <3>4, <3>5, <3>6 DEF Taking
  <2> QED BY <2>1, <2>2
<1> QED BY <1>0, <1>2, <1>3, <1>6, PresentStays

(* The ref moves to the snapshot, which does; if it does not, the text in  *)
(* the snapshot is marked.                                                 *)
LEMMA ParkDonePresent ==
  ASSUME TypeOK, InOrder, NEW p \in Safe, p \notin atRisk', Present(p), [Next]_vars, ~leak',
         NEW c \in Call, ParkDone(c)
  PROVE  Present(p)'
<1> DEFINE park == task[c].park
<1>0. /\ InTask(c, "park") /\ task' = [task EXCEPT ![c] = NoTask] /\ task \in [Call -> Task]
      /\ parked \in [Branch -> ParkedDoc \cup {None}] /\ active \in Branch /\ p \in typed
      /\ p[1] \in Branch /\ UNCHANGED <<active, loaded, doc, base, inBatch>>
  BY TypeParts, SafeTyped DEF ParkDone, BeginReturns, Step, document, TasksTyped,
     TypeOK, Safe
<1>1. beginInFlight = c /\ inBatch /\ ~Ending /\ ~Restoring
  <2>1. beginInFlight = c /\ c # None
    BY <1>0, NoneAssumption DEF InOrder, CallInOrder, BeginTask, InTask
  <2> QED BY <2>1, RestoringSnapped DEF InOrder, BatchInOrder
<1>2. \A d \in Call : d # c => task[d].at \notin BeginTask
  BY <1>1 DEF InOrder, CallInOrder
<1>3. (\A d \in Call : ~Parking(d)') /\ ~Restoring'
  BY <1>0, <1>1, <1>2 DEF Parking, Restoring, InTask, NoTask, BeginTask
<1>4. (\A other : Waits(other, p) => Waits(other, p)') /\ (Stored(p) => Stored(p)')
  BY <1>0, WaitsStays, StoredStays
<1>5. Parking(c) => park.branch = active
  BY DEF InOrder, CallInOrder
<1>6. CASE p[1] # active
  <2>1. parked'[p[1]] = parked[p[1]]
    BY <1>0, <1>5, <1>6 DEF ParkDone, Parking
  <2> QED BY <1>0, <1>6, <2>1, PresentStays
<1>7. CASE p[1] = active /\ park = None
  <2>1. Snapped /\ parked' = parked
    BY <1>0, <1>1, <1>2, <1>7 DEF Snapped, Parking, InTask, BeginTask, ParkDone
  <2>2. Taking(p)'
    BY <1>0, <1>3, <1>4, <1>7, <2>1 DEF Present, Here, Taking
  <2> QED BY <1>0, <1>1, <1>3, <2>1, <2>2, PresentStays
<1>8. CASE p[1] = active /\ park # None
  <2>1. p \in park.markdown /\ Waits(park, p)
    BY <1>0, <1>8 DEF Present, Here, Taking, Parking
  <2>2. parked'[active] = park
    <3>1. parked' = [parked EXCEPT ![park.branch] = park]
      BY <1>0, <1>8, <2>1 DEF ParkDone
    <3> QED BY <1>0, <1>5, <1>8, <3>1 DEF Parking
  <2>3. Taking(p)'
    BY <1>0, <1>3, <1>4, <2>1, <2>2 DEF Taking
  <2>4. Held(p)'
    BY <1>0, <1>1, <1>3, <1>4, <1>8, <2>1, <2>2
       DEF Present, Here, Held, Holding, Doc, Waits, Drafted
  <2>5. Away(p)' /\ Onto(p)'
    BY <1>0, <1>3, <1>8 DEF Away, Onto
  <2> QED BY <1>0, <1>8, <2>3, <2>4, <2>5 DEF Present, Here
<1> QED BY <1>6, <1>7, <1>8

(* The end of a batch of the branch: the events are handled one by one.    *)
LEMMA EndWithinBranchPresent ==
  ASSUME TypeOK, InOrder, NEW p \in Safe, p \notin atRisk', Present(p), [Next]_vars, ~leak',
         NEW e \in Call, EndWithinBranch(e), ~overlapped'
  PROVE  Present(p)'
<1> DEFINE S == {st \in DocState : /\ p[1] = active /\ NotRisked(p, st) => Holding(p, st)
                                   /\ st.loaded => loaded}
<1>0. /\ EndBatch(e) /\ Step(e, Now("drain")) /\ Becomes(After[Len(buffer)])
      /\ UNCHANGED <<parked, active, inBatch>> /\ buffer \in Seq(Event)
  BY DEF EndWithinBranch, EndBatch, TypeOK, Event
<1>1. task[e].at \notin BeginTask \cup EndTask
  BY <1>0, EndAlone
<1>2. /\ (Restoring' <=> Restoring) /\ (Snapped' <=> Snapped)
      /\ \A d \in Call : Parking(d)' => Parking(d) /\ task'[d] = task[d]
  <2>1. "drain" \notin BeginTask \cup {"rebuild"} /\ "rebuild" \in EndTask
    BY DEF BeginTask, EndTask
  <2>2. /\ Restoring' <=> Restoring
        /\ \A d \in Call : (InTask(d, "commit")' <=> InTask(d, "commit"))
                           /\ (Parking(d)' <=> Parking(d))
                           /\ (Parking(d) => task'[d] = task[d])
    BY <1>0, <1>1, <2>1, TaskGoesOn DEF Now
  <2> QED BY <1>0, <2>2 DEF Snapped
<1>3. Doc \in S
  BY DocTyped DEF Present, Here, Held, Doc
<1>4. ASSUME NEW st \in DocState \cap S, NEW i \in 1 .. Len(buffer)
      PROVE  HandleEvent(st, buffer[i]) \in S
  <2>1. buffer[i] \in Event
    BY <1>0
  <2>2. HandleEvent(st, buffer[i]).loaded => st.loaded
    BY <2>1 DEF HandleEvent, HandleDelete, HandleUpdate, DocState
  <2> QED BY <2>1, <2>2, HandledTyped, HandledHolding
<1>5. After[Len(buffer)] \in S
  <2> HIDE DEF S
  <2> QED BY <1>3, <1>4, ReplayKeeps
<1> QED BY <1>0, <1>2, <1>5, BecomesPresent

(* The end of a batch of another branch: the branch that is left has it in *)
(* its file or parked, and so has the one that is switched to; what its    *)
(* file has is in the text that is read.                                   *)
LEMMA EndOtherBranchPresent ==
  ASSUME TypeOK, InOrder, NEW p \in Safe, p \notin atRisk', Present(p), [Next]_vars,
         NEW e \in Call, EndOtherBranch(e), ~overlapped'
  PROVE  Present(p)'
<1>0. /\ EndBatch(e) /\ task' = [task EXCEPT ![e] = Now("rebuild")]
      /\ task \in [Call -> Task]
      /\ UNCHANGED <<parked, inBatch, loaded,
                     disk>> /\ active' = head /\ head \in Branch
      /\ base \in [Branch -> Text \cup {Undefined}] /\ disk \in Text \cup {NoFile}
      /\ p \in typed /\ p[1] \in Branch
  BY TypeParts, SafeTyped DEF EndOtherBranch, EndBatch, Step, TasksTyped, TypeOK,
     HeadTypeOK,
     git, Safe
<1>1. /\ active = lastKnownBranch /\ inBatch
      /\ \A d \in Call : task[d].at \notin BeginTask \cup EndTask
  BY <1>0, EndAlone
<1>2. Snapped /\ ~Restoring
  BY <1>1 DEF Snapped, Restoring, Parking, InTask, BeginTask, EndTask
<1>3. Restoring' /\ \A d \in Call : ~Parking(d)'
  BY <1>0, <1>1 DEF Restoring, Parking, InTask, Now, BeginTask
<1>4. head \in Detached \/ head # active
  BY <1>1 DEF EndOtherBranch, BatchKind
<1>5. \A park : Waits(park, p) => Waits(park, p)'
  BY <1>0, WaitsStays
<1>6. CASE p[1] # head
  <2>1. p[1] \notin Detached /\ Waits(parked[p[1]], p)
    BY <1>2 DEF Present, Away, Here, Taking
  <2> QED BY <1>0, <1>5, <1>6, <2>1 DEF Present, Away, Here
<1>7. CASE p[1] = head
  <2>1. head # active /\ head \notin Detached /\ Waits(parked[head], p)
    BY <1>4, <1>7 DEF Present, Away, Here
  <2>2. ASSUME loaded, ~Drafted(parked[head], p)
        PROVE  p \in doc' /\ In(p, base'[head], Undefined) /\ p \in DiskText'
    <3>1. p \notin Misread(head) /\ p \in FileOf(head)
      BY <1>7, <2>1, <2>2 DEF EndOtherBranch, Waits, Stored
    <3>2. p \in DiskText
      BY <1>0, <3>1, MisreadMarked
    <3>3. disk # NoFile /\ p \in disk
      BY <3>2 DEF DiskText
    <3>4. doc' = disk /\ base' = [base EXCEPT ![head] = disk]
      BY <2>2, <3>3 DEF EndOtherBranch
    <3> QED BY <1>0, <3>2, <3>3, <3>4, NoFileIsNoText DEF In, DiskText
  <2>3. Held(p)'
    BY <1>0, <1>3, <1>5, <2>1, <2>2 DEF Held, Holding, Doc, Base, Drafted, In
  <2>4. Onto(p)'
    BY <1>0, <2>2 DEF Onto, Drafted
  <2>5. Taking(p)'
    BY <1>0, <1>3, <1>5, <2>1 DEF Taking
  <2> QED BY <1>0, <1>7, <2>1, <2>3, <2>4, <2>5 DEF Present, Away, Here
<1> QED BY <1>6, <1>7

(* What is restored is what the base has and what was drafted over it.     *)
LEMMA RestoreParkedPresent ==
  ASSUME TypeOK, InOrder, FinalNewline, NEW p \in Safe, p \notin atRisk', Present(p),
         [Next]_vars,
         NEW e \in Call, RestoreParked(e)
  PROVE  Present(p)'
<1> DEFINE park == parked[active]
           text == MergeTexts(park.diskSnapshot, park.markdown, Base)
<1>0. /\ InTask(e, "rebuild") /\ task' = [task EXCEPT ![e] = Now("reopen")]
      /\ task \in [Call -> Task] /\ active \in Branch /\ p \in typed
      /\ base \in [Branch -> Text \cup {Undefined}]
      /\ UNCHANGED <<parked, inBatch, loaded, active>>
  BY TypeParts DEF RestoreParked, Step, TasksTyped, TypeOK, headVars, Safe
<1>1. At(e, "end") /\ active = call[e].new /\ Snapped
  BY <1>0, RestoringSnapped DEF InOrder, CallInOrder, InTask, EndTask, Restoring
<1>2. ~Restoring' /\ (\A d \in Call : ~Parking(d)')
  <2>1. \A d \in Call : d # e => ~InTask(d, "rebuild")
    BY <1>1 DEF InOrder, BatchInOrder, CallInOrder, InTask, EndTask
  <2>2. \A d \in Call : ~Parking(d)
    BY <1>1 DEF Snapped
  <2> QED BY <1>0, <2>1, <2>2 DEF Restoring, Parking, InTask, Now
<1>3. (\A other : Waits(other, p) => Waits(other, p)') /\ (Stored(p) => Stored(p)')
  BY <1>0, WaitsStays, StoredStays
<1>4. CASE p[1] # active
  BY <1>0, <1>3, <1>4 DEF Present, Away, Here
<1>5. CASE p[1] = active
  <2>1. active \notin Detached /\ Holding(p, Doc) /\ Waits(park, p)
    BY <1>1, <1>5 DEF Present, Here, Held, Taking
  <2>2. BatchKind(call[e].old, call[e].new) = "cross-branch"
    BY <1>0, <1>1, <2>1 DEF InOrder, CallInOrder, BatchKind
  <2>3. Restoring
    BY <1>0 DEF Restoring
  <2>4. ASSUME loaded PROVE p \in doc'
    <3>1. Drafted(park, p) \/ (p \in doc /\ p \in BaseText)
      BY <2>1, <2>3, <2>4 DEF Holding, Doc, In, Base, BaseText
    <3>2. CASE ToRestore(park)
      <4>1. doc' = text
        BY <1>1, <2>2, <3>2 DEF RestoreParked
      <4>2. Drafted(park, p) => p \in text
        BY DEF Drafted, MergeTexts
      <4>3. p \in BaseText /\ ~Drafted(park, p) => p \in text
        BY <2>1, <3>2 DEF Waits, Drafted, MergeTexts, BaseText, ToRestore
      <4> QED BY <3>1, <4>1, <4>2, <4>3
    <3>3. CASE ~ToRestore(park)
      <4>1. /\ doc' = doc
            /\ atRisk' = IF (loaded /\ BaseText # {}) \/ park = None THEN atRisk
                         ELSE atRisk \cup (typed \cap park.markdown)
        BY <1>1, <2>2, <3>3 DEF RestoreParked
      <4>2. ~Drafted(park, p)
        BY <1>0, <2>4, <3>3, <4>1 DEF Drafted, ToRestore
      <4> QED BY <3>1, <4>1, <4>2
    <3> QED BY <3>2, <3>3
  <2>5. ASSUME ~loaded PROVE Stored(p)
    <3>1. CASE Drafted(park, p)
      <4>1. atRisk' = atRisk \cup (typed \cap park.markdown)
        BY <1>1, <2>2, <2>5, <3>1 DEF RestoreParked, ToRestore, Drafted
      <4> QED BY <1>0, <3>1, <4>1 DEF Drafted
    <3> QED BY <2>1, <3>1 DEF Waits
  <2>6. Held(p)'
    BY <1>0, <1>2, <1>3, <2>1, <2>4, <2>5 DEF Held, Holding, Doc
  <2>7. Away(p)' /\ Onto(p)' /\ Taking(p)'
    BY <1>0, <1>2, <1>3, <1>5, <2>1 DEF Away, Onto, Taking
  <2> QED BY <1>0, <1>5, <2>1, <2>6, <2>7 DEF Present, Here
<1> QED BY <1>4, <1>5

LEMMA CallbackPresent ==
  ASSUME TypeOK, InOrder, FinalNewline, NEW p \in Safe, p \notin atRisk', Recorded(p),
         Present(p),
         [Next]_vars, ~leak', ~overlapped', NEW c \in Call, Callback(c)
  PROVE  Present(p)'
<1>1. CASE NoBatchToEnd(c)
  <2>1. UNCHANGED <<active, loaded, parked, task, inBatch, doc, base>>
    BY <1>1 DEF NoBatchToEnd, EndNothing, AwaitBegin, gateVars, document
  <2> QED BY <2>1, PresentQuiet
<1>2. ASSUME NEW at \in {"drain", "reopen", "flush"}, InTask(c, at),
             NEW t \in {Now("flush"), NoTask}, Step(c, t), inBatch' => inBatch,
             UNCHANGED <<active, loaded, doc, base>>,
             \/ UNCHANGED parked
             \/ \E b \in Detached : parked' = [parked EXCEPT ![b] = None]
      PROVE  Present(p)'
  <2>1. p[1] \in Branch /\ p[1] \notin Detached /\
        parked \in [Branch -> ParkedDoc \cup {None}]
    BY SafeTyped DEF Present, Away, Here, Safe, TypeOK
  <2>2. parked'[p[1]] = parked[p[1]]
    BY <1>2, <2>1
  <2>3. task[c].at \notin BeginTask \cup {"rebuild"} /\
        t.at \notin BeginTask \cup {"rebuild"}
    BY <1>2 DEF InTask, Now, NoTask, BeginTask
  <2> QED BY <1>2, <2>2, <2>3, TaskPresent
<1>3. CASE FlushWithinBranch(c)
  BY <1>2, <1>3 DEF FlushWithinBranch, headVars, document
<1>4. CASE Reopen(c)
  BY <1>2, <1>4 DEF Reopen, headVars, document
<1>5. CASE EndDone(c)
  <2>1. inBatch' => inBatch
    BY <1>5 DEF EndDone, EndReturns
  <2> QED BY <1>2, <1>5, <2>1 DEF EndDone, document
<1> QED BY <1>1, <1>3, <1>4, <1>5, BeginBatchPresent, RaiseGatePresent, ParkDonePresent,
        EndWithinBranchPresent, EndOtherBranchPresent, RestoreParkedPresent DEF Callback

LEMMA PresentNext ==
  ASSUME TypeOK, InOrder, FinalNewline, NEW p \in Safe, p \notin atRisk', Recorded(p),
         Present(p),
         [Next]_vars, ~leak', ~overlapped'
  PROVE  Present(p)'
<1>1. CASE UNCHANGED <<active, loaded, doc, base, parked, task, inBatch>>
  BY <1>1, PresentQuiet
<1>2. CASE Client
  <2>1. CASE UserEdit
    BY <2>1, PresentQuiet DEF UserEdit, headVars, gateVars
  <2> QED BY <1>2, <2>1, LoadPresent, UnloadPresent DEF Client
<1>3. CASE Store \/ \E ch \in Channel : FailStore(ch)
  <2>1. CASE FinishStore \/ FinishDrain
    BY <2>1, LandedPresent DEF FinishStore, FinishDrain, Channel
  <2> QED BY <1>1, <1>3, <2>1 DEF Store, DeferStore, SkipStore, BeginStore, FailStore,
          document, gateVars, headVars
<1>4. CASE World \/ GitEventJoins \/ CheckoutHead \/ UNCHANGED vars
  BY <1>1, <1>4 DEF World, ForeignWrite, GitCommit, CheckoutFiles, SyncHolds,
     SyncMerges,
     GitEventJoins, JoinBatch, CheckoutHead, MoveHead, HeadUnchanged, WorldMoves,
     document, gateVars, headVars, vars
<1>5. ASSUME NEW h \in Holder, SyncReleases(h) PROVE Present(p)'
  BY <1>1, <1>5 DEF SyncReleases, document, headVars
<1> QED BY <1>2, <1>3, <1>4, <1>5, CallbackPresent, DiskEventPresent DEF Next

-----------------------------------------------------------------------------
(* What becomes safe in a step: a paragraph that is typed while nothing is *)
(* being parked or restored, and one that lands then.                      *)
LandsNow(p) ==
  /\ p \in typed /\ p \in doc /\ p[1] = active /\ active = Worktree /\ ~Unparked
  /\ \E ch \in Channel : inflight[ch] # Idle /\ Landed(inflight[ch]) /\ p \in inflight[ch]
TypedNow(p) == UserEdit /\ ~Unparked /\ p = <<active, edits + 1>>

LEMMA NewlySafe ==
  ASSUME TypeOK, NEW p \in Safe', p \notin Safe,
         [Next]_vars PROVE LandsNow(p) \/ TypedNow(p)
<1>0. atRisk \in Text /\ buffer \in Seq(Event)
  BY DEF TypeOK, Event
<1>1. CASE UserEdit
  BY <1>1 DEF UserEdit, TypedNow, Safe
<1>2. ASSUME NEW ch \in Channel, inflight[ch] # Idle, Landed(inflight[ch])
      PROVE LandsNow(p)
  BY <1>2 DEF Landed, LandsNow, Safe
<1>3. CASE atRisk \subseteq atRisk' /\ typed' = typed
  BY <1>3 DEF Safe
<1>4. ASSUME NEW st \in DocState, NEW event, atRisk \subseteq st.atRisk
      PROVE  atRisk \subseteq HandleEvent(st, event).atRisk
  BY <1>4 DEF HandleEvent, HandleDelete, HandleUpdate, DocState
<1>5. CASE Store \/ \E ch \in Channel : FailStore(ch)
  <2>1. CASE FinishStore \/ FinishDrain
    BY <1>2, <2>1 DEF FinishStore, FinishDrain, Channel
  <2> QED BY <1>3, <1>5, <2>1 DEF Store, DeferStore, SkipStore, BeginStore, FailStore,
          ghosts
<1>6. CASE Client \/ GitEventJoins \/ CheckoutHead \/ UNCHANGED vars
  BY <1>1, <1>3, <1>6 DEF Client, Load, Unload, GitEventJoins, CheckoutHead, WorldMoves,
     vars, ghosts
<1>7. CASE World \/ \E h \in Holder : SyncReleases(h)
  BY <1>3, <1>7 DEF World, ForeignWrite, GitCommit, CheckoutFiles, SyncHolds,
     SyncMerges,
     SyncReleases, WorldMoves, ghosts
<1>8. CASE DiskEvent
  <2>1. atRisk \subseteq Doc.atRisk
    BY DEF Doc
  <2> QED BY <1>3, <1>4, <1>8, <2>1, DocTyped DEF DiskEvent, Becomes
<1>9. ASSUME NEW c \in Call, EndWithinBranch(c)
      PROVE atRisk \subseteq atRisk' /\ typed' = typed
  <2> DEFINE S == {st \in DocState : atRisk \subseteq st.atRisk}
  <2>1. Doc \in S
    BY DocTyped DEF Doc
  <2>2. ASSUME NEW st \in DocState \cap S, NEW i \in 1 .. Len(buffer)
        PROVE  HandleEvent(st, buffer[i]) \in S
    BY <1>0, <1>4, HandledTyped
  <2>3. After[Len(buffer)] \in S
    <3> HIDE DEF S
    <3> QED BY <2>1, <2>2, ReplayKeeps
  <2> QED BY <1>9, <2>3 DEF EndWithinBranch, Becomes
<1>10. ASSUME NEW c \in Call, Callback(c)
      PROVE atRisk \subseteq atRisk' /\ typed' = typed
  BY <1>9, <1>10 DEF Callback, BeginBatch, RaiseGate, ParkDone, NoBatchToEnd,
     FlushWithinBranch, EndOtherBranch, RestoreParked, Reopen, EndDone, ghosts
<1> QED BY <1>3, <1>5, <1>6, <1>7, <1>8, <1>10 DEF Next

LEMMA NothingParked ==
  ASSUME InOrder, ~Unparked
  PROVE  active \notin Detached /\ ~Restoring /\ ~Snapped /\ \A c \in Call : ~Parking(c)
<1>1. active \notin Detached /\ ~Snapped
  BY DEF Unparked, Snapped
<1>2. ASSUME NEW c \in Call, Parking(c) PROVE FALSE
  <2>1. beginInFlight = c /\ inBatch
    BY <1>2, NoneAssumption DEF InOrder, BatchInOrder, CallInOrder, Parking, InTask,
       BeginTask
  <2>2. PICK d \in Call : InTask(d, "commit")
    BY <2>1 DEF Unparked
  <2>3. beginInFlight = d
    BY <2>2 DEF InOrder, CallInOrder, InTask, BeginTask
  <2> QED BY <1>2, <2>1, <2>2, <2>3 DEF Parking, InTask
<1> QED BY <1>1, <1>2, RestoringSnapped

LEMMA NewlyKept ==
  ASSUME TypeOK, InOrder, Numbered, Closed, NEW p \in Safe', p \notin Safe, [Next]_vars
  PROVE  Recorded(p)' /\ Present(p)'
<1>0. inflight \in [Channel -> Text \cup {Idle}] /\
      base \in [Branch -> Text \cup {Undefined}]
      /\ active \in Branch /\ edits \in Nat /\ buffer \in Seq(Event)
  BY GateAssumption DEF TypeOK, Event
<1>1. ASSUME ~Unparked, p[1] = active, loaded', p \in doc', UNCHANGED <<task, active,
                                                                        inBatch>>
      PROVE  Present(p)'
  <2>1. active \notin Detached /\ ~Restoring' /\ ~Snapped' /\
        \A c \in Call : ~Parking(c)'
    BY <1>1, NothingParked DEF Restoring, Snapped, Parking, InTask
  <2> QED BY <1>1, <2>1 DEF Present, Away, Here, Held, Holding, Doc, Onto, Taking
<1>2. CASE LandsNow(p)
  <2>1. PICK ch \in Channel : inflight[ch] # Idle /\ Landed(inflight[ch]) /\
        p \in inflight[ch]
    BY <1>2 DEF LandsNow
  <2>2. Stored(p)'
    BY <1>0, <1>2, <2>1, LandedStored DEF LandsNow, Safe
  <2>3. loaded' /\ p \in doc' /\ UNCHANGED <<task, active, inBatch>>
    BY <1>2, <2>1 DEF LandsNow, Landed, Closed, document, headVars
  <2> QED BY <1>1, <1>2, <2>2, <2>3 DEF LandsNow, Recorded
<1>3. CASE TypedNow(p)
  <2>1. p[2] \notin Numbers /\ p[1] = active
    BY <1>0, <1>3, GateAssumption DEF TypedNow, UserEdit, Numbers
  <2>2. UNCHANGED <<tree, disk, buffer, base, inflight, active, head, checkout, task,
                    inBatch>>
        /\ loaded' /\ p \in doc'
    BY <1>3 DEF TypedNow, UserEdit, git, gateVars, stores, headVars
  <2>3. Loose(p)
    BY <1>0, <2>1 DEF Loose, In, Numbered, FilesOld, DocumentOld, FlightsOld, EventsOld,
       Old
  <2>4. Loose(p)'
    BY <2>1, <2>2, <2>3 DEF Loose, DiskText, Worktree
  <2> QED BY <1>1, <1>3, <2>1, <2>2, <2>4 DEF TypedNow, Recorded
<1> QED BY <1>2, <1>3, NewlySafe

-----------------------------------------------------------------------------
(* Everything that is safe is kept.                                        *)
Lost   == leak \/ overlapped \/ ~FinalNewline
Kept   == Lost \/ \A p \in Safe : Recorded(p) /\ Present(p)
KeptInv == TypeInv /\ (overlapped \/ InOrder) /\ Numbered /\ Closed /\ Kept

LEMMA KeptInit ==
  ASSUME Init PROVE KeptInv
<1>0. /\ doc = {} /\ base = [b \in Branch |-> Undefined]
      /\ inflight = [ch \in Channel |-> Idle]
      /\ buffer = <<>> /\ task = [c \in Call |-> NoTask] /\ atRisk = {} /\ edits = 0
      /\ active = head /\ checkout = None /\ disk = tree[head] /\ ~loaded
  BY DEF Init
<1>1. /\ call = [c \in Call |-> Free] /\ beginInFlight = None /\ lastKnownBranch = head
      /\ head \in Branch
  BY DEF Init, HeadInit
<1>2. PICK absent \in SUBSET MayLack :
        tree = [b \in Branch |-> IF b \in absent THEN NoFile ELSE {<<b, 0>>}]
  BY DEF Init
<1>3. \A b \in Branch : tree[b] # NoFile => tree[b] = {<<b, 0>>}
  BY <1>2
<1>4. \/ typed = {} /\ parked = [b \in Branch |-> None]
      \/ \E b \in Branch \ (Detached \cup {head}) :
           /\ tree[b] # NoFile /\ typed = {<<b, MaxEdits + 1>>}
           /\ parked = [other \in Branch |-> IF other # b THEN None ELSE
                [branch |-> b, markdown |-> tree[b] \cup {<<b, MaxEdits + 1>>},
                 diskSnapshot |-> tree[b]]]
  BY DEF Init
<1>5. InOrder
  <2>1. \A c \in Call : ~At(c, "begin") /\ ~At(c, "waiting") /\ ~At(c, "end") /\
        task[c].at = "none"
    BY <1>0, <1>1 DEF At, NoTask
  <2> QED BY <1>0, <1>1, <2>1, NoneAssumption
          DEF InOrder, BatchInOrder, CallInOrder, Ending, BeginTask, EndTask, InTask, Parking
<1>6. Numbered
  <2>1. FilesOld
    BY <1>0, <1>1, <1>3 DEF FilesOld, Old, Numbers, DiskText
  <2>2. DocumentOld /\ FlightsOld /\ EventsOld
    BY <1>0 DEF DocumentOld, FlightsOld, EventsOld, Old
  <2>3. \A b \in Branch : ParkOld(parked[b])
    BY <1>0, <1>3, <1>4 DEF ParkOld, Old, Numbers
  <2>4. ParksOld
    BY <1>0, <2>3 DEF ParksOld, ParkOld, NoTask
  <2> QED BY <2>1, <2>2, <2>4 DEF Numbered
<1>7. ASSUME NEW p \in Safe PROVE Recorded(p) /\ Present(p)
  <2>1. PICK b \in Branch \ (Detached \cup {head}) :
           /\ p = <<b, MaxEdits + 1>>
           /\ parked = [other \in Branch |-> IF other # b THEN None ELSE
                [branch |-> b, markdown |-> tree[b] \cup {p}, diskSnapshot |-> tree[b]]]
           /\ tree[b] = {<<b, 0>>}
    BY <1>3, <1>4 DEF Safe
  <2>2. p # <<p[1], 0>> /\ \A c \in Branch : p # <<c, 0>>
    BY <2>1, GateAssumption
  <2>3. Loose(p)
    BY <1>0, <1>1, <1>3, <2>1, <2>2 DEF Loose, In, DiskText
  <2>4. parked[b] \in ParkedDoc
    <3>1. tree[b] \cup {p} \in Text /\ tree[b] \in Text
      BY <2>1, GateAssumption DEF Text, Paragraph
    <3> QED BY <2>1, <3>1 DEF ParkedDoc
  <2>5. Waits(parked[b], p)
    BY <2>1, <2>2, <2>4, ParkedAssumption DEF Waits, Drafted
  <2> QED BY <1>0, <2>1, <2>3, <2>5 DEF Recorded, Present, Away, Here
<1> QED BY <1>0, <1>5, <1>6, <1>7, TypeInvInit DEF KeptInv, Kept, Closed

LEMMA KeptNext ==
  ASSUME KeptInv, [Next]_vars PROVE KeptInv'
<1>1. TypeInv' /\ Numbered' /\ Closed' /\ (overlapped' \/ InOrder')
  BY TypeInvNext, NumberedNext, ClosedNext, OverlapStays, OrderNext DEF KeptInv, TypeInv
<1>2. Kept'
  <2>1. SUFFICES ASSUME ~leak', ~overlapped', FinalNewline, NEW p \in Safe'
                 PROVE  Recorded(p)' /\ Present(p)'
    BY DEF Kept, Lost
  <2>2. TypeOK /\ InOrder /\ Numbered /\ Closed /\ \A q \in Safe : Recorded(q) /\
        Present(q)
    BY <2>1, LeakStays, OverlapStays DEF KeptInv, Kept, Lost, TypeInv
  <2>3. p \notin atRisk'
    BY DEF Safe
  <2> QED BY <2>1, <2>2, <2>3, RecordedNext, PresentNext, NewlyKept
<1> QED BY <1>1, <1>2 DEF KeptInv

(* An open document has what was typed on its branch, whatever branches    *)
(* were switched to since.                                                 *)
THEOREM DraftsReturn == Spec => []DraftReturns
<1>1. KeptInv => DraftReturns
  BY DEF KeptInv, Kept, Lost, Safe, Present, Here, Held, Holding, Doc, Restoring,
     DraftReturns
<1> QED BY <1>1, KeptInit, KeptNext, PTL DEF Spec
=============================================================================
