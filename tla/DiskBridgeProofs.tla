-------------------------- MODULE DiskBridgeProofs --------------------------
(***************************************************************************)
(* Theorems about DiskBridge, for every number of blocks, watcher batches, *)
(* writes, failures and restarts.                                          *)
(***************************************************************************)
EXTENDS MCDiskBridge, WellFoundedInduction, TLAPS

USE BoundsAssumption, SentinelAssumption, FreeAssumption

(* A three-way merge of texts is a text. *)
LEMMA MergeIsContent ==
  ASSUME NEW bs \in Content, NEW ours \in Content, NEW theirs \in Content
  PROVE  /\ Merge(bs, ours, theirs) \in Content
         /\ NewContent(bs, ours, theirs) \in Content
<1>1. \A b \in Block : MergeBlock(bs[b], ours[b], theirs[b]) \in SUBSET Nat
  BY DEF MergeBlock, Content
<1>2. Merge(bs, ours, theirs) \in Content
  BY <1>1 DEF Merge, Content
<1> QED BY <1>2 DEF NewContent

(* A block in which the document differs from the base survives the merge: *)
(* reconciliation.ts keeps ours in a clash and both of two insertions.     *)
LEMMA MergeKeepsOurs ==
  ASSUME NEW bs \in Content, NEW ours \in Content, NEW theirs \in Content,
         NEW b \in Block, ours[b] # bs[b]
  PROVE  ours[b] \subseteq NewContent(bs, ours, theirs)[b]
<1>1. ours # bs
  OBVIOUS
<1>2. ours[b] \subseteq MergeBlock(bs[b], ours[b], theirs[b])
  BY DEF MergeBlock
<1>3. NewContent(bs, ours, theirs)[b] = MergeBlock(bs[b], ours[b], theirs[b])
  BY <1>1 DEF NewContent, Merge
<1> QED BY <1>2, <1>3

(* Using up one entry of the write tracker leaves a tracker. *)
LEMMA WithoutIsSeq ==
  ASSUME NEW S, NEW seq \in Seq(S), NEW k \in 1 .. Len(seq)
  PROVE  Without(seq, k) \in Seq(S)
<1>1. Len(seq) - 1 \in Nat
  OBVIOUS
<1>2. \A i \in 1 .. Len(seq) - 1 : (IF i < k THEN seq[i] ELSE seq[i + 1]) \in S
  OBVIOUS
<1>3. Without(seq, k) \in [1 .. Len(seq) - 1 -> S]
  BY <1>2 DEF Without
<1> QED BY <1>1, <1>3

(* A non-empty set of natural numbers has a least element. *)
Less == {pair \in Nat \X Nat : pair[1] < pair[2]}

LEMMA LeastElement ==
  ASSUME NEW T \in SUBSET Nat, T # {}
  PROVE  \E i \in T : \A j \in T : i <= j
<1>1. IsWellFoundedOn(Less, Nat)
  BY NatLessThanWellFounded DEF OpToRel, Less
<1>2. PICK i \in T : \A j \in T : <<j, i>> \notin Less
  BY <1>1, WFMin
<1>3. ASSUME NEW j \in T PROVE i <= j
  <2>1. <<j, i>> \in Nat \X Nat
    OBVIOUS
  <2>2. ~(<<j, i>>[1] < <<j, i>>[2])
    BY <1>2, <2>1 DEF Less
  <2> QED BY <2>1, <2>2
<1> QED BY <1>3

(* The hash of a self-write has a first position in the tracker. *)
LEMMA FirstMatchIsIndex ==
  ASSUME NEW hash, tracker \in Seq(Content),
         \E i \in 1 .. Len(tracker) : tracker[i] = hash
  PROVE  /\ FirstMatch(hash) \in 1 .. Len(tracker)
         /\ tracker[FirstMatch(hash)] = hash
<1> DEFINE T == {i \in 1 .. Len(tracker) : tracker[i] = hash}
<1>1. T \in SUBSET Nat /\ T # {}
  OBVIOUS
<1>2. PICK i \in T : \A j \in T : i <= j
  <2> HIDE DEF T
  <2> QED BY <1>1, LeastElement
<1>3. \A j \in 1 .. i - 1 : tracker[j] # hash
  BY <1>2
<1> QED BY <1>2, <1>3 DEF FirstMatch

-----------------------------------------------------------------------------
(* Typed texts *)

LEMMA EmptyIsContent == Empty \in Content
  BY DEF Empty, Content

LEMMA DiskTextIsContent ==
  ASSUME TypeOK
  PROVE  DiskText \in Content
  BY EmptyIsContent DEF TypeOK, DiskText

LEMMA ParagraphsAreNumbers ==
  ASSUME NEW text \in Content
  PROVE  Paragraphs(text) \subseteq Nat
  BY DEF Paragraphs, Content

LEMMA NoticeTypes ==
  ASSUME TypeOK, NEW kind \in {"create", "update", "delete"}, Notice(kind)
  PROVE  raw' \in {"none", "create", "update", "delete"}
  BY DEF TypeOK, Notice, Coalesce, Watching

(* Initially every variable has its type. *)
LEMMA InitTypes == Init => TypeOK
<1> SUFFICES ASSUME Init PROVE TypeOK
  OBVIOUS
<1>1. tracker \in Seq(Content)
  BY DEF Init
<1>2. events \in [Slot -> DiskEvent \cup {Free}]
  BY DEF Init
<1> QED BY <1>1, <1>2, EmptyIsContent DEF Init, TypeOK

(* Every step keeps the types: one step of the proof per action. *)
LEMMA NextTypes == TypeOK /\ [Next]_vars => TypeOK'
<1> SUFFICES ASSUME TypeOK, [Next]_vars PROVE TypeOK'
  OBVIOUS
<1> USE EmptyIsContent, DiskTextIsContent
<1>1. CASE Load
  BY <1>1 DEF Load, TypeOK, watchVars, counters
<1>2. ASSUME NEW b \in Block, UserEdit(b) PROVE TypeOK'
  <2>1. ydoc' \in Content
    <3>1. {writes} \in SUBSET Nat /\ {} \in SUBSET Nat
      BY DEF TypeOK
    <3>2. ydoc \in Content
      BY DEF TypeOK
    <3>3. \E p \in SUBSET Nat : ydoc' = [ydoc EXCEPT ![b] = p]
      BY <1>2, <3>1 DEF UserEdit
    <3> QED BY <3>2, <3>3 DEF Content
  <2>2. ydoc[b] \in SUBSET Nat /\ ydoc'[b] \in SUBSET Nat
    BY <2>1 DEF TypeOK, Content
  <2>3. unsaved' \subseteq Nat
    BY <1>2, <2>2 DEF UserEdit, TypeOK
  <2>4. tracker' = tracker /\ known' = known /\ raw' = raw /\ events' = events
    BY <1>2 DEF UserEdit, watchVars
  <2>5. writes' \in Nat
    BY <1>2 DEF UserEdit, TypeOK
  <2> QED BY <1>2, <2>1, <2>3, <2>4, <2>5 DEF UserEdit, TypeOK
<1>3. CASE SkipStore
  <2>1. storeTimer' = FALSE /\ breaker' \in BOOLEAN
    BY <1>3, Zenon DEF SkipStore, TypeOK
  <2>2. UNCHANGED <<server, disk, loaded, ydoc, base, lifecycle, inflight, tracker, known,
                    raw, events, writes, failures, resets, stops, unsaved, foreign, torn,
                    stirred>>
    BY <1>3, Zenon DEF SkipStore, watchVars, counters, history
  <2> QED BY <2>1, <2>2 DEF TypeOK
<1>4. CASE BeginStore
  <2>1. storeTimer' = FALSE /\ inflight' = ydoc
    BY <1>4, Zenon DEF BeginStore
  <2>2. UNCHANGED <<server, disk, loaded, ydoc, base, lifecycle, breaker, tracker, known,
                    raw, events, writes, failures, resets, stops, unsaved, foreign, torn,
                    stirred>>
    BY <1>4, Zenon DEF BeginStore, watchVars, counters, history
  <2> QED BY <2>1, <2>2 DEF TypeOK
<1>5. CASE TripwireStore
  <2>1. ydoc' \in Content /\ unsaved' \subseteq Nat
    <3>1. CASE UNCHANGED <<ydoc, unsaved>>
      BY <3>1 DEF TypeOK
    <3>2. CASE /\ ydoc' \in {base} \cup ({disk} \ {NoFile})
               /\ unsaved' = unsaved \cap Paragraphs(ydoc')
      BY <1>5, <3>2 DEF TripwireStore, TypeOK
    <3>3. UNCHANGED <<ydoc, unsaved>>
            \/ /\ ydoc' \in {base} \cup ({disk} \ {NoFile})
               /\ unsaved' = unsaved \cap Paragraphs(ydoc')
      BY <1>5, Zenon DEF TripwireStore
    <3> QED BY <3>1, <3>2, <3>3
  <2>2. breaker' \in BOOLEAN
    BY <1>5, Zenon DEF TripwireStore, TypeOK
  <2>3. resets' \in Nat
    <3>1. resets' = resets + 1
      BY <1>5, Zenon DEF TripwireStore
    <3> QED BY <3>1 DEF TypeOK
  <2>4. UNCHANGED <<server, disk, loaded, base, lifecycle, inflight, tracker, known, raw,
                    events, writes, failures, stops, foreign, torn, stirred>>
    BY <1>5, Zenon DEF TripwireStore, watchVars
  <2>5. storeTimer' \in BOOLEAN
    BY <1>5, Zenon DEF TripwireStore
  <2> QED BY <2>1, <2>2, <2>3, <2>4, <2>5 DEF TypeOK
<1>6. CASE FinishStore
  <2>1. inflight \in Content
    BY <1>6 DEF FinishStore, TypeOK
  <2>2. raw' \in {"none", "create", "update", "delete"}
    BY <1>6, NoticeTypes DEF FinishStore
  <2>3. tracker' \in Seq(Content)
    BY <1>6, <2>1 DEF FinishStore, TypeOK
  <2> QED BY <1>6, <2>1, <2>2, <2>3 DEF FinishStore, TypeOK, counters
<1>7. CASE FailStore
  BY <1>7 DEF FailStore, TypeOK, watchVars, history
<1>8. CASE ForeignWrite
  <2>1. ForeignTexts \subseteq Content
    <3>1. {writes} \in SUBSET Nat /\ {} \in SUBSET Nat
      BY DEF TypeOK
    <3>2. {tracker[i] : i \in 1 .. Len(tracker)} \subseteq Content
      BY DEF TypeOK
    <3>3. DiskText \in Content
      OBVIOUS
    <3>4. \A b \in Block : [DiskText EXCEPT ![b] = {writes}] \in Content
      BY <3>1, <3>3 DEF Content
    <3>5. \A b \in Block : [DiskText EXCEPT ![b] = {}] \in Content
      BY <3>1, <3>3 DEF Content
    <3> QED BY <3>2, <3>4, <3>5 DEF ForeignTexts
  <2>2. raw' \in {"none", "create", "update", "delete"}
    BY <1>8, NoticeTypes DEF ForeignWrite
  <2> QED BY <1>8, <2>1, <2>2 DEF ForeignWrite, TypeOK, docVars
<1>9. CASE ForeignDelete
  <2>1. raw' \in {"none", "create", "update", "delete"}
    BY <1>9, NoticeTypes DEF ForeignDelete
  <2>2. writes' \in Nat
    BY <1>9 DEF ForeignDelete, TypeOK
  <2> QED BY <1>9, <2>1, <2>2 DEF ForeignDelete, TypeOK, docVars
<1>10. ASSUME ProcessGone, stops' \in Nat, unsaved' \subseteq Nat PROVE TypeOK'
  <2>1. tracker' \in Seq(Content) /\ events' \in [Slot -> DiskEvent \cup {Free}]
    BY <1>10 DEF ProcessGone
  <2> QED BY <1>10, <2>1 DEF ProcessGone, TypeOK
<1>11. CASE Crash
  BY <1>10, <1>11 DEF Crash, TypeOK
<1>12. CASE FinishShutdown \/ TimeoutShutdown
  BY <1>10, <1>12 DEF FinishShutdown, TimeoutShutdown, TypeOK
<1>13. CASE BeginShutdown
  <2>1. tracker' \in Seq(Content) /\ stops' \in Nat
    BY <1>13 DEF BeginShutdown, TypeOK
  <2>2. known' \in BOOLEAN
    BY <1>13 DEF BeginShutdown
  <2> QED BY <1>13, <2>1, <2>2 DEF BeginShutdown, TypeOK, docVars, history
<1>14. CASE Boot
  BY <1>14 DEF Boot, TypeOK, docVars, counters
<1>15. ASSUME NEW s \in Slot, Deliver(s) PROVE TypeOK'
  <2>1. events' \in [Slot -> DiskEvent \cup {Free}]
    <3>1. [kind |-> "delete", content |-> Empty] \in DiskEvent
      BY DEF DiskEvent, EventKind
    <3>2. raw \in {"create", "update", "delete"}
      BY <1>15 DEF Deliver, TypeOK
    <3>3. raw # "delete" =>
            [kind |-> IF known THEN "update" ELSE raw, content |-> Unread] \in DiskEvent
      BY <3>2 DEF DiskEvent, EventKind
    <3> QED BY <1>15, <3>1, <3>3 DEF Deliver, TypeOK
  <2> QED BY <1>15, <2>1 DEF Deliver, TypeOK, docVars, counters, history
<1>16. ASSUME NEW s \in Slot, Read(s) PROVE TypeOK'
  <2>1. events[s] \in DiskEvent
    BY <1>16 DEF Read, Unreading, TypeOK
  <2>2. KindOf(events[s].kind, disk) \in EventKind
    BY <2>1 DEF KindOf, DiskEvent, EventKind
  <2>3. events' \in [Slot -> DiskEvent \cup {Free}]
    BY <1>16, <2>2 DEF Read, TypeOK, DiskEvent
  <2>4. known' \in BOOLEAN
    BY <1>16 DEF Read, TypeOK
  <2> QED BY <1>16, <2>3, <2>4 DEF Read, TypeOK, docVars, counters, history
<1>17. ASSUME NEW s \in Slot, HandleEvent(s) PROVE TypeOK'
  <2>1. ASSUME Arrived(s)
        PROVE  events[s] \in DiskEvent /\ events[s].content \in Content
    BY <2>1 DEF Arrived, Unreading, TypeOK, DiskEvent
  <2>2. ASSUME Done(s) PROVE events' \in [Slot -> DiskEvent \cup {Free}]
    BY <2>2 DEF Done, TypeOK
  <2>3. CASE DropSelfWrite(s)
    <3>1. tracker' \in Seq(Content)
      BY <2>3, FirstMatchIsIndex, WithoutIsSeq DEF DropSelfWrite, IsSelfWrite, TypeOK
    <3> QED BY <2>2, <2>3, <3>1 DEF DropSelfWrite, TypeOK, docVars, counters, history
  <2>4. CASE IgnoreEvent(s)
    BY <2>2, <2>4 DEF IgnoreEvent, Dispatched, TypeOK, docVars
  <2>5. CASE HandleUpdate(s)
    <3>1. NewContent(BaseText, ydoc, events[s].content) \in Content
      BY <2>1, <2>5, MergeIsContent DEF HandleUpdate, Dispatched, TypeOK, BaseText
    <3> QED BY <2>1, <2>2, <2>5, <3>1 DEF HandleUpdate, Dispatched, TypeOK, Resolved
  <2>6. CASE RefuseUpdate(s)
    BY <2>2, <2>6 DEF RefuseUpdate, Dispatched, TypeOK
  <2>7. CASE HandleDelete(s)
    BY <2>2, <2>7 DEF HandleDelete, Dispatched, TypeOK
  <2>8. CASE HandleConflict(s)
    BY <2>2, <2>8 DEF HandleConflict, Dispatched, TypeOK
  <2> QED BY <1>17, <2>3, <2>4, <2>5, <2>6, <2>7, <2>8 DEF HandleEvent
<1>18. CASE EvictStale
  BY <1>18 DEF EvictStale, TypeOK, docVars, counters, history
<1>19. CASE UNCHANGED vars
  BY <1>19 DEF vars, docVars, watchVars, counters, history, TypeOK
<1> QED
  BY <1>1, <1>2, <1>3, <1>4, <1>5, <1>6, <1>7, <1>8, <1>9, <1>11, <1>12, <1>13,
     <1>14, <1>15, <1>16, <1>17, <1>18, <1>19 DEF Next, Store, World

(* Type correctness: in every state every variable has its type. *)
THEOREM TypeCorrect == Spec => []TypeOK
  BY InitTypes, NextTypes, PTL DEF Spec

(* A reconciled external change keeps every block in which the document    *)
(* differs from its base, whatever else happens around it.                 *)
THEOREM ReconcileKeepsUnsaved == Spec => UnsavedSurvivesReconcile
<1> DEFINE Keeps == \A s \in Slot : HandleUpdate(s) =>
              \A b \in Block : ydoc[b] # BaseText[b] => ydoc[b] \subseteq ydoc'[b]
<1>1. ASSUME TypeOK PROVE Keeps
  <2> SUFFICES ASSUME NEW s \in Slot, HandleUpdate(s),
                      NEW b \in Block, ydoc[b] # BaseText[b]
               PROVE  ydoc[b] \subseteq ydoc'[b]
    OBVIOUS
  <2> DEFINE new == NewContent(BaseText, ydoc, events[s].content)
  <2>1. BaseText \in Content /\ ydoc \in Content
    BY <1>1, EmptyIsContent DEF TypeOK, BaseText
  <2>2. events[s].content \in Content
    BY <1>1 DEF HandleUpdate, Dispatched, Arrived, Unreading, TypeOK, DiskEvent
  <2>3. ydoc[b] \subseteq new[b]
    BY <2>1, <2>2, MergeKeepsOurs
  <2>4. ydoc' \in {ydoc, new}
    BY DEF HandleUpdate
  <2> QED BY <2>3, <2>4
<1>2. TypeOK => [Keeps]_vars
  BY <1>1
<1> QED BY <1>2, TypeCorrect, PTL DEF UnsavedSurvivesReconcile
-----------------------------------------------------------------------------
(* No edit is stranded, no store is echoed.  While nobody else writes the  *)
(* file, each report of the watcher that is still to come has an entry of  *)
(* its own in the tracker, however reports coalesce and overtake.          *)

(* A paragraph is the number of its write, so that every text in use has   *)
(* only numbers that were given.                                           *)
Before(n, text) == \A b \in Block : \A p \in text[b] : p < n
Held(s) == events[s] # Free
Dated ==
  /\ \A text \in {ydoc, disk, base, inflight} \cap Content : Before(writes, text)
  /\ \A i \in 1 .. Len(tracker) : Before(writes, tracker[i])
  /\ \A s \in Slot : Held(s) /\ events[s].content \in Content => Before(writes, events[s].content)

(* The process is gone, with all that it held.                             *)
Stopped ==
  server = "down" =>
    ~loaded /\ base = Undefined /\ ~storeTimer /\ inflight = Idle /\ tracker = <<>> /\ Quiet

LEMMA BeforeStays ==
  ASSUME NEW m \in Nat, NEW n \in Nat, m <= n, NEW text \in Content, Before(m, text)
  PROVE  Before(n, text)
<1> SUFFICES ASSUME NEW b \in Block, NEW p \in text[b] PROVE p < n
  BY DEF Before
<1>1. p \in Nat /\ p < m
  BY DEF Before, Content
<1> QED BY <1>1

LEMMA EmptyIsBefore == ASSUME NEW n PROVE Before(n, Empty)
  BY DEF Before, Empty

LEMMA MergeIsBefore ==
  ASSUME NEW n, NEW bs \in Content, NEW ours \in Content, NEW theirs \in Content,
         Before(n, bs), Before(n, ours), Before(n, theirs)
  PROVE  Before(n, NewContent(bs, ours, theirs))
<1>1. \A b \in Block : MergeBlock(bs[b], ours[b], theirs[b]) \subseteq bs[b] \cup ours[b] \cup theirs[b]
  BY DEF MergeBlock
<1>2. Before(n, Merge(bs, ours, theirs))
  BY <1>1 DEF Before, Merge
<1> QED BY <1>2 DEF NewContent

(* What the file holds, in any text of the process.                        *)
LEMMA DatedTexts ==
  ASSUME TypeOK, Dated
  PROVE  /\ Before(writes, ydoc) /\ Before(writes, DiskText) /\ Before(writes, BaseText)
         /\ inflight # Idle => Before(writes, inflight)
         /\ BaseText \in Content /\ DiskText \in Content
         /\ \A s \in Slot : Arrived(s) =>
              events[s].content \in Content /\ Before(writes, events[s].content)
<1>1. \A s \in Slot : Arrived(s) => Held(s) /\ events[s].content \in Content
  BY DEF Arrived, Unreading, Held, TypeOK, DiskEvent
<1>2. Before(writes, DiskText) /\ DiskText \in Content
  BY DiskTextIsContent, EmptyIsBefore DEF TypeOK, Dated, DiskText
<1>3. Before(writes, BaseText) /\ BaseText \in Content
  BY EmptyIsContent, EmptyIsBefore DEF TypeOK, Dated, BaseText
<1>4. Before(writes, ydoc) /\ (inflight # Idle => Before(writes, inflight))
  BY DEF TypeOK, Dated
<1> QED BY <1>1, <1>2, <1>3, <1>4 DEF Dated

LEMMA InitDated == Init => Dated /\ Stopped
<1> SUFFICES ASSUME Init PROVE Dated /\ Stopped
  OBVIOUS
<1>1. \A text \in {ydoc, disk, base, inflight} \cap Content : text = Empty
  BY DEF Init
<1>2. tracker = <<>> /\ \A s \in Slot : events[s] = Free
  BY DEF Init
<1> QED BY <1>1, <1>2, EmptyIsBefore DEF Dated, Held, Stopped, Init

(* A text that a step brings is an edit, a merge, or one that was in use.  *)
LEMMA NextDated == TypeOK /\ Dated /\ [Next]_vars => Dated'
<1> SUFFICES ASSUME TypeOK, Dated, [Next]_vars PROVE Dated'
  OBVIOUS
<1> USE DatedTexts, EmptyIsBefore
<1>1. CASE Load
  BY <1>1 DEF Load, Dated, Held, watchVars, counters, DiskText
<1>2. ASSUME NEW b \in Block, UserEdit(b) PROVE Dated'
  <2>1. writes \in Nat /\ writes' = writes + 1 /\ ydoc \in Content
        /\ UNCHANGED <<disk, base, inflight, tracker, events>>
    BY <1>2 DEF UserEdit, TypeOK, watchVars
  <2>2. ASSUME NEW text \in Content, Before(writes, text) PROVE Before(writes', text)
    BY <2>1, <2>2, BeforeStays
  <2>3. Before(writes', ydoc')
    <3>1. Before(writes', ydoc)
      BY <2>1, <2>2
    <3>2. \A p \in ydoc'[b] : p < writes'
      <4>1. ydoc'[b] \in {{writes}, {}}
        BY <1>2, <2>1 DEF UserEdit, Content
      <4> QED BY <2>1, <4>1
    <3>3. \A c \in Block : c # b => ydoc'[c] = ydoc[c]
      BY <1>2, <2>1 DEF UserEdit, Content
    <3> QED BY <3>1, <3>2, <3>3 DEF Before
  <2>4. \A i \in 1 .. Len(tracker) : tracker[i] \in Content
    BY DEF TypeOK
  <2> QED BY <2>1, <2>2, <2>3, <2>4 DEF Dated, Held
<1>3. CASE SkipStore \/ BeginStore \/ FailStore
  BY <1>3 DEF SkipStore, BeginStore, FailStore, Dated, Held, watchVars, counters
<1>4. CASE TripwireStore
  <2>1. ydoc' \in {ydoc, disk, base} /\ UNCHANGED <<disk, base, inflight, tracker, events, writes>>
    BY <1>4 DEF TripwireStore, watchVars
  <2> QED BY <2>1 DEF Dated, Held
<1>5. CASE FinishStore
  <2>1. inflight \in Content /\ Before(writes, inflight) /\ tracker \in Seq(Content)
    BY <1>5 DEF FinishStore, TypeOK
  <2>2. tracker' = Append(tracker, inflight) /\ disk' = inflight /\ base' = inflight
        /\ inflight' = Idle /\ UNCHANGED <<ydoc, events, writes>>
    BY <1>5 DEF FinishStore, counters
  <2>3. \A i \in 1 .. Len(tracker') :
          \/ i \in 1 .. Len(tracker) /\ tracker'[i] = tracker[i]
          \/ tracker'[i] = inflight
    <3>1. Len(tracker) \in Nat /\ Len(tracker') = Len(tracker) + 1
      BY <2>1, <2>2
    <3>2. tracker'[Len(tracker) + 1] = inflight /\ \A i \in 1 .. Len(tracker) : tracker'[i] = tracker[i]
      BY <2>1, <2>2
    <3> QED BY <3>1, <3>2
  <2> QED BY <2>1, <2>2, <2>3 DEF Dated, Held
<1>6. CASE ForeignWrite \/ ForeignDelete
  <2>1. writes \in Nat /\ writes' = writes + 1 /\ UNCHANGED <<ydoc, base, inflight, tracker, events>>
    BY <1>6 DEF ForeignWrite, ForeignDelete, TypeOK, docVars
  <2>2. ASSUME NEW text \in Content, Before(writes, text) PROVE Before(writes', text)
    BY <2>1, <2>2, BeforeStays
  <2>3. disk' \in Content => Before(writes', disk')
    <3>1. CASE ForeignDelete
      BY <3>1 DEF ForeignDelete
    <3>2. CASE \E i \in 1 .. Len(tracker) : disk' = tracker[i]
      BY <2>2, <3>2 DEF Dated, TypeOK
    <3>3. ASSUME NEW b \in Block, NEW block \in {{writes}, {}}, disk' = [DiskText EXCEPT ![b] = block]
          PROVE  Before(writes', disk')
      <4>1. Before(writes', DiskText) /\ DiskText \in Content
        BY <2>2
      <4>2. \A p \in disk'[b] : p < writes'
        BY <2>1, <3>3, <4>1 DEF Content
      <4>3. \A c \in Block : c # b => disk'[c] = DiskText[c]
        BY <3>3, <4>1 DEF Content
      <4> QED BY <4>1, <4>2, <4>3 DEF Before
    <3> QED BY <1>6, <3>1, <3>2, <3>3 DEF ForeignWrite, ForeignTexts
  <2>4. \A i \in 1 .. Len(tracker) : tracker[i] \in Content
    BY DEF TypeOK
  <2> QED BY <2>1, <2>2, <2>3, <2>4 DEF Dated, Held
<1>7. CASE ProcessGone
  BY <1>7 DEF ProcessGone, Dated, Held
<1>8. CASE Crash \/ FinishShutdown \/ TimeoutShutdown
  BY <1>7, <1>8 DEF Crash, FinishShutdown, TimeoutShutdown
<1>9. CASE BeginShutdown \/ Boot
  BY <1>9 DEF BeginShutdown, Boot, Dated, Held, docVars, counters
<1>10. ASSUME NEW s \in Slot, Deliver(s) PROVE Dated'
  <2>1. \A t \in Slot : events'[t] = events[t] \/ events'[t].content \in {Empty, Unread}
    BY <1>10 DEF Deliver, TypeOK
  <2> QED BY <1>10, <2>1 DEF Deliver, Dated, Held, docVars, counters
<1>11. ASSUME NEW s \in Slot, Read(s) PROVE Dated'
  <2>1. \A t \in Slot : events'[t] \in {events[t], Free} \/ events'[t].content = disk
    BY <1>11 DEF Read, TypeOK
  <2> QED BY <1>11, <2>1 DEF Read, Dated, Held, docVars, counters
<1>12. ASSUME NEW s \in Slot, HandleEvent(s) PROVE Dated'
  <2>1. Arrived(s) /\ \A t \in Slot : events'[t] \in {events[t], Free}
    BY <1>12 DEF HandleEvent, DropSelfWrite, IgnoreEvent, HandleUpdate, RefuseUpdate, HandleDelete,
                 HandleConflict, Dispatched, Done, TypeOK
  <2>2. UNCHANGED <<disk, inflight, writes>>
    BY <1>12 DEF HandleEvent, DropSelfWrite, IgnoreEvent, HandleUpdate, RefuseUpdate, HandleDelete,
                 HandleConflict, Dispatched, docVars, counters
  <2>3. CASE DropSelfWrite(s)
    <3>1. \A i \in 1 .. Len(tracker') : \E j \in 1 .. Len(tracker) : tracker'[i] = tracker[j]
      <4>1. FirstMatch(events[s].content) \in 1 .. Len(tracker)
        BY <2>3, FirstMatchIsIndex DEF DropSelfWrite, IsSelfWrite, TypeOK
      <4>2. Len(tracker) \in Nat
        BY DEF TypeOK
      <4>3. tracker' = Without(tracker, FirstMatch(events[s].content)) /\ Len(tracker') = Len(tracker) - 1
        BY <2>3, <4>1, <4>2 DEF DropSelfWrite, Without
      <4> QED BY <4>1, <4>2, <4>3 DEF Without
    <3> QED BY <2>1, <2>2, <2>3, <3>1 DEF DropSelfWrite, Dated, Held, docVars
  <2>4. CASE ~DropSelfWrite(s)
    <3>1. tracker' = tracker
      BY <1>12, <2>4 DEF HandleEvent, IgnoreEvent, HandleUpdate, RefuseUpdate, HandleDelete,
                         HandleConflict, Dispatched
    <3>2. Before(writes, ydoc') /\ (base' \in Content => Before(writes, base'))
      <4>1. CASE HandleUpdate(s)
        <5> DEFINE new == NewContent(BaseText, ydoc, events[s].content)
        <5>1. Before(writes, new)
          BY <2>1, MergeIsBefore DEF TypeOK
        <5>2. ydoc' \in {ydoc, new} /\ base' \in {base, new, events[s].content}
          BY <4>1 DEF HandleUpdate
        <5> HIDE DEF new
        <5> QED BY <2>1, <5>1, <5>2 DEF Dated
      <4>2. CASE ~HandleUpdate(s)
        <5>1. ydoc' \in {ydoc, Empty} /\ base' \in {base, Undefined, ydoc}
          BY <1>12, <2>4, <4>2 DEF HandleEvent, IgnoreEvent, RefuseUpdate, HandleDelete,
                                   HandleConflict, docVars
        <5> QED BY <5>1 DEF Dated
      <4> QED BY <4>1, <4>2
    <3> QED BY <2>1, <2>2, <3>1, <3>2 DEF Dated, Held
  <2> QED BY <2>3, <2>4
<1>13. CASE EvictStale
  <2>1. \A i \in 1 .. Len(tracker') : i + 1 \in 1 .. Len(tracker) /\ tracker'[i] = tracker[i + 1]
    BY <1>13 DEF EvictStale, TypeOK
  <2> QED BY <1>13, <2>1 DEF EvictStale, Dated, Held, docVars, counters
<1>14. CASE UNCHANGED vars
  BY <1>14 DEF vars, docVars, watchVars, counters, Dated, Held
<1> QED
  BY <1>1, <1>2, <1>3, <1>4, <1>5, <1>6, <1>8, <1>9, <1>10, <1>11, <1>12, <1>13, <1>14
  DEF Next, Store, World

LEMMA NextStopped == TypeOK /\ Stopped /\ [Next]_vars => Stopped'
<1> SUFFICES ASSUME TypeOK, Stopped, [Next]_vars, server' = "down" PROVE Stopped'
  BY DEF Stopped
<1>1. CASE ProcessGone
  BY <1>1 DEF ProcessGone, Stopped, Quiet
<1>2. CASE ForeignWrite \/ ForeignDelete
  BY <1>2 DEF ForeignWrite, ForeignDelete, Notice, Watching, docVars, Stopped, Quiet
<1>3. CASE UNCHANGED vars
  BY <1>3 DEF vars, docVars, watchVars, Stopped, Quiet
<1>4. CASE Next /\ ~ProcessGone /\ ~ForeignWrite /\ ~ForeignDelete
  BY <1>4 DEF Next, Store, World, Load, UserEdit, SkipStore, BeginStore, StoreDue, TripwireStore, FinishStore,
              FailStore, Crash, FinishShutdown, TimeoutShutdown, BeginShutdown, Boot, Deliver, Watching,
              Read, HandleEvent, DropSelfWrite, IgnoreEvent, HandleUpdate, RefuseUpdate, HandleDelete,
              HandleConflict, Dispatched, Arrived, EvictStale
<1> QED BY <1>1, <1>2, <1>3, <1>4

(* Each report of the file that is to come has an entry of its own in the  *)
(* tracker: those being handled, and the raw one (entry and last).         *)
TextOf(s) == IF Unreading(s) THEN disk ELSE events[s].content
Entries == 1 .. Len(tracker)
Accounts(entry, last) ==
  /\ \A s \in Slot : Held(s) =>
       /\ entry[s] \in Entries /\ tracker[entry[s]] = TextOf(s)
       /\ raw # "none" => entry[s] # last
  /\ \A s, t \in Slot : Held(s) /\ Held(t) /\ entry[s] = entry[t] => s = t
  /\ raw # "none" => last \in Entries /\ tracker[last] = disk
Accounted == \E entry \in [Slot -> Nat], last \in Nat : Accounts(entry, last)

(* Nobody else writes the file of a document that is open.                 *)
Alone == Undisturbed /\ server = "up" /\ loaded
Reports ==
  /\ raw # "delete" /\ \A s \in Slot : Held(s) => events[s].kind # "delete"
  /\ Accounted
BaseIsFile ==
  /\ disk # NoFile => base = disk
  /\ disk = NoFile /\ base # Undefined =>
       \A b, c \in Block : \A p \in ydoc[b], q \in base[c] : q < p
Pending ==
  /\ inflight # Idle /\ ydoc # inflight => storeTimer
  /\ ydoc # DiskText => storeTimer \/ inflight # Idle
OwnOnly == Alone => lifecycle = "none" /\ Reports /\ BaseIsFile /\ Pending

LEMMA AloneBefore ==
  ASSUME TypeOK, TypeOK', Stopped, [Next]_vars, Alone'
  PROVE  /\ Load \/ Alone
         /\ ~TripwireStore /\ ~FailStore /\ ~World
         /\ \A s \in Slot : ~HandleDelete(s)
<1>1. /\ ~foreign' /\ failures' = 0 /\ resets' = 0 /\ ~torn' /\ server' = "up" /\ loaded'
  BY DEF Alone, Undisturbed, OnlyOurs
<1>2. ~TripwireStore /\ ~FailStore
  <2>1. resets \in Nat /\ failures \in Nat
    BY DEF TypeOK
  <2>2. resets + 1 # 0 /\ failures + 1 # 0
    BY <2>1
  <2> QED BY <1>1, <2>2 DEF TripwireStore, FailStore
<1>3. ~World
  BY <1>1 DEF World, ForeignWrite, ForeignDelete, Crash, ProcessGone, BeginShutdown, FinishShutdown,
              TimeoutShutdown, Boot, docVars, Stopped
<1>4. \A s \in Slot : ~HandleDelete(s)
  BY <1>1 DEF HandleDelete
<1>5. ASSUME NEW s \in Slot, HandleEvent(s)
      PROVE  /\ UNCHANGED <<server, loaded, foreign, resets, torn>>
             /\ failures = 0
  <2>1. UNCHANGED <<server, loaded, foreign, resets, torn>>
    BY <1>4, <1>5 DEF HandleEvent, DropSelfWrite, IgnoreEvent, HandleUpdate, RefuseUpdate,
                      HandleConflict, Dispatched, docVars, counters, history
  <2>2. failures' = failures \/ failures' = failures + 1
    BY <1>4, <1>5 DEF HandleEvent, DropSelfWrite, IgnoreEvent, HandleUpdate, RefuseUpdate,
                      HandleConflict, Dispatched, docVars, counters, history
  <2>3. failures \in Nat
    BY DEF TypeOK
  <2>4. failures = 0
    BY <1>1, <2>2, <2>3
  <2> QED BY <2>1, <2>4
<1>6. Load \/ Alone
  <2>1. CASE \/ SkipStore \/ BeginStore \/ EvictStale \/ UNCHANGED vars
             \/ (\E b \in Block : UserEdit(b)) \/ \E s \in Slot : Deliver(s) \/ Read(s)
    BY <1>1, <2>1 DEF SkipStore, BeginStore, EvictStale, UserEdit, Deliver, Read, vars, docVars,
                      counters, history, Alone, Undisturbed, OnlyOurs
  <2>2. CASE FinishStore
    BY <1>1, <2>2 DEF FinishStore, counters, Alone, Undisturbed, OnlyOurs
  <2>3. CASE \E s \in Slot : HandleEvent(s)
    BY <1>1, <1>5, <2>3 DEF Alone, Undisturbed, OnlyOurs
  <2> QED BY <1>2, <1>3, <2>1, <2>2, <2>3 DEF Next, Store
<1> QED BY <1>2, <1>3, <1>4, <1>6

(* In a document that is alone, every event has an entry in the tracker.   *)
LEMMA EventsAreEchoes ==
  ASSUME TypeOK, Reports, NEW s \in Slot, Arrived(s)
  PROVE  IsSelfWrite(events[s])
<1>1. PICK entry \in [Slot -> Nat], last \in Nat : Accounts(entry, last)
  BY DEF Reports, Accounted
<1>2. entry[s] \in 1 .. Len(tracker) /\ tracker[entry[s]] = events[s].content
  BY <1>1 DEF Accounts, Held, Arrived, TextOf, Entries
<1> QED BY <1>2 DEF Reports, IsSelfWrite, Arrived, Held

LEMMA FinishStoreReports ==
  ASSUME TypeOK, Reports, FinishStore, ~torn', server = "up"
  PROVE  Reports'
<1>1. /\ inflight \in Content /\ disk' = inflight /\ tracker' = Append(tracker, inflight)
      /\ events' = events /\ \A s \in Slot : ~Unreading(s)
  BY DEF FinishStore, TypeOK
<1>2. raw' # "none" /\ raw' # "delete"
  BY DEF FinishStore, Notice, Watching, Coalesce, Reports, TypeOK
<1>3. /\ Len(tracker) \in Nat /\ Len(tracker') = Len(tracker) + 1
      /\ tracker'[Len(tracker) + 1] = inflight
      /\ \A i \in 1 .. Len(tracker) : tracker'[i] = tracker[i]
  BY <1>1 DEF TypeOK
<1>4. PICK entry \in [Slot -> Nat], last \in Nat : Accounts(entry, last)
  BY DEF Reports, Accounted
<1> PICK new \in Nat : new = Len(tracker) + 1
  BY <1>3
<1>5. Accounts(entry, new)'
  <2>1. ASSUME NEW s \in Slot, Held(s)
        PROVE  /\ entry[s] \in 1 .. Len(tracker) /\ tracker[entry[s]] = events[s].content
    BY <1>1, <1>4, <2>1 DEF Accounts, TextOf, Entries
  <2>2. \A s \in Slot : Held(s)' <=> Held(s)
    BY <1>1 DEF Held
  <2>3. \A s \in Slot : ~Unreading(s)'
    BY <1>1 DEF Unreading
  <2>4. \A s \in Slot : Held(s) =>
          /\ entry[s] \in 1 .. Len(tracker') /\ tracker'[entry[s]] = events'[s].content
          /\ entry[s] # new
    BY <1>1, <1>3, <2>1
  <2>5. new \in 1 .. Len(tracker')
    BY <1>3
  <2>6. \A s, t \in Slot : Held(s) /\ Held(t) /\ entry[s] = entry[t] => s = t
    BY <1>4 DEF Accounts
  <2> QED BY <1>1, <1>3, <2>2, <2>3, <2>4, <2>5, <2>6 DEF Accounts, TextOf, Entries
<1>6. Accounted'
  BY <1>3, <1>5 DEF Accounted
<1>7. \A s \in Slot : Held(s)' => events'[s].kind # "delete"
  BY <1>1 DEF Reports, Held
<1> QED BY <1>2, <1>6, <1>7 DEF Reports

LEMMA DeliverReports ==
  ASSUME TypeOK, Reports, NEW s \in Slot, Deliver(s)
  PROVE  Reports'
<1>1. /\ raw \in {"create", "update"} /\ raw' = "none" /\ ~Held(s)
      /\ UNCHANGED <<tracker, disk>>
      /\ \A t \in Slot : t # s => events'[t] = events[t]
  BY DEF Deliver, Reports, TypeOK, Held
<1>2. /\ events'[s].kind \in {"create", "update"} /\ events'[s].content = Unread
      /\ events'[s] \in DiskEvent
  BY <1>1 DEF Deliver, TypeOK, DiskEvent, EventKind
<1>3. PICK entry \in [Slot -> Nat], last \in Nat : Accounts(entry, last)
  BY DEF Reports, Accounted
<1> PICK now \in [Slot -> Nat] : now = [entry EXCEPT ![s] = last]
  OBVIOUS
<1>4. now[s] = last /\ \A t \in Slot : t # s => now[t] = entry[t]
  OBVIOUS
<1>5. Accounts(now, last)'
  <2>1. ASSUME NEW t \in Slot, t # s
        PROVE  (Held(t)' <=> Held(t)) /\ TextOf(t)' = TextOf(t)
    BY <1>1, <2>1 DEF Held, TextOf, Unreading
  <2>2. TextOf(s)' = disk
    <3>1. events'[s] # Free
      BY <1>2
    <3> QED BY <1>1, <1>2, <3>1 DEF TextOf, Unreading
  <2>3. last \in Entries /\ tracker[last] = disk
    BY <1>1, <1>3 DEF Accounts
  <2>4. ASSUME NEW t \in Slot, Held(t)'
        PROVE  now[t] \in Entries' /\ tracker'[now[t]] = TextOf(t)'
    <3>1. CASE t = s
      BY <1>1, <1>4, <2>2, <2>3, <3>1 DEF Entries
    <3>2. CASE t # s
      BY <1>1, <1>3, <1>4, <2>1, <2>4, <3>2 DEF Accounts, Entries
    <3> QED BY <3>1, <3>2
  <2>5. ASSUME NEW t \in Slot, NEW u \in Slot, Held(t)', Held(u)', now[t] = now[u]
        PROVE  t = u
    BY <1>1, <1>3, <1>4, <2>1, <2>5 DEF Accounts
  <2> QED BY <1>1, <2>4, <2>5 DEF Accounts
<1>6. \A t \in Slot : Held(t)' => events'[t].kind # "delete"
  BY <1>1, <1>2 DEF Reports, Held
<1>7. Accounted'
  BY <1>5 DEF Accounted
<1> QED BY <1>1, <1>6, <1>7 DEF Reports

LEMMA ReadReports ==
  ASSUME TypeOK, Reports, NEW s \in Slot, Read(s)
  PROVE  Reports'
<1>1. /\ Unreading(s) /\ Held(s) /\ events[s] \in DiskEvent /\ UNCHANGED <<tracker, disk, raw>>
      /\ \A t \in Slot : t # s => events'[t] = events[t]
  BY DEF Read, Unreading, TypeOK, Held
<1>2. PICK entry \in [Slot -> Nat], last \in Nat : Accounts(entry, last)
  BY DEF Reports, Accounted
<1>3. disk \in Content
  <2>1. entry[s] \in 1 .. Len(tracker) /\ tracker[entry[s]] = disk
    BY <1>1, <1>2 DEF Accounts, TextOf, Entries
  <2> QED BY <2>1 DEF TypeOK
<1>4. events'[s] = [kind |-> KindOf(events[s].kind, disk), content |-> disk]
  BY <1>3 DEF Read, TypeOK
<1>5. events'[s] # Free
  BY <1>1, <1>3, <1>4 DEF KindOf, DiskEvent, EventKind
<1>6. \A t \in Slot : (Held(t)' <=> Held(t)) /\ TextOf(t)' = TextOf(t)
  <2>1. TextOf(s)' = disk /\ TextOf(s) = disk
    BY <1>1, <1>3, <1>4 DEF TextOf, Unreading
  <2> QED BY <1>1, <1>5, <2>1 DEF Held, TextOf, Unreading
<1>7. Accounts(entry, last)'
  BY <1>1, <1>2, <1>6 DEF Accounts, Entries
<1>8. \A t \in Slot : Held(t)' => events'[t].kind # "delete"
  BY <1>1, <1>4, <1>6 DEF Reports, KindOf, Held
<1>9. Accounted'
  BY <1>7 DEF Accounted
<1> QED BY <1>1, <1>8, <1>9 DEF Reports

(* Where entry i of the tracker is once entry k is used up.                *)
Moved(k, i) == IF i < k THEN i ELSE i - 1

LEMMA WithoutMoves ==
  ASSUME NEW S, NEW seq \in Seq(S), NEW k \in 1 .. Len(seq), NEW i \in 1 .. Len(seq), i # k
  PROVE  /\ Moved(k, i) \in 1 .. Len(Without(seq, k))
         /\ Without(seq, k)[Moved(k, i)] = seq[i]
<1>1. Len(seq) \in Nat
  OBVIOUS
<1>2. Len(Without(seq, k)) = Len(seq) - 1
  BY <1>1 DEF Without
<1>3. Moved(k, i) \in 1 .. Len(seq) - 1
  BY <1>1 DEF Moved
<1>4. Without(seq, k)[Moved(k, i)] = IF Moved(k, i) < k THEN seq[Moved(k, i)] ELSE seq[Moved(k, i) + 1]
  BY <1>3 DEF Without
<1>5. CASE i < k
  BY <1>2, <1>3, <1>4, <1>5 DEF Moved
<1>6. CASE i > k
  <2>1. Moved(k, i) = i - 1 /\ ~(i - 1 < k) /\ i - 1 + 1 = i
    BY <1>1, <1>6 DEF Moved
  <2> QED BY <1>2, <1>3, <1>4, <2>1
<1> QED BY <1>1, <1>5, <1>6

LEMMA MovedApart ==
  ASSUME NEW k \in Nat, NEW i \in Nat, NEW j \in Nat, i # k, j # k, Moved(k, i) = Moved(k, j)
  PROVE  i = j
  BY DEF Moved

(* The entry used up is the first with the text; whoever had it gets that  *)
(* of the event that is dropped.                                           *)
LEMMA DropReports ==
  ASSUME TypeOK, Reports, NEW s \in Slot, DropSelfWrite(s)
  PROVE  Reports'
<1> DEFINE text == events[s].content
           k == FirstMatch(text)
<1>1. /\ Arrived(s) /\ Held(s) /\ UNCHANGED <<disk, raw>>
      /\ events' = [events EXCEPT ![s] = Free] /\ tracker' = Without(tracker, k)
      /\ k \in 1 .. Len(tracker) /\ tracker[k] = text /\ tracker \in Seq(Content)
  BY FirstMatchIsIndex DEF DropSelfWrite, Arrived, Held, Done, IsSelfWrite, TypeOK
<1>2. PICK entry \in [Slot -> Nat], last \in Nat : Accounts(entry, last)
  BY DEF Reports, Accounted
<1>3. entry[s] \in 1 .. Len(tracker) /\ tracker[entry[s]] = text
  BY <1>1, <1>2 DEF Accounts, TextOf, Entries, Arrived
<1> HIDE DEF k
<1> DEFINE Swapped(i) == IF i = k THEN entry[s] ELSE i
<1>4. ASSUME NEW i \in 1 .. Len(tracker), i # entry[s]
      PROVE  /\ Swapped(i) \in 1 .. Len(tracker) /\ Swapped(i) # k
             /\ tracker[Swapped(i)] = tracker[i]
             /\ Moved(k, Swapped(i)) \in 1 .. Len(tracker')
             /\ tracker'[Moved(k, Swapped(i))] = tracker[i]
  <2>1. /\ Swapped(i) \in 1 .. Len(tracker) /\ Swapped(i) # k /\ tracker[Swapped(i)] = tracker[i]
    BY <1>1, <1>3, <1>4
  <2> HIDE DEF Swapped
  <2> QED BY <1>1, <2>1, WithoutMoves
<1>5. ASSUME NEW i \in 1 .. Len(tracker), NEW j \in 1 .. Len(tracker), i # entry[s], j # entry[s],
             Moved(k, Swapped(i)) = Moved(k, Swapped(j))
      PROVE  i = j
  <2>1. Swapped(i) = Swapped(j)
    <3>1. Swapped(i) \in Nat /\ Swapped(j) \in Nat /\ k \in Nat /\ Swapped(i) # k /\ Swapped(j) # k
      BY <1>1, <1>4, <1>5
    <3> HIDE DEF Swapped
    <3> QED BY <1>5, <3>1, MovedApart
  <2> QED BY <1>5, <2>1
<1> DEFINE now == [t \in Slot |-> IF Held(t) /\ t # s THEN Moved(k, Swapped(entry[t])) ELSE 0]
           then == IF raw = "none" THEN 0 ELSE Moved(k, Swapped(last))
<1>6. ASSUME NEW t \in Slot, Held(t), t # s
      PROVE  entry[t] \in 1 .. Len(tracker) /\ entry[t] # entry[s] /\ tracker[entry[t]] = TextOf(t)
  BY <1>1, <1>2, <1>6 DEF Accounts, Entries
<1>7. raw # "none" => last \in 1 .. Len(tracker) /\ last # entry[s] /\ tracker[last] = disk
  BY <1>1, <1>2 DEF Accounts, Entries
<1> HIDE DEF Swapped
<1>8. now \in [Slot -> Nat] /\ then \in Nat
  BY <1>4, <1>6, <1>7
<1> PICK fresh \in [Slot -> Nat], newest \in Nat : fresh = now /\ newest = then
  BY <1>8
<1>9. \A t \in Slot : /\ Held(t)' <=> Held(t) /\ t # s
                      /\ Held(t)' => TextOf(t)' = TextOf(t)
  BY <1>1 DEF Held, TextOf, Unreading, TypeOK
<1>10. Accounts(fresh, newest)'
  <2>1. ASSUME NEW t \in Slot, Held(t), t # s
        PROVE  /\ fresh[t] = Moved(k, Swapped(entry[t])) /\ fresh[t] \in 1 .. Len(tracker')
               /\ tracker'[fresh[t]] = TextOf(t)
    BY <1>4, <1>6, <2>1
  <2>2. raw # "none" => /\ newest = Moved(k, Swapped(last)) /\ newest \in 1 .. Len(tracker')
                        /\ tracker'[newest] = disk
    BY <1>4, <1>7
  <2> HIDE DEF now, then
  <2>3. ASSUME NEW t \in Slot, Held(t), t # s, raw # "none" PROVE fresh[t] # newest
    <3>1. entry[t] # last
      BY <1>2, <2>3 DEF Accounts
    <3> QED BY <1>5, <1>6, <1>7, <2>1, <2>2, <2>3, <3>1
  <2>4. ASSUME NEW t \in Slot, NEW u \in Slot, Held(t), Held(u), t # s, u # s, fresh[t] = fresh[u]
        PROVE  t = u
    <3>1. entry[t] = entry[u]
      BY <1>5, <1>6, <2>1, <2>4
    <3> QED BY <1>2, <2>4, <3>1 DEF Accounts
  <2> QED BY <1>1, <1>9, <2>1, <2>2, <2>3, <2>4 DEF Accounts, Entries
<1>11. \A t \in Slot : Held(t)' => events'[t].kind # "delete"
  BY <1>1, <1>9 DEF Reports, TypeOK
<1>12. Accounted'
  BY <1>10 DEF Accounted
<1> QED BY <1>1, <1>11, <1>12 DEF Reports

LEMMA QuietAccounts ==
  ASSUME \A s \in Slot : ~Held(s)', raw' = "none"
  PROVE  Accounted'
<1> PICK entry \in [Slot -> Nat] : entry = [s \in Slot |-> 0]
  OBVIOUS
<1>1. Accounts(entry, 0)'
  BY DEF Accounts
<1> QED BY <1>1 DEF Accounted

(* What the reports depend on.                                             *)
LEMMA SameReports ==
  ASSUME Reports, UNCHANGED <<disk, tracker, raw, events>>
  PROVE  Reports'
<1>1. PICK entry \in [Slot -> Nat], last \in Nat : Accounts(entry, last)
  BY DEF Reports, Accounted
<1>2. Accounts(entry, last)'
  BY <1>1 DEF Accounts, Held, TextOf, Unreading, Entries
<1>3. Accounted'
  BY <1>2 DEF Accounted
<1> QED BY <1>3 DEF Reports, Held

LEMMA InitOwnOnly == Init => OwnOnly
  BY DEF Init, OwnOnly, Alone

LEMMA NextOwnOnly ==
  ASSUME TypeOK, TypeOK', Dated, Stopped, OwnOnly, [Next]_vars
  PROVE  OwnOnly'
<1> SUFFICES ASSUME Alone' PROVE (lifecycle = "none" /\ Reports /\ BaseIsFile /\ Pending)'
  BY DEF OwnOnly
<1>1. CASE Load
  <2>1. Quiet /\ inflight = Idle
    BY <1>1 DEF Load, Alone, Undisturbed, OnlyOurs
  <2>2. /\ UNCHANGED <<disk, inflight, raw, events, tracker>> /\ ydoc' = DiskText
        /\ lifecycle' = "none" /\ base' = IF disk = NoFile THEN base ELSE disk
    BY <1>1 DEF Load, watchVars
  <2>3. raw' = "none" /\ \A s \in Slot : ~Held(s)'
    BY <2>1, <2>2 DEF Quiet, Held
  <2>4. Accounted'
    BY <2>3, QuietAccounts
  <2>5. Reports'
    BY <2>3, <2>4 DEF Reports
  <2>6. (BaseIsFile /\ Pending)'
    BY <2>1, <2>2 DEF BaseIsFile, Pending, DiskText, Empty
  <2> QED BY <2>2, <2>5, <2>6
<1>2. ASSUME Alone
      PROVE  (lifecycle = "none" /\ Reports /\ BaseIsFile /\ Pending)'
  <2>1. lifecycle = "none" /\ Reports /\ BaseIsFile /\ Pending
    BY <1>2 DEF OwnOnly
  <2>2. server = "up" /\ loaded /\ ~torn'
    BY <1>2 DEF Alone, Undisturbed
  <2>3. ASSUME NEW b \in Block, UserEdit(b)
        PROVE  (lifecycle = "none" /\ Reports /\ BaseIsFile /\ Pending)'
    <3>1. /\ UNCHANGED <<disk, base, lifecycle, inflight, tracker, raw, events>> /\ storeTimer' = TRUE
          /\ ydoc' \in {[ydoc EXCEPT ![b] = {writes}], [ydoc EXCEPT ![b] = {}]}
      BY <2>3 DEF UserEdit, watchVars
    <3>2. BaseIsFile'
      <4>1. ASSUME disk = NoFile, base # Undefined, NEW x \in Block, NEW c \in Block,
                   NEW p \in ydoc'[x], NEW q \in base[c]
            PROVE  q < p
        <5>1. p \in ydoc[x] \/ p = writes
          BY <3>1 DEF TypeOK, Content
        <5>2. q < writes
          BY <4>1, DatedTexts DEF BaseText, Before
        <5> QED BY <2>1, <4>1, <5>1, <5>2 DEF BaseIsFile
      <4> QED BY <2>1, <3>1, <4>1 DEF BaseIsFile
    <3>3. Pending'
      BY <3>1 DEF Pending
    <3> QED BY <2>1, <3>1, <3>2, <3>3, SameReports
  <2>4. CASE SkipStore
    <3>1. /\ UNCHANGED <<disk, ydoc, base, lifecycle, inflight, tracker, raw, events>>
          /\ inflight = Idle /\ NothingToStore
      BY <2>4 DEF SkipStore, StoreDue, watchVars
    <3>2. ydoc = DiskText
      <4>1. CASE disk # NoFile
        BY <2>1, <3>1, <4>1 DEF NothingToStore, BaseIsFile, DiskText, TypeOK
      <4>2. CASE disk = NoFile
        <5>1. CASE base = Undefined
          BY <2>1, <3>1, <4>2, <5>1 DEF NothingToStore, DiskText
        <5>2. CASE base # Undefined
          <6>1. ydoc = base /\ ydoc \in Content
            BY <2>1, <3>1, <5>2 DEF NothingToStore, TypeOK
          <6>2. ASSUME NEW b \in Block PROVE ydoc[b] = {}
            <7>1. \A p \in ydoc[b] : p < p /\ p \in Nat
              BY <2>1, <4>2, <5>2, <6>1 DEF BaseIsFile, Content
            <7> QED BY <7>1
          <6>3. ydoc = Empty
            BY <6>1, <6>2 DEF Empty, Content
          <6> QED BY <4>2, <6>3 DEF DiskText
        <5> QED BY <5>1, <5>2
      <4> QED BY <4>1, <4>2
    <3>3. (BaseIsFile /\ Pending)'
      BY <2>1, <3>1, <3>2 DEF BaseIsFile, Pending, DiskText
    <3> QED BY <2>1, <3>1, <3>3, SameReports
  <2>5. CASE BeginStore
    <3>1. /\ UNCHANGED <<disk, ydoc, base, lifecycle, tracker, raw, events>>
          /\ inflight' = ydoc /\ ydoc # Idle
      BY <2>5 DEF BeginStore, watchVars, TypeOK
    <3>2. (BaseIsFile /\ Pending)'
      BY <2>1, <3>1 DEF BaseIsFile, Pending, DiskText
    <3> QED BY <2>1, <3>1, <3>2, SameReports
  <2>6. CASE FinishStore
    <3>1. /\ disk' = inflight /\ base' = inflight /\ inflight' = Idle /\ inflight \in Content
          /\ UNCHANGED <<ydoc, lifecycle, storeTimer>>
      BY <2>6 DEF FinishStore, TypeOK
    <3>2. (BaseIsFile /\ Pending)'
      BY <2>1, <3>1 DEF BaseIsFile, Pending, DiskText
    <3> QED BY <2>1, <2>2, <2>6, <3>1, <3>2, FinishStoreReports
  <2>7. ASSUME NEW s \in Slot, HandleEvent(s) PROVE DropSelfWrite(s)
    <3>1. Arrived(s)
      BY <2>7 DEF HandleEvent, DropSelfWrite, IgnoreEvent, HandleUpdate, RefuseUpdate, HandleDelete,
                  HandleConflict, Dispatched
    <3> QED BY <2>1, <2>7, <3>1, EventsAreEchoes
            DEF HandleEvent, IgnoreEvent, HandleUpdate, RefuseUpdate, HandleDelete, HandleConflict,
                Dispatched
  <2>8. ASSUME NEW s \in Slot, Deliver(s) \/ Read(s) \/ DropSelfWrite(s)
        PROVE  (lifecycle = "none" /\ Reports /\ BaseIsFile /\ Pending)'
    <3>1. UNCHANGED <<disk, docVars>>
      BY <2>8 DEF Deliver, Read, DropSelfWrite
    <3> QED BY <2>1, <2>8, <3>1, DeliverReports, ReadReports, DropReports
            DEF docVars, BaseIsFile, Pending, DiskText
  <2>9. CASE EvictStale
    <3>1. /\ UNCHANGED <<disk, docVars>> /\ raw' = "none" /\ \A s \in Slot : ~Held(s)'
      BY <2>9 DEF EvictStale, Quiet, Held
    <3>2. Accounted'
      BY <3>1, QuietAccounts
    <3> QED BY <2>1, <3>1, <3>2 DEF docVars, BaseIsFile, Pending, DiskText, Reports
  <2>10. CASE UNCHANGED vars
    BY <2>1, <2>10, SameReports DEF vars, docVars, watchVars, BaseIsFile, Pending, DiskText
  <2>11. ~Load
    BY <2>2 DEF Load
  <2> QED BY <2>3, <2>4, <2>5, <2>6, <2>7, <2>8, <2>9, <2>10, <2>11, AloneBefore DEF Next, Store
<1> QED BY <1>1, <1>2, AloneBefore

EchoInv == TypeOK /\ Dated /\ Stopped /\ OwnOnly

LEMMA AlwaysEcho == Spec => []EchoInv
<1>1. Init => EchoInv
  BY InitTypes, InitDated, InitOwnOnly DEF EchoInv
<1>2. EchoInv /\ [Next]_vars => EchoInv'
  BY NextTypes, NextDated, NextStopped, NextOwnOnly DEF EchoInv
<1> QED BY <1>1, <1>2, PTL DEF Spec

(* A document whose text differs from its file has a store pending or in   *)
(* flight, as long as nobody disturbs it (storeDocumentNow).               *)
THEOREM NoEditIsStranded == Spec => []EditsReachDisk
<1>1. EchoInv => EditsReachDisk
  BY DEF EchoInv, OwnOnly, Alone, Pending, EditsReachDisk
<1> QED BY <1>1, AlwaysEcho, PTL

(* What the watcher reports of the server's own renames never changes the  *)
(* document, its base or its status (isSelfWrite).                         *)
THEOREM StoresAreNotEchoed == Spec => NoEcho
<1>1. ASSUME EchoInv, Undisturbed, server = "up", NEW s \in Slot, HandleEvent(s)
      PROVE  UNCHANGED <<ydoc, base, lifecycle>>
  <2>1. Arrived(s)
    BY <1>1 DEF HandleEvent, DropSelfWrite, IgnoreEvent, HandleUpdate, RefuseUpdate, HandleDelete,
                HandleConflict, Dispatched
  <2>2. loaded => IsSelfWrite(events[s])
    BY <1>1, <2>1, EventsAreEchoes DEF EchoInv, OwnOnly, Alone
  <2> QED BY <1>1, <2>2 DEF HandleEvent, DropSelfWrite, IgnoreEvent, HandleUpdate, RefuseUpdate,
              HandleDelete, HandleConflict, Dispatched, docVars
<1>2. EchoInv => [Undisturbed /\ server = "up" /\ (\E s \in Slot : HandleEvent(s))
                    => UNCHANGED <<ydoc, base, lifecycle>>]_vars
  BY <1>1
<1> QED BY <1>2, AlwaysEcho, PTL DEF NoEcho

-----------------------------------------------------------------------------
(* An idle document follows its file, one event at a time.                 *)

(* The raw event says whether there is a file, and a file that there is    *)
(* nothing more to hear of is known.                                       *)
Heard ==
  server = "up" =>
    /\ raw \in {"create", "update"} => disk # NoFile
    /\ raw = "delete" => disk = NoFile
    /\ raw = "none" /\ disk # NoFile /\ (\A s \in Slot : ~Unreading(s)) => known
    /\ \A s \in Slot : Unreading(s) => events[s].kind \in {"create", "update"}

(* While nobody types nothing is stored, and nothing is tracked.           *)
Unstirred ==
  server = "up" /\ ~stirred =>
    /\ ~storeTimer /\ inflight = Idle /\ tracker = <<>>
    /\ ~loaded => base = Undefined

LEMMA NoticeWritten ==
  ASSUME TypeOK, Heard, server = "up", Notice(IF disk = NoFile THEN "create" ELSE "update")
  PROVE  /\ raw' \in {"create", "update"}
         /\ raw' = "create" => raw = "create" \/ (raw = "none" /\ disk = NoFile)
<1> DEFINE kind == IF disk = NoFile THEN "create" ELSE "update"
<1>1. raw' = Coalesce(raw, kind) /\ raw \in {"none", "create", "update", "delete"}
  BY DEF TypeOK, Notice, Watching
<1>2. CASE raw = "none"
  BY <1>1, <1>2 DEF Coalesce
<1>3. CASE raw = "create"
  BY <1>1, <1>3 DEF Coalesce
<1>4. CASE raw = "update"
  BY <1>1, <1>4 DEF Coalesce, Heard
<1>5. CASE raw = "delete"
  BY <1>1, <1>5 DEF Coalesce, Heard
<1> QED BY <1>1, <1>2, <1>3, <1>4, <1>5

LEMMA NoticeDeleted ==
  ASSUME TypeOK, server = "up", Notice("delete")
  PROVE  raw' = IF raw = "create" THEN "none" ELSE "delete"
  BY DEF TypeOK, Notice, Watching, Coalesce

LEMMA DeliveredEvent ==
  ASSUME TypeOK, NEW s \in Slot, Deliver(s)
  PROVE  /\ ~Held(s) /\ Held(s)' /\ raw' = "none"
         /\ \A t \in Slot : t # s => events'[t] = events[t]
         /\ raw = "delete" => events'[s].kind = "delete" /\ events'[s].content = Empty
         /\ raw # "delete" => /\ events'[s].kind = IF known THEN "update" ELSE raw
                              /\ events'[s].content = Unread
<1>1. raw \in {"create", "update", "delete"}
  BY DEF Deliver, TypeOK
<1>2. events'[s] \in DiskEvent /\ events'[s] # Free
  BY <1>1, EmptyIsContent DEF Deliver, TypeOK, DiskEvent, EventKind
<1> QED BY <1>1, <1>2 DEF Deliver, Held, TypeOK

LEMMA ReadEvent ==
  ASSUME TypeOK, NEW s \in Slot, Read(s)
  PROVE  /\ \A t \in Slot : t # s => events'[t] = events[t]
         /\ Unreading(s) /\ events[s] \in DiskEvent
         /\ disk = NoFile => ~Held(s)' /\ known' = known
         /\ disk # NoFile => /\ Held(s)' /\ known'
                             /\ events'[s].content = disk /\ disk \in Content
                             /\ events'[s].kind = KindOf(events[s].kind, disk)
<1>1. Unreading(s) /\ events[s] \in DiskEvent
  BY DEF Read, Unreading, TypeOK
<1>2. KindOf(events[s].kind, disk) \in EventKind
  BY <1>1 DEF KindOf, DiskEvent, EventKind
<1>3. disk # NoFile => events'[s] \in DiskEvent
  BY <1>2 DEF Read, TypeOK, DiskEvent
<1> QED BY <1>1, <1>3 DEF Read, Held, TypeOK

LEMMA HandledEvent ==
  ASSUME TypeOK, NEW s \in Slot, HandleEvent(s)
  PROVE  /\ Arrived(s) /\ ~Held(s)' /\ \A t \in Slot : t # s => events'[t] = events[t]
         /\ UNCHANGED <<server, disk, known, raw, inflight, writes, stirred>>
<1>1. Arrived(s) /\ events' = [events EXCEPT ![s] = Free]
  BY DEF HandleEvent, DropSelfWrite, IgnoreEvent, HandleUpdate, RefuseUpdate, HandleDelete,
         HandleConflict, Dispatched, Done
<1>2. UNCHANGED <<server, disk, known, raw, inflight, writes, stirred>>
  BY DEF HandleEvent, DropSelfWrite, IgnoreEvent, HandleUpdate, RefuseUpdate, HandleDelete,
         HandleConflict, Dispatched, docVars, counters, history
<1> QED BY <1>1, <1>2 DEF Held, TypeOK

LEMMA InitHeard == Init => Heard /\ Unstirred
  BY DEF Init, Heard, Unstirred, Unreading

LEMMA NextHeard == TypeOK /\ Stopped /\ Heard /\ [Next]_vars => Heard'
<1> SUFFICES ASSUME TypeOK, Stopped, Heard, [Next]_vars, server' = "up" PROVE Heard'
  BY DEF Heard
<1>1. CASE Boot
  <2>1. Quiet /\ UNCHANGED <<disk, raw, events>> /\ (known' <=> disk # NoFile)
    BY <1>1 DEF Boot, Stopped
  <2> QED BY <2>1 DEF Heard, Quiet, Unreading
<1>2. CASE ~Boot
  <2>1. server = "up"
    BY <1>2 DEF vars, Next, Store, World, Load, UserEdit, SkipStore, BeginStore, TripwireStore,
                FinishStore, FailStore, ForeignWrite, ForeignDelete, Crash, FinishShutdown,
                TimeoutShutdown, ProcessGone, BeginShutdown, Deliver, Read, HandleEvent,
                DropSelfWrite, IgnoreEvent, HandleUpdate, RefuseUpdate, HandleDelete,
                HandleConflict, Dispatched, EvictStale
  <2>2. ASSUME UNCHANGED <<disk, known, raw, events>> PROVE Heard'
    BY <2>1, <2>2 DEF Heard, Unreading
  <2>3. CASE \/ Load \/ SkipStore \/ BeginStore \/ TripwireStore \/ FailStore \/ EvictStale
             \/ UNCHANGED vars \/ \E b \in Block : UserEdit(b)
    BY <2>2, <2>3 DEF Load, UserEdit, SkipStore, BeginStore, TripwireStore, FailStore, EvictStale,
                      vars, watchVars
  <2>4. CASE FinishStore \/ ForeignWrite
    <3>1. disk' # NoFile /\ events' = events
      BY <2>4, EmptyIsContent, DiskTextIsContent
      DEF FinishStore, ForeignWrite, ForeignTexts, TypeOK, Content
    <3>2. raw' \in {"create", "update"}
      BY <2>1, <2>4, NoticeWritten DEF FinishStore, ForeignWrite
    <3> QED BY <2>1, <3>1, <3>2 DEF Heard, Unreading
  <2>5. CASE ForeignDelete
    BY <2>1, <2>5, NoticeDeleted DEF ForeignDelete, Heard, Unreading
  <2>6. ASSUME NEW s \in Slot, Deliver(s) PROVE Heard'
    <3>1. raw \in {"create", "update", "delete"} /\ disk' = disk /\ (raw # "delete" => known' = known)
      BY <2>6 DEF Deliver, TypeOK
    <3>2. raw # "delete" => Unreading(s)'
      BY <2>6, DeliveredEvent DEF Unreading, Held
    <3>3. \A t \in Slot : Unreading(t)' => events'[t].kind \in {"create", "update"}
      BY <2>1, <2>6, <3>1, DeliveredEvent, EmptyIsContent DEF Unreading, Heard
    <3> QED BY <2>1, <2>6, <3>1, <3>2, <3>3, DeliveredEvent DEF Heard
  <2>7. ASSUME NEW s \in Slot, Read(s) PROVE Heard'
    <3>1. raw' = raw /\ disk' = disk
      BY <2>7 DEF Read
    <3>2. \A t \in Slot : Unreading(t)' => Unreading(t) /\ events'[t] = events[t]
      BY <2>7, ReadEvent DEF Unreading, Held
    <3> QED BY <2>1, <2>7, <3>1, <3>2, ReadEvent DEF Heard
  <2>8. ASSUME NEW s \in Slot, HandleEvent(s) PROVE Heard'
    <3>1. \A t \in Slot : Unreading(t)' <=> Unreading(t) /\ events'[t] = events[t]
      BY <2>8, HandledEvent DEF Unreading, Held, Arrived
    <3>2. (\A t \in Slot : ~Unreading(t)') => \A t \in Slot : ~Unreading(t)
      BY <2>8, HandledEvent DEF Unreading, Arrived
    <3> QED BY <2>1, <2>8, <3>1, <3>2, HandledEvent DEF Heard
  <2>9. ~(Crash \/ FinishShutdown \/ TimeoutShutdown \/ BeginShutdown)
    BY DEF Crash, FinishShutdown, TimeoutShutdown, ProcessGone, BeginShutdown
  <2> QED BY <1>2, <2>3, <2>4, <2>5, <2>6, <2>7, <2>8, <2>9 DEF Next, Store, World
<1> QED BY <1>1, <1>2

LEMMA NextUnstirred == TypeOK /\ Stopped /\ Unstirred /\ [Next]_vars => Unstirred'
<1> SUFFICES ASSUME TypeOK, Stopped, Unstirred, [Next]_vars, server' = "up", ~stirred'
             PROVE  Unstirred'
  BY DEF Unstirred
<1>1. CASE Boot
  BY <1>1 DEF Boot, docVars, Stopped, Unstirred
<1>2. CASE Load
  BY <1>2 DEF Load, watchVars, Unstirred
<1>3. CASE UNCHANGED vars
  BY <1>3 DEF vars, docVars, watchVars, history, Unstirred
<1>4. CASE ForeignWrite \/ ForeignDelete
  BY <1>4 DEF ForeignWrite, ForeignDelete, docVars, Unstirred
<1>5. ASSUME NEW s \in Slot, Deliver(s) \/ Read(s) PROVE Unstirred'
  BY <1>5 DEF Deliver, Read, docVars, history, Unstirred
<1>6. ASSUME NEW s \in Slot, HandleEvent(s) PROVE Unstirred'
  <2>1. server = "up" /\ ~stirred
    BY <1>6, HandledEvent
  <2>2. ~storeTimer /\ inflight = Idle /\ tracker = <<>> /\ (~loaded => base = Undefined)
    BY <2>1 DEF Unstirred
  <2>3. CASE DropSelfWrite(s)
    BY <2>2, <2>3 DEF DropSelfWrite, IsSelfWrite
  <2>4. CASE IgnoreEvent(s)
    BY <2>2, <2>4 DEF IgnoreEvent, Dispatched, docVars, Unstirred
  <2>5. CASE HandleUpdate(s) \/ RefuseUpdate(s) \/ HandleDelete(s) \/ HandleConflict(s)
    BY <2>2, <2>5 DEF HandleUpdate, RefuseUpdate, HandleDelete, HandleConflict, Dispatched, Unstirred
  <2> QED BY <1>6, <2>3, <2>4, <2>5 DEF HandleEvent
<1>7. CASE \/ (\E b \in Block : UserEdit(b)) \/ Store \/ EvictStale
  <2>1. ~(\E b \in Block : UserEdit(b))
    BY DEF UserEdit
  <2>2. CASE Store \/ EvictStale
    <3>1. server = "up" /\ ~stirred
      BY <2>2 DEF Store, SkipStore, BeginStore, TripwireStore, FinishStore, FailStore, EvictStale, history
    <3> QED BY <2>2, <3>1 DEF Unstirred, Store, SkipStore, BeginStore, TripwireStore, FinishStore,
                              FailStore, EvictStale, StoreDue
  <2> QED BY <1>7, <2>1, <2>2
<1>8. ~(Crash \/ FinishShutdown \/ TimeoutShutdown \/ BeginShutdown)
  BY DEF Crash, FinishShutdown, TimeoutShutdown, ProcessGone, BeginShutdown
<1> QED BY <1>1, <1>2, <1>3, <1>4, <1>5, <1>6, <1>7, <1>8 DEF Next, World

(* With one event at a time, the one that was read is the file as long as  *)
(* nothing else is heard, and after a file is gone only its deletion is.   *)
Deleting(s) == Held(s) /\ events[s].kind = "delete"
Fileless == (raw = "none" /\ disk = NoFile) \/ raw = "create"
Follows ==
  server = "up" /\ ~overlapped =>
    /\ \A s, t \in Slot : Held(s) /\ Held(t) => s = t
    /\ \A s \in Slot : Held(s) /\ ~Unreading(s) /\ ~Deleting(s) =>
         /\ known
         /\ raw = "none" => events[s].content = disk
         /\ events[s].kind = "conflict" <=> HasMarkers(events[s].content)
    /\ Fileless => \A s \in Slot : Held(s) => Deleting(s)

LEMMA InitFollows == Init => Follows
  BY DEF Init, Follows, Held

LEMMA NextFollows ==
  ASSUME TypeOK, TypeOK', Stopped, Heard, Follows, [Next]_vars, overlapped' = (overlapped \/ Overlapping)
  PROVE  Follows'
<1> SUFFICES ASSUME server' = "up", ~overlapped, ~Overlapping PROVE Follows'
  BY Zenon DEF Follows
<1> DEFINE Single == \A s, t \in Slot : Held(s)' /\ Held(t)' => s = t
           Of(s) == Held(s)' /\ ~Unreading(s)' /\ ~Deleting(s)' =>
                      /\ known'
                      /\ raw' = "none" => events'[s].content = disk'
                      /\ events'[s].kind = "conflict" <=> HasMarkers(events'[s].content)
           Gone == Fileless' => \A s \in Slot : Held(s)' => Deleting(s)'
<1>1. Single
  BY DEF Overlapping, Held
<1>2. ASSUME \A s \in Slot : Of(s), Gone PROVE Follows'
  BY <1>1, <1>2 DEF Follows
<1>3. CASE Boot
  <2>1. \A s \in Slot : ~Held(s)'
    BY <1>3 DEF Boot, Stopped, Quiet, Held
  <2> QED BY <1>2, <2>1
<1>4. CASE server = "up"
  <2>1. /\ \A s, t \in Slot : Held(s) /\ Held(t) => s = t
        /\ \A s \in Slot : Held(s) /\ ~Unreading(s) /\ ~Deleting(s) =>
             /\ known
             /\ raw = "none" => events[s].content = disk
             /\ events[s].kind = "conflict" <=> HasMarkers(events[s].content)
        /\ Fileless => \A s \in Slot : Held(s) => Deleting(s)
    BY <1>4 DEF Follows
  <2>2. CASE UNCHANGED <<disk, known, raw, events>>
    BY <1>2, <2>1, <2>2 DEF Held, Unreading, Deleting, Fileless
  <2>3. CASE FinishStore \/ ForeignWrite
    <3>1. events' = events /\ known' = known /\ disk' # NoFile
      BY <2>3, EmptyIsContent, DiskTextIsContent
      DEF FinishStore, ForeignWrite, ForeignTexts, TypeOK, Content
    <3>2. raw' \in {"create", "update"} /\ (raw' = "create" => Fileless)
      BY <1>4, <2>3, NoticeWritten DEF FinishStore, ForeignWrite, Fileless
    <3> QED BY <1>2, <2>1, <3>1, <3>2 DEF Held, Unreading, Deleting, Fileless
  <2>4. CASE ForeignDelete
    <3>1. events' = events /\ known' = known /\ raw' = IF raw = "create" THEN "none" ELSE "delete"
      BY <1>4, <2>4, NoticeDeleted DEF ForeignDelete
    <3> QED BY <1>2, <2>1, <3>1 DEF Held, Unreading, Deleting, Fileless
  <2>5. ASSUME NEW s \in Slot, Deliver(s) PROVE Follows'
    <3>1. Held(s)' /\ raw' = "none" /\ disk' = disk /\ \A t \in Slot : t # s => ~Held(t)'
      BY <1>1, <2>5, DeliveredEvent DEF Deliver
    <3>2. raw = "delete" => Deleting(s)'
      BY <2>5, <3>1, DeliveredEvent DEF Deleting
    <3>3. raw # "delete" => Unreading(s)' /\ disk # NoFile
      BY <1>4, <2>5, <3>1, DeliveredEvent DEF Unreading, Held, Heard, Deliver, TypeOK
    <3> QED BY <1>2, <3>1, <3>2, <3>3 DEF Fileless
  <2>6. ASSUME NEW s \in Slot, Read(s) PROVE Follows'
    <3>1. /\ Unreading(s) /\ Held(s) /\ events[s].kind \in {"create", "update"}
          /\ raw' = raw /\ disk' = disk
      BY <1>4, <2>6, ReadEvent DEF Heard, Unreading, Held, Read
    <3>2. \A t \in Slot : t # s => ~Held(t)'
      BY <2>1, <2>6, <3>1, ReadEvent DEF Held
    <3>3. ~Fileless
      BY <2>1, <3>1 DEF Deleting
    <3>4. Of(s)
      BY <2>6, <3>1, ReadEvent DEF KindOf
    <3> QED BY <1>2, <3>1, <3>2, <3>3, <3>4 DEF Fileless
  <2>7. ASSUME NEW s \in Slot, HandleEvent(s) PROVE Follows'
    <3>1. \A t \in Slot : Held(t)' => t # s /\ Held(t) /\ events'[t] = events[t]
      BY <2>7, HandledEvent DEF Held
    <3>2. Held(s)
      BY <2>7, HandledEvent DEF Arrived, Held
    <3> QED BY <1>2, <2>1, <3>1, <3>2
  <2>8. CASE \/ Load \/ SkipStore \/ BeginStore \/ TripwireStore \/ FailStore \/ EvictStale
             \/ UNCHANGED vars \/ \E b \in Block : UserEdit(b)
    BY <2>2, <2>8 DEF Load, UserEdit, SkipStore, BeginStore, TripwireStore, FailStore, EvictStale,
                      vars, watchVars
  <2>9. ~(Boot \/ Crash \/ FinishShutdown \/ TimeoutShutdown \/ BeginShutdown)
    BY <1>4 DEF Boot, Crash, FinishShutdown, TimeoutShutdown, ProcessGone, BeginShutdown
  <2> QED BY <2>3, <2>4, <2>5, <2>6, <2>7, <2>8, <2>9 DEF Next, Store, World
<1>5. Boot \/ server = "up"
  BY DEF vars, Next, Store, World, Load, UserEdit, SkipStore, BeginStore, TripwireStore,
         FinishStore, FailStore, ForeignWrite, ForeignDelete, Crash, FinishShutdown,
         TimeoutShutdown, ProcessGone, BeginShutdown, Deliver, Read, HandleEvent,
         DropSelfWrite, IgnoreEvent, HandleUpdate, RefuseUpdate, HandleDelete,
         HandleConflict, Dispatched, EvictStale
<1> QED BY <1>3, <1>4, <1>5

(* A document nobody types in is its base, and follows its file.           *)
Shown == IF lifecycle = "conflict" THEN HasMarkers(DiskText) ELSE ydoc = DiskText
Following ==
  base # Undefined =>
    /\ ~known \/ Fileless => \E s \in Slot : Deleting(s)
    /\ \A s \in Slot : Held(s) => events[s].kind # "create"
    /\ Quiet => Shown
Watched == server = "up" /\ ~overlapped /\ ~stirred /\ failures = 0 /\ loaded
Idles == Watched => ydoc = BaseText /\ Following

LEMMA InitIdles == Init => Idles
  BY DEF Init, Idles, Watched

(* Handling the one event there is.                                        *)
LEMMA HandledIdles ==
  ASSUME TypeOK, Unstirred, Follows, Watched, ydoc = BaseText, Following,
         NEW s \in Slot, HandleEvent(s), failures' = 0, loaded'
  PROVE  ydoc' = BaseText' /\ Following'
<1> DEFINE text == events[s].content
<1>1. /\ Arrived(s) /\ Held(s) /\ ~Unreading(s) /\ text \in Content
      /\ tracker = <<>> /\ loaded /\ failures = 0 /\ server = "up" /\ ~overlapped
      /\ UNCHANGED <<disk, known, raw>>
  BY HandledEvent DEF Arrived, Held, Unreading, TypeOK, DiskEvent, Watched, Unstirred
<1>2. \A t \in Slot : ~Held(t)'
  BY <1>1, HandledEvent DEF Follows, Held
<1>3. ~Deleting(s) => /\ known /\ ~Fileless /\ (raw = "none" => text = disk)
                      /\ events[s].kind = "conflict" <=> HasMarkers(text)
  BY <1>1 DEF Follows
<1>4. CASE DropSelfWrite(s)
  BY <1>1, <1>4 DEF DropSelfWrite, IsSelfWrite
<1>5. CASE IgnoreEvent(s)
  <2>1. events[s].kind = "create" /\ UNCHANGED <<ydoc, base>>
    BY <1>1, <1>5 DEF IgnoreEvent, Dispatched, docVars
  <2>2. base = Undefined
    BY <1>1, <2>1 DEF Following
  <2> QED BY <2>1, <2>2 DEF BaseText, Following
<1>6. ASSUME ~Deleting(s), base' \in Content => Shown' \/ raw # "none"
      PROVE  Following'
  <2>1. known' /\ ~Fileless'
    BY <1>1, <1>3, <1>6 DEF Fileless
  <2>2. base' \in Content \cup {Undefined}
    BY <1>6, NextTypes DEF Next, TypeOK
  <2> QED BY <1>1, <1>2, <1>6, <2>1, <2>2 DEF Following, Quiet
<1>7. CASE HandleUpdate(s)
  <2>1. events[s].kind = "update" /\ lifecycle' \in {lifecycle, Resolved}
    BY <1>7 DEF HandleUpdate, Dispatched
  <2>2. Outcome(BaseText, ydoc, text) = IF text = BaseText THEN "noop" ELSE "clean"
    BY DEF Outcome, Watched
  <2>3. NewContent(BaseText, ydoc, text) = text
    BY DEF NewContent
  <2>4. lifecycle' = "none"
    BY <1>7, <2>2 DEF HandleUpdate, Resolved, TypeOK
  <2>5. CASE text = BaseText
    <3>1. UNCHANGED <<ydoc, base>>
      BY <1>7, <2>2, <2>5 DEF HandleUpdate
    <3>2. base \in Content => ydoc = text
      BY <2>5
    <3>3. base' \in Content => Shown' \/ raw # "none"
      BY <1>1, <1>3, <2>1, <2>4, <3>1, <3>2 DEF Shown, DiskText, Deleting
    <3> QED BY <1>6, <2>1, <3>1, <3>3 DEF BaseText, Deleting
  <2>6. CASE text # BaseText
    <3>1. failures \in Nat
      BY DEF TypeOK
    <3>2. failures + 1 # 0
      BY <3>1
    <3>3. ydoc' = text /\ base' = text
      BY <1>7, <2>2, <2>3, <2>6, <3>2 DEF HandleUpdate
    <3>4. Shown' \/ raw # "none"
      BY <1>1, <1>3, <2>1, <2>4, <3>3 DEF Shown, DiskText, Deleting
    <3> QED BY <1>1, <1>6, <2>1, <3>3, <3>4 DEF BaseText, Deleting
  <2> QED BY <2>5, <2>6
<1>8. CASE HandleConflict(s)
  <2>1. /\ events[s].kind = "conflict" /\ base' = ydoc /\ ydoc' = ydoc /\ lifecycle' = "conflict"
        /\ ydoc \in Content
    BY <1>8 DEF HandleConflict, Dispatched, TypeOK
  <2>2. Shown' \/ raw # "none"
    BY <1>1, <1>3, <2>1 DEF Shown, DiskText, Deleting, HasMarkers
  <2> QED BY <1>6, <2>1, <2>2 DEF BaseText, Deleting
<1>9. ~RefuseUpdate(s) /\ ~HandleDelete(s)
  <2>1. failures + 1 # 0
    BY DEF TypeOK
  <2> QED BY <2>1 DEF RefuseUpdate, HandleDelete
<1> QED BY <1>4, <1>5, <1>7, <1>8, <1>9 DEF HandleEvent

LEMMA NextIdles ==
  ASSUME TypeOK, TypeOK', Stopped, Heard, Unstirred, Follows, Follows', Idles,
         [Next]_vars, overlapped' = (overlapped \/ Overlapping)
  PROVE  Idles'
<1> SUFFICES ASSUME Watched' PROVE ydoc' = BaseText' /\ Following'
  BY DEF Idles
<1>1. server' = "up" /\ ~overlapped /\ ~Overlapping /\ ~stirred' /\ failures' = 0 /\ loaded'
  BY Zenon DEF Watched
<1>2. CASE Load
  <2>1. server = "up" /\ ~stirred /\ ~loaded /\ Quiet /\ base = Undefined
    BY <1>1, <1>2 DEF Load, Unstirred
  <2>2. /\ UNCHANGED <<disk, raw, known, events>> /\ ydoc' = DiskText /\ lifecycle' = "none"
        /\ base' = IF disk = NoFile THEN base ELSE disk
    BY <1>2 DEF Load, watchVars
  <2>3. \A s \in Slot : ~Held(s)' /\ ~Unreading(s)
    BY <2>1, <2>2 DEF Quiet, Held, Unreading
  <2>4. disk # NoFile => known /\ ~Fileless
    BY <2>1, <2>3 DEF Heard, Fileless, Quiet
  <2>5. ydoc' = BaseText' /\ Shown'
    <3>1. disk \in Content \cup {NoFile}
      BY DEF TypeOK
    <3>2. ydoc' = DiskText' /\ BaseText' = DiskText
      BY <2>1, <2>2, <3>1 DEF BaseText, DiskText
    <3> QED BY <2>2, <3>2 DEF Shown
  <2> QED BY <2>1, <2>2, <2>3, <2>4, <2>5 DEF Following, Fileless
<1>3. CASE ~Load
  <2>1. ~Boot
    BY <1>1 DEF Boot, docVars, Stopped
  <2>2. ~(\E b \in Block : UserEdit(b))
    BY <1>1 DEF UserEdit
  <2>3. ~(Crash \/ FinishShutdown \/ TimeoutShutdown \/ BeginShutdown)
    BY <1>1 DEF Crash, FinishShutdown, TimeoutShutdown, ProcessGone, BeginShutdown
  <2>4. ASSUME Watched PROVE ~storeTimer /\ inflight = Idle /\ tracker = <<>> /\ ydoc = BaseText /\ Following
    BY <2>4 DEF Watched, Unstirred, Idles
  <2>5. CASE Store \/ EvictStale
    <3>1. server = "up" /\ ~stirred
      <4>1. UNCHANGED <<server, stirred>>
        BY <2>5 DEF Store, SkipStore, BeginStore, TripwireStore, FinishStore, FailStore,
                    EvictStale, history
      <4> QED BY <1>1, <4>1
    <3>2. ~storeTimer /\ inflight = Idle /\ tracker = <<>>
      BY <3>1 DEF Unstirred
    <3> QED BY <2>5, <3>2 DEF Store, SkipStore, BeginStore, StoreDue, TripwireStore, FinishStore,
                              FailStore, EvictStale
  <2>6. CASE UNCHANGED vars
    <3>1. Watched
      BY <1>1, <2>6 DEF Watched, vars, docVars, counters, history
    <3> QED BY <2>4, <2>6, <3>1
            DEF vars, docVars, watchVars, BaseText, Following, Fileless, Deleting, Held, Quiet,
                Shown, DiskText
  <2>7. CASE ForeignWrite \/ ForeignDelete
    <3>1. Watched /\ UNCHANGED <<docVars, known, events>>
      <4>1. UNCHANGED <<docVars, known, events, server, stirred, failures>>
        BY <2>7 DEF ForeignWrite, ForeignDelete
      <4> QED BY <1>1, <4>1 DEF Watched, docVars
    <3>2. ydoc = BaseText /\ Following /\ server = "up"
      BY <2>4, <3>1 DEF Watched
    <3>3. Fileless' => raw = "create" \/ (raw = "none" /\ disk = NoFile)
      BY <2>7, <3>2, NoticeWritten, NoticeDeleted
      DEF ForeignWrite, ForeignDelete, Fileless
    <3>4. Quiet' => Fileless'
      BY <2>7, <3>2, NoticeWritten DEF ForeignWrite, ForeignDelete, Fileless, Quiet
    <3> QED BY <3>1, <3>2, <3>3, <3>4
            DEF docVars, BaseText, Following, Fileless, Deleting, Held, Quiet
  <2>8. ASSUME NEW s \in Slot, Deliver(s) PROVE ydoc' = BaseText' /\ Following'
    <3>1. Watched /\ UNCHANGED <<disk, docVars>>
      BY <1>1, <2>8 DEF Deliver, Watched, docVars, counters, history
    <3>2. ydoc = BaseText /\ Following /\ server = "up"
      BY <2>4, <3>1 DEF Watched
    <3>3. Held(s)' /\ \A t \in Slot : t # s => ~Held(t) /\ ~Held(t)'
      BY <1>1, <2>8, DeliveredEvent DEF Overlapping, Held
    <3>4. ~Quiet' /\ ~Held(s) /\ raw' = "none"
      BY <2>8, <3>3, DeliveredEvent DEF Quiet, Held
    <3>5. CASE raw = "delete"
      BY <2>8, <3>1, <3>2, <3>3, <3>4, <3>5, DeliveredEvent DEF docVars, BaseText, Following, Deleting
    <3>6. CASE raw # "delete"
      <4>1. disk # NoFile /\ known' = known
        BY <2>8, <3>2, <3>6 DEF Deliver, Heard, TypeOK
      <4>2. base # Undefined => known
        BY <3>2, <3>3, <3>4 DEF Following, Deleting
      <4> QED BY <2>8, <3>1, <3>2, <3>3, <3>4, <3>6, <4>1, <4>2, DeliveredEvent
              DEF docVars, BaseText, Following, Fileless
    <3> QED BY <3>5, <3>6
  <2>9. ASSUME NEW s \in Slot, Read(s) PROVE ydoc' = BaseText' /\ Following'
    <3>1. Watched /\ UNCHANGED <<disk, raw, docVars>>
      BY <1>1, <2>9 DEF Read, Watched, docVars, counters, history
    <3>2. ydoc = BaseText /\ Following /\ server = "up" /\ ~overlapped
      BY <2>4, <3>1 DEF Watched
    <3>3. Unreading(s) /\ Held(s) /\ ~Deleting(s)
      BY <2>9, <3>2, ReadEvent DEF Heard, Held, Unreading, Deleting
    <3>4. \A t \in Slot : t # s => ~Held(t) /\ ~Held(t)'
      BY <2>9, <3>2, <3>3, ReadEvent DEF Follows, Held
    <3>5. base # Undefined => known /\ ~Fileless /\ events[s].kind = "update"
      BY <3>2, <3>3, <3>4 DEF Following, Deleting, Heard
    <3>6. CASE disk = NoFile
      BY <2>9, <3>1, <3>2, <3>4, <3>5, <3>6, ReadEvent DEF docVars, BaseText, Following, Fileless, Quiet
    <3>7. CASE disk # NoFile
      BY <2>9, <3>1, <3>2, <3>4, <3>5, <3>7, ReadEvent
      DEF docVars, BaseText, Following, Fileless, Quiet, Held, KindOf
    <3> QED BY <3>6, <3>7
  <2>10. ASSUME NEW s \in Slot, HandleEvent(s) PROVE ydoc' = BaseText' /\ Following'
    <3>1. server = "up" /\ ~stirred
      BY <1>1, <2>10, HandledEvent
    <3>2. loaded
      BY <1>1, <2>10 DEF HandleEvent, DropSelfWrite, IgnoreEvent, HandleUpdate, RefuseUpdate,
                         HandleDelete, HandleConflict, Dispatched, docVars
    <3>3. failures = 0
      <4>1. failures' = failures \/ failures' = failures + 1
        BY <2>10 DEF HandleEvent, DropSelfWrite, IgnoreEvent, HandleUpdate, RefuseUpdate,
                     HandleDelete, HandleConflict, Dispatched, counters
      <4> QED BY <1>1, <4>1 DEF TypeOK
    <3>4. Watched
      BY <1>1, <3>1, <3>2, <3>3 DEF Watched
    <3> QED BY <1>1, <2>4, <2>10, <3>4, HandledIdles
  <2> QED BY <1>3, <2>1, <2>2, <2>3, <2>5, <2>6, <2>7, <2>8, <2>9, <2>10 DEF Next, World
<1> QED BY <1>2, <1>3

(* As long as the batches of the watcher come one at a time, a document    *)
(* nobody types in shows its file once there is nothing more to hear       *)
(* (handleDiskEvent).                                                      *)
THEOREM IdleDocumentsSettle == BridgeSpec => []SettlesAlone
<1> DEFINE Inv == TypeOK /\ Stopped /\ Heard /\ Unstirred /\ Follows /\ Idles
<1>1. BridgeInit => Inv
  BY InitTypes, InitDated, InitHeard, InitFollows, InitIdles DEF BridgeInit
<1>2. Inv /\ [BridgeNext]_<<vars, overlapped>> => Inv'
  <2> SUFFICES ASSUME Inv, [BridgeNext]_<<vars, overlapped>> PROVE Inv'
    OBVIOUS
  <2>1. [Next]_vars /\ TypeOK' /\ Stopped' /\ Heard' /\ Unstirred'
    <3>1. [Next]_vars
      BY DEF BridgeNext
    <3> QED BY <3>1, NextTypes, NextStopped, NextHeard, NextUnstirred
  <2>2. CASE BridgeNext
    <3>1. overlapped' = (overlapped \/ Overlapping)
      BY <2>2 DEF BridgeNext
    <3>2. Follows'
      BY <2>1, <3>1, NextFollows
    <3> QED BY <2>1, <3>1, <3>2, NextIdles
  <2>3. CASE UNCHANGED <<vars, overlapped>>
    BY <2>1, <2>3 DEF vars, docVars, watchVars, counters, history, Follows, Idles, Watched, BaseText,
                      Following, Fileless, Deleting, Held, Unreading, Quiet, Shown, DiskText
  <2> QED BY <2>2, <2>3
<1>3. Inv => SettlesAlone
  BY DEF Idles, Watched, Following, Shown, SettlesAlone, IdleDocShowsDisk
<1> QED BY <1>1, <1>2, <1>3, PTL DEF BridgeSpec
=============================================================================
