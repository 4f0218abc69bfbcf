------------------------- MODULE ProviderPoolProofs -------------------------
(***************************************************************************)
(* Theorems about ProviderPool, for any documents and bounds.              *)
(***************************************************************************)
EXTENDS ProviderPool, TLAPS

USE PoolAssumption

(* Each start of the server answers a stop, which was a trouble.           *)
Counted == instance + (IF serving THEN 0 ELSE 1) <= troubles + 1

PoolTyped == ClientTypeOK /\ Counted

(* The state of the recovery and the clears that are under way agree.      *)
Phase ==
  /\ clearing # Missing <=> recovery.kind = "clearing"
  /\ recovery.kind = "clearing" => recovery.failed = {}

(* What the present clears concern, or a former recovery could not clear.  *)
Concerned ==
  recovery.failed \cup
    (IF clearing = Missing THEN {} ELSE clearing.waits \cup clearing.cleared \cup clearing.failed)

(* A document that names a server has a cache, and only one that names a   *)
(* server is refused.                                                      *)
Claims(d) ==
  /\ entries[d].claim # 0 => entries[d].persistence # 0
  /\ entries[d].status = "refused" => entries[d].claim # 0

(* While the tab knows no server, every document that names one is         *)
(* concerned, and so is every document that was refused.                   *)
Owed(d)    == cachedServerInstanceId = 0 /\ entries[d].claim # 0 => d \in Concerned
Refused(d) == entries[d].status = "refused" => ignored \/ d \in Concerned

(* A document that is shown as reconnecting has not synced.                *)
Notice(d) ==
  recovery.kind = "reconnecting" /\ d \in recovery.docs => entries[d].status # "synced"

(* What is buffered for an open document is in it or comes when it syncs.  *)
Replays(d) ==
  /\ HasSynced(entries[d]) => ~entries[d].replay
  /\ buffered[d] # Missing => entries[d].replay \/ buffered[d] \subseteq entries[d].text

InOrder(d) == Claims(d) /\ Owed(d) /\ Refused(d) /\ Notice(d) /\ Replays(d)

PoolInv == Phase /\ \A d \in OpenDocs : InOrder(d)

-----------------------------------------------------------------------------
(* Types *)

(* An entry whose cache is bound has one.                                  *)
Sound(e) == e \in {Missing} \cup Entry /\ (e # Missing /\ e.bound => e.persistence # 0)

LEMMA EntriesAreSound == ClientTypeOK => \A d \in Doc : Sound(entries[d])
  BY DEF ClientTypeOK, Sound, OpenDocs, IsOpen

LEMMA OneIsInstance == 1 \in Instance /\ Instance \subseteq Nat /\ 0 \notin Instance
  BY DEF Instance

LEMMA BoundGrows ==
  ASSUME NEW one \in Nat, NEW other \in Nat, NEW bound \in Nat, NEW larger \in Nat,
         one + other <= bound + 1, bound <= larger
  PROVE  one + other <= larger + 1
  OBVIOUS

(* What Shows gives: the new entries, and caches of the right type.        *)
LEMMA ShowsTyped ==
  ASSUME ClientTypeOK, NEW next, next = [d \in Doc |-> next[d]], Shows(next),
         \A d \in Doc : Sound(next[d])
  PROVE  /\ entries' = next
         /\ entries' \in [Doc -> {Missing} \cup Entry]
         /\ \A d \in OpenDocs' : entries'[d].bound => entries'[d].persistence # 0
         /\ cache' \in [Doc -> [Instance -> SUBSET Item]]
<1>1. entries' = next
  BY DEF Shows
<1>2. entries' \in [Doc -> {Missing} \cup Entry]
  BY <1>1 DEF Sound
<1>3. \A d \in OpenDocs' : entries'[d].bound => entries'[d].persistence # 0
  BY <1>1 DEF Sound, OpenDocs, IsOpen
<1>4. cache' \in [Doc -> [Instance -> SUBSET Item]]
  <2>1. cache \in [Doc -> [Instance -> SUBSET Item]]
    BY DEF ClientTypeOK
  <2> DEFINE content(d) ==
        IF next[d] # Missing /\ next[d].bound
        THEN [cache[d] EXCEPT ![next[d].persistence] = next[d].text] ELSE cache[d]
  <2>2. ASSUME NEW d \in Doc PROVE content(d) \in [Instance -> SUBSET Item]
    <3>1. CASE next[d] # Missing /\ next[d].bound
      <4>1. next[d].text \in SUBSET Item
        BY <3>1 DEF Sound, Entry
      <4> QED BY <2>1, <3>1, <4>1
    <3> QED BY <2>1, <3>1
  <2>3. cache' = [d \in Doc |-> content(d)]
    BY DEF Shows
  <2> QED BY <2>2, <2>3
<1> QED BY <1>1, <1>2, <1>3, <1>4

LEMMA NewEntryTyped ==
  ASSUME ClientTypeOK, NEW d \in Doc
  PROVE  /\ NewEntry(d) \in Entry /\ NewEntry(d) # Missing /\ Sound(NewEntry(d))
         /\ NewEntry(d).claim = cachedServerInstanceId
         /\ NewEntry(d).persistence = cachedServerInstanceId
         /\ NewEntry(d).status = "connecting" /\ ~HasSynced(NewEntry(d))
         /\ NewEntry(d).replay = (buffered[d] # Missing)
<1>1. cachedServerInstanceId \in Instance \cup {0}
  BY DEF ClientTypeOK
<1>2. (IF cachedServerInstanceId = 0 THEN {} ELSE cache[d][cachedServerInstanceId]) \in SUBSET Item
  BY <1>1 DEF ClientTypeOK
<1>3. NewEntry(d) \in Entry
  BY <1>1, <1>2 DEF NewEntry, Entry, Vector
<1>4. Sound(NewEntry(d))
  BY <1>3 DEF Sound, NewEntry
<1> QED BY <1>3, <1>4 DEF NewEntry, HasSynced

LEMMA InitTyped == PoolInit => PoolTyped
<1> SUFFICES ASSUME PoolInit PROVE PoolTyped
  OBVIOUS
<1>1. <<0, 1>> \in Item /\ 1 \in Instance
  BY DEF Item, Instance
<1>2. remote \in [Doc -> SUBSET Item]
  BY <1>1, Zenon DEF PoolInit
<1>3. filed \in [Doc -> SUBSET (0 .. MaxKeystrokes)]
  BY DEF PoolInit
<1>4. OpenDocs = {}
  BY DEF PoolInit, OpenDocs, IsOpen
<1>5. Idle \in Recovery /\ Idle.kind = "idle"
  BY DEF Idle, Recovery
<1>6. ClientTypeOK
  <2>1. cache \in [Doc -> [Instance -> SUBSET Item]]
    BY DEF PoolInit
  <2>2. entries \in [Doc -> {Missing} \cup Entry] /\ buffered \in [Doc -> Vector]
    BY DEF PoolInit, Vector
  <2>3. /\ instance \in Instance /\ serving \in BOOLEAN
        /\ cachedServerInstanceId \in Instance \cup {0}
        /\ keys \in 0 .. MaxKeystrokes /\ troubles \in 0 .. MaxTroubles
        /\ active \in OpenDocs \cup {Missing} /\ clearing \in {Missing} \cup Clearing
    BY <1>1 DEF PoolInit
  <2>4. unclaimed \in BOOLEAN /\ unacked \in BOOLEAN /\ ignored \in BOOLEAN
    BY Zenon DEF PoolInit
  <2>5. recovery \in Recovery /\ recovery.kind # "reconnecting"
    BY <1>5 DEF PoolInit
  <2> QED BY <1>2, <1>3, <1>4, <2>1, <2>2, <2>3, <2>4, <2>5 DEF ClientTypeOK
<1>7. Counted
  BY DEF PoolInit, Counted
<1> QED BY <1>6, <1>7 DEF PoolTyped

(* The entries an action makes of those there were, one by one.            *)
LEMMA CutOffTyped ==
  ASSUME ClientTypeOK, NEW d \in OpenDocs
  PROVE  Sound(CutOff(d)) /\ CutOff(d) # Missing
<1>1. entries[d] \in Entry /\ Sound(entries[d]) /\ d \in Doc
  BY EntriesAreSound DEF OpenDocs, IsOpen, Sound
<1>2. CutOff(d) \in Entry
  BY <1>1 DEF CutOff, Entry
<1> QED BY <1>1, <1>2 DEF Sound, CutOff, Entry

LEMMA AttachedTyped ==
  ASSUME NEW e \in Entry, Sound(e), NEW id \in Instance, NEW content \in SUBSET Item
  PROVE  Sound(Attached(e, content, id)) /\ Attached(e, content, id) \in Entry
<1>1. Attached(e, content, id) \in Entry
  BY DEF Attached, Entry
<1> QED BY <1>1, OneIsInstance DEF Sound, Attached, Entry

LEMMA AckedTyped ==
  ASSUME NEW e \in Entry, Sound(e), NEW items \in SUBSET Item, NEW edits
  PROVE  Sound(Acked(e, items, edits)) /\ Acked(e, items, edits) \in Entry
<1> DEFINE told == {item \in items : item[1] \in edits}
<1>1. Union(e.acked, told) \in Vector
  BY DEF Union, Vector, Entry
<1>2. Acked(e, items, edits) \in Entry
  BY <1>1 DEF Acked, Entry
<1> QED BY <1>2 DEF Sound, Acked, Entry

LEMMA RecycledTyped ==
  ASSUME ClientTypeOK, NEW d \in Doc
  PROVE  Sound(Recycled(d)) /\ (active = d => Recycled(d) # Missing)
  BY NewEntryTyped DEF Recycled, Sound

LEMMA NothingIsSound == Sound(Missing)
  BY DEF Sound

LEMMA TroubleCounts ==
  ASSUME ClientTypeOK, Trouble
  PROVE  troubles' = troubles + 1 /\ troubles' \in 0 .. MaxTroubles
  BY DEF ClientTypeOK, Trouble

(* Steps of the server, and connections.                                   *)
LEMMA ServerStepTyped ==
  ASSUME PoolTyped,
         ServerStops \/ ServerStarts \/ \E d \in Doc : FileStore(d) \/ Disconnect(d) \/ Deliver(d)
  PROVE  PoolTyped'
<1> USE DEF PoolTyped
<1>1. CASE ServerStops
  <2> DEFINE next == [d \in Doc |-> IF IsOpen(d) THEN CutOff(d) ELSE Missing]
  <2>1. \A d \in Doc : Sound(next[d]) /\ (IsOpen(d) => next[d] # Missing)
    BY CutOffTyped, NothingIsSound DEF OpenDocs
  <2>2. Shows(next) /\ next = [d \in Doc |-> next[d]]
    BY <1>1 DEF ServerStops
  <2> HIDE DEF next
  <2>3. /\ entries' = next
        /\ entries' \in [Doc -> {Missing} \cup Entry]
        /\ \A d \in OpenDocs' : entries'[d].bound => entries'[d].persistence # 0
        /\ cache' \in [Doc -> [Instance -> SUBSET Item]]
    BY <2>1, <2>2, ShowsTyped
  <2>4. active' \in OpenDocs' \cup {Missing}
    BY <1>1, <2>1, <2>3 DEF ServerStops, ClientTypeOK, OpenDocs, IsOpen
  <2>5. troubles' = troubles + 1 /\ troubles' \in 0 .. MaxTroubles
    BY <1>1, TroubleCounts DEF ServerStops
  <2>6. Counted'
    BY <1>1, <2>5 DEF ServerStops, Counted, ClientTypeOK, Instance
  <2>7. ClientTypeOK'
    BY <1>1, <2>3, <2>4, <2>5 DEF ServerStops, ClientTypeOK, renewing, gone
  <2> QED BY <2>6, <2>7
<1>2. CASE ServerStarts
  <2>1. instance' \in Instance /\ Counted'
    BY <1>2 DEF ServerStarts, Counted, ClientTypeOK, Instance
  <2>2. remote' \in [Doc -> SUBSET Item]
    <3>1. ASSUME NEW d \in Doc PROVE filed[d] \X {instance'} \in SUBSET Item
      BY <2>1 DEF ClientTypeOK, Item
    <3> QED BY <1>2, <3>1 DEF ServerStarts
  <2>3. unclaimed' \in BOOLEAN
    BY <1>2 DEF ServerStarts, ClientTypeOK
  <2>4. OpenDocs' = OpenDocs
    BY <1>2 DEF ServerStarts, pool, OpenDocs, IsOpen
  <2>5. ClientTypeOK'
    BY <1>2, <2>1, <2>2, <2>3, <2>4 DEF ServerStarts, ClientTypeOK, pool, renewing
  <2> QED BY <2>1, <2>5
<1>3. ASSUME NEW d \in Doc, FileStore(d) PROVE PoolTyped'
  <2>1. filed' \in [Doc -> SUBSET (0 .. MaxKeystrokes)]
    <3>1. EditsOf(remote[d]) \subseteq 0 .. MaxKeystrokes
      BY DEF ClientTypeOK, EditsOf, Item
    <3> QED BY <1>3, <3>1 DEF FileStore, ClientTypeOK
  <2>2. /\ entries' \in [Doc -> {Missing} \cup Entry]
        /\ OpenDocs' = OpenDocs
        /\ \A x \in OpenDocs : /\ entries'[x].bound = entries[x].bound
                               /\ entries'[x].persistence = entries[x].persistence
    <3>1. CASE UNCHANGED entries
      BY <3>1 DEF ClientTypeOK, OpenDocs, IsOpen
    <3>2. CASE IsOpen(d) /\ entries' = [entries EXCEPT ![d].acked = Union(@, remote[d])]
      <4>1. entries[d] \in Entry
        BY <3>2 DEF ClientTypeOK, IsOpen
      <4>2. Union(entries[d].acked, remote[d]) \in Vector
        BY <4>1 DEF ClientTypeOK, Union, Vector, Entry
      <4> DEFINE new == [entries[d] EXCEPT !.acked = Union(@, remote[d])]
      <4>3. /\ new \in Entry /\ new # Missing
            /\ new.bound = entries[d].bound /\ new.persistence = entries[d].persistence
        BY <4>1, <4>2 DEF Entry
      <4>4. entries' = [entries EXCEPT ![d] = new]
        BY <3>2
      <4> HIDE DEF new
      <4> QED BY <3>2, <4>3, <4>4 DEF ClientTypeOK, OpenDocs, IsOpen
    <3> QED BY <1>3, <3>1, <3>2 DEF FileStore
  <2>3. unacked' \in BOOLEAN
    BY <1>3 DEF FileStore, ClientTypeOK
  <2>4. ClientTypeOK'
    BY <1>3, <2>1, <2>2, <2>3 DEF FileStore, ClientTypeOK, renewing
  <2>5. Counted'
    BY <1>3 DEF FileStore, Counted
  <2> QED BY <2>4, <2>5
<1>4. ASSUME NEW d \in Doc, Disconnect(d) PROVE PoolTyped'
  <2> DEFINE next == [entries EXCEPT ![d] = CutOff(d)]
  <2>1. \A x \in Doc : Sound(next[x]) /\ (IsOpen(x) => next[x] # Missing)
    BY <1>4, CutOffTyped, EntriesAreSound DEF ClientTypeOK, OpenDocs, IsOpen, Disconnect
  <2>2. Shows(next) /\ next = [x \in Doc |-> next[x]]
    BY <1>4 DEF Disconnect, ClientTypeOK
  <2> HIDE DEF next
  <2>3. /\ entries' = next
        /\ entries' \in [Doc -> {Missing} \cup Entry]
        /\ \A x \in OpenDocs' : entries'[x].bound => entries'[x].persistence # 0
        /\ cache' \in [Doc -> [Instance -> SUBSET Item]]
    BY <2>1, <2>2, ShowsTyped
  <2>4. active' \in OpenDocs' \cup {Missing}
    BY <1>4, <2>1, <2>3 DEF Disconnect, ClientTypeOK, OpenDocs, IsOpen
  <2>5. troubles' = troubles + 1 /\ troubles' \in 0 .. MaxTroubles
    BY <1>4, TroubleCounts DEF Disconnect
  <2>6. Counted'
    BY <1>4, <2>5 DEF Disconnect, Counted, ClientTypeOK, Instance, backend
  <2>7. ClientTypeOK'
    BY <1>4, <2>3, <2>4, <2>5 DEF Disconnect, ClientTypeOK, renewing, gone, backend
  <2> QED BY <2>6, <2>7
<1>5. ASSUME NEW d \in Doc, Deliver(d) PROVE PoolTyped'
  <2>1. entries[d].text \in SUBSET Item
    BY <1>5 DEF Deliver, ClientTypeOK, IsOpen, Entry
  <2>2. remote' \in [Doc -> SUBSET Item]
    BY <1>5, <2>1 DEF Deliver, ClientTypeOK
  <2>3. OpenDocs' = OpenDocs
    BY <1>5 DEF Deliver, pool, OpenDocs, IsOpen
  <2> QED BY <1>5, <2>2, <2>3 DEF Deliver, ClientTypeOK, Counted, pool, renewing, gone
<1> QED BY <1>1, <1>2, <1>3, <1>4, <1>5

(* Steps of the tab that are not about a restart.                          *)
LEMMA TabStepTyped ==
  ASSUME PoolTyped,
         \/ SetExpectedServerInstanceId \/ Reload \/ KeyIn
         \/ \E d \in Doc : OpenDoc(d) \/ Close(d) \/ RecycleTimer(d) \/ Sync(d)
  PROVE  PoolTyped'
<1> USE DEF PoolTyped
<1>1. CASE SetExpectedServerInstanceId
  <2> PICK asked \in BOOLEAN :
        Shows([d \in Doc |->
          LET e == Attached(entries[d], cache[d][instance], instance)
          IN IF ~IsOpen(d) THEN Missing
             ELSE IF asked THEN Acked(e, remote[d], filed[d]) ELSE e])
    BY <1>1 DEF SetExpectedServerInstanceId
  <2> DEFINE e(d) == Attached(entries[d], cache[d][instance], instance)
             next == [d \in Doc |->
               IF ~IsOpen(d) THEN Missing
               ELSE IF asked THEN Acked(e(d), remote[d], filed[d]) ELSE e(d)]
  <2>1. \A d \in Doc : Sound(next[d]) /\ (IsOpen(d) => next[d] # Missing)
    <3> SUFFICES ASSUME NEW d \in Doc, IsOpen(d) PROVE Sound(next[d]) /\ next[d] # Missing
      BY NothingIsSound
    <3>1. entries[d] \in Entry /\ Sound(entries[d])
      BY EntriesAreSound DEF ClientTypeOK, IsOpen
    <3>2. instance \in Instance /\ cache[d][instance] \in SUBSET Item /\ remote[d] \in SUBSET Item
      BY DEF ClientTypeOK
    <3>3. e(d) \in Entry /\ Sound(e(d))
      BY <3>1, <3>2, AttachedTyped
    <3>4. Acked(e(d), remote[d], filed[d]) \in Entry /\ Sound(Acked(e(d), remote[d], filed[d]))
      BY <3>2, <3>3, AckedTyped
    <3> QED BY <3>3, <3>4
  <2>2. Shows(next) /\ next = [d \in Doc |-> next[d]]
    OBVIOUS
  <2> HIDE DEF next
  <2>3. /\ entries' = next
        /\ entries' \in [Doc -> {Missing} \cup Entry]
        /\ \A x \in OpenDocs' : entries'[x].bound => entries'[x].persistence # 0
        /\ cache' \in [Doc -> [Instance -> SUBSET Item]]
    BY <2>1, <2>2, ShowsTyped
  <2>4. active' \in OpenDocs' \cup {Missing}
    BY <1>1, <2>1, <2>3 DEF SetExpectedServerInstanceId, ClientTypeOK, OpenDocs, IsOpen
  <2>5. ClientTypeOK'
    BY <1>1, <2>3, <2>4 DEF SetExpectedServerInstanceId, ClientTypeOK, backend, gone
  <2>6. Counted'
    BY <1>1 DEF SetExpectedServerInstanceId, Counted, backend
  <2> QED BY <2>5, <2>6
<1>2. CASE Reload
  <2>1. troubles' = troubles + 1 /\ troubles' \in 0 .. MaxTroubles
    BY <1>2, TroubleCounts DEF Reload
  <2>2. Counted'
    BY <1>2, <2>1 DEF Reload, Counted, ClientTypeOK, Instance, backend
  <2>3. OpenDocs' = {}
    BY <1>2 DEF Reload, OpenDocs, IsOpen
  <2>4. Idle \in Recovery /\ Idle.kind # "reconnecting"
    BY DEF Idle, Recovery
  <2>5. entries' \in [Doc -> {Missing} \cup Entry] /\ buffered' \in [Doc -> Vector]
    BY <1>2 DEF Reload, Vector
  <2>6. recovery' \in Recovery /\ recovery'.kind # "reconnecting" /\ clearing' = Missing
    BY <1>2, <2>4 DEF Reload
  <2>7. ClientTypeOK'
    BY <1>2, <2>1, <2>3, <2>5, <2>6 DEF Reload, ClientTypeOK, backend, gone
  <2> QED BY <2>2, <2>7
<1>3. CASE KeyIn
  <2> DEFINE next == [entries EXCEPT ![active].text = @ \cup {<<keys', 0>>}]
  <2>0. active \in Doc /\ entries[active] \in Entry /\ keys' \in 0 .. MaxKeystrokes
    BY <1>3 DEF KeyIn, ClientTypeOK, OpenDocs, IsOpen
  <2>1. \A x \in Doc : Sound(next[x]) /\ (IsOpen(x) => next[x] # Missing)
    <3> DEFINE new == [entries[active] EXCEPT !.text = @ \cup {<<keys', 0>>}]
    <3>1. <<keys', 0>> \in Item
      BY <2>0 DEF Item
    <3>2. new \in Entry /\ new.bound = entries[active].bound
                        /\ new.persistence = entries[active].persistence
      BY <2>0, <3>1 DEF Entry
    <3>3. next = [entries EXCEPT ![active] = new]
      OBVIOUS
    <3> HIDE DEF new, next
    <3> QED BY <2>0, <3>2, <3>3, EntriesAreSound DEF Sound, ClientTypeOK, IsOpen
  <2>2. Shows(next) /\ next = [x \in Doc |-> next[x]]
    BY <1>3 DEF KeyIn, ClientTypeOK
  <2> HIDE DEF next
  <2>3. /\ entries' = next
        /\ entries' \in [Doc -> {Missing} \cup Entry]
        /\ \A x \in OpenDocs' : entries'[x].bound => entries'[x].persistence # 0
        /\ cache' \in [Doc -> [Instance -> SUBSET Item]]
    BY <2>1, <2>2, ShowsTyped
  <2>4. active' \in OpenDocs' \cup {Missing}
    BY <1>3, <2>1, <2>3 DEF KeyIn, ClientTypeOK, OpenDocs, IsOpen
  <2>5. ClientTypeOK'
    BY <1>3, <2>0, <2>3, <2>4 DEF KeyIn, ClientTypeOK, renewing, gone, backend
  <2>6. Counted'
    BY <1>3 DEF KeyIn, Counted, backend
  <2> QED BY <2>5, <2>6
<1>4. ASSUME NEW d \in Doc, OpenDoc(d) PROVE PoolTyped'
  <2> DEFINE next == IF IsOpen(d) THEN entries ELSE [entries EXCEPT ![d] = NewEntry(d)]
  <2>1. /\ \A x \in Doc : Sound(next[x]) /\ (IsOpen(x) => next[x] # Missing)
        /\ next[d] # Missing
    BY NewEntryTyped, EntriesAreSound DEF ClientTypeOK, IsOpen
  <2>2. Shows(next) /\ next = [x \in Doc |-> next[x]]
    BY <1>4 DEF OpenDoc, ClientTypeOK
  <2> HIDE DEF next
  <2>3. /\ entries' = next
        /\ entries' \in [Doc -> {Missing} \cup Entry]
        /\ \A x \in OpenDocs' : entries'[x].bound => entries'[x].persistence # 0
        /\ cache' \in [Doc -> [Instance -> SUBSET Item]]
    BY <2>1, <2>2, ShowsTyped
  <2>4. active' \in OpenDocs' \cup {Missing}
    BY <1>4, <2>1, <2>3 DEF OpenDoc, ClientTypeOK, OpenDocs, IsOpen
  <2>5. ClientTypeOK'
    BY <1>4, <2>3, <2>4 DEF OpenDoc, ClientTypeOK, renewing, gone, backend
  <2>6. Counted'
    BY <1>4 DEF OpenDoc, Counted, backend
  <2> QED BY <2>5, <2>6
<1>5. ASSUME NEW d \in Doc, Close(d) PROVE PoolTyped'
  <2> DEFINE next == [entries EXCEPT ![d] = Missing]
  <2>1. \A x \in Doc : Sound(next[x]) /\ (IsOpen(x) /\ x # d => next[x] # Missing)
    BY NothingIsSound, EntriesAreSound DEF ClientTypeOK, IsOpen
  <2>2. Shows(next) /\ next = [x \in Doc |-> next[x]]
    BY <1>5 DEF Close, ClientTypeOK
  <2> HIDE DEF next
  <2>3. /\ entries' = next
        /\ entries' \in [Doc -> {Missing} \cup Entry]
        /\ \A x \in OpenDocs' : entries'[x].bound => entries'[x].persistence # 0
        /\ cache' \in [Doc -> [Instance -> SUBSET Item]]
    BY <2>1, <2>2, ShowsTyped
  <2>4. active' \in OpenDocs' \cup {Missing}
    BY <1>5, <2>1, <2>3 DEF Close, ClientTypeOK, OpenDocs, IsOpen
  <2>5. troubles' = troubles + 1 /\ troubles' \in 0 .. MaxTroubles
    BY <1>5, TroubleCounts DEF Close
  <2>6. Counted'
    BY <1>5, <2>5 DEF Close, Counted, ClientTypeOK, Instance, backend
  <2>7. buffered' \in [Doc -> Vector]
    BY <1>5 DEF Close, ClientTypeOK, Vector
  <2>8. ClientTypeOK'
    BY <1>5, <2>3, <2>4, <2>5, <2>7 DEF Close, ClientTypeOK, renewing, gone, backend
  <2> QED BY <2>6, <2>8
<1>6. ASSUME NEW d \in Doc, RecycleTimer(d) PROVE PoolTyped'
  <2> DEFINE next == [entries EXCEPT ![d] = Recycled(d)]
  <2>1. /\ \A x \in Doc : Sound(next[x]) /\ (IsOpen(x) /\ x # d => next[x] # Missing)
        /\ active = d => next[d] # Missing
    BY RecycledTyped, EntriesAreSound DEF ClientTypeOK, IsOpen
  <2>2. Shows(next) /\ next = [x \in Doc |-> next[x]]
    BY <1>6 DEF RecycleTimer, ClientTypeOK
  <2> HIDE DEF next
  <2>3. /\ entries' = next
        /\ entries' \in [Doc -> {Missing} \cup Entry]
        /\ \A x \in OpenDocs' : entries'[x].bound => entries'[x].persistence # 0
        /\ cache' \in [Doc -> [Instance -> SUBSET Item]]
    BY <2>1, <2>2, ShowsTyped
  <2>4. active' \in OpenDocs' \cup {Missing}
    BY <1>6, <2>1, <2>3 DEF RecycleTimer, ClientTypeOK, OpenDocs, IsOpen
  <2>5. ClientTypeOK'
    BY <1>6, <2>3, <2>4 DEF RecycleTimer, ClientTypeOK, renewing, gone, backend
  <2>6. Counted'
    BY <1>6 DEF RecycleTimer, Counted, backend
  <2> QED BY <2>5, <2>6
<1>7. ASSUME NEW d \in Doc, Sync(d) PROVE PoolTyped'
  <2> DEFINE e    == entries[d]
             both == e.text \cup remote[d]
             text == IF e.replay /\ buffered[d] # Missing THEN both \cup buffered[d] ELSE both
             new  == [e EXCEPT !.text = text, !.synced = both, !.status = "synced",
                               !.recycle = FALSE, !.replay = FALSE]
             next == [entries EXCEPT ![d] = new]
  <2>0. e \in Entry /\ both \in SUBSET Item /\ text \in SUBSET Item
    <3>1. e \in Entry
      BY <1>7 DEF Sync, ClientTypeOK, IsOpen
    <3>2. both \in SUBSET Item /\ buffered[d] \in Vector
      BY <3>1 DEF ClientTypeOK, Entry
    <3> QED BY <3>1, <3>2 DEF Vector
  <2>1. \A x \in Doc : Sound(next[x]) /\ (IsOpen(x) => next[x] # Missing)
    <3>1. both \in Vector
      BY <2>0 DEF Vector
    <3>2. new \in Entry /\ new.bound = e.bound /\ new.persistence = e.persistence
      <4> HIDE DEF both, text
      <4> QED BY <2>0, <3>1 DEF Entry
    <3> HIDE DEF new
    <3> QED BY <2>0, <3>2, EntriesAreSound DEF Sound, ClientTypeOK, IsOpen
  <2>2. Shows(next) /\ next = [x \in Doc |-> next[x]]
    BY <1>7 DEF Sync, ClientTypeOK
  <2> HIDE DEF next
  <2>3. /\ entries' = next
        /\ entries' \in [Doc -> {Missing} \cup Entry]
        /\ \A x \in OpenDocs' : entries'[x].bound => entries'[x].persistence # 0
        /\ cache' \in [Doc -> [Instance -> SUBSET Item]]
    BY <2>1, <2>2, ShowsTyped
  <2>4. active' \in OpenDocs' \cup {Missing}
    BY <1>7, <2>1, <2>3 DEF Sync, ClientTypeOK, OpenDocs, IsOpen
  <2>5. buffered' \in [Doc -> Vector]
    BY <1>7 DEF Sync, ClientTypeOK, Vector
  <2>6. recovery' \in Recovery /\ (recovery'.kind = "reconnecting" => recovery' = recovery)
    <3>1. MarkSynced(d) \in Recovery
          /\ (MarkSynced(d).kind = "reconnecting" => MarkSynced(d) = recovery)
      BY DEF MarkSynced, Idle, Recovery, ClientTypeOK
    <3> QED BY <1>7, <3>1 DEF Sync
  <2>7. ClientTypeOK'
    BY <1>7, <2>3, <2>4, <2>5, <2>6 DEF Sync, ClientTypeOK, gone, backend
  <2>8. Counted'
    BY <1>7 DEF Sync, Counted, backend
  <2> QED BY <2>7, <2>8
<1> QED BY <1>1, <1>2, <1>3, <1>4, <1>5, <1>6, <1>7

(* What the recovery makes of an open entry.                               *)
Unbound(x, d) ==
  [entries[x] EXCEPT !.bound = FALSE, !.status = IF x = d THEN "refused" ELSE @]

LEMMA UnboundTyped ==
  ASSUME ClientTypeOK, NEW x \in OpenDocs, NEW d
  PROVE  /\ Unbound(x, d) \in Entry /\ Sound(Unbound(x, d))
         /\ Unbound(x, d).claim = entries[x].claim
         /\ Unbound(x, d).persistence = entries[x].persistence
         /\ Unbound(x, d).text = entries[x].text
         /\ Unbound(x, d).synced = entries[x].synced
         /\ Unbound(x, d).replay = entries[x].replay
         /\ Unbound(x, d).status = IF x = d THEN "refused" ELSE entries[x].status
<1>1. entries[x] \in Entry
  BY DEF ClientTypeOK, OpenDocs, IsOpen
<1>2. Unbound(x, d) \in Entry /\ ~Unbound(x, d).bound
  BY <1>1 DEF Unbound, Entry
<1> QED BY <1>1, <1>2 DEF Unbound, Entry, Sound

LEMMA ReconnectingTyped ==
  ASSUME NEW docs \in SUBSET Doc, NEW failed \in SUBSET Doc
  PROVE  /\ Reconnecting(docs, failed) \in Recovery
         /\ Reconnecting(docs, failed).failed = failed
         /\ Reconnecting(docs, failed).kind # "clearing"
         /\ Reconnecting(docs, failed).kind = "reconnecting" =>
              docs # {} /\ Reconnecting(docs, failed).docs = docs
  BY DEF Reconnecting, Recovery, Idle

(* Steps of the recovery from a restart.                                   *)
LEMMA RecoveryStepTyped ==
  ASSUME PoolTyped,
         ClearsSettle \/ \E d \in Doc : FirstRefusal(d) \/ OtherRefusal(d) \/ ClearEnds(d)
  PROVE  PoolTyped'
<1> USE DEF PoolTyped
<1>1. ASSUME NEW d \in Doc, FirstRefusal(d) PROVE PoolTyped'
  <2> DEFINE next == [x \in Doc |-> IF ~IsOpen(x) THEN Missing ELSE Unbound(x, d)]
  <2>1. \A x \in Doc : Sound(next[x]) /\ (IsOpen(x) => next[x] # Missing)
    <3> SUFFICES ASSUME NEW x \in Doc, IsOpen(x)
                 PROVE  Sound(Unbound(x, d)) /\ Unbound(x, d) # Missing
      BY NothingIsSound
    <3>1. x \in OpenDocs
      BY DEF OpenDocs
    <3>2. Unbound(x, d) \in Entry /\ Sound(Unbound(x, d))
      BY <3>1, UnboundTyped
    <3> QED BY <3>2
  <2>2. Shows(next) /\ next = [x \in Doc |-> next[x]]
    BY <1>1 DEF FirstRefusal, Unbound
  <2> HIDE DEF next
  <2>3. /\ entries' = next
        /\ entries' \in [Doc -> {Missing} \cup Entry]
        /\ \A x \in OpenDocs' : entries'[x].bound => entries'[x].persistence # 0
        /\ cache' \in [Doc -> [Instance -> SUBSET Item]]
    BY <2>1, <2>2, ShowsTyped
  <2>4. active' \in OpenDocs' \cup {Missing}
    BY <1>1, <2>1, <2>3 DEF FirstRefusal, ClientTypeOK, OpenDocs, IsOpen
  <2>5. buffered' \in [Doc -> Vector]
    <3>1. ASSUME NEW x \in Doc PROVE SetAside(x) \in Vector
      <4>1. IsOpen(x) => entries[x].text \in SUBSET Item
        BY DEF ClientTypeOK, IsOpen, Entry
      <4> QED BY <4>1 DEF SetAside, ClientTypeOK, Vector
    <3> QED BY <1>1, <3>1 DEF FirstRefusal
  <2>6. recovery' \in Recovery /\ recovery'.kind # "reconnecting"
    <3>1. {active} \ {Missing} \in SUBSET Doc
      BY DEF ClientTypeOK, OpenDocs
    <3> QED BY <1>1, <3>1 DEF FirstRefusal, Recovery
  <2>7. clearing' \in Clearing
    <3> DEFINE cached == {x \in OpenDocs : entries[x].persistence # 0}
               ids == [x \in Doc |-> IF x \in cached THEN entries[x].persistence ELSE 0]
    <3>1. cached \in SUBSET Doc /\ active \in Doc \cup {Missing}
      BY DEF ClientTypeOK, OpenDocs
    <3>2. ids \in [Doc -> Instance \cup {0}]
      BY DEF ClientTypeOK, OpenDocs, IsOpen, Entry
    <3>3. clearing' = [waits |-> cached, cleared |-> {}, failed |-> {}, shown |-> active,
                       ids |-> ids]
      BY <1>1 DEF FirstRefusal
    <3> HIDE DEF cached, ids
    <3> QED BY <3>1, <3>2, <3>3 DEF Clearing
  <2>8. unacked' \in BOOLEAN
    BY <1>1 DEF FirstRefusal, ClientTypeOK
  <2>9. ClientTypeOK'
    BY <1>1, <2>3, <2>4, <2>5, <2>6, <2>7, <2>8 DEF FirstRefusal, ClientTypeOK, backend
  <2>10. Counted'
    BY <1>1 DEF FirstRefusal, Counted, backend
  <2> QED BY <2>9, <2>10
<1>2. ASSUME NEW d \in Doc, OtherRefusal(d) PROVE PoolTyped'
  <2> DEFINE new  == [entries[d] EXCEPT !.status = "refused"]
             next == [entries EXCEPT ![d] = new]
  <2>1. \A x \in Doc : Sound(next[x]) /\ (IsOpen(x) => next[x] # Missing)
    <3>1. entries[d] \in Entry
      BY <1>2 DEF OtherRefusal, ClientTypeOK, IsOpen
    <3>2. new \in Entry /\ new.bound = entries[d].bound /\ new.persistence = entries[d].persistence
      BY <3>1 DEF Entry
    <3> HIDE DEF new
    <3> QED BY <3>1, <3>2, EntriesAreSound DEF Sound, ClientTypeOK, IsOpen
  <2>2. Shows(next) /\ next = [x \in Doc |-> next[x]]
    BY <1>2 DEF OtherRefusal, ClientTypeOK
  <2> HIDE DEF next
  <2>3. /\ entries' = next
        /\ entries' \in [Doc -> {Missing} \cup Entry]
        /\ \A x \in OpenDocs' : entries'[x].bound => entries'[x].persistence # 0
        /\ cache' \in [Doc -> [Instance -> SUBSET Item]]
    BY <2>1, <2>2, ShowsTyped
  <2>4. active' \in OpenDocs' \cup {Missing}
    BY <1>2, <2>1, <2>3 DEF OtherRefusal, ClientTypeOK, OpenDocs, IsOpen
  <2>5. ignored' \in BOOLEAN
    BY <1>2 DEF OtherRefusal, ClientTypeOK
  <2>6. ClientTypeOK'
    BY <1>2, <2>3, <2>4, <2>5 DEF OtherRefusal, ClientTypeOK, backend, renewing
  <2>7. Counted'
    BY <1>2 DEF OtherRefusal, Counted, backend
  <2> QED BY <2>6, <2>7
<1>3. ASSUME NEW d \in Doc, ClearEnds(d) PROVE PoolTyped'
  <2>1. clearing \in Clearing
    BY <1>3 DEF ClearEnds, ClientTypeOK
  <2>2. clearing' \in Clearing
    <3>1. /\ clearing.waits \ {d} \in SUBSET Doc
          /\ clearing.cleared \cup {d} \in SUBSET Doc /\ clearing.failed \cup {d} \in SUBSET Doc
      BY <2>1 DEF Clearing
    <3>2. \/ clearing' = [clearing EXCEPT !.waits = @ \ {d}, !.cleared = @ \cup {d}]
          \/ clearing' = [clearing EXCEPT !.waits = @ \ {d}, !.failed = @ \cup {d}]
      BY <1>3 DEF ClearEnds
    <3> QED BY <2>1, <3>1, <3>2 DEF Clearing
  <2>3. cache' \in [Doc -> [Instance -> SUBSET Item]]
    <3>1. CASE UNCHANGED cache
      BY <3>1 DEF ClientTypeOK
    <3>2. CASE cache' = [cache EXCEPT ![d][clearing.ids[d]] = {}]
      <4>1. [cache[d] EXCEPT ![clearing.ids[d]] = {}] \in [Instance -> SUBSET Item]
        BY DEF ClientTypeOK
      <4> QED BY <3>2, <4>1 DEF ClientTypeOK
    <3> QED BY <1>3, <3>1, <3>2 DEF ClearEnds
  <2>4. troubles' \in 0 .. MaxTroubles /\ troubles <= troubles'
    <3>1. troubles \in 0 .. MaxTroubles
      BY DEF ClientTypeOK
    <3>2. CASE UNCHANGED troubles
      BY <3>1, <3>2
    <3>3. CASE Trouble
      BY <3>1, <3>3, TroubleCounts
    <3> QED BY <1>3, <3>2, <3>3 DEF ClearEnds
  <2>5. OpenDocs' = OpenDocs
    BY <1>3 DEF ClearEnds, OpenDocs, IsOpen
  <2>6. ClientTypeOK'
    BY <1>3, <2>2, <2>3, <2>4, <2>5 DEF ClearEnds, ClientTypeOK, backend, gone
  <2>7. Counted'
    <3>1. instance' = instance /\ serving' = serving
      BY <1>3 DEF ClearEnds, backend
    <3>2. instance \in Nat /\ troubles \in Nat /\ troubles' \in Nat
      BY <2>4, OneIsInstance DEF ClientTypeOK
    <3> DEFINE late == IF serving THEN 0 ELSE 1
    <3>3. late \in Nat /\ instance + late <= troubles + 1
      BY DEF Counted
    <3>4. Counted' <=> instance + late <= troubles' + 1
      BY <3>1 DEF Counted
    <3> HIDE DEF late
    <3> QED BY <2>4, <3>2, <3>3, <3>4, BoundGrows
  <2> QED BY <2>6, <2>7
<1>4. CASE ClearsSettle
  <2> DEFINE next == [d \in Doc |-> IF IsOpen(d) /\ Renewed(d) THEN Recycled(d) ELSE entries[d]]
  <2>1. \A x \in Doc : Sound(next[x]) /\ (IsOpen(x) /\ active = x => next[x] # Missing)
    BY RecycledTyped, EntriesAreSound DEF ClientTypeOK, IsOpen
  <2>2. Shows(next) /\ next = [x \in Doc |-> next[x]]
    BY <1>4 DEF ClearsSettle
  <2> HIDE DEF next
  <2>3. /\ entries' = next
        /\ entries' \in [Doc -> {Missing} \cup Entry]
        /\ \A x \in OpenDocs' : entries'[x].bound => entries'[x].persistence # 0
        /\ cache' \in [Doc -> [Instance -> SUBSET Item]]
    BY <2>1, <2>2, ShowsTyped
  <2>4. active' \in OpenDocs' \cup {Missing}
    BY <1>4, <2>1, <2>3 DEF ClearsSettle, ClientTypeOK, OpenDocs, IsOpen
  <2>5. clearing \in Clearing
    BY <1>4 DEF ClearsSettle, ClientTypeOK
  <2>6. recovery' \in Recovery /\ (recovery'.kind = "reconnecting" =>
                                    \E d \in Doc : recovery'.docs = {d})
    <3> DEFINE docs == clearing.cleared \cap {clearing.shown}
    <3>1. docs \in SUBSET Doc /\ clearing.failed \in SUBSET Doc
          /\ (docs # {} => clearing.shown \in Doc /\ docs = {clearing.shown})
      BY <2>5 DEF Clearing
    <3>2. recovery' = Reconnecting(docs, clearing.failed)
      BY <1>4 DEF ClearsSettle
    <3> HIDE DEF docs
    <3> QED BY <3>1, <3>2, ReconnectingTyped
  <2>7. ClientTypeOK'
    BY <1>4, <2>3, <2>4, <2>6 DEF ClearsSettle, ClientTypeOK, backend, gone
  <2>8. Counted'
    BY <1>4 DEF ClearsSettle, Counted, backend
  <2> QED BY <2>7, <2>8
<1> QED BY <1>1, <1>2, <1>3, <1>4

LEMMA StepTyped == PoolTyped /\ [PoolNext]_poolVars => PoolTyped'
<1> SUFFICES ASSUME PoolTyped, [PoolNext]_poolVars PROVE PoolTyped'
  OBVIOUS
<1>1. CASE UNCHANGED poolVars
  BY <1>1 DEF PoolTyped, ClientTypeOK, Counted, poolVars, backend, pool, renewing, gone,
              OpenDocs, IsOpen
<1>2. CASE PoolNext
  BY <1>2, ServerStepTyped, TabStepTyped, RecoveryStepTyped DEF PoolNext
<1> QED BY <1>1, <1>2

-----------------------------------------------------------------------------
(* The invariant *)

(* A document stays in order that goes on as it was, and one that is opened*)
(* anew is in order.                                                       *)
Alike(old, new) ==
  /\ new.claim = old.claim /\ (old.persistence # 0 => new.persistence # 0)
  /\ new.status \in {old.status, "connecting"}
  /\ new.synced = old.synced /\ new.replay = old.replay /\ old.text \subseteq new.text

LEMMA AlikeInOrder ==
  ASSUME NEW d \in OpenDocs, InOrder(d), Alike(entries[d], entries'[d]),
         buffered'[d] = buffered[d], UNCHANGED <<recovery, clearing, ignored>>,
         cachedServerInstanceId' \in {cachedServerInstanceId} \cup Instance
  PROVE  InOrder(d)'
<1>1. Concerned' = Concerned
  BY DEF Concerned
<1>2. cachedServerInstanceId' = 0 => cachedServerInstanceId = 0
  BY OneIsInstance
<1>3. Claims(d)' /\ Owed(d)' /\ Refused(d)' /\ Notice(d)'
  BY <1>1, <1>2 DEF InOrder, Alike, Claims, Owed, Refused, Notice
<1>4. Replays(d)'
  BY DEF InOrder, Alike, Replays, HasSynced
<1> QED BY <1>3, <1>4 DEF InOrder

LEMMA NewInOrder ==
  ASSUME ClientTypeOK, NEW d \in Doc, entries'[d] = NewEntry(d),
         buffered'[d] = buffered[d], cachedServerInstanceId' = cachedServerInstanceId
  PROVE  InOrder(d)'
<1>1. Claims(d)' /\ Owed(d)' /\ Refused(d)' /\ Notice(d)'
  BY NewEntryTyped DEF Claims, Owed, Refused, Notice
<1>2. Replays(d)'
  BY NewEntryTyped DEF Replays, HasSynced
<1> QED BY <1>1, <1>2 DEF InOrder

LEMMA PhaseKept == Phase /\ UNCHANGED <<recovery, clearing>> => Phase'
  BY DEF Phase

(* What the steps make of one entry.                                       *)
LEMMA AlikeEntries ==
  ASSUME ClientTypeOK, NEW d \in OpenDocs
  PROVE  /\ Alike(entries[d], entries[d]) /\ Alike(entries[d], CutOff(d))
         /\ \A items : Alike(entries[d], [entries[d] EXCEPT !.acked = items])
         /\ \A items : Alike(entries[d], [entries[d] EXCEPT !.text = @ \cup items])
<1>1. entries[d] \in Entry
  BY DEF ClientTypeOK, OpenDocs, IsOpen
<1> QED BY <1>1 DEF Alike, CutOff, Entry

LEMMA AttachedAlike ==
  ASSUME NEW e \in Entry, NEW id \in Instance, NEW content, NEW items, NEW edits
  PROVE  /\ Alike(e, Attached(e, content, id))
         /\ Alike(e, Acked(Attached(e, content, id), items, edits))
<1> DEFINE a == Attached(e, content, id)
<1>1. /\ a.claim = e.claim /\ (e.persistence # 0 => a.persistence # 0) /\ a.status = e.status
      /\ a.synced = e.synced /\ a.replay = e.replay /\ e.text \subseteq a.text
  BY OneIsInstance DEF Attached, Entry
<1>2. LET b == Acked(a, items, edits)
      IN /\ b.claim = a.claim /\ b.persistence = a.persistence /\ b.status = a.status
         /\ b.synced = a.synced /\ b.replay = a.replay /\ b.text = a.text
  BY DEF Acked, Attached, Entry
<1> QED BY <1>1, <1>2 DEF Alike

LEMMA ServerStepOrdered ==
  ASSUME PoolTyped, PoolInv,
         ServerStops \/ ServerStarts \/ \E d \in Doc : FileStore(d) \/ Disconnect(d) \/ Deliver(d)
  PROVE  PoolInv'
<1> USE DEF PoolTyped
<1>1. /\ UNCHANGED <<recovery, clearing, ignored, buffered>>
      /\ cachedServerInstanceId' = cachedServerInstanceId
  BY DEF ServerStops, ServerStarts, FileStore, Disconnect, Deliver, pool, renewing, gone
<1>2. ASSUME NEW x \in OpenDocs' PROVE x \in OpenDocs /\ Alike(entries[x], entries'[x])
  <2>1. x \in Doc /\ entries'[x] # Missing
    BY DEF OpenDocs, IsOpen
  <2>2. CASE ServerStops
    BY <2>1, <2>2, AlikeEntries DEF ServerStops, Shows, OpenDocs, IsOpen
  <2>3. CASE ServerStarts
    BY <2>1, <2>3, AlikeEntries DEF ServerStarts, pool, OpenDocs, IsOpen
  <2>4. ASSUME NEW d \in Doc, FileStore(d) PROVE x \in OpenDocs /\ Alike(entries[x], entries'[x])
    <3>1. CASE UNCHANGED entries
      BY <2>1, <3>1, AlikeEntries DEF OpenDocs, IsOpen
    <3>2. CASE IsOpen(d) /\ entries' = [entries EXCEPT ![d].acked = Union(@, remote[d])]
      <4>1. entries'[x] = IF x = d THEN [entries[d] EXCEPT !.acked = Union(@, remote[d])]
                          ELSE entries[x]
        BY <2>1, <3>2 DEF ClientTypeOK
      <4>2. x \in OpenDocs
        BY <2>1, <3>2, <4>1 DEF OpenDocs, IsOpen
      <4> QED BY <4>1, <4>2, AlikeEntries
    <3> QED BY <2>4, <3>1, <3>2 DEF FileStore
  <2>5. ASSUME NEW d \in Doc, Disconnect(d) PROVE x \in OpenDocs /\ Alike(entries[x], entries'[x])
    <3>1. IsOpen(d) /\ entries'[x] = IF x = d THEN CutOff(d) ELSE entries[x]
      BY <2>1, <2>5 DEF Disconnect, Shows, ClientTypeOK
    <3>2. x \in OpenDocs
      BY <2>1, <3>1 DEF OpenDocs, IsOpen
    <3> QED BY <3>1, <3>2, AlikeEntries
  <2>6. ASSUME NEW d \in Doc, Deliver(d) PROVE x \in OpenDocs /\ Alike(entries[x], entries'[x])
    BY <2>1, <2>6, AlikeEntries DEF Deliver, pool, OpenDocs, IsOpen
  <2> QED BY <2>2, <2>3, <2>4, <2>5, <2>6
<1>3. ASSUME NEW x \in OpenDocs' PROVE InOrder(x)'
  BY <1>1, <1>2, AlikeInOrder DEF PoolInv
<1>4. Phase'
  BY <1>1, PhaseKept DEF PoolInv
<1> QED BY <1>3, <1>4 DEF PoolInv

LEMMA TabStepOrdered ==
  ASSUME PoolTyped, PoolInv,
         \/ SetExpectedServerInstanceId \/ Reload \/ KeyIn
         \/ \E d \in Doc : OpenDoc(d) \/ Close(d) \/ RecycleTimer(d)
  PROVE  PoolInv'
<1> USE DEF PoolTyped
<1>1. CASE Reload
  <2>1. OpenDocs' = {}
    BY <1>1 DEF Reload, OpenDocs, IsOpen
  <2>2. Phase'
    BY <1>1 DEF Reload, Phase, Idle
  <2> QED BY <2>1, <2>2 DEF PoolInv
<1>2. CASE ~Reload
  <2>1. /\ UNCHANGED <<recovery, clearing, ignored>>
        /\ cachedServerInstanceId' \in {cachedServerInstanceId} \cup Instance
    BY <1>2 DEF SetExpectedServerInstanceId, KeyIn, OpenDoc, Close, RecycleTimer, renewing, gone,
                ClientTypeOK
  <2>2. ASSUME NEW x \in OpenDocs' PROVE InOrder(x)'
    <3>1. x \in Doc /\ entries'[x] # Missing
      BY DEF OpenDocs, IsOpen
    <3>2. CASE SetExpectedServerInstanceId
      <4>1. buffered' = buffered
        BY <3>2 DEF SetExpectedServerInstanceId
      <4> PICK asked \in BOOLEAN :
            Shows([d \in Doc |->
              LET e == Attached(entries[d], cache[d][instance], instance)
              IN IF ~IsOpen(d) THEN Missing
                 ELSE IF asked THEN Acked(e, remote[d], filed[d]) ELSE e])
        BY <3>2 DEF SetExpectedServerInstanceId
      <4>2. x \in OpenDocs
        BY <3>1 DEF Shows, OpenDocs
      <4>3. entries[x] \in Entry /\ instance \in Instance
        BY <4>2 DEF ClientTypeOK, OpenDocs, IsOpen
      <4> DEFINE e == Attached(entries[x], cache[x][instance], instance)
      <4>4. entries'[x] = IF asked THEN Acked(e, remote[x], filed[x]) ELSE e
        BY <3>1, <4>2 DEF Shows, OpenDocs
      <4>5. Alike(entries[x], entries'[x])
        BY <4>3, <4>4, AttachedAlike
      <4> QED BY <2>1, <4>1, <4>2, <4>5, AlikeInOrder DEF PoolInv
    <3>3. CASE KeyIn
      <4>1. active \in OpenDocs
        BY <3>3 DEF KeyIn, ClientTypeOK
      <4>2. entries'[x] = IF x = active THEN [entries[active] EXCEPT !.text = @ \cup {<<keys', 0>>}]
                          ELSE entries[x]
        BY <3>1, <3>3 DEF KeyIn, Shows, ClientTypeOK
      <4>3. x \in OpenDocs /\ Alike(entries[x], entries'[x])
        BY <3>1, <4>1, <4>2, AlikeEntries DEF OpenDocs, IsOpen
      <4>4. buffered' = buffered
        BY <3>3 DEF KeyIn
      <4> QED BY <2>1, <4>3, <4>4, AlikeInOrder DEF PoolInv
    <3>4. ASSUME NEW d \in Doc, OpenDoc(d) \/ Close(d) \/ RecycleTimer(d)
          PROVE  InOrder(x)'
      <4>1. cachedServerInstanceId' = cachedServerInstanceId
        BY <3>4 DEF OpenDoc, Close, RecycleTimer, renewing
      <4>2. buffered'[x] = buffered[x]
        BY <3>1, <3>4 DEF OpenDoc, Close, RecycleTimer, Shows, ClientTypeOK
      <4>3. CASE entries'[x] = NewEntry(x)
        BY <3>1, <4>1, <4>2, <4>3, NewInOrder
      <4>4. CASE entries'[x] = entries[x]
        <5>1. x \in OpenDocs
          BY <3>1, <4>4 DEF OpenDocs, IsOpen
        <5> QED BY <2>1, <4>2, <4>4, <5>1, AlikeEntries, AlikeInOrder DEF PoolInv
      <4>5. entries'[x] = NewEntry(x) \/ entries'[x] = entries[x]
        BY <3>1, <3>4 DEF OpenDoc, Close, RecycleTimer, Recycled, Shows, ClientTypeOK
      <4> QED BY <4>3, <4>4, <4>5
    <3> QED BY <1>2, <3>2, <3>3, <3>4
  <2>3. Phase'
    BY <2>1, PhaseKept DEF PoolInv
  <2> QED BY <2>2, <2>3 DEF PoolInv
<1> QED BY <1>1, <1>2

(* A document that syncs: no longer refused, connecting or to be replayed. *)
LEMMA SyncOrdered ==
  ASSUME PoolTyped, PoolInv, NEW d \in Doc, Sync(d)
  PROVE  PoolInv'
<1> USE DEF PoolTyped
<1> DEFINE e    == entries[d]
           both == e.text \cup remote[d]
           text == IF e.replay /\ buffered[d] # Missing THEN both \cup buffered[d] ELSE both
           new  == [e EXCEPT !.text = text, !.synced = both, !.status = "synced",
                             !.recycle = FALSE, !.replay = FALSE]
<1>1. e \in Entry /\ d \in OpenDocs
  BY DEF Sync, ClientTypeOK, OpenDocs, IsOpen
<1>2. /\ new.claim = e.claim /\ new.persistence = e.persistence /\ new.text = text
      /\ new.status = "synced" /\ new.replay = FALSE
  BY <1>1 DEF Entry
<1>3. \A x \in Doc : entries'[x] = IF x = d THEN new ELSE entries[x]
  BY DEF Sync, Shows, ClientTypeOK
<1>4. e.text \subseteq text
  OBVIOUS
<1> HIDE DEF new
<1>5. /\ recovery'.failed = recovery.failed
      /\ (recovery'.kind = "reconnecting" => recovery' = recovery /\ d \notin recovery.docs)
      /\ recovery'.kind = "clearing" <=> recovery.kind = "clearing"
  <2>1. recovery' = MarkSynced(d)
    BY DEF Sync
  <2> QED BY <2>1 DEF MarkSynced, Idle
<1>6. clearing' = clearing /\ Concerned' = Concerned
  BY <1>5 DEF Sync, Concerned
<1>7. ignored' = ignored /\ cachedServerInstanceId' = cachedServerInstanceId
  BY DEF Sync, gone
<1>8. \A x \in Doc : buffered'[x] = IF x = d /\ e.replay THEN Missing ELSE buffered[x]
  BY DEF Sync, ClientTypeOK
<1>9. ASSUME NEW x \in OpenDocs' PROVE InOrder(x)'
  <2>1. x \in OpenDocs
    BY <1>1, <1>3 DEF OpenDocs, IsOpen
  <2>2. InOrder(x)
    BY <2>1 DEF PoolInv
  <2>3. CASE x = d
    <3>1. entries'[x] = new /\ x \in Doc
      BY <1>1, <1>3, <2>3
    <3>2. Claims(x)' /\ Owed(x)' /\ Refused(x)'
      BY <1>2, <1>6, <1>7, <2>2, <2>3, <3>1 DEF InOrder, Claims, Owed, Refused
    <3>3. Notice(x)'
      BY <1>5, <2>3 DEF Notice
    <3>4. Replays(x)'
      BY <1>2, <1>4, <1>8, <2>2, <2>3, <3>1 DEF InOrder, Replays
    <3> QED BY <3>2, <3>3, <3>4 DEF InOrder
  <2>4. CASE x # d
    <3>1. entries'[x] = entries[x] /\ buffered'[x] = buffered[x]
      BY <1>3, <1>8, <2>1, <2>4 DEF OpenDocs
    <3>2. Claims(x)' /\ Owed(x)' /\ Refused(x)' /\ Replays(x)'
      BY <1>6, <1>7, <2>2, <3>1 DEF InOrder, Claims, Owed, Refused, Replays, HasSynced
    <3>3. Notice(x)'
      BY <1>5, <2>2, <3>1 DEF InOrder, Notice
    <3> QED BY <3>2, <3>3 DEF InOrder
  <2> QED BY <2>3, <2>4
<1>10. Phase'
  BY <1>5, <1>6 DEF PoolInv, Phase
<1> QED BY <1>9, <1>10 DEF PoolInv

LEMMA RecoveryStepOrdered ==
  ASSUME PoolTyped, PoolInv,
         ClearsSettle \/ \E d \in Doc : FirstRefusal(d) \/ OtherRefusal(d) \/ ClearEnds(d)
  PROVE  PoolInv'
<1> USE DEF PoolTyped
<1>1. ASSUME NEW d \in Doc, FirstRefusal(d) PROVE PoolInv'
  <2> DEFINE cached == {x \in OpenDocs : entries[x].persistence # 0}
             ids == [x \in Doc |-> IF x \in cached THEN entries[x].persistence ELSE 0]
  <2>1. clearing' = [waits |-> cached, cleared |-> {}, failed |-> {}, shown |-> active, ids |-> ids]
    BY <1>1 DEF FirstRefusal
  <2>2. recovery'.kind = "clearing" /\ recovery'.failed = {}
    BY <1>1 DEF FirstRefusal
  <2>3. clearing' # Missing
    <3>1. clearing' \in Clearing
      <4>1. cached \in SUBSET Doc /\ active \in Doc \cup {Missing}
        BY DEF ClientTypeOK, OpenDocs
      <4>2. ids \in [Doc -> Instance \cup {0}]
        BY DEF ClientTypeOK, OpenDocs, IsOpen, Entry
      <4> HIDE DEF cached, ids
      <4> QED BY <2>1, <4>1, <4>2 DEF Clearing
    <3> QED BY <3>1
  <2>4. Concerned' = cached
    <3> HIDE DEF cached, ids
    <3> QED BY <2>1, <2>2, <2>3 DEF Concerned
  <2>5. ASSUME NEW x \in OpenDocs' PROVE InOrder(x)'
    <3>1. x \in OpenDocs /\ entries'[x] = Unbound(x, d)
      BY <1>1 DEF FirstRefusal, Shows, Unbound, OpenDocs, IsOpen
    <3>2. /\ entries'[x].claim = entries[x].claim
          /\ entries'[x].persistence = entries[x].persistence
          /\ entries'[x].text = entries[x].text /\ entries'[x].synced = entries[x].synced
          /\ entries'[x].replay = entries[x].replay
          /\ entries'[x].status = IF x = d THEN "refused" ELSE entries[x].status
      BY <3>1, UnboundTyped
    <3>3. InOrder(x) /\ entries[d].claim # 0
      BY <1>1, <3>1 DEF PoolInv, FirstRefusal, Accepts
    <3>4. Claims(x)'
      BY <3>2, <3>3 DEF InOrder, Claims
    <3>5. Owed(x)' /\ Refused(x)'
      BY <2>4, <3>1, <3>2, <3>4 DEF Owed, Refused, Claims
    <3>6. Notice(x)'
      BY <2>2 DEF Notice
    <3>7. Replays(x)'
      <4>1. buffered'[x] = SetAside(x) /\ IsOpen(x)
        BY <1>1, <3>1 DEF FirstRefusal, OpenDocs
      <4>2. buffered'[x] \subseteq entries[x].text \/ buffered'[x] = buffered[x]
        BY <4>1 DEF SetAside
      <4> QED BY <3>2, <3>3, <4>2 DEF InOrder, Replays, HasSynced
    <3> QED BY <3>4, <3>5, <3>6, <3>7 DEF InOrder
  <2>6. Phase'
    BY <2>2, <2>3 DEF Phase
  <2> QED BY <2>5, <2>6 DEF PoolInv
<1>2. ASSUME NEW d \in Doc, OtherRefusal(d) PROVE PoolInv'
  <2>1. UNCHANGED <<recovery, clearing, cachedServerInstanceId, buffered>>
    BY <1>2 DEF OtherRefusal, renewing
  <2>2. Concerned' = Concerned
    BY <2>1 DEF Concerned
  <2>3. ignored' = (ignored \/ cachedServerInstanceId # 0)
    BY <1>2 DEF OtherRefusal
  <2>4. entries[d] \in Entry /\ entries[d].claim # 0 /\ d \in OpenDocs
    BY <1>2 DEF OtherRefusal, Accepts, ClientTypeOK, OpenDocs, IsOpen
  <2> DEFINE new == [entries[d] EXCEPT !.status = "refused"]
  <2>5. /\ new.claim = entries[d].claim /\ new.persistence = entries[d].persistence
        /\ new.text = entries[d].text /\ new.synced = entries[d].synced
        /\ new.replay = entries[d].replay /\ new.status = "refused"
    BY <2>4 DEF Entry
  <2>6. \A x \in Doc : entries'[x] = IF x = d THEN new ELSE entries[x]
    BY <1>2 DEF OtherRefusal, Shows, ClientTypeOK
  <2> HIDE DEF new
  <2>7. ASSUME NEW x \in OpenDocs' PROVE InOrder(x)'
    <3>1. x \in OpenDocs
      BY <2>4, <2>6 DEF OpenDocs, IsOpen
    <3>2. InOrder(x) /\ x \in Doc
      BY <3>1 DEF PoolInv, OpenDocs
    <3>3. CASE x = d
      <4>1. entries'[x] = new
        BY <2>6, <3>2, <3>3
      <4>2. Claims(x)' /\ Owed(x)' /\ Notice(x)' /\ Replays(x)'
        BY <2>1, <2>2, <2>4, <2>5, <3>2, <3>3, <4>1
        DEF InOrder, Claims, Owed, Notice, Replays, HasSynced
      <4>3. ignored \/ cachedServerInstanceId # 0 \/ x \in Concerned
        BY <2>4, <3>2, <3>3 DEF InOrder, Owed
      <4>4. Refused(x)'
        BY <2>2, <2>3, <4>3 DEF Refused
      <4> QED BY <4>2, <4>4 DEF InOrder
    <3>4. CASE x # d
      <4>1. entries'[x] = entries[x]
        BY <2>6, <3>2, <3>4
      <4> QED BY <2>1, <2>2, <2>3, <3>2, <4>1
              DEF InOrder, Claims, Owed, Refused, Notice, Replays, HasSynced
    <3> QED BY <3>3, <3>4
  <2>8. Phase'
    BY <2>1, PhaseKept DEF PoolInv
  <2> QED BY <2>7, <2>8 DEF PoolInv
<1>3. ASSUME NEW d \in Doc, ClearEnds(d) PROVE PoolInv'
  <2>1. clearing \in Clearing /\ d \in clearing.waits /\ clearing # Missing
    BY <1>3 DEF ClearEnds, ClientTypeOK
  <2>2. /\ clearing' \in Clearing
        /\ clearing'.waits \cup clearing'.cleared \cup clearing'.failed
             = clearing.waits \cup clearing.cleared \cup clearing.failed
    <3>1. \/ clearing' = [clearing EXCEPT !.waits = @ \ {d}, !.cleared = @ \cup {d}]
          \/ clearing' = [clearing EXCEPT !.waits = @ \ {d}, !.failed = @ \cup {d}]
      BY <1>3 DEF ClearEnds
    <3>2. /\ clearing.waits \ {d} \in SUBSET Doc
          /\ clearing.cleared \cup {d} \in SUBSET Doc /\ clearing.failed \cup {d} \in SUBSET Doc
      BY <2>1 DEF Clearing
    <3>3. clearing' \in Clearing
      BY <2>1, <3>1, <3>2 DEF Clearing
    <3>4. CASE clearing' = [clearing EXCEPT !.waits = @ \ {d}, !.cleared = @ \cup {d}]
      BY <2>1, <3>4 DEF Clearing
    <3>5. CASE clearing' = [clearing EXCEPT !.waits = @ \ {d}, !.failed = @ \cup {d}]
      BY <2>1, <3>5 DEF Clearing
    <3> QED BY <3>1, <3>3, <3>4, <3>5
  <2>3. UNCHANGED <<entries, recovery, buffered, cachedServerInstanceId, ignored>>
    BY <1>3 DEF ClearEnds, gone
  <2>4. clearing' # Missing
    BY <2>2
  <2>5. Concerned' = Concerned
    BY <2>1, <2>2, <2>3, <2>4 DEF Concerned
  <2>6. OpenDocs' = OpenDocs
    BY <2>3 DEF OpenDocs, IsOpen
  <2>7. ASSUME NEW x \in OpenDocs PROVE InOrder(x)'
    <3>1. InOrder(x)
      BY DEF PoolInv
    <3> QED BY <2>3, <2>5, <3>1
            DEF InOrder, Claims, Owed, Refused, Notice, Replays, HasSynced
  <2>8. Phase'
    BY <2>1, <2>3, <2>4 DEF PoolInv, Phase
  <2> QED BY <2>6, <2>7, <2>8 DEF PoolInv
<1>4. CASE ClearsSettle
  <2>1. clearing \in Clearing /\ clearing.waits = {} /\ clearing' = Missing
    BY <1>4 DEF ClearsSettle, ClientTypeOK
  <2>2. recovery.failed = {} /\ clearing # Missing
    BY <1>4 DEF ClearsSettle, PoolInv, Phase
  <2>3. UNCHANGED <<buffered, cachedServerInstanceId, ignored>>
    BY <1>4 DEF ClearsSettle, gone
  <2> DEFINE docs == clearing.cleared \cap {clearing.shown}
  <2>4. docs \in SUBSET Doc /\ clearing.failed \in SUBSET Doc
    BY <2>1 DEF Clearing
  <2>5. recovery' = Reconnecting(docs, clearing.failed)
    BY <1>4 DEF ClearsSettle
  <2>6. /\ recovery'.failed = clearing.failed /\ recovery'.kind # "clearing"
        /\ recovery'.kind = "reconnecting" => recovery'.docs = docs
    <3> HIDE DEF docs
    <3> QED BY <2>4, <2>5, ReconnectingTyped
  <2>7. Concerned' = clearing.failed
    BY <2>1, <2>6 DEF Concerned
  <2>8. ASSUME NEW x \in OpenDocs' PROVE InOrder(x)'
    <3>1. x \in Doc /\ entries'[x] # Missing
          /\ entries'[x] = IF IsOpen(x) /\ Renewed(x) THEN Recycled(x) ELSE entries[x]
      BY <1>4 DEF ClearsSettle, Shows, OpenDocs, IsOpen
    <3>2. CASE IsOpen(x) /\ Renewed(x)
      <4>1. entries'[x] = NewEntry(x)
        BY <3>1, <3>2 DEF Recycled
      <4> QED BY <2>3, <3>1, <4>1, NewInOrder
    <3>3. CASE ~(IsOpen(x) /\ Renewed(x))
      <4>1. entries'[x] = entries[x] /\ x \in OpenDocs /\ x \notin clearing.cleared
        BY <3>1, <3>3 DEF Renewed, OpenDocs, IsOpen
      <4>2. InOrder(x)
        BY <4>1 DEF PoolInv
      <4>3. x \in Concerned => x \in Concerned'
        BY <2>1, <2>2, <2>7, <4>1 DEF Concerned
      <4>4. Claims(x)' /\ Owed(x)' /\ Refused(x)' /\ Replays(x)'
        BY <2>3, <4>1, <4>2, <4>3 DEF InOrder, Claims, Owed, Refused, Replays, HasSynced
      <4>5. Notice(x)'
        BY <2>6, <4>1 DEF Notice
      <4> QED BY <4>4, <4>5 DEF InOrder
    <3> QED BY <3>2, <3>3
  <2>9. Phase'
    BY <2>1, <2>6 DEF Phase
  <2> QED BY <2>8, <2>9 DEF PoolInv
<1> QED BY <1>1, <1>2, <1>3, <1>4

LEMMA InitOrdered == PoolInit => PoolInv
<1> SUFFICES ASSUME PoolInit PROVE PoolInv
  OBVIOUS
<1>1. OpenDocs = {}
  BY DEF PoolInit, OpenDocs, IsOpen
<1>2. Phase
  BY DEF PoolInit, Phase, Idle
<1> QED BY <1>1, <1>2 DEF PoolInv

LEMMA StepOrdered == PoolTyped /\ PoolInv /\ [PoolNext]_poolVars => PoolInv'
<1> SUFFICES ASSUME PoolTyped, PoolInv, [PoolNext]_poolVars PROVE PoolInv'
  OBVIOUS
<1>1. CASE UNCHANGED poolVars
  BY <1>1 DEF PoolInv, Phase, InOrder, Claims, Owed, Refused, Notice, Replays, Concerned,
              OpenDocs, IsOpen, HasSynced, poolVars, pool, renewing, gone
<1>2. CASE PoolNext
  BY <1>2, ServerStepOrdered, TabStepOrdered, SyncOrdered, RecoveryStepOrdered DEF PoolNext
<1> QED BY <1>1, <1>2

LEMMA AlwaysInOrder == PoolSpec => [](PoolTyped /\ PoolInv)
<1>1. PoolInit => PoolTyped /\ PoolInv
  BY InitTyped, InitOrdered
<1>2. PoolTyped /\ PoolInv /\ [PoolNext]_poolVars => (PoolTyped /\ PoolInv)'
  BY StepTyped, StepOrdered
<1> QED BY <1>1, <1>2, PTL DEF PoolSpec

(* Every reachable state of the pool is well typed: the active document is *)
(* open, and a cache that is bound has a server (provider-pool.ts).        *)
THEOREM ClientTypeCorrect == PoolSpec => []ClientTypeOK
<1>1. PoolTyped => ClientTypeOK
  BY DEF PoolTyped
<1> QED BY <1>1, InitTyped, StepTyped, PTL DEF PoolSpec

(* No document stays refused for good: the caches are being cleared, or it *)
(* is shown as one that could not be recovered, unless the refusal came    *)
(* after the tab knew the new server (handleServerInstanceMismatch).       *)
THEOREM RefusedGetsRecovered == PoolSpec => []RefusedIsRecovered
<1>1. PoolTyped /\ PoolInv => RefusedIsRecovered
  <2> SUFFICES ASSUME PoolInv, NEW d \in OpenDocs, entries[d].status = "refused"
               PROVE  clearing # Missing \/ d \in recovery.failed \/ ignored
    BY DEF RefusedIsRecovered
  <2>1. ignored \/ d \in Concerned
    BY DEF PoolInv, InOrder, Refused
  <2> QED BY <2>1 DEF Concerned
<1> QED BY <1>1, AlwaysInOrder, PTL

(* A document behind the notice that it reconnects has a sync or a clear   *)
(* to come, either of which takes the notice away.                         *)
THEOREM NoticeGoesAway == PoolSpec => []PanelGoesAway
<1>1. PoolTyped /\ PoolInv => PanelGoesAway
  BY DEF PanelGoesAway, PoolInv, Phase, InOrder, Notice
<1> QED BY <1>1, AlwaysInOrder, PTL

(* What was set aside at a restart leaves the buffer for the document only,*)
(* save in the cases that BufferedIsKept names (SetAside, replayOnce).     *)
THEOREM BufferSurvives == PoolSpec => BufferedIsKept
<1> DEFINE Kept(d) ==
      \/ buffered'[d] # Missing /\ buffered[d] \subseteq buffered'[d]
      \/ entries'[d] # Missing /\ buffered[d] \subseteq entries'[d].text
      \/ Close(d) \/ Reload
      \/ IsOpen(d) /\ ~HasSynced(entries[d]) /\ entries[d].acked # Missing
<1>1. ASSUME PoolTyped, PoolInv, [PoolNext]_poolVars, NEW d \in Doc, buffered[d] # Missing
      PROVE  Kept(d)
  <2>1. CASE buffered'[d] = buffered[d]
    BY <1>1, <2>1
  <2>2. ASSUME NEW x \in Doc, Close(x) PROVE Kept(d)
    <3>1. CASE x = d
      BY <2>2, <3>1
    <3>2. CASE x # d
      BY <1>1, <2>1, <2>2, <3>2 DEF Close, PoolTyped, ClientTypeOK
    <3> QED BY <3>1, <3>2
  <2>3. ASSUME NEW x \in Doc, Sync(x) PROVE Kept(d)
    <3>1. CASE x = d /\ entries[d].replay
      <4> DEFINE e == entries[d]
                 both == e.text \cup remote[d]
                 all  == both \cup buffered[d]
                 new  == [e EXCEPT !.text = all, !.synced = both,
                                   !.status = "synced", !.recycle = FALSE, !.replay = FALSE]
      <4>1. e \in Entry
        BY <1>1, <2>3, <3>1 DEF Sync, IsOpen, PoolTyped, ClientTypeOK
      <4>2. new.text = all /\ new # Missing
        <5>1. both \in SUBSET Item /\ all \in SUBSET Item
          BY <1>1, <4>1 DEF PoolTyped, ClientTypeOK, Entry, Vector
        <5>2. both \in Vector
          BY <5>1 DEF Vector
        <5> HIDE DEF both, all
        <5>3. new \in Entry /\ new.text = all
          BY <4>1, <5>1, <5>2 DEF Entry
        <5> QED BY <5>3
      <4>3. entries'[d] = new
        BY <1>1, <2>3, <3>1 DEF Sync, Shows, PoolTyped, ClientTypeOK
      <4> QED BY <4>2, <4>3
    <3>2. CASE ~(x = d /\ entries[d].replay)
      BY <1>1, <2>1, <2>3, <3>2 DEF Sync, PoolTyped, ClientTypeOK
    <3> QED BY <3>1, <3>2
  <2>4. ASSUME NEW x \in Doc, FirstRefusal(x) PROVE Kept(d)
    <3>1. buffered'[d] = SetAside(d)
      BY <2>4 DEF FirstRefusal
    <3>2. CASE ~(IsOpen(d) /\ Baseline(entries[d]) # Missing)
      BY <2>1, <3>1, <3>2 DEF SetAside
    <3>3. CASE IsOpen(d) /\ Baseline(entries[d]) # Missing /\ entries[d].replay
      <4>1. ~HasSynced(entries[d])
        BY <1>1, <3>3 DEF PoolInv, InOrder, Replays, OpenDocs
      <4>2. entries[d].acked # Missing
        BY <3>3, <4>1 DEF Baseline, HasSynced
      <4> QED BY <3>3, <4>1, <4>2
    <3>4. CASE IsOpen(d) /\ ~entries[d].replay
      <4>1. d \in OpenDocs /\ buffered[d] \subseteq entries[d].text
        BY <1>1, <3>4 DEF PoolInv, InOrder, Replays, OpenDocs
      <4>2. entries'[d] = Unbound(d, x)
        BY <2>4, <3>4 DEF FirstRefusal, Shows, Unbound
      <4>3. Unbound(d, x) \in Entry /\ Unbound(d, x).text = entries[d].text
        BY <1>1, <4>1, UnboundTyped DEF PoolTyped
      <4> QED BY <4>1, <4>2, <4>3
    <3> QED BY <3>2, <3>3, <3>4
  <2>5. CASE UNCHANGED poolVars
    BY <2>1, <2>5 DEF poolVars, pool
  <2>6. CASE PoolNext
    <3>1. CASE Reload
      BY <3>1
    <3>2. CASE \/ ServerStops \/ ServerStarts \/ SetExpectedServerInstanceId \/ KeyIn
               \/ ClearsSettle
               \/ \E x \in Doc : \/ FileStore(x) \/ Disconnect(x) \/ OpenDoc(x)
                                \/ RecycleTimer(x) \/ Deliver(x) \/ OtherRefusal(x) \/ ClearEnds(x)
      <4>1. buffered' = buffered
        BY <3>2 DEF ServerStops, ServerStarts, SetExpectedServerInstanceId, KeyIn, ClearsSettle,
                    FileStore, Disconnect, OpenDoc, RecycleTimer, Deliver, OtherRefusal, ClearEnds,
                    pool
      <4> QED BY <2>1, <4>1
    <3> QED BY <2>2, <2>3, <2>4, <2>6, <3>1, <3>2 DEF PoolNext
  <2> QED BY <1>1, <2>5, <2>6
<1>2. PoolTyped /\ PoolInv /\ [PoolNext]_poolVars =>
        [\A d \in Doc : buffered[d] # Missing => Kept(d)]_poolVars
  BY <1>1
<1> QED BY <1>2, AlwaysInOrder, PTL DEF PoolSpec, BufferedIsKept

-----------------------------------------------------------------------------
(* NothingTwice.  Items from files are of this server wherever the document*)
(* can meet it, and what the tab may still send was never in a file.  That *)
(* is kept because a baseline has all that a document got from a server,   *)
(* because a refused document cannot meet the server before it is opened   *)
(* anew, and because the cache for a server is used by no earlier one.     *)

(* No item has an edit that was not typed yet.                             *)
Typed(items) == \A item \in items : item[1] <= keys
Numbered ==
  \A d \in Doc :
    /\ filed[d] \subseteq 0 .. keys /\ Typed(remote[d])
    /\ IsOpen(d) => Typed(entries[d].text)
    /\ buffered[d] # Missing => Typed(buffered[d])
    /\ \A i \in Instance : Typed(cache[d][i])

(* Caches are used in the order of the servers they are for, and a cache   *)
(* that is bound has the text of its document.                             *)
Unused(d, id) == \A i \in Instance : i > id => cache[d][i] = {}
Cached(d) ==
  LET e == entries[d]
  IN /\ e.claim # 0 => e.persistence = e.claim
     /\ e.persistence <= instance
     /\ e.persistence # 0 => Unused(d, e.persistence)
     /\ e.persistence = instance => e.bound
     /\ e.bound => cache[d][e.persistence] = e.text
     /\ e.status = "synced" => serving /\ e.claim \in {0, instance}
KnownServer(d) ==
  cachedServerInstanceId # 0 =>
    /\ Unused(d, cachedServerInstanceId)
    /\ IsOpen(d) =>
         /\ entries[d].persistence # 0 /\ entries[d].persistence <= cachedServerInstanceId
         /\ entries[d].persistence = cachedServerInstanceId => entries[d].bound
InClearing(d) ==
  clearing # Missing /\ d \in clearing.waits =>
    /\ clearing.ids[d] \in Instance /\ clearing.ids[d] < instance
    /\ cachedServerInstanceId # clearing.ids[d]
    /\ IsOpen(d) /\ entries[d].bound => entries[d].persistence # clearing.ids[d]
Caches ==
  /\ cachedServerInstanceId <= instance
  /\ \A d \in Doc : Unused(d, instance) /\ (IsOpen(d) => Cached(d)) /\ KnownServer(d) /\ InClearing(d)

(* Items that a document of this server can take without showing a         *)
(* paragraph twice: the server's own, and edits it did not load.           *)
FromServer(items) == {item \in items : item[2] # 0}
Fits(d, items) ==
  \A item \in items :
    /\ item[2] = 0 => <<item[1], instance>> \notin remote[d]
    /\ item[2] # 0 => item[2] = instance /\ item \in remote[d]
Admitted(d) == entries[d].claim \in {0, instance}
HasEdits(d) == \E item \in remote[d] : item[2] = 0

ServerApart(d) ==
  /\ Fits(d, remote[d])
  /\ \A item \in remote[d] : item[2] # 0 => item[1] \in filed[d]
  /\ Fits(d, cache[d][instance])
  /\ HasEdits(d) /\ cachedServerInstanceId # 0 => Fits(d, cache[d][cachedServerInstanceId])
  /\ buffered[d] # Missing => \A item \in buffered[d] : item[2] = 0 /\ item[1] \notin filed[d]
TabApart(d) ==
  LET e == entries[d]
  IN /\ Admitted(d) \/ HasEdits(d) => Fits(d, e.text)
     /\ Baseline(e) # Missing => FromServer(e.text) \subseteq Baseline(e)
     /\ Admitted(d) /\ Baseline(e) # Missing => FromServer(remote[d]) \subseteq Baseline(e)
Apart ==
  unclaimed \/ unacked \/ \A d \in Doc : ServerApart(d) /\ (IsOpen(d) => TabApart(d))

LEMMA EntryFields ==
  ASSUME ClientTypeOK, NEW d \in Doc, IsOpen(d)
  PROVE  /\ entries[d] \in Entry /\ entries[d] # Missing
         /\ entries[d].claim \in Instance \cup {0} /\ entries[d].persistence \in Instance \cup {0}
         /\ entries[d].text \in SUBSET Item
         /\ entries[d].bound \in BOOLEAN /\ (entries[d].bound => entries[d].persistence \in Instance)
         /\ entries[d].synced \in Vector /\ entries[d].acked \in Vector
<1>1. entries[d] \in Entry /\ d \in OpenDocs
  BY DEF ClientTypeOK, IsOpen, OpenDocs
<1> QED BY <1>1 DEF ClientTypeOK, Entry, IsOpen

LEMMA InitApart == PoolInit => Numbered /\ Caches /\ Apart
<1> SUFFICES ASSUME PoolInit PROVE Numbered /\ Caches /\ Apart
  OBVIOUS
<1>1. Numbered
  <2>1. ASSUME NEW d \in Doc
        PROVE  /\ filed[d] = {0} /\ remote[d] = {<<0, 1>>} /\ entries[d] = Missing
               /\ buffered[d] = Missing /\ \A i \in Instance : cache[d][i] = {}
    BY DEF PoolInit
  <2>2. keys = 0 /\ 0 \in 0 .. 0 /\ <<0, 1>>[1] = 0 /\ 0 <= 0
    BY DEF PoolInit
  <2>3. ASSUME NEW d \in Doc
        PROVE  /\ filed[d] \subseteq 0 .. keys /\ Typed(remote[d])
               /\ \A i \in Instance : Typed(cache[d][i])
    BY <2>1, <2>2 DEF Typed
  <2> QED BY <2>1, <2>3 DEF Numbered, IsOpen
<1>2. Caches
  BY OneIsInstance DEF PoolInit, Caches, Unused, KnownServer, InClearing, IsOpen
<1>3. Apart
  BY OneIsInstance DEF PoolInit, Apart, ServerApart, Fits, HasEdits, IsOpen
<1> QED BY <1>1, <1>2, <1>3

-----------------------------------------------------------------------------
(* Steps in which no document gets another text: each goes on as it was,   *)
(* or is opened anew, or is closed.                                        *)
Steady(d) ==
  LET e == entries[d]
      n == entries'[d]
  IN /\ IsOpen(d) /\ n # Missing
     /\ n.claim = e.claim /\ n.persistence = e.persistence /\ n.bound = e.bound
     /\ n.text = e.text /\ n.synced = e.synced /\ n.acked = e.acked
     /\ n.status = "synced" => e.status = "synced" /\ serving' = serving
Goes(d) == entries'[d] = Missing \/ Steady(d) \/ entries'[d] = NewEntry(d)
QuietStep ==
  /\ UNCHANGED <<instance, filed, remote, keys, cache, unclaimed, unacked>>
  /\ \A d \in Doc : Goes(d) /\ buffered'[d] \in {buffered[d], Missing}
  /\ clearing' \in {clearing, Missing}
  /\ \/ cachedServerInstanceId' = cachedServerInstanceId
     \/ cachedServerInstanceId' = 0 /\ \A d \in Doc : entries'[d] = Missing

LEMMA NewEntryFields ==
  ASSUME ClientTypeOK, NEW d \in Doc
  PROVE  LET n == NewEntry(d) IN
         /\ n # Missing /\ n.claim = cachedServerInstanceId
         /\ n.persistence = cachedServerInstanceId /\ (n.bound <=> cachedServerInstanceId # 0)
         /\ n.text = IF cachedServerInstanceId = 0 THEN {} ELSE cache[d][cachedServerInstanceId]
         /\ n.synced = Missing /\ n.acked = Missing /\ n.status = "connecting"
         /\ (n.replay <=> buffered[d] # Missing)
<1>1. /\ NewEntry(d).bound <=> cachedServerInstanceId # 0
      /\ NewEntry(d).replay <=> buffered[d] # Missing
  BY Zenon DEF NewEntry
<1> QED BY <1>1, NewEntryTyped DEF NewEntry

LEMMA QuietKeepsNumbers ==
  ASSUME ClientTypeOK, QuietStep, Numbered PROVE Numbered'
<1>1. ASSUME NEW d \in Doc, entries'[d] # Missing
      PROVE  \A item \in entries'[d].text : item[1] <= keys
  <2>1. CASE Steady(d)
    BY <2>1 DEF Steady, Numbered, Typed
  <2>2. CASE entries'[d] = NewEntry(d)
    BY <2>2, NewEntryFields DEF Numbered, Typed, ClientTypeOK
  <2> QED BY <1>1, <2>1, <2>2 DEF QuietStep, Goes
<1> QED BY <1>1 DEF QuietStep, Numbered, Typed, IsOpen

LEMMA QuietKeepsCaches ==
  ASSUME ClientTypeOK, QuietStep, Caches PROVE Caches'
<1>1. cachedServerInstanceId' <= instance' /\ cachedServerInstanceId' \in {0, cachedServerInstanceId}
  BY DEF QuietStep, Caches, ClientTypeOK, Instance
<1> SUFFICES ASSUME NEW d \in Doc
             PROVE  Unused(d, instance)' /\ (IsOpen(d)' => Cached(d)') /\ KnownServer(d)'
                    /\ InClearing(d)'
  BY <1>1 DEF Caches
<1>2. Unused(d, instance)' /\ cache' = cache
  BY DEF QuietStep, Caches, Unused
<1>3. CASE Steady(d)
  BY <1>2, <1>3, OneIsInstance, EntryFields
  DEF Steady, QuietStep, Caches, Cached, KnownServer, InClearing, IsOpen, Unused
<1>4. CASE entries'[d] = NewEntry(d)
  <2>1. /\ entries'[d] # Missing /\ entries'[d].claim = cachedServerInstanceId
        /\ entries'[d].persistence = cachedServerInstanceId
        /\ entries'[d].bound <=> cachedServerInstanceId # 0
        /\ entries'[d].text = IF cachedServerInstanceId = 0 THEN {} ELSE cache[d][cachedServerInstanceId]
        /\ entries'[d].status = "connecting"
    BY <1>4, NewEntryFields
  <2>2. cachedServerInstanceId' = cachedServerInstanceId /\ KnownServer(d)
        /\ cachedServerInstanceId <= instance
    BY <2>1 DEF QuietStep, Caches
  <2>3. /\ cachedServerInstanceId \in Instance \cup {0} /\ instance' = instance
        /\ cachedServerInstanceId # 0 => Unused(d, cachedServerInstanceId)
    BY <2>2 DEF KnownServer, ClientTypeOK, QuietStep
  <2>4. /\ (entries[d].persistence # 0 => Unused(d, entries[d].persistence))'
        /\ (cachedServerInstanceId # 0 => Unused(d, cachedServerInstanceId))'
    BY <1>2, <2>1, <2>2, <2>3 DEF Unused
  <2>6. entries'[d].bound => cache'[d][entries'[d].persistence] = entries'[d].text
    BY <1>2, <2>1
  <2>7. Cached(d)'
    <3>1. entries'[d].claim # 0 => entries'[d].persistence = entries'[d].claim
      BY <2>1
    <3>2. entries'[d].persistence <= instance'
      BY <2>1, <2>2, <2>3
    <3>3. entries'[d].persistence = instance' => entries'[d].bound
      BY <2>1, <2>3, OneIsInstance DEF ClientTypeOK
    <3>4. entries'[d].status # "synced"
      BY <2>1
    <3> QED BY <2>4, <2>6, <3>1, <3>2, <3>3, <3>4 DEF Cached
  <2>8. KnownServer(d)'
    <3>1. (cachedServerInstanceId # 0 => Unused(d, cachedServerInstanceId))'
      BY <2>4
    <3>2. cachedServerInstanceId' # 0 => entries'[d].persistence # 0
      BY <2>1, <2>2
    <3>3. entries'[d].persistence <= cachedServerInstanceId'
      BY <2>1, <2>2, <2>3, OneIsInstance
    <3>4. cachedServerInstanceId' # 0 => entries'[d].bound
      BY <2>1, <2>2
    <3> QED BY <3>1, <3>2, <3>3, <3>4 DEF KnownServer
  <2>5. InClearing(d)'
    BY <2>1, <2>2, OneIsInstance DEF Caches, InClearing, QuietStep, ClientTypeOK
  <2> QED BY <1>2, <2>5, <2>7, <2>8
<1>5. CASE entries'[d] = Missing
  BY <1>2, <1>5, OneIsInstance DEF QuietStep, Caches, KnownServer, InClearing, IsOpen, Unused, ClientTypeOK
<1> QED BY <1>3, <1>4, <1>5 DEF QuietStep, Goes

LEMMA QuietKeepsApart ==
  ASSUME ClientTypeOK, QuietStep, Apart PROVE Apart'
<1> SUFFICES ASSUME ~unclaimed, ~unacked, NEW d \in Doc
             PROVE  ServerApart(d)' /\ (IsOpen(d)' => TabApart(d)')
  BY DEF Apart, QuietStep
<1>1. ServerApart(d) /\ (IsOpen(d) => TabApart(d))
  BY DEF Apart
<1>2. (HasEdits(d)' <=> HasEdits(d)) /\ \A items : Fits(d, items)' <=> Fits(d, items)
  BY DEF QuietStep, HasEdits, Fits
<1>3. ServerApart(d)'
  BY <1>1, <1>2 DEF QuietStep, ServerApart
<1>4. CASE Steady(d)
  BY <1>1, <1>2, <1>3, <1>4 DEF Steady, QuietStep, TabApart, Admitted, Baseline, FromServer
<1>5. CASE entries'[d] = NewEntry(d)
  BY <1>1, <1>2, <1>3, <1>5, NewEntryFields
  DEF QuietStep, ServerApart, TabApart, Admitted, Baseline, Fits
<1> QED BY <1>3, <1>4, <1>5 DEF QuietStep, Goes, IsOpen

LEMMA ShownCaches ==
  ASSUME ClientTypeOK, NEW next, Shows(next), NEW d \in Doc, NEW i \in Instance
  PROVE  cache'[d][i] = IF next[d] # Missing /\ next[d].bound /\ next[d].persistence = i
                        THEN next[d].text ELSE cache[d][i]
<1>1. cache[d] \in [Instance -> SUBSET Item]
  BY DEF ClientTypeOK
<1>2. cache'[d] = IF next[d] # Missing /\ next[d].bound
                  THEN [cache[d] EXCEPT ![next[d].persistence] = next[d].text] ELSE cache[d]
  BY DEF Shows
<1> QED BY <1>1, <1>2

LEMMA CachesAsBefore ==
  ASSUME ClientTypeOK, NEW next, Shows(next),
         \A d \in Doc : next[d] # Missing /\ next[d].bound =>
           next[d].persistence \in Instance /\ next[d].text = cache[d][next[d].persistence]
  PROVE  cache' = cache
<1> DEFINE content(d) == IF next[d] # Missing /\ next[d].bound
                         THEN [cache[d] EXCEPT ![next[d].persistence] = next[d].text] ELSE cache[d]
<1>1. ASSUME NEW d \in Doc PROVE content(d) = cache[d]
  <2>1. cache[d] \in [Instance -> SUBSET Item]
    BY DEF ClientTypeOK
  <2> QED BY <2>1
<1>2. cache' = [d \in Doc |-> content(d)] /\ cache = [d \in Doc |-> cache[d]]
  BY DEF Shows, ClientTypeOK
<1> HIDE DEF content
<1> QED BY <1>1, <1>2

LEMMA CutOffFields ==
  ASSUME ClientTypeOK, NEW d \in Doc, IsOpen(d)
  PROVE  LET n == CutOff(d)
             e == entries[d]
         IN /\ n # Missing
            /\ n.claim = e.claim /\ n.persistence = e.persistence /\ n.bound = e.bound
            /\ n.text = e.text /\ n.synced = e.synced /\ n.acked = e.acked
            /\ n.status = "connecting"
<1>1. entries[d] \in Entry /\ CutOff(d) # Missing
  BY EntryFields, CutOffTyped DEF OpenDocs
<1> QED BY <1>1 DEF CutOff, Entry

(* What these steps write to the caches is there already.                  *)
LEMMA QuietCaches ==
  ASSUME ClientTypeOK, Caches, NEW next, Shows(next),
         \A d \in Doc :
           \/ next[d] = Missing
           \/ /\ IsOpen(d) /\ next[d].bound = entries[d].bound
              /\ next[d].persistence = entries[d].persistence /\ next[d].text = entries[d].text
           \/ next[d] = NewEntry(d)
  PROVE  cache' = cache
<1>1. ASSUME NEW d \in Doc, next[d] # Missing, next[d].bound
      PROVE next[d].persistence \in Instance /\ next[d].text = cache[d][next[d].persistence]
  <2>1. CASE next[d] = NewEntry(d)
    BY <1>1, <2>1, NewEntryFields DEF ClientTypeOK
  <2>2. CASE next[d] # NewEntry(d)
    BY <1>1, <2>2, EntryFields DEF Caches, Cached
  <2> QED BY <2>1, <2>2
<1> QED BY <1>1, CachesAsBefore

LEMMA QuietSteps ==
  ASSUME PoolTyped, Caches,
         \/ ServerStops \/ Reload \/ ClearsSettle
         \/ \E d \in Doc : Disconnect(d) \/ OtherRefusal(d) \/ OpenDoc(d) \/ Close(d) \/ RecycleTimer(d)
  PROVE  QuietStep
<1> USE DEF PoolTyped
<1>1. CASE ServerStops
  <2> DEFINE next == [d \in Doc |-> IF IsOpen(d) THEN CutOff(d) ELSE Missing]
  <2>1. Shows(next) /\ entries' = next
    BY <1>1 DEF ServerStops, Shows
  <2>2. \A d \in Doc : Goes(d)
    BY <2>1, CutOffFields DEF Goes, Steady
  <2>3. cache' = cache
    BY <2>1, CutOffFields, QuietCaches
  <2> QED BY <1>1, <2>2, <2>3 DEF ServerStops, QuietStep, renewing, gone
<1>2. CASE Reload
  BY <1>2 DEF Reload, QuietStep, Goes, backend, gone
<1>3. CASE ClearsSettle
  <2> DEFINE next == [d \in Doc |-> IF IsOpen(d) /\ Renewed(d) THEN Recycled(d) ELSE entries[d]]
  <2>1. Shows(next) /\ entries' = next /\ serving' = serving
    BY <1>3 DEF ClearsSettle, Shows, backend
  <2>2. \A d \in Doc : next[d] = entries[d] \/ next[d] = NewEntry(d) \/ next[d] = Missing
    BY DEF Recycled
  <2>3. \A d \in Doc : Goes(d)
    BY <2>1, <2>2 DEF Goes, Steady, IsOpen
  <2>4. cache' = cache
    <3> HIDE DEF next
    <3> QED BY <2>1, <2>2, QuietCaches DEF IsOpen
  <2> QED BY <1>3, <2>3, <2>4 DEF ClearsSettle, QuietStep, backend, gone
<1>4. ASSUME NEW d \in Doc, Disconnect(d) PROVE QuietStep
  <2> DEFINE next == [entries EXCEPT ![d] = CutOff(d)]
  <2>1. Shows(next) /\ entries' = next /\ serving' = serving /\ IsOpen(d)
    BY <1>4 DEF Disconnect, Shows, backend
  <2>2. next[d] = CutOff(d) /\ \A x \in Doc \ {d} : next[x] = entries[x]
    BY DEF ClientTypeOK
  <2> HIDE DEF next
  <2>3. \A x \in Doc : Goes(x)
    BY <2>1, <2>2, CutOffFields DEF Goes, Steady, IsOpen
  <2>4. cache' = cache
    BY <2>1, <2>2, CutOffFields, QuietCaches DEF IsOpen
  <2> QED BY <1>4, <2>3, <2>4 DEF Disconnect, QuietStep, backend, renewing, gone
<1>5. ASSUME NEW d \in Doc, OtherRefusal(d) PROVE QuietStep
  <2> DEFINE next == [entries EXCEPT ![d].status = "refused"]
  <2>1. Shows(next) /\ entries' = next /\ serving' = serving /\ IsOpen(d)
    BY <1>5 DEF OtherRefusal, Shows, backend
  <2>2. /\ next[d] = [entries[d] EXCEPT !.status = "refused"]
        /\ \A x \in Doc \ {d} : next[x] = entries[x]
    BY DEF ClientTypeOK
  <2>3. LET n == next[d]
            e == entries[d]
        IN /\ n # Missing
           /\ n.claim = e.claim /\ n.persistence = e.persistence /\ n.bound = e.bound
           /\ n.text = e.text /\ n.synced = e.synced /\ n.acked = e.acked
           /\ n.status = "refused"
    <3>1. entries[d] \in Entry
      BY <2>1, EntryFields
    <3>2. next[d] \in Entry
      BY <2>2, <3>1 DEF Entry
    <3> QED BY <2>2, <3>1, <3>2 DEF Entry
  <2> HIDE DEF next
  <2>4. \A x \in Doc : Goes(x)
    BY <2>1, <2>2, <2>3 DEF Goes, Steady, IsOpen
  <2>5. cache' = cache
    BY <2>1, <2>2, <2>3, QuietCaches DEF IsOpen
  <2> QED BY <1>5, <2>4, <2>5 DEF OtherRefusal, QuietStep, backend, renewing
<1>6. ASSUME NEW d \in Doc, OpenDoc(d) \/ Close(d) \/ RecycleTimer(d) PROVE QuietStep
  <2>1. PICK new \in {Missing, NewEntry(d), entries[d]} : Shows([entries EXCEPT ![d] = new])
    <3>1. entries = [entries EXCEPT ![d] = entries[d]]
      BY DEF ClientTypeOK
    <3> QED BY <1>6, <3>1 DEF OpenDoc, Close, RecycleTimer, Recycled
  <2> DEFINE next == [entries EXCEPT ![d] = new]
  <2>2. /\ Shows(next) /\ entries' = next /\ serving' = serving
        /\ next[d] = new /\ \A x \in Doc \ {d} : next[x] = entries[x]
    BY <1>6, <2>1 DEF OpenDoc, Close, RecycleTimer, Shows, backend, ClientTypeOK
  <2> HIDE DEF next
  <2>3. \A x \in Doc : Goes(x)
    BY <2>1, <2>2 DEF Goes, Steady, IsOpen
  <2>4. cache' = cache
    BY <2>1, <2>2, QuietCaches DEF IsOpen
  <2>5. \A x \in Doc : buffered'[x] \in {buffered[x], Missing}
    BY <1>6 DEF OpenDoc, Close, RecycleTimer, ClientTypeOK
  <2> QED BY <1>6, <2>3, <2>4, <2>5 DEF OpenDoc, Close, RecycleTimer, QuietStep, backend, renewing, gone
<1> QED BY <1>1, <1>2, <1>3, <1>4, <1>5, <1>6

-----------------------------------------------------------------------------
(* Steps in which open documents get more text, and perhaps a cache.       *)
GrowStep ==
  /\ UNCHANGED <<instance, serving, filed, remote, clearing, unclaimed, unacked>>
  /\ cachedServerInstanceId' \in {cachedServerInstanceId, instance}
  /\ \A d \in Doc :
       LET e == entries[d]
           n == entries'[d]
       IN /\ n = Missing <=> e = Missing
          /\ e # Missing =>
               /\ n.claim = e.claim
               /\ \/ n.persistence = e.persistence /\ (n.bound <=> e.bound)
                  \/ e.persistence = 0 /\ n.persistence = instance /\ n.bound
               /\ cachedServerInstanceId' # cachedServerInstanceId => n.persistence # 0
               /\ n.status = "synced" => serving /\ e.claim \in {0, instance}
          /\ \A i \in Instance :
               cache'[d][i] = IF n # Missing /\ n.bound /\ n.persistence = i
                              THEN n.text ELSE cache[d][i]

LEMMA GrowKeepsCaches ==
  ASSUME ClientTypeOK, GrowStep, Caches PROVE Caches'
<1>0. instance \in Instance /\ instance' = instance /\ cachedServerInstanceId \in Instance \cup {0}
      /\ Instance \subseteq Nat /\ 0 \notin Instance
  BY OneIsInstance DEF GrowStep, ClientTypeOK
<1>1. cachedServerInstanceId' <= instance'
  BY <1>0 DEF GrowStep, Caches
<1> SUFFICES ASSUME NEW d \in Doc
             PROVE  Unused(d, instance)' /\ (IsOpen(d)' => Cached(d)') /\ KnownServer(d)'
                    /\ InClearing(d)'
  BY <1>1 DEF Caches
<1> DEFINE e == entries[d]
           n == entries'[d]
<1>2. IsOpen(d) => /\ e.persistence \in Instance \cup {0} /\ (e.bound => e.persistence \in Instance)
                   /\ e.claim \in Instance \cup {0}
  BY EntryFields
<1>3. /\ IsOpen(d)' <=> IsOpen(d)
      /\ IsOpen(d) =>
               /\ n.claim = e.claim
               /\ \/ n.persistence = e.persistence /\ (n.bound <=> e.bound)
                  \/ e.persistence = 0 /\ n.persistence = instance /\ n.bound
               /\ cachedServerInstanceId' # cachedServerInstanceId => n.persistence # 0
               /\ n.status = "synced" => serving /\ e.claim \in {0, instance}
      /\ \A i \in Instance : ~(IsOpen(d) /\ n.bound /\ n.persistence = i) => cache'[d][i] = cache[d][i]
      /\ IsOpen(d) /\ n.bound /\ n.persistence \in Instance => cache'[d][n.persistence] = n.text
  BY DEF GrowStep, IsOpen
<1>4. /\ Unused(d, instance) /\ (IsOpen(d) => Cached(d)) /\ KnownServer(d) /\ InClearing(d)
      /\ cachedServerInstanceId <= instance
  BY DEF Caches
<1> HIDE DEF e, n
<1>5. IsOpen(d) => n.persistence <= instance
  BY <1>0, <1>2, <1>3, <1>4 DEF Cached, e
<1>6. ASSUME NEW id \in Nat, Unused(d, id), IsOpen(d) => n.persistence <= id
      PROVE  \A i \in Instance : i > id => cache'[d][i] = {}
  BY <1>0, <1>3, <1>6 DEF Unused
<1>7. Unused(d, instance)'
  BY <1>0, <1>4, <1>5, <1>6 DEF Unused
<1>8. ASSUME IsOpen(d) PROVE Cached(d)'
  <2>1. /\ e.claim # 0 => e.persistence = e.claim
        /\ e.persistence # 0 => Unused(d, e.persistence)
        /\ e.persistence = instance => e.bound
    BY <1>4, <1>8 DEF Cached, e
  <2>2. n.persistence # 0 => \A i \in Instance : i > n.persistence => cache'[d][i] = {}
    <3>1. CASE n.persistence = e.persistence
      <4>1. n.persistence \in Nat
        <5>1. e.persistence \in Instance \cup {0}
          BY <1>2, <1>8
        <5> QED BY <3>1, <5>1 DEF Instance
      <4>2. n.persistence # 0 => Unused(d, n.persistence)
        BY <2>1, <3>1
      <4> QED BY <1>6, <4>1, <4>2
    <3>2. CASE n.persistence = instance
      BY <1>0, <1>4, <1>6, <1>8, <3>2
    <3> QED BY <1>3, <1>8, <3>1, <3>2
  <2>3. /\ n.claim # 0 => n.persistence = n.claim
        /\ n.persistence = instance' => n.bound
        /\ n.bound => cache'[d][n.persistence] = n.text
        /\ n.status = "synced" => serving' /\ n.claim \in {0, instance'}
    <3>1. serving' = serving
      BY DEF GrowStep
    <3> QED BY <1>0, <1>2, <1>3, <1>8, <2>1, <3>1
  <2> QED BY <1>0, <1>5, <1>8, <2>2, <2>3 DEF Cached, Unused, n
<1>9. KnownServer(d)'
  <2>1. CASE cachedServerInstanceId' = cachedServerInstanceId
    <3> SUFFICES ASSUME cachedServerInstanceId # 0 PROVE KnownServer(d)'
      BY <2>1 DEF KnownServer
    <3>1. /\ Unused(d, cachedServerInstanceId)
          /\ IsOpen(d) =>
               /\ e.persistence # 0 /\ e.persistence <= cachedServerInstanceId
               /\ e.persistence = cachedServerInstanceId => e.bound
      BY <1>4 DEF KnownServer, e
    <3>2. IsOpen(d) => /\ n.persistence # 0 /\ n.persistence <= cachedServerInstanceId
                       /\ n.persistence = cachedServerInstanceId => n.bound
      BY <1>3, <3>1
    <3>3. \A i \in Instance : i > cachedServerInstanceId => cache'[d][i] = {}
      BY <1>0, <1>6, <3>1, <3>2
    <3> QED BY <1>3, <2>1, <3>2, <3>3 DEF KnownServer, Unused, n
  <2>2. CASE cachedServerInstanceId' = instance /\ instance # cachedServerInstanceId
    <3>1. IsOpen(d) => /\ n.persistence # 0 /\ n.persistence <= instance
                       /\ n.persistence = instance => n.bound
      BY <1>0, <1>3, <1>4, <1>5, <2>2 DEF Cached, e
    <3> QED BY <1>0, <1>3, <1>7, <2>2, <3>1 DEF KnownServer, Unused, n
  <2> QED BY <2>1, <2>2 DEF GrowStep
<1>10. InClearing(d)'
  <2> SUFFICES ASSUME clearing # Missing, d \in clearing.waits
               PROVE  /\ clearing.ids[d] \in Instance /\ clearing.ids[d] < instance
                      /\ cachedServerInstanceId' # clearing.ids[d]
                      /\ IsOpen(d) /\ n.bound => n.persistence # clearing.ids[d]
    BY <1>0, <1>3 DEF InClearing, GrowStep, n
  <2>1. /\ clearing.ids[d] \in Instance /\ clearing.ids[d] < instance
        /\ cachedServerInstanceId # clearing.ids[d]
        /\ IsOpen(d) /\ e.bound => e.persistence # clearing.ids[d]
    BY <1>4 DEF InClearing, e
  <2>2. instance # clearing.ids[d]
    BY <1>0, <2>1
  <2> QED BY <1>3, <2>1, <2>2 DEF GrowStep
<1> QED BY <1>3, <1>7, <1>8, <1>9, <1>10

LEMMA GrowKeepsApart ==
  ASSUME ClientTypeOK, GrowStep, Caches, Apart, ~unclaimed, ~unacked,
         \A d \in Doc : IsOpen(d) => TabApart(d)',
         \A d \in Doc : buffered'[d] \in {buffered[d], Missing}
  PROVE  Apart'
<1> SUFFICES ASSUME NEW d \in Doc PROVE ServerApart(d)'
  BY DEF Apart, GrowStep, IsOpen
<1>1. ServerApart(d) /\ instance \in Instance /\ 0 \notin Instance
      /\ cachedServerInstanceId \in Instance \cup {0}
  BY OneIsInstance DEF Apart, ClientTypeOK
<1>2. UNCHANGED <<instance, remote, filed>>
  BY DEF GrowStep
<1>3. IsOpen(d) /\ (entries[d].claim \in {0, instance} \/ HasEdits(d)) => Fits(d, entries'[d].text)
  BY <1>2 DEF TabApart, Admitted, HasEdits, Fits, GrowStep, IsOpen
<1>4. Fits(d, cache'[d][instance])
  <2>1. CASE cache'[d][instance] = cache[d][instance]
    BY <1>1, <2>1 DEF ServerApart
  <2>2. CASE cache'[d][instance] # cache[d][instance]
    <3>1. /\ IsOpen(d) /\ entries'[d].persistence = instance /\ cache'[d][instance] = entries'[d].text
          /\ entries[d].persistence \in {0, instance}
      BY <1>1, <2>2 DEF GrowStep, IsOpen
    <3>2. entries[d].claim \in {0, instance}
      BY <3>1 DEF Caches, Cached
    <3> QED BY <1>3, <3>1, <3>2
  <2> QED BY <2>1, <2>2
<1>5. ASSUME HasEdits(d), cachedServerInstanceId' # 0
      PROVE  Fits(d, cache'[d][cachedServerInstanceId'])
  <2>1. CASE cachedServerInstanceId' = instance
    BY <1>4, <2>1
  <2>2. CASE cachedServerInstanceId' = cachedServerInstanceId
    <3>1. cachedServerInstanceId \in Instance /\ Fits(d, cache[d][cachedServerInstanceId])
      BY <1>1, <1>5, <2>2 DEF ServerApart
    <3>2. \/ cache'[d][cachedServerInstanceId] = cache[d][cachedServerInstanceId]
          \/ IsOpen(d) /\ cache'[d][cachedServerInstanceId] = entries'[d].text
      BY <3>1 DEF GrowStep, IsOpen
    <3> QED BY <1>3, <1>5, <2>2, <3>1, <3>2
  <2> QED BY <2>1, <2>2 DEF GrowStep
<1>6. \A items : Fits(d, items)' <=> Fits(d, items)
  BY <1>2 DEF Fits
<1>7. HasEdits(d)' <=> HasEdits(d)
  BY <1>2 DEF HasEdits
<1>8. (Fits(d, cache[d][instance]))' /\ (Fits(d, remote[d]))'
  BY <1>1, <1>2, <1>4 DEF Fits, ServerApart
<1>9. (HasEdits(d) /\ cachedServerInstanceId # 0 => Fits(d, cache[d][cachedServerInstanceId]))'
  BY <1>2, <1>5, <1>7 DEF Fits
<1> QED BY <1>1, <1>2, <1>8, <1>9 DEF ServerApart

(* What is typed belongs to no server's documents.                         *)
LEMMA KeyInApart ==
  ASSUME PoolTyped, Numbered, Caches, Apart, KeyIn
  PROVE  (Numbered /\ Caches /\ Apart)'
<1> USE DEF PoolTyped
<1> DEFINE typed == <<keys + 1, 0>>
           next == [entries EXCEPT ![active].text = @ \cup {typed}]
<1>1. /\ active \in Doc /\ IsOpen(active) /\ keys' = keys + 1 /\ keys \in Nat
      /\ Shows(next) /\ entries' = next
      /\ UNCHANGED <<backend, buffered, renewing, gone>>
  BY DEF KeyIn, ClientTypeOK, OpenDocs, Shows
<1>2. LET n == entries'[active]
          e == entries[active]
      IN /\ n # Missing
         /\ n.claim = e.claim /\ n.persistence = e.persistence /\ n.bound = e.bound
         /\ n.text = e.text \cup {typed} /\ n.synced = e.synced /\ n.acked = e.acked
         /\ n.status = e.status
  <2>1. entries[active] \in Entry /\ typed \in Item
    BY <1>1, EntryFields DEF KeyIn, Item
  <2>2. entries'[active] = [entries[active] EXCEPT !.text = @ \cup {typed}]
    BY <1>1 DEF ClientTypeOK
  <2>3. entries'[active] \in Entry
    BY <2>1, <2>2 DEF Entry
  <2> QED BY <2>1, <2>2, <2>3 DEF Entry
<1>3. \A x \in Doc \ {active} : entries'[x] = entries[x]
  BY <1>1 DEF ClientTypeOK
<1> HIDE DEF next, typed
<1>4. \A x \in Doc : \A i \in Instance :
        cache'[x][i] = IF entries'[x] # Missing /\ entries'[x].bound /\ entries'[x].persistence = i
                       THEN entries'[x].text ELSE cache[x][i]
  BY <1>1, ShownCaches
<1>5. GrowStep
  <2>1. \A d \in Doc : IsOpen(d) /\ entries[d].status = "synced" =>
                         serving /\ entries[d].claim \in {0, instance}
    BY DEF Caches, Cached
  <2>2. UNCHANGED <<instance, serving, filed, remote, clearing, unclaimed, unacked, cachedServerInstanceId>>
    BY <1>1 DEF backend, renewing, gone
  <2> QED BY <1>1, <1>2, <1>3, <1>4, <2>1, <2>2 DEF GrowStep, IsOpen
<1>6. Numbered'
  <2>1. /\ typed[1] = keys + 1 /\ filed' = filed /\ remote' = remote /\ buffered' = buffered
        /\ \A n \in Nat : n <= keys => n <= keys + 1
    BY <1>1 DEF typed, backend
  <2>2. ASSUME NEW items \in SUBSET Item, Typed(items) PROVE Typed(items)'
    BY <1>1, <2>2 DEF Typed, Item
  <2>3. \A x \in Doc : IsOpen(x)' => Typed(entries[x].text)'
    <3> SUFFICES ASSUME NEW x \in Doc, entries[x] # Missing, NEW item \in entries'[x].text
                 PROVE  item[1] <= keys'
      BY <1>1, <1>2, <1>3 DEF Typed, IsOpen
    <3>1. entries[x].text \in SUBSET Item /\ \A i \in entries[x].text : i[1] <= keys
      BY EntryFields DEF Numbered, Typed, IsOpen
    <3>2. item \in entries[x].text \/ item = typed
      BY <1>2, <1>3
    <3> QED BY <1>1, <2>1, <3>1, <3>2 DEF Item
  <2>4. \A x \in Doc : \A i \in Instance : Typed(cache[x][i])'
    <3> SUFFICES ASSUME NEW x \in Doc, NEW i \in Instance, NEW item \in cache'[x][i]
                 PROVE  item[1] <= keys'
      BY DEF Typed
    <3>1. cache[x][i] \in SUBSET Item /\ \A k \in cache[x][i] : k[1] <= keys
      BY DEF ClientTypeOK, Numbered, Typed
    <3>2. item \in cache[x][i] \/ (entries'[x] # Missing /\ item \in entries'[x].text)
      BY <1>4
    <3> QED BY <1>1, <2>1, <2>3, <3>1, <3>2 DEF Item, Typed, IsOpen
  <2>5. \A x \in Doc : filed'[x] \subseteq 0 .. keys'
    BY <1>1, <2>1 DEF Numbered
  <2>6. \A x \in Doc : Typed(remote[x])' /\ (buffered[x] # Missing => Typed(buffered[x]))'
    <3>1. \A x \in Doc : remote[x] \in SUBSET Item /\ (buffered[x] # Missing => buffered[x] \in SUBSET Item)
      BY DEF ClientTypeOK, Vector
    <3> QED BY <1>1, <2>1, <3>1 DEF Numbered, Typed, Item
  <2> QED BY <2>3, <2>4, <2>5, <2>6 DEF Numbered
<1>7. Caches'
  BY <1>5, GrowKeepsCaches
<1>8. ASSUME ~unclaimed, ~unacked PROVE Apart'
  <2>1. ASSUME NEW d \in Doc, IsOpen(d) PROVE TabApart(d)'
    <3>1. TabApart(d) /\ remote' = remote /\ instance' = instance
      BY <1>1, <1>8, <2>1 DEF Apart, backend
    <3>2. CASE d # active
      BY <1>3, <3>1, <3>2 DEF TabApart, Admitted, HasEdits, Fits, FromServer, Baseline
    <3>3. CASE d = active
      <4>1. /\ typed[2] = 0 /\ <<typed[1], instance>> \notin remote[d]
        <5>1. typed[1] = keys + 1 /\ typed[2] = 0
          BY DEF typed
        <5>2. \A item \in remote[d] : item[1] <= keys
          BY DEF Numbered, Typed
        <5> QED BY <1>1, <5>1, <5>2
      <4>2. entries'[d].text = entries[d].text \cup {typed}
        BY <1>2, <3>3
      <4>3. Fits(d, entries[d].text) => Fits(d, entries[d].text)'
        BY <3>1, <4>1, <4>2 DEF Fits
      <4>4. FromServer(entries'[d].text) = FromServer(entries[d].text)
        BY <4>1, <4>2 DEF FromServer
      <4>5. Baseline(entries'[d]) = Baseline(entries[d]) /\ entries'[d].claim = entries[d].claim
        BY <1>2, <3>3 DEF Baseline
      <4>6. (Admitted(d)' <=> Admitted(d)) /\ (HasEdits(d)' <=> HasEdits(d))
        BY <3>1, <4>5 DEF Admitted, HasEdits
      <4> QED BY <3>1, <4>3, <4>4, <4>5, <4>6 DEF TabApart
    <3> QED BY <3>2, <3>3
  <2> QED BY <1>1, <1>5, <1>8, <2>1, GrowKeepsApart
<1>9. Apart'
  BY <1>1, <1>8 DEF Apart, gone
<1> QED BY <1>6, <1>7, <1>9

(* An admitted document and its server have each other's items.            *)
LEMMA SyncApart ==
  ASSUME PoolTyped, Numbered, Caches, Apart, NEW d \in Doc, Sync(d)
  PROVE  (Numbered /\ Caches /\ Apart)'
<1> USE DEF PoolTyped
<1> DEFINE e == entries[d]
           both == e.text \cup remote[d]
           text == IF e.replay /\ buffered[d] # Missing THEN both \cup buffered[d] ELSE both
           new == [e EXCEPT !.text = text, !.synced = both, !.status = "synced",
                            !.recycle = FALSE, !.replay = FALSE]
           next == [entries EXCEPT ![d] = new]
<1>1. /\ IsOpen(d) /\ e.claim \in {0, instance} /\ serving
      /\ Shows(next) /\ entries' = next
      /\ UNCHANGED <<backend, clearing, cachedServerInstanceId, keys, gone>>
      /\ buffered' = [buffered EXCEPT ![d] = IF e.replay THEN Missing ELSE @]
  BY DEF Sync, Shows, Accepts
<1>2. e \in Entry /\ remote[d] \in SUBSET Item /\ buffered[d] \in Vector
  BY <1>1, EntryFields DEF ClientTypeOK
<1>3. both \in SUBSET Item /\ text \in SUBSET Item
  BY <1>2 DEF Entry, Vector
<1>4. LET n == entries'[d]
      IN /\ n # Missing
         /\ n.claim = e.claim /\ n.persistence = e.persistence /\ n.bound = e.bound
         /\ n.text = text /\ n.synced = both /\ n.acked = e.acked
         /\ n.status = "synced"
  <2>1. entries'[d] = new
    BY <1>1 DEF ClientTypeOK
  <2>2. new \in Entry
    BY <1>2, <1>3 DEF Entry, Vector
  <2> QED BY <1>2, <2>1, <2>2 DEF Entry
<1>5. \A x \in Doc \ {d} : entries'[x] = entries[x]
  BY <1>1 DEF ClientTypeOK
<1> HIDE DEF next, new
<1>6. \A x \in Doc : \A i \in Instance :
        cache'[x][i] = IF entries'[x] # Missing /\ entries'[x].bound /\ entries'[x].persistence = i
                       THEN entries'[x].text ELSE cache[x][i]
  BY <1>1, ShownCaches
<1>7. \A item \in text : item \in e.text \/ item \in remote[d]
                         \/ (buffered[d] # Missing /\ item \in buffered[d])
  OBVIOUS
<1>8. both \subseteq text /\ both = e.text \cup remote[d]
  OBVIOUS
<1>9. both # Missing
  BY <1>3
<1> HIDE DEF both, text
<1>10. GrowStep
  <2>1. \A x \in Doc : IsOpen(x) /\ entries[x].status = "synced" =>
                         serving /\ entries[x].claim \in {0, instance}
    BY DEF Caches, Cached
  <2>2. UNCHANGED <<instance, serving, filed, remote, clearing, unclaimed, unacked, cachedServerInstanceId>>
    BY <1>1 DEF backend, gone
  <2> QED BY <1>1, <1>4, <1>5, <1>6, <2>1, <2>2 DEF GrowStep, IsOpen
<1>11. \A x \in Doc : buffered'[x] \in {buffered[x], Missing}
  BY <1>1 DEF ClientTypeOK
<1>12. Numbered'
  <2>1. UNCHANGED <<filed, remote, keys>>
    BY <1>1 DEF backend
  <2>2. \A item \in text : item[1] <= keys
    BY <1>1, <1>7 DEF Numbered, Typed
  <2>3. \A x \in Doc : entries'[x] # Missing => \A item \in entries'[x].text : item[1] <= keys
    BY <1>4, <1>5, <2>2 DEF Numbered, Typed, IsOpen
  <2>4. \A x \in Doc : \A i \in Instance : \A item \in cache'[x][i] : item[1] <= keys
    BY <1>6, <2>3 DEF Numbered, Typed
  <2> QED BY <1>11, <2>1, <2>3, <2>4 DEF Numbered, Typed, IsOpen
<1>13. Caches'
  BY <1>10, GrowKeepsCaches
<1>14. ASSUME ~unclaimed, ~unacked PROVE Apart'
  <2>1. ASSUME NEW x \in Doc, IsOpen(x) PROVE TabApart(x)'
    <3>1. TabApart(x) /\ ServerApart(x) /\ remote' = remote /\ instance' = instance
      BY <1>1, <1>14, <2>1 DEF Apart, backend
    <3>2. CASE x # d
      BY <1>5, <3>1, <3>2 DEF TabApart, Admitted, HasEdits, Fits, FromServer, Baseline
    <3>3. CASE x = d
      <4>1. Fits(d, e.text) /\ Fits(d, remote[d])
        BY <1>1, <3>1, <3>3 DEF TabApart, ServerApart, Admitted
      <4>2. buffered[d] # Missing => \A item \in buffered[d] : item[2] = 0 /\ item[1] \notin filed[d]
        BY <3>1, <3>3 DEF ServerApart
      <4>3. buffered[d] # Missing => Fits(d, buffered[d])
        <5>1. \A item \in remote[d] : item[2] # 0 => item[1] \in filed[d]
          BY <3>1, <3>3 DEF ServerApart
        <5>2. instance # 0
          BY OneIsInstance DEF ClientTypeOK
        <5>3. \A k : <<k, instance>> \in remote[d] => k \in filed[d]
          BY <5>1, <5>2
        <5> QED BY <4>2, <5>3 DEF Fits
      <4>4. Fits(d, text)
        BY <1>7, <4>1, <4>3 DEF Fits
      <4>5. FromServer(text) \subseteq FromServer(both)
        BY <1>7, <1>8, <4>2 DEF FromServer
      <4>6. /\ FromServer(both) = FromServer(e.text) \cup FromServer(remote[d])
            /\ FromServer(both) \subseteq both
        BY <1>8 DEF FromServer
      <4>7. Baseline(entries'[d]) = IF e.acked # Missing THEN e.acked ELSE both
        BY <1>4 DEF Baseline
      <4>8. e.acked # Missing => FromServer(both) \subseteq e.acked
        BY <1>1, <3>1, <3>3, <4>6 DEF TabApart, Baseline, Admitted
      <4>9. FromServer(text) \subseteq Baseline(entries'[d])
            /\ FromServer(remote[d]) \subseteq Baseline(entries'[d])
        BY <4>5, <4>6, <4>7, <4>8
      <4>10. Fits(d, entries[d].text)'
        BY <1>4, <3>1, <4>4 DEF Fits
      <4>11. (FromServer(entries[d].text) \subseteq Baseline(entries[d]))'
             /\ (FromServer(remote[d]) \subseteq Baseline(entries[d]))'
        BY <1>4, <3>1, <4>9 DEF FromServer, Baseline
      <4> QED BY <3>3, <4>10, <4>11 DEF TabApart
    <3> QED BY <3>2, <3>3
  <2> QED BY <1>10, <1>11, <1>14, <2>1, GrowKeepsApart
<1>15. Apart'
  BY <1>1, <1>14 DEF Apart, gone
<1> QED BY <1>12, <1>13, <1>15

(* A cache of this server is attached, and its saves are learnt of.        *)
LEMMA SetExpectedApart ==
  ASSUME PoolTyped, Numbered, Caches, Apart, SetExpectedServerInstanceId
  PROVE  (Numbered /\ Caches /\ Apart)'
<1> USE DEF PoolTyped
<1> PICK asked \in BOOLEAN :
      Shows([d \in Doc |->
        LET e == Attached(entries[d], cache[d][instance], instance)
        IN IF ~IsOpen(d) THEN Missing
           ELSE IF asked THEN Acked(e, remote[d], filed[d]) ELSE e])
  BY DEF SetExpectedServerInstanceId
<1> DEFINE a(d) == Attached(entries[d], cache[d][instance], instance)
           next == [d \in Doc |->
             IF ~IsOpen(d) THEN Missing
             ELSE IF asked THEN Acked(a(d), remote[d], filed[d]) ELSE a(d)]
           told(d) == {item \in remote[d] : item[1] \in filed[d]}
<1>1. /\ Shows(next) /\ entries' = next /\ cachedServerInstanceId' = instance
      /\ UNCHANGED <<backend, buffered, clearing, keys, gone>>
  BY DEF SetExpectedServerInstanceId, Shows
<1>2. ASSUME NEW d \in Doc, IsOpen(d)
      PROVE  LET e == entries[d]
                 n == entries'[d]
             IN /\ n # Missing /\ n.claim = e.claim /\ n.synced = e.synced /\ n.status = e.status
                /\ \/ /\ e.persistence # 0 /\ n.persistence = e.persistence
                      /\ (n.bound <=> e.bound) /\ n.text = e.text
                   \/ /\ e.persistence = 0 /\ n.persistence = instance /\ n.bound
                      /\ n.text = e.text \cup cache[d][instance]
                /\ \/ n.acked = e.acked
                   \/ HasEdits(d) /\ n.acked = Union(e.acked, told(d))
  <2>1. entries[d] \in Entry /\ instance \in Instance /\ instance # 0
        /\ cache[d][instance] \in SUBSET Item /\ remote[d] \in SUBSET Item
    BY <1>2, EntryFields, OneIsInstance DEF ClientTypeOK
  <2>2. /\ a(d) \in Entry /\ a(d).claim = entries[d].claim /\ a(d).synced = entries[d].synced
        /\ a(d).status = entries[d].status /\ a(d).acked = entries[d].acked
        /\ \/ entries[d].persistence # 0 /\ a(d) = entries[d]
           \/ /\ entries[d].persistence = 0 /\ a(d).persistence = instance /\ a(d).bound = TRUE
              /\ a(d).text = entries[d].text \cup cache[d][instance]
    BY <2>1 DEF Attached, Entry
  <2>3. entries'[d] = IF asked THEN Acked(a(d), remote[d], filed[d]) ELSE a(d)
    BY <1>1, <1>2
  <2> HIDE DEF a
  <2>4. CASE entries'[d] = a(d)
    BY <2>2, <2>4
  <2>5. CASE entries'[d] # a(d)
    <3>1. HasEdits(d) /\ entries'[d] = [a(d) EXCEPT !.acked = Union(@, told(d))]
      BY <2>3, <2>5 DEF Acked, SavedIn, HasEdits
    <3>2. Union(a(d).acked, told(d)) \in Vector
      BY <2>1, <2>2 DEF Union, Vector, Entry
    <3> HIDE DEF told
    <3>3. entries'[d] \in Entry
      BY <2>2, <3>1, <3>2 DEF Entry
    <3>4. LET n == entries'[d]
          IN /\ n.claim = a(d).claim /\ n.synced = a(d).synced /\ n.status = a(d).status
             /\ n.persistence = a(d).persistence /\ n.bound = a(d).bound /\ n.text = a(d).text
             /\ n.acked = Union(a(d).acked, told(d))
      BY <2>2, <3>1 DEF Entry
    <3> QED BY <2>2, <3>1, <3>3, <3>4
  <2> QED BY <2>4, <2>5
<1>3. \A d \in Doc : entries'[d] = Missing <=> ~IsOpen(d)
  BY <1>1, <1>2
<1> HIDE DEF next, a
<1>4. \A x \in Doc : \A i \in Instance :
        cache'[x][i] = IF entries'[x] # Missing /\ entries'[x].bound /\ entries'[x].persistence = i
                       THEN entries'[x].text ELSE cache[x][i]
  BY <1>1, ShownCaches
<1>5. GrowStep
  <2>1. \A x \in Doc : IsOpen(x) /\ entries[x].status = "synced" =>
                         serving /\ entries[x].claim \in {0, instance}
    BY DEF Caches, Cached
  <2>2. UNCHANGED <<instance, serving, filed, remote, clearing, unclaimed, unacked>>
    BY <1>1 DEF backend, gone
  <2>3. instance # 0
    BY OneIsInstance DEF ClientTypeOK
  <2>4. ASSUME NEW d \in Doc, IsOpen(d)
        PROVE  LET e == entries[d]
                   n == entries'[d]
               IN /\ n.claim = e.claim
                  /\ \/ n.persistence = e.persistence /\ (n.bound <=> e.bound)
                     \/ e.persistence = 0 /\ n.persistence = instance /\ n.bound
                  /\ n.persistence # 0
                  /\ n.status = "synced" => serving /\ e.claim \in {0, instance}
    BY <1>2, <2>1, <2>3, <2>4
  <2> QED BY <1>1, <1>3, <1>4, <2>2, <2>4 DEF GrowStep, IsOpen
<1>6. Numbered'
  <2>1. UNCHANGED <<filed, remote, keys, buffered>> /\ instance \in Instance
    BY <1>1 DEF backend, ClientTypeOK
  <2>3. \A x \in Doc : entries'[x] # Missing => \A item \in entries'[x].text : item[1] <= keys
    BY <1>2, <1>3, <2>1 DEF Numbered, Typed
  <2>4. \A x \in Doc : \A i \in Instance : \A item \in cache'[x][i] : item[1] <= keys
    BY <1>4, <2>3 DEF Numbered, Typed
  <2> QED BY <2>1, <2>3, <2>4 DEF Numbered, Typed, IsOpen
<1>7. Caches'
  BY <1>5, GrowKeepsCaches
<1>8. ASSUME ~unclaimed, ~unacked PROVE Apart'
  <2>1. ASSUME NEW d \in Doc, IsOpen(d) PROVE TabApart(d)'
    <3>1. TabApart(d) /\ ServerApart(d) /\ remote' = remote /\ instance' = instance
          /\ instance # 0
      BY <1>1, <1>8, <2>1, OneIsInstance DEF Apart, backend, ClientTypeOK
    <3> DEFINE e == entries[d]
               n == entries'[d]
    <3>2. /\ n.claim = e.claim /\ n.synced = e.synced
          /\ \/ n.text = e.text
             \/ e.persistence = 0 /\ n.text = e.text \cup cache[d][instance]
          /\ \/ n.acked = e.acked
             \/ HasEdits(d) /\ n.acked = Union(e.acked, told(d))
      BY <1>2, <2>1
    <3>3. e.persistence = 0 => Admitted(d)
      BY <2>1, EntryFields DEF Caches, Cached, Admitted
    <3> HIDE DEF e, n
    <3>4. Admitted(d) \/ HasEdits(d) => Fits(d, n.text)
      BY <3>1, <3>2 DEF TabApart, ServerApart, Fits, e
    <3>5. FromServer(remote[d]) \subseteq told(d)
      BY <3>1 DEF ServerApart, FromServer
    <3>6. FromServer(cache[d][instance]) \subseteq FromServer(remote[d])
      BY <3>1 DEF ServerApart, FromServer, Fits
    <3>7. Admitted(d) \/ HasEdits(d) => FromServer(n.text) \subseteq FromServer(remote[d])
      BY <3>4 DEF Fits, FromServer
    <3>8. /\ Baseline(n) # Missing => FromServer(n.text) \subseteq Baseline(n)
          /\ Admitted(d) /\ Baseline(n) # Missing => FromServer(remote[d]) \subseteq Baseline(n)
      <4>1. CASE n.acked = e.acked
        <5>1. Baseline(n) = Baseline(e)
          BY <3>2, <4>1 DEF Baseline
        <5>2. /\ Baseline(e) # Missing => FromServer(e.text) \subseteq Baseline(e)
              /\ Admitted(d) /\ Baseline(e) # Missing => FromServer(remote[d]) \subseteq Baseline(e)
          BY <3>1 DEF TabApart, e
        <5>3. CASE n.text = e.text
          BY <5>1, <5>2, <5>3
        <5>4. CASE e.persistence = 0
          BY <3>3, <3>7, <5>1, <5>2, <5>4
        <5> QED BY <3>2, <5>3, <5>4
      <4>2. CASE HasEdits(d) /\ n.acked = Union(e.acked, told(d))
        <5>1. told(d) \subseteq Union(e.acked, told(d))
          BY DEF Union
        <5>2. told(d) \in SUBSET Item /\ Union(e.acked, told(d)) \in SUBSET Item
          <6>1. e.acked \in Vector
            BY <2>1, EntryFields DEF e
          <6> QED BY <6>1 DEF ClientTypeOK, Union, Vector
        <5>3. Baseline(n) = n.acked
          BY <4>2, <5>2 DEF Baseline
        <5> HIDE DEF told
        <5> QED BY <3>5, <3>7, <4>2, <5>1, <5>3
      <4> QED BY <3>2, <4>1, <4>2
    <3>9. (Admitted(d) <=> Admitted(d)') /\ (HasEdits(d) <=> HasEdits(d)')
      BY <3>1, <3>2 DEF Admitted, HasEdits, e, n
    <3>10. Fits(d, n.text) => Fits(d, entries[d].text)'
      BY <3>1 DEF Fits, n
    <3> QED BY <3>1, <3>4, <3>8, <3>9, <3>10 DEF TabApart, FromServer, Baseline, n
  <2> QED BY <1>1, <1>5, <1>8, <2>1, GrowKeepsApart
<1>9. Apart'
  BY <1>1, <1>8 DEF Apart, gone
<1> QED BY <1>6, <1>7, <1>9

(* A store that has something to write has edits of clients to write.      *)
LEMMA FileStoreApart ==
  ASSUME PoolTyped, Numbered, Caches, Apart, NEW d \in Doc, FileStore(d)
  PROVE  (Numbered /\ Caches /\ Apart)'
<1> USE DEF PoolTyped
<1>1. /\ filed' = [filed EXCEPT ![d] = @ \cup EditsOf(remote[d])]
      /\ UNCHANGED <<instance, serving, remote, cache, buffered, clearing, cachedServerInstanceId,
                     keys, unclaimed>>
      /\ remote[d] \in SUBSET Item
  BY DEF FileStore, renewing, ClientTypeOK
<1>2. ASSUME NEW x \in Doc, IsOpen(x)
      PROVE  LET e == entries[x]
                 n == entries'[x]
             IN /\ n # Missing /\ n.claim = e.claim /\ n.persistence = e.persistence
                /\ n.bound = e.bound /\ n.text = e.text /\ n.synced = e.synced
                /\ n.status = e.status
                /\ n.acked = e.acked \/ (x = d /\ n.acked = Union(e.acked, remote[d]))
  <2>1. CASE UNCHANGED entries
    BY <1>2, <2>1 DEF IsOpen
  <2>2. CASE IsOpen(d) /\ entries' = [entries EXCEPT ![d].acked = Union(@, remote[d])]
    <3>1. CASE x # d
      BY <1>2, <2>2, <3>1 DEF ClientTypeOK, IsOpen
    <3>2. CASE x = d
      <4>1. entries[d] \in Entry
        BY <1>2, <3>2, EntryFields
      <4>2. Union(entries[d].acked, remote[d]) \in Vector
        BY <1>1, <4>1 DEF Union, Vector, Entry
      <4>3. entries'[d] = [entries[d] EXCEPT !.acked = Union(@, remote[d])]
        BY <2>2 DEF ClientTypeOK
      <4>4. entries'[d] \in Entry
        BY <4>1, <4>2, <4>3 DEF Entry
      <4> QED BY <3>2, <4>1, <4>3, <4>4 DEF Entry
    <3> QED BY <3>1, <3>2
  <2> QED BY <2>1, <2>2 DEF FileStore
<1>3. \A x \in Doc : IsOpen(x)' <=> IsOpen(x)
  <2>1. ASSUME NEW x \in Doc, ~IsOpen(x) PROVE entries'[x] = Missing
    BY <2>1 DEF FileStore, IsOpen, ClientTypeOK
  <2> QED BY <1>2, <2>1 DEF IsOpen
<1>4. \A x \in Doc : filed'[x] = IF x = d THEN filed[d] \cup EditsOf(remote[d]) ELSE filed[x]
  BY <1>1 DEF ClientTypeOK
<1>5. Numbered'
  <2>1. EditsOf(remote[d]) \subseteq 0 .. keys
    BY <1>1 DEF EditsOf, Numbered, Typed, Item
  <2>2. \A x \in Doc : filed'[x] \subseteq 0 .. keys
    BY <1>4, <2>1 DEF Numbered
  <2>3. \A x \in Doc : IsOpen(x) => \A item \in entries'[x].text : item[1] <= keys
    BY <1>2 DEF Numbered, Typed
  <2> QED BY <1>1, <1>3, <2>2, <2>3 DEF Numbered, Typed
<1>6. Caches'
  <2>1. ASSUME NEW x \in Doc, IsOpen(x) PROVE Cached(x)'
    BY <1>1, <1>2, <2>1 DEF Caches, Cached, Unused
  <2>2. ASSUME NEW x \in Doc PROVE KnownServer(x)' /\ InClearing(x)' /\ Unused(x, instance)'
    <3>1. Unused(x, instance)' /\ (Unused(x, cachedServerInstanceId) => Unused(x, cachedServerInstanceId)')
      BY <1>1 DEF Caches, Unused
    <3>2. KnownServer(x) /\ InClearing(x)
      BY DEF Caches
    <3>3. InClearing(x)'
      BY <1>1, <1>2, <1>3, <3>2 DEF InClearing
    <3> QED BY <1>1, <1>2, <1>3, <3>1, <3>2, <3>3 DEF KnownServer
  <2> QED BY <1>1, <1>3, <2>1, <2>2 DEF Caches
<1>7. ASSUME ~unclaimed, ~unacked, ~unacked' PROVE Apart'
  <2> SUFFICES ASSUME NEW x \in Doc PROVE ServerApart(x)' /\ (IsOpen(x)' => TabApart(x)')
    BY DEF Apart
  <2>1. ServerApart(x) /\ (IsOpen(x) => TabApart(x))
    BY <1>7 DEF Apart
  <2>2. /\ Fits(x, remote[x])' /\ Fits(x, cache[x][instance])'
        /\ (HasEdits(x) /\ cachedServerInstanceId # 0 => Fits(x, cache[x][cachedServerInstanceId]))'
        /\ (\A item \in remote[x] : item[2] # 0 => item[1] \in filed[x])'
    BY <1>1, <1>4, <2>1 DEF ServerApart, Fits, HasEdits
  <2>3. (buffered[x] # Missing => \A item \in buffered[x] : item[2] = 0 /\ item[1] \notin filed[x])'
    <3> SUFFICES ASSUME buffered[x] # Missing, NEW item \in buffered[x]
                 PROVE  item[2] = 0 /\ item[1] \notin filed'[x]
      BY <1>1
    <3>1. item[2] = 0 /\ item[1] \notin filed[x]
      BY <2>1 DEF ServerApart
    <3>2. CASE x = d
      <4>1. SavedIn(buffered[d], filed'[d]) = {}
        BY <1>7 DEF FileStore
      <4> QED BY <3>1, <3>2, <4>1 DEF SavedIn
    <3> QED BY <1>4, <3>1, <3>2
  <2>4. ServerApart(x)'
    BY <2>2, <2>3 DEF ServerApart
  <2>5. ASSUME IsOpen(x) PROVE TabApart(x)'
    <3> DEFINE e == entries[x]
               n == entries'[x]
    <3>1. /\ n.claim = e.claim /\ n.text = e.text /\ n.synced = e.synced
          /\ n.acked = e.acked \/ (x = d /\ n.acked = Union(e.acked, remote[d]))
      BY <1>2, <2>5
    <3>2. TabApart(x)
      BY <2>1, <2>5
    <3> HIDE DEF n
    <3>3. (Admitted(x) <=> Admitted(x)') /\ (HasEdits(x) <=> HasEdits(x)')
      BY <1>1, <3>1 DEF Admitted, HasEdits, n
    <3>4. Fits(x, e.text) => Fits(x, entries[x].text)'
      BY <1>1, <3>1 DEF Fits, n
    <3>5. /\ Baseline(n) # Missing => FromServer(e.text) \subseteq Baseline(n)
          /\ Admitted(x) /\ Baseline(n) # Missing => FromServer(remote[x]) \subseteq Baseline(n)
      <4>1. CASE n.acked = e.acked
        <5>1. Baseline(n) = Baseline(e)
          BY <3>1, <4>1 DEF Baseline
        <5> QED BY <3>2, <5>1 DEF TabApart
      <4>2. CASE x = d /\ n.acked = Union(e.acked, remote[d])
        <5>1. PICK item \in remote[d] : item[1] \notin filed[d]
          BY DEF FileStore, EditsOf
        <5>2. HasEdits(d)
          BY <2>1, <4>2, <5>1 DEF ServerApart, HasEdits
        <5>3. FromServer(e.text) \subseteq remote[d]
          BY <3>2, <4>2, <5>2 DEF TabApart, Fits, FromServer
        <5>4. remote[d] \subseteq n.acked
          BY <4>2 DEF Union
        <5>5. n.acked \in SUBSET Item
          <6>1. e.acked \in Vector
            BY <2>5, EntryFields
          <6> QED BY <1>1, <4>2, <6>1 DEF Union, Vector
        <5>6. Baseline(n) = n.acked
          BY <5>5 DEF Baseline
        <5> QED BY <4>2, <5>3, <5>4, <5>6 DEF FromServer
      <4> QED BY <3>1, <4>1, <4>2
    <3>6. (Baseline(entries[x]) # Missing => FromServer(entries[x].text) \subseteq Baseline(entries[x]))'
      BY <3>1, <3>5 DEF n, FromServer, Baseline
    <3>7. (Admitted(x) /\ Baseline(entries[x]) # Missing =>
             FromServer(remote[x]) \subseteq Baseline(entries[x]))'
      BY <1>1, <3>3, <3>5 DEF n, FromServer, Baseline
    <3> QED BY <3>2, <3>3, <3>4, <3>6, <3>7 DEF TabApart
  <2> QED BY <1>3, <2>4, <2>5
<1>8. Apart'
  <2>1. unacked => unacked'
    BY Zenon DEF FileStore
  <2>2. CASE unclaimed \/ unacked'
    BY <1>1, <2>2 DEF Apart
  <2> QED BY <1>7, <2>1, <2>2
<1> QED BY <1>5, <1>6, <1>8

LEMMA DeliverApart ==
  ASSUME PoolTyped, Numbered, Caches, Apart, NEW d \in Doc, Deliver(d)
  PROVE  (Numbered /\ Caches /\ Apart)'
<1> USE DEF PoolTyped
<1>1. /\ IsOpen(d) /\ entries[d].status = "synced"
      /\ remote' = [remote EXCEPT ![d] = @ \cup entries[d].text]
      /\ UNCHANGED <<instance, serving, filed, entries, cache, buffered, clearing,
                     cachedServerInstanceId, keys, unclaimed, unacked>>
  BY DEF Deliver, pool, renewing, gone
<1>2. \A x \in Doc : remote'[x] = IF x = d THEN remote[d] \cup entries[d].text ELSE remote[x]
  BY <1>1 DEF ClientTypeOK
<1>3. Numbered'
  BY <1>1, <1>2 DEF Numbered, Typed, IsOpen
<1>4. Caches'
  BY <1>1 DEF Caches, Cached, Unused, KnownServer, InClearing, IsOpen
<1>5. ASSUME ~unclaimed, ~unacked PROVE Apart'
  <2> SUFFICES ASSUME NEW x \in Doc PROVE ServerApart(x)' /\ (IsOpen(x)' => TabApart(x)')
    BY DEF Apart
  <2>1. /\ ServerApart(x) /\ (IsOpen(x) => TabApart(x))
        /\ IsOpen(x) => Cached(x)
        /\ KnownServer(x) /\ instance # 0
    BY <1>5, OneIsInstance DEF Apart, Caches, ClientTypeOK
  <2>2. CASE x # d
    BY <1>1, <1>2, <2>1, <2>2
    DEF ServerApart, TabApart, Fits, HasEdits, Admitted, FromServer, Baseline, IsOpen
  <2>3. CASE x = d
    <3> DEFINE text == entries[d].text
    <3>1. Admitted(d) /\ Fits(d, text) /\ Fits(d, remote[d])
      BY <1>1, <2>1, <2>3 DEF Cached, Admitted, TabApart, ServerApart
    <3>2. FromServer(remote'[d]) = FromServer(remote[d])
      BY <1>2, <3>1 DEF Fits, FromServer
    <3>3. \A k : <<k, instance>> \in remote'[d] <=> <<k, instance>> \in remote[d]
      BY <2>1, <3>2 DEF FromServer
    <3>4. \A item : item[2] # 0 => (item \in remote'[d] <=> item \in remote[d])
      BY <3>2 DEF FromServer
    <3>5. ASSUME NEW items, Fits(d, items)
          PROVE  /\ \A item \in items : item[2] = 0 => <<item[1], instance>> \notin remote'[d]
                 /\ \A item \in items : item[2] # 0 => item[2] = instance /\ item \in remote'[d]
      BY <3>3, <3>4, <3>5 DEF Fits
    <3>6. \A item \in remote'[d] : item \in remote[d] \/ item \in text
      BY <1>2
    <3>7. Fits(d, remote[d])'
      BY <1>1, <3>1, <3>5, <3>6 DEF Fits
    <3>8. Fits(d, cache[d][instance])'
      BY <1>1, <2>1, <2>3, <3>5 DEF Fits, ServerApart
    <3>9. (\A item \in remote[d] : item[2] # 0 => item[1] \in filed[d])'
      BY <1>1, <2>1, <2>3, <3>4 DEF ServerApart
    <3>10. ASSUME cachedServerInstanceId # 0 PROVE Fits(d, cache[d][cachedServerInstanceId])
      <4>1. entries[d].persistence # 0 /\ entries[d].persistence <= cachedServerInstanceId
            /\ (entries[d].persistence = cachedServerInstanceId => entries[d].bound)
        BY <1>1, <2>1, <2>3, <3>10 DEF KnownServer
      <4>2. CASE entries[d].persistence = cachedServerInstanceId
        BY <1>1, <2>1, <2>3, <3>1, <4>1, <4>2 DEF Cached
      <4>3. CASE entries[d].persistence # cachedServerInstanceId
        <5>1. cachedServerInstanceId \in Instance /\ entries[d].persistence \in Instance
          BY <1>1, <3>10, <4>1, EntryFields DEF ClientTypeOK
        <5>2. cachedServerInstanceId > entries[d].persistence
          BY <4>1, <4>3, <5>1 DEF Instance
        <5>3. cache[d][cachedServerInstanceId] = {}
          BY <1>1, <2>1, <2>3, <4>1, <5>1, <5>2 DEF Cached, Unused
        <5> QED BY <5>3 DEF Fits
      <4> QED BY <4>2, <4>3
    <3>11. (HasEdits(d) /\ cachedServerInstanceId # 0 => Fits(d, cache[d][cachedServerInstanceId]))'
      BY <1>1, <3>5, <3>10 DEF Fits
    <3>12. ServerApart(d)'
      BY <1>1, <2>1, <2>3, <3>7, <3>8, <3>9, <3>11 DEF ServerApart
    <3>13. TabApart(d)'
      <4>1. Fits(d, entries[d].text)'
        BY <1>1, <3>1, <3>5 DEF Fits
      <4>2. TabApart(d) /\ (Admitted(d)' <=> Admitted(d))
        BY <1>1, <2>1, <2>3 DEF Admitted
      <4>3. (FromServer(remote[d]))' = FromServer(remote[d])
        BY <3>2 DEF FromServer
      <4> QED BY <1>1, <4>1, <4>2, <4>3 DEF TabApart, FromServer, Baseline
    <3> QED BY <2>3, <3>12, <3>13
  <2> QED BY <2>2, <2>3
<1>6. Apart'
  BY <1>1, <1>5 DEF Apart
<1> QED BY <1>3, <1>4, <1>6

(* A new server has nothing but the files, and nobody has a cache for it.  *)
LEMMA ServerStartsApart ==
  ASSUME PoolTyped, Numbered, Caches, Apart, ServerStarts, instance' \in Instance
  PROVE  (Numbered /\ Caches /\ Apart)'
<1> USE DEF PoolTyped
<1>1. /\ instance' = instance + 1 /\ instance \in Instance /\ ~serving /\ serving' = TRUE
      /\ \A d \in Doc : remote'[d] = filed[d] \X {instance'}
      /\ UNCHANGED <<filed, entries, cache, buffered, clearing, cachedServerInstanceId, keys, unacked>>
  BY DEF ServerStarts, pool, renewing, ClientTypeOK
<1>2. \A d \in Doc : \A item \in remote'[d] : item[1] \in filed[d] /\ item[2] = instance'
  BY <1>1
<1>3. instance \in Nat /\ instance # 0 /\ instance' # 0
  BY <1>1 DEF Instance
<1>4. Numbered'
  <2>1. \A d \in Doc : \A item \in remote'[d] : item[1] <= keys
    BY <1>2 DEF Numbered, ClientTypeOK
  <2> QED BY <1>1, <2>1 DEF Numbered, Typed, IsOpen
<1>5. Caches'
  <2>1. cachedServerInstanceId' <= instance' /\ cachedServerInstanceId \in Instance \cup {0}
    BY <1>1 DEF Caches, ClientTypeOK, Instance
  <2> SUFFICES ASSUME NEW d \in Doc
               PROVE  Unused(d, instance)' /\ (IsOpen(d)' => Cached(d)') /\ KnownServer(d)'
                      /\ InClearing(d)'
    BY <2>1 DEF Caches
  <2>2. Unused(d, instance) /\ (IsOpen(d) => Cached(d)) /\ KnownServer(d) /\ InClearing(d)
    BY DEF Caches
  <2>3. Unused(d, instance)'
    BY <1>1, <2>2 DEF Unused, Instance
  <2>4. ASSUME IsOpen(d) PROVE Cached(d)'
    <3>1. /\ entries[d].persistence \in Instance \cup {0} /\ entries[d].persistence <= instance
      BY <2>2, <2>4, EntryFields DEF Cached
    <3>2. entries[d].persistence <= instance' /\ entries[d].persistence # instance'
      BY <1>1, <3>1 DEF Instance
    <3>3. entries[d].status # "synced"
      BY <1>1, <2>2, <2>4 DEF Cached
    <3> QED BY <1>1, <2>2, <2>4, <3>2, <3>3 DEF Cached, Unused
  <2>5. KnownServer(d)'
    BY <1>1, <2>2 DEF KnownServer, Unused, IsOpen
  <2>6. InClearing(d)'
    BY <1>1, <2>2 DEF InClearing, IsOpen, Instance
  <2> QED BY <1>1, <2>3, <2>4, <2>5, <2>6 DEF IsOpen
<1>6. ASSUME ~unclaimed, ~unacked, ~unclaimed' PROVE Apart'
  <2> SUFFICES ASSUME NEW d \in Doc PROVE ServerApart(d)' /\ (IsOpen(d)' => TabApart(d)')
    BY DEF Apart
  <2>1. ServerApart(d)
    BY <1>6 DEF Apart
  <2>2. cache'[d][instance'] = {} /\ ~HasEdits(d)'
    <3>1. instance' > instance
      BY <1>1, <1>3
    <3>2. ~HasEdits(d)'
      BY <1>2, <1>3 DEF HasEdits
    <3> QED BY <1>1, <3>1, <3>2 DEF Caches, Unused
  <2>3. Fits(d, remote[d])' /\ Fits(d, cache[d][instance])'
    BY <1>2, <1>3, <2>2 DEF Fits
  <2>4. ServerApart(d)'
    BY <1>1, <1>2, <2>1, <2>2, <2>3 DEF ServerApart
  <2>5. ASSUME IsOpen(d) PROVE TabApart(d)'
    <3>1. entries[d].claim = 0 => ~Holds(entries[d])
      BY <1>6, <2>5 DEF ServerStarts, OpenDocs
    <3>2. entries[d].claim # instance'
      <4>1. entries[d].claim # 0 => entries[d].claim <= instance
        BY <2>5 DEF Caches, Cached
      <4>2. entries[d].claim \in Instance \cup {0}
        BY <2>5, EntryFields
      <4> QED BY <1>1, <4>1, <4>2 DEF Instance
    <3>3. TabApart(d)
      BY <1>6, <2>5 DEF Apart
    <3>4. Admitted(d)' => entries[d].text = {} /\ Baseline(entries[d]) = Missing
      BY <1>1, <3>1, <3>2 DEF Admitted, Holds
    <3> QED BY <1>1, <2>2, <3>3, <3>4 DEF TabApart, Fits, FromServer, Baseline
  <2> QED BY <1>1, <2>4, <2>5 DEF IsOpen
<1>7. Apart'
  <2>1. unclaimed => unclaimed'
    BY Zenon DEF ServerStarts
  <2>2. CASE unclaimed' \/ unacked
    BY <1>1, <2>2 DEF Apart
  <2> QED BY <1>6, <2>1, <2>2
<1> QED BY <1>4, <1>5, <1>7

(* What is set aside is what was typed here and nobody has announced; the  *)
(* caches to be cleared are those of a server before this one.             *)
LEMMA FirstRefusalApart ==
  ASSUME PoolTyped, Numbered, Caches, Apart, NEW d \in Doc, FirstRefusal(d)
  PROVE  (Numbered /\ Caches /\ Apart)'
<1> USE DEF PoolTyped
<1> DEFINE next == [x \in Doc |-> IF ~IsOpen(x) THEN Missing ELSE Unbound(x, d)]
           kept == {x \in OpenDocs : entries[x].persistence # 0}
<1>1. /\ UNCHANGED <<instance, serving, filed, remote, keys, unclaimed>>
      /\ cachedServerInstanceId' = 0 /\ buffered' = [x \in Doc |-> SetAside(x)]
      /\ entries[d].claim = cachedServerInstanceId /\ IsOpen(d)
      /\ cachedServerInstanceId # 0 /\ cachedServerInstanceId # instance
      /\ clearing' = [waits |-> kept, cleared |-> {}, failed |-> {}, shown |-> active,
                      ids |-> [x \in Doc |-> IF x \in kept THEN entries[x].persistence ELSE 0]]
  BY DEF FirstRefusal, backend, Accepts
<1>2. Shows(next) /\ entries' = next
  BY DEF FirstRefusal, Unbound, Shows
<1>3. ASSUME NEW x \in Doc, IsOpen(x)
      PROVE  LET e == entries[x]
                 n == entries'[x]
             IN /\ n # Missing /\ n.claim = e.claim /\ n.persistence = e.persistence
                /\ ~n.bound /\ n.text = e.text /\ n.synced = e.synced /\ n.acked = e.acked
                /\ n.status = "synced" => e.status = "synced"
  <2>1. entries[x] \in Entry /\ Unbound(x, d) \in Entry
    BY <1>3, EntryFields, UnboundTyped DEF OpenDocs
  <2>2. Unbound(x, d) # Missing /\ entries'[x] = Unbound(x, d)
    BY <1>2, <1>3, <2>1
  <2> QED BY <2>1, <2>2 DEF Unbound, Entry
<1>4. \A x \in Doc : (IsOpen(x)' <=> IsOpen(x)) /\ (next[x] # Missing => ~next[x].bound)
  <2>1. ASSUME NEW x \in Doc, ~IsOpen(x) PROVE entries'[x] = Missing
    BY <1>2, <2>1
  <2> QED BY <1>2, <1>3, <2>1 DEF IsOpen
<1> HIDE DEF next
<1>5. cache' = cache
  BY <1>2, <1>4, CachesAsBefore
<1>6. ASSUME NEW x \in Doc, buffered'[x] # buffered[x]
      PROVE  /\ IsOpen(x) /\ Baseline(entries[x]) # Missing
             /\ buffered'[x] = entries[x].text \ Baseline(entries[x])
  BY <1>1, <1>6 DEF SetAside
<1>7. cachedServerInstanceId < instance /\ instance \in Nat
  BY <1>1 DEF Caches, ClientTypeOK, Instance
<1>8. Numbered'
  <2>1. ASSUME NEW x \in Doc, buffered'[x] # Missing
        PROVE  \A item \in buffered'[x] : item[1] <= keys
    BY <1>6, <2>1 DEF Numbered, Typed
  <2> QED BY <1>1, <1>3, <1>4, <1>5, <2>1 DEF Numbered, Typed
<1>9. Caches'
  <2>1. 0 <= instance
    BY <1>7
  <2>2. ASSUME NEW x \in Doc, IsOpen(x)
        PROVE  entries[x].persistence \in Instance /\ entries[x].persistence < instance
    <3>1. entries[x].persistence # 0 /\ entries[x].persistence <= cachedServerInstanceId
      BY <1>1, <2>2 DEF Caches, KnownServer
    <3>2. entries[x].persistence \in Instance /\ cachedServerInstanceId \in Nat
      BY <2>2, <3>1, EntryFields, OneIsInstance DEF ClientTypeOK
    <3>3. entries[x].persistence \in Nat
      BY <3>2 DEF Instance
    <3> QED BY <1>7, <3>1, <3>2, <3>3
  <2>3. ASSUME NEW x \in Doc, IsOpen(x) PROVE Cached(x)'
    <3>1. Cached(x) /\ entries[x].persistence # instance /\ entries[x].persistence <= instance
      BY <1>7, <2>2, <2>3 DEF Caches, Instance
    <3>2. \A id : Unused(x, id)' <=> Unused(x, id)
      BY <1>5 DEF Unused
    <3> QED BY <1>1, <1>3, <2>3, <3>1, <3>2 DEF Cached, Unused
  <2>4. ASSUME NEW x \in Doc PROVE InClearing(x)' /\ KnownServer(x)' /\ Unused(x, instance)'
    <3>1. x \in kept => IsOpen(x) /\ clearing'.ids[x] = entries[x].persistence
      BY <1>1 DEF OpenDocs
    <3>2. clearing'.waits = kept
      BY <1>1
    <3> HIDE DEF kept
    <3>3. InClearing(x)'
      BY <1>1, <1>3, <2>2, <3>1, <3>2, OneIsInstance DEF InClearing
    <3> QED BY <1>1, <1>5, <3>3 DEF KnownServer, Unused, Caches
  <2> QED BY <1>1, <1>4, <2>1, <2>3, <2>4 DEF Caches
<1>10. ASSUME ~unclaimed, ~unacked, ~unacked' PROVE Apart'
  <2> SUFFICES ASSUME NEW x \in Doc PROVE ServerApart(x)' /\ (IsOpen(x)' => TabApart(x)')
    BY DEF Apart
  <2>1. ServerApart(x) /\ (IsOpen(x) => TabApart(x))
    BY <1>10 DEF Apart
  <2>2. \A items : Fits(x, items)' <=> Fits(x, items)
    BY <1>1 DEF Fits
  <2>3. (buffered[x] # Missing => \A item \in buffered[x] : item[2] = 0 /\ item[1] \notin filed[x])'
    <3>1. CASE buffered'[x] = buffered[x]
      BY <1>1, <2>1, <3>1 DEF ServerApart
    <3>2. CASE buffered'[x] # buffered[x]
      <4>1. /\ IsOpen(x) /\ Baseline(entries[x]) # Missing
            /\ buffered'[x] = entries[x].text \ Baseline(entries[x])
        BY <1>6, <3>2
      <4>2. \A item \in buffered'[x] : item[2] = 0
        BY <2>1, <4>1 DEF TabApart, FromServer
      <4>3. SavedIn(buffered'[x], filed[x]) = {}
        BY <1>10, <4>1 DEF FirstRefusal, OpenDocs
      <4>4. buffered'[x] # Missing
        BY <4>1, EntryFields
      <4> QED BY <1>1, <4>2, <4>3, <4>4 DEF SavedIn
    <3> QED BY <3>1, <3>2
  <2>4. ServerApart(x)'
    BY <1>1, <1>5, <2>1, <2>2, <2>3 DEF ServerApart, Fits
  <2>5. ASSUME IsOpen(x) PROVE TabApart(x)'
    <3> DEFINE n == entries'[x]
               e == entries[x]
    <3>1. n.claim = e.claim /\ n.text = e.text /\ n.synced = e.synced /\ n.acked = e.acked
      BY <1>3, <2>5
    <3> HIDE DEF n
    <3>2. Fits(x, e.text) => Fits(x, entries[x].text)'
      BY <1>1, <3>1 DEF Fits, n
    <3> QED BY <1>1, <2>1, <2>5, <3>1, <3>2
            DEF TabApart, Admitted, HasEdits, FromServer, Baseline, n
  <2> QED BY <1>4, <2>4, <2>5
<1>11. Apart'
  <2>1. unacked => unacked'
    BY Zenon DEF FirstRefusal
  <2>2. CASE unclaimed \/ unacked'
    BY <1>1, <2>2 DEF Apart
  <2> QED BY <1>10, <2>1, <2>2
<1> QED BY <1>8, <1>9, <1>11

(* A cache that is cleared is that of no document that is open.            *)
LEMMA ClearEndsApart ==
  ASSUME PoolTyped, Numbered, Caches, Apart, NEW d \in Doc, ClearEnds(d)
  PROVE  (Numbered /\ Caches /\ Apart)'
<1> USE DEF PoolTyped
<1>1. /\ UNCHANGED <<instance, serving, filed, remote, entries, buffered, cachedServerInstanceId,
                     keys, unclaimed, unacked>>
      /\ clearing # Missing /\ d \in clearing.waits
  BY DEF ClearEnds, backend, gone
<1>2. clearing'.ids = clearing.ids /\ clearing'.waits \subseteq clearing.waits
  <2>1. clearing \in Clearing
    BY <1>1 DEF ClientTypeOK
  <2> QED BY <2>1 DEF ClearEnds, Clearing
<1>3. /\ clearing.ids[d] \in Instance /\ clearing.ids[d] < instance
      /\ cachedServerInstanceId # clearing.ids[d]
      /\ IsOpen(d) /\ entries[d].bound => entries[d].persistence # clearing.ids[d]
  BY <1>1 DEF Caches, InClearing
<1>4. \A x \in Doc, i \in Instance :
        cache'[x][i] = cache[x][i] \/ (x = d /\ i = clearing.ids[d] /\ cache'[x][i] = {})
  BY DEF ClearEnds, ClientTypeOK
<1>5. Numbered'
  BY <1>1, <1>4 DEF Numbered, Typed, IsOpen
<1>6. Caches'
  <2>1. ASSUME NEW x \in Doc, NEW id, Unused(x, id) PROVE Unused(x, id)'
    BY <1>4, <2>1 DEF Unused
  <2>2. ASSUME NEW x \in Doc, IsOpen(x) PROVE Cached(x)'
    <3>1. entries[x].bound => entries[x].persistence \in Instance
      BY <2>2, EntryFields
    <3>2. entries[x].bound => cache'[x][entries[x].persistence] = cache[x][entries[x].persistence]
      BY <1>3, <1>4, <2>2, <3>1
    <3> QED BY <1>1, <2>1, <2>2, <3>2 DEF Caches, Cached, Unused
  <2>3. ASSUME NEW x \in Doc PROVE InClearing(x)' /\ KnownServer(x)' /\ Unused(x, instance)'
    <3>1. InClearing(x)'
      BY <1>1, <1>2 DEF Caches, InClearing, IsOpen
    <3> QED BY <1>1, <1>4, <3>1 DEF Caches, KnownServer, Unused, IsOpen
  <2> QED BY <1>1, <2>2, <2>3 DEF Caches, IsOpen
<1>7. ASSUME ~unclaimed, ~unacked PROVE Apart'
  <2> SUFFICES ASSUME NEW x \in Doc PROVE ServerApart(x)' /\ (IsOpen(x)' => TabApart(x)')
    BY DEF Apart
  <2>1. ServerApart(x) /\ (IsOpen(x) => TabApart(x))
    BY <1>7 DEF Apart
  <2>2. \A i \in Instance : Fits(x, cache[x][i]) => Fits(x, cache[x][i])'
    BY <1>1, <1>4 DEF Fits
  <2>3. instance \in Instance /\ cachedServerInstanceId \in Instance \cup {0}
    BY DEF ClientTypeOK
  <2>4. ServerApart(x)'
    BY <1>1, <2>1, <2>2, <2>3 DEF ServerApart, Fits, HasEdits
  <2> QED BY <1>1, <2>1, <2>4 DEF TabApart, IsOpen, Admitted, HasEdits, Fits, FromServer, Baseline
<1>8. Apart'
  BY <1>1, <1>7 DEF Apart
<1> QED BY <1>5, <1>6, <1>8

(* Every step of the tab and of the server.                                *)
LEMMA StepApart ==
  ASSUME PoolTyped, Numbered, Caches, Apart, [PoolNext]_poolVars
  PROVE  (Numbered /\ Caches /\ Apart)'
<1>1. CASE UNCHANGED poolVars
  BY <1>1 DEF poolVars, backend, pool, renewing, gone, Numbered, Typed, Caches, Cached, Unused,
              KnownServer, InClearing, Apart, ServerApart, TabApart, Fits, HasEdits, Admitted,
              FromServer, Baseline, IsOpen
<1>2. CASE \/ ServerStops \/ Reload \/ ClearsSettle
           \/ \E d \in Doc : Disconnect(d) \/ OtherRefusal(d) \/ OpenDoc(d) \/ Close(d) \/ RecycleTimer(d)
  BY <1>2, QuietSteps, QuietKeepsNumbers, QuietKeepsCaches, QuietKeepsApart DEF PoolTyped
<1>3. instance' \in Instance
  BY StepTyped DEF PoolTyped, ClientTypeOK
<1> QED BY <1>1, <1>2, <1>3, KeyInApart, SyncApart, SetExpectedApart, FileStoreApart, DeliverApart,
           ServerStartsApart, FirstRefusalApart, ClearEndsApart DEF PoolNext

(* No paragraph is twice in a document of the server, under the identity   *)
(* that it had before a restart and under the one it got from the file,    *)
(* unless the tab opened the document without naming a server or was never *)
(* told that an edit was saved (handleServerInstanceMismatch).             *)
THEOREM NothingShownTwice == PoolSpec => []NothingTwice
<1> DEFINE Inv == PoolTyped /\ Numbered /\ Caches /\ Apart
<1>1. PoolInit => Inv
  BY InitTyped, InitApart
<1>2. Inv /\ [PoolNext]_poolVars => Inv'
  BY StepTyped, StepApart
<1>3. Inv => NothingTwice
  <2> SUFFICES ASSUME PoolTyped, Apart, ~unclaimed, ~unacked, NEW d \in Doc,
                      NEW one \in remote[d], NEW other \in remote[d], one[1] = other[1]
               PROVE  one = other
    BY DEF NothingTwice
  <2>1. Fits(d, remote[d])
    BY DEF Apart, ServerApart
  <2>2. remote[d] \subseteq Item
    BY DEF PoolTyped, ClientTypeOK
  <2>3. one = <<one[1], one[2]>> /\ other = <<other[1], other[2]>>
    BY <2>2 DEF Item
  <2>4. one[2] = other[2]
    <3>1. CASE one[2] = 0 /\ other[2] # 0
      <4>1. other = <<one[1], instance>>
        BY <2>1, <2>3, <3>1 DEF Fits
      <4> QED BY <2>1, <3>1, <4>1 DEF Fits
    <3>2. CASE one[2] # 0 /\ other[2] = 0
      <4>1. one = <<other[1], instance>>
        BY <2>1, <2>3, <3>2 DEF Fits
      <4> QED BY <2>1, <3>2, <4>1 DEF Fits
    <3>3. CASE one[2] # 0 /\ other[2] # 0
      BY <2>1, <3>3 DEF Fits
    <3> QED BY <3>1, <3>2, <3>3
  <2> QED BY <2>3, <2>4
<1> QED BY <1>1, <1>2, <1>3, PTL DEF PoolSpec
=============================================================================
