---------------------------- MODULE ProviderPool ----------------------------
(***************************************************************************)
(* provider-pool.ts: the documents that one browser tab has open, and what *)
(* it does when the server restarts.  A server that starts again rebuilds  *)
(* its documents from the files, so the same paragraph then has another    *)
(* identity, and merging what a tab still holds would show it twice.       *)
(* Therefore a tab names the server it knows when it connects, a server    *)
(* with another name refuses it, and the tab sets aside what it had not    *)
(* seen saved, clears its local cache, reconnects and replays that.        *)
(*                                                                         *)
(* A document is the set of its items: an edit, and who gave the item its  *)
(* identity, a client (0) or the server that loaded the file.  There is    *)
(* one tab, on one branch; documents are neither renamed nor deleted,      *)
(* nothing exceeds MAX_BUFFER_BYTES, and a restart is dealt with before    *)
(* another one is noticed.  Yjs, IndexedDB and the provider are taken for  *)
(* what the code expects of them.                                          *)
(***************************************************************************)
EXTENDS Naturals

CONSTANTS
  Doc,
  Missing,          \* no entry, no active document, no recovery under way, no vector
  MaxKeystrokes,    \* bound: edits typed
  MaxTroubles       \* bound: restarts of the server, connections lost, caches that cannot be
                    \* cleared, pages loaded again and documents closed

Instance == 1 .. MaxTroubles + 1     \* server instance ids; 0 is null
Item   == (0 .. MaxKeystrokes) \X (Instance \cup {0})
Vector == {Missing} \cup SUBSET Item

(* serverInstanceId of an entry is the one in its token.                   *)
Entry == [claim : Instance \cup {0}, text : SUBSET Item,
          persistence : Instance \cup {0}, bound : BOOLEAN,
          synced : Vector, acked : Vector,
          status : {"connecting", "synced", "refused"},
          recycle : BOOLEAN, replay : BOOLEAN]

(* What handleServerInstanceMismatch waits for, and what came of it.       *)
Clearing == [waits : SUBSET Doc, cleared : SUBSET Doc, failed : SUBSET Doc,
             shown : Doc \cup {Missing}, ids : [Doc -> Instance \cup {0}]]

Recovery == [kind : {"idle", "clearing", "reconnecting", "failed"},
             docs : SUBSET Doc, failed : SUBSET Doc]

ASSUME PoolAssumption ==
  /\ MaxKeystrokes \in Nat /\ MaxTroubles \in Nat
  /\ Missing \notin Doc /\ Missing \notin Entry /\ Missing \notin Clearing
  /\ \A items \in SUBSET Item : items # Missing

VARIABLES
  instance, serving,  \* the server: its id, whether it runs
  filed,              \* the edits in each file
  remote,             \* its documents
  cachedServerInstanceId,          \* the server the tab knows
  entries, active,    \* the pool; activeDocName
  cache,              \* IndexedDB, one for each document and server
  buffered,           \* bufferedUpdates
  recovery,           \* serverRestartRecoveryState
  clearing,           \* the caches being cleared (mismatchInFlight)
  keys, troubles,
  unclaimed,          \* history: a restart met a document that names no server
  unacked,            \* history: what was saved was set aside, as nobody had said so
  ignored             \* history: a refusal was ignored, as the tab knew the new server

backend  == <<instance, serving, filed, remote>>
pool     == <<entries, active, cache, buffered>>
renewing == <<recovery, clearing, cachedServerInstanceId>>
gone     == <<unclaimed, unacked, ignored>>
poolVars == <<backend, pool, renewing, keys, troubles, gone>>

Idle == [kind |-> "idle", docs |-> {}, failed |-> {}]
IsOpen(d)  == entries[d] # Missing
OpenDocs   == {d \in Doc : IsOpen(d)}
HasAll(d) == entries[d].text \subseteq remote[d]
HasSynced(e) == e.synced # Missing
(* What the tab was told that a server has.                                *)
Baseline(e) == IF e.acked # Missing THEN e.acked ELSE e.synced
Panel(d) == d \in recovery.docs     \* a notice instead of the editor
EditsOf(items) == {item[1] : item \in items}
Union(v, items) == IF v = Missing THEN items ELSE v \cup items

ClientTypeOK ==
  /\ instance \in Instance /\ serving \in BOOLEAN
  /\ filed \in [Doc -> SUBSET (0 .. MaxKeystrokes)]
  /\ remote \in [Doc -> SUBSET Item]
  /\ cachedServerInstanceId \in Instance \cup {0}
  /\ entries \in [Doc -> {Missing} \cup Entry]
  /\ active \in OpenDocs \cup {Missing}
  /\ cache \in [Doc -> [Instance -> SUBSET Item]]
  /\ buffered \in [Doc -> Vector]
  /\ recovery \in Recovery /\ clearing \in {Missing} \cup Clearing
  /\ recovery.kind = "reconnecting" => \E d \in Doc : recovery.docs = {d}
  /\ keys \in 0 .. MaxKeystrokes /\ troubles \in 0 .. MaxTroubles
  /\ \A d \in OpenDocs : entries[d].bound => entries[d].persistence # 0
  /\ unclaimed \in BOOLEAN /\ unacked \in BOOLEAN /\ ignored \in BOOLEAN

PoolInit ==
  /\ instance = 1 /\ serving = TRUE
  /\ filed = [d \in Doc |-> {0}] /\ remote = [d \in Doc |-> {<<0, 1>>}]
  /\ cachedServerInstanceId = 0
  /\ entries = [d \in Doc |-> Missing] /\ active = Missing
  /\ cache = [d \in Doc |-> [i \in Instance |-> {}]]
  /\ buffered = [d \in Doc |-> Missing]
  /\ recovery = Idle /\ clearing = Missing
  /\ keys = 0 /\ troubles = 0
  /\ unclaimed = FALSE /\ unacked = FALSE /\ ignored = FALSE

(* What was typed here and is in a file.                                   *)
SavedIn(items, edits) ==
  IF items = Missing THEN {} ELSE {item \in items : item[2] = 0 /\ item[1] \in edits}

(* A cache that is bound to a document takes everything that comes to it.  *)
Shows(next) ==
  /\ entries' = next
  /\ cache' = [d \in Doc |->
       IF next[d] # Missing /\ next[d].bound
       THEN [cache[d] EXCEPT ![next[d].persistence] = next[d].text] ELSE cache[d]]

Trouble == troubles < MaxTroubles /\ troubles' = troubles + 1

-----------------------------------------------------------------------------
(* The server.                                                             *)

(* The token names this server, or none (onAuthenticate).                  *)
AcceptsAll(claim) == TRUE      \* mutant of Accepts
Accepts(claim) == claim = 0 \/ claim = instance

(* A store, which is announced (onDiskFlush, emitDiskAck, observeDiskAck)  *)
(* to the tabs that are connected at that moment.                          *)
FileStore(d) ==
  /\ serving /\ ~(EditsOf(remote[d]) \subseteq filed[d])
  /\ filed' = [filed EXCEPT ![d] = @ \cup EditsOf(remote[d])]
  /\ unacked' = (unacked \/ SavedIn(buffered[d], filed'[d]) # {})
  /\ \/ UNCHANGED entries
     \/ IsOpen(d) /\ entries' = [entries EXCEPT ![d].acked = Union(@, remote[d])]
  /\ UNCHANGED <<instance, serving, remote, active, cache, buffered, renewing, keys,
                 troubles, unclaimed, ignored>>

(* onDisconnect: a document of which the server has everything             *)
(* (unsyncedChanges is 0) is to be reopened after a while.                 *)
CutOff(d) ==
  [entries[d] EXCEPT !.status = "connecting",
                     !.recycle = @ \/ (entries[d].status = "synced" /\ HasAll(d))]

Disconnect(d) ==
  /\ IsOpen(d) /\ entries[d].status # "connecting"
  /\ Trouble
  /\ Shows([entries EXCEPT ![d] = CutOff(d)])
  /\ UNCHANGED <<backend, active, buffered, renewing, keys, gone>>

ServerStops ==
  /\ serving /\ Trouble
  /\ serving' = FALSE
  /\ Shows([d \in Doc |-> IF IsOpen(d) THEN CutOff(d) ELSE Missing])
  /\ UNCHANGED <<instance, filed, remote, active, buffered, renewing, keys, gone>>

(* It starts under another name and loads the files.  A document that names*)
(* no server is not refused, whatever it holds or was told of the last one.*)
Holds(e) == e.text # {} \/ Baseline(e) # Missing

ServerStarts ==
  /\ ~serving
  /\ serving' = TRUE /\ instance' = instance + 1
  /\ remote' = [d \in Doc |-> filed[d] \X {instance'}]
  /\ unclaimed' = (unclaimed \/ \E d \in OpenDocs : entries[d].claim = 0 /\ Holds(entries[d]))
  /\ UNCHANGED <<filed, pool, renewing, keys, troubles, unacked, ignored>>

-----------------------------------------------------------------------------
(* The tab learns which server it is: /api/server-info and CC1.            *)

(* attachDeferredPersistence                                               *)
Attached(e, content, id) ==
  IF e.persistence = 0
  THEN [e EXCEPT !.persistence = id, !.bound = TRUE, !.text = @ \cup content]
  ELSE e

(* The reply to /api/server-info also says what this server has saved of   *)
(* each document (observeDiskAckBatch); a message of CC1 does not.         *)
Acked(e, items, edits) ==
  IF SavedIn(items, edits) = {} THEN e
  ELSE [e EXCEPT !.acked = Union(@, {item \in items : item[1] \in edits})]

SetExpectedServerInstanceId ==
  /\ serving /\ cachedServerInstanceId' = instance
  /\ \E asked \in BOOLEAN :
       Shows([d \in Doc |->
         LET e == Attached(entries[d], cache[d][instance], instance)
         IN IF ~IsOpen(d) THEN Missing
            ELSE IF asked THEN Acked(e, remote[d], filed[d]) ELSE e])
  /\ UNCHANGED <<backend, active, buffered, recovery, clearing, keys, troubles, gone>>

-----------------------------------------------------------------------------
(* Opening and closing documents.                                          *)

(* A new provider, its token and its cache; a replay, if there is a buffer.*)
NewEntry(d) ==
  LET id == cachedServerInstanceId
  IN [claim |-> id, text |-> IF id = 0 THEN {} ELSE cache[d][id],
      persistence |-> id, bound |-> id # 0,
      synced |-> Missing, acked |-> Missing,
      status |-> "connecting", recycle |-> FALSE, replay |-> buffered[d] # Missing]

(* A click on a document, or only the mouse over it (prewarm).             *)
OpenDoc(d) ==
  /\ \/ active' = d /\ active # d
     \/ ~IsOpen(d) /\ UNCHANGED active
  /\ Shows(IF IsOpen(d) THEN entries ELSE [entries EXCEPT ![d] = NewEntry(d)])
  /\ UNCHANGED <<backend, buffered, renewing, keys, troubles, gone>>

(* By the user, or for lack of room (evictLru).                            *)
CloseEntryOnly(d) ==      \* mutant of Close: the document stays active
  /\ IsOpen(d) /\ Trouble
  /\ Shows([entries EXCEPT ![d] = Missing])
  /\ buffered' = [buffered EXCEPT ![d] = Missing]
  /\ UNCHANGED <<backend, active, renewing, keys, gone>>

Close(d) ==
  /\ IsOpen(d) /\ Trouble
  /\ Shows([entries EXCEPT ![d] = Missing])
  /\ buffered' = [buffered EXCEPT ![d] = Missing]
  /\ active' = IF active = d THEN Missing ELSE active
  /\ UNCHANGED <<backend, renewing, keys, gone>>

(* recycleDisconnectedEntry: only the active document is opened again.     *)
Recycled(d) == IF active = d THEN NewEntry(d) ELSE Missing

RecycleTimer(d) ==
  /\ IsOpen(d) /\ entries[d].recycle
  /\ Shows([entries EXCEPT ![d] = Recycled(d)])
  /\ UNCHANGED <<backend, active, buffered, renewing, keys, troubles, gone>>

(* The page is loaded again: nothing but the caches is left.               *)
Reload ==
  /\ Trouble
  /\ entries' = [d \in Doc |-> Missing] /\ active' = Missing
  /\ buffered' = [d \in Doc |-> Missing]
  /\ recovery' = Idle /\ clearing' = Missing
  /\ cachedServerInstanceId' = 0
  /\ UNCHANGED <<backend, cache, keys, gone>>

(* Somebody types in the document that is shown.                           *)
KeyIn ==
  /\ active # Missing /\ ~Panel(active) /\ entries[active].text # {}
  /\ keys < MaxKeystrokes /\ keys' = keys + 1
  /\ Shows([entries EXCEPT ![active].text = @ \cup {<<keys', 0>>}])
  /\ UNCHANGED <<backend, active, buffered, renewing, troubles, gone>>

-----------------------------------------------------------------------------
(* Connecting.                                                             *)

(* Mutant of MarkSynced: with a failure, the notice stays.                 *)
MarkSyncedUnlessFailed(d) ==
  IF recovery.kind # "reconnecting" \/ d \notin recovery.docs \/ recovery.failed # {}
  THEN recovery ELSE Idle

(* markServerRestartRecoverySynced: there is at most one such document.    *)
MarkSynced(d) ==
  IF recovery.kind # "reconnecting" \/ d \notin recovery.docs THEN recovery
  ELSE IF recovery.failed = {} THEN Idle
  ELSE [kind |-> "failed", docs |-> recovery.failed, failed |-> recovery.failed]

(* onSynced, with replayOnce after it.                                     *)
Sync(d) ==
  LET e    == entries[d]
      both == e.text \cup remote[d]
      text == IF e.replay /\ buffered[d] # Missing THEN both \cup buffered[d] ELSE both
  IN /\ serving /\ IsOpen(d) /\ e.status = "connecting" /\ Accepts(e.claim)
     /\ Shows([entries EXCEPT ![d] =
          [e EXCEPT !.text = text, !.synced = both, !.status = "synced",
                    !.recycle = FALSE, !.replay = FALSE]])
     /\ buffered' = [buffered EXCEPT ![d] = IF e.replay THEN Missing ELSE @]
     /\ recovery' = MarkSynced(d)
     /\ UNCHANGED <<backend, active, clearing, cachedServerInstanceId, keys,
                    troubles, gone>>

(* The server has what the tab sent.                                       *)
Deliver(d) ==
  /\ serving /\ IsOpen(d) /\ entries[d].status = "synced" /\ ~HasAll(d)
  /\ remote' = [remote EXCEPT ![d] = @ \cup entries[d].text]
  /\ UNCHANGED <<instance, serving, filed, pool, renewing, keys,
                 troubles, gone>>

(* handleServerInstanceMismatch.  An update that holds nothing is not empty*)
(* (byteLength > 0) and replaces what was buffered before.                 *)
SetAsideAll(d) ==      \* mutant of SetAside: without a baseline, everything
  LET e == entries[d]
  IN IF ~IsOpen(d) THEN buffered[d]
     ELSE IF Baseline(e) = Missing THEN e.text ELSE e.text \ Baseline(e)

SetAside(d) ==
  IF IsOpen(d) /\ Baseline(entries[d]) # Missing
  THEN entries[d].text \ Baseline(entries[d]) ELSE buffered[d]

(* onAuthenticationFailed: the first refusal, of a document that names the *)
(* server that the tab knows,                                              *)
FirstRefusal(d) ==
  LET cached == {x \in OpenDocs : entries[x].persistence # 0}
  IN /\ serving /\ IsOpen(d) /\ entries[d].status = "connecting" /\ ~Accepts(entries[d].claim)
     /\ entries[d].claim = cachedServerInstanceId /\ clearing = Missing
     /\ cachedServerInstanceId' = 0
     /\ buffered' = [x \in Doc |-> SetAside(x)]
     /\ unacked' = (unacked \/ \E x \in OpenDocs : SavedIn(buffered'[x], filed[x]) # {})
     /\ clearing' = [waits |-> cached, cleared |-> {}, failed |-> {}, shown |-> active,
                     ids |-> [x \in Doc |-> IF x \in cached THEN entries[x].persistence ELSE 0]]
     /\ recovery' = [kind |-> "clearing", docs |-> {active} \ {Missing}, failed |-> {}]
     /\ Shows([x \in Doc |->
          IF ~IsOpen(x) THEN Missing
          ELSE [entries[x] EXCEPT !.bound = FALSE, !.status = IF x = d THEN "refused" ELSE @]])
     /\ UNCHANGED <<backend, active, keys, troubles, unclaimed, ignored>>

(* and any other, which that one takes care of, or a newer name does not.  *)
OtherRefusal(d) ==
  /\ serving /\ IsOpen(d) /\ entries[d].status = "connecting" /\ ~Accepts(entries[d].claim)
  /\ entries[d].claim # cachedServerInstanceId
  /\ Shows([entries EXCEPT ![d].status = "refused"])
  /\ ignored' = (ignored \/ cachedServerInstanceId # 0)
  /\ UNCHANGED <<backend, active, buffered, renewing, keys, troubles, unclaimed,
                 unacked>>

(* clearData has ended for one document, or has not within its time.       *)
ClearEnds(d) ==
  /\ clearing # Missing /\ d \in clearing.waits
  /\ \/ /\ clearing' = [clearing EXCEPT !.waits = @ \ {d}, !.cleared = @ \cup {d}]
        /\ cache' = [cache EXCEPT ![d][clearing.ids[d]] = {}]
        /\ UNCHANGED troubles
     \/ /\ Trouble
        /\ clearing' = [clearing EXCEPT !.waits = @ \ {d}, !.failed = @ \cup {d}]
        /\ UNCHANGED cache
  /\ UNCHANGED <<backend, entries, active, buffered, recovery, cachedServerInstanceId,
                 keys, gone>>

(* All have: enterServerRestartReconnect, and every document that could be *)
(* cleared is opened anew, or closed.                                      *)
Reconnecting(docs, failed) ==
  IF docs # {} THEN [kind |-> "reconnecting", docs |-> docs, failed |-> failed]
  ELSE IF failed = {} THEN Idle
  ELSE [kind |-> "failed", docs |-> failed, failed |-> failed]

RenewedActive(d) == d \in clearing.cleared /\ d = clearing.shown   \* mutant of Renewed
Renewed(d) == clearing.failed = {} \/ d \in clearing.cleared

ClearsSettle ==
  /\ clearing # Missing /\ clearing.waits = {}
  /\ recovery' = Reconnecting(clearing.cleared \cap {clearing.shown}, clearing.failed)
  /\ Shows([d \in Doc |->
       IF IsOpen(d) /\ Renewed(d) THEN Recycled(d) ELSE entries[d]])
  /\ clearing' = Missing
  /\ UNCHANGED <<backend, active, buffered, cachedServerInstanceId, keys, troubles,
                 gone>>

PoolNext ==
  \/ ServerStops \/ ServerStarts \/ SetExpectedServerInstanceId
  \/ Reload \/ KeyIn \/ ClearsSettle
  \/ \E d \in Doc :
       \/ FileStore(d) \/ Disconnect(d)
       \/ OpenDoc(d) \/ Close(d) \/ RecycleTimer(d)
       \/ Sync(d) \/ Deliver(d) \/ FirstRefusal(d) \/ OtherRefusal(d) \/ ClearEnds(d)

PoolSpec == PoolInit /\ [][PoolNext]_poolVars

-----------------------------------------------------------------------------
(* Properties *)

(* No paragraph is twice in a document of the server, under the identity   *)
(* it had before a restart and under the one it got there, unless the tab  *)
(* had opened the document without naming a server, or was never told that *)
(* an edit was saved (onAuthenticate, provider-pool.ts).                   *)
NothingTwice ==
  \A d \in Doc : \A one, other \in remote[d] :
    one[1] = other[1] => one = other \/ unclaimed \/ unacked

(* A document that was refused is being dealt with, or is shown as failed, *)
(* unless the tab knew the new server before the refusal came.             *)
RefusedIsRecovered ==
  \A d \in OpenDocs : entries[d].status = "refused" =>
    clearing # Missing \/ d \in recovery.failed \/ ignored

(* The notice that a document is reconnecting is shown only while there is *)
(* something to come that takes it away (getServerRestartRecoveryView).    *)
PanelGoesAway ==
  \A d \in OpenDocs \cap recovery.docs :
    /\ recovery.kind = "clearing" => clearing # Missing
    /\ recovery.kind = "reconnecting" => entries[d].status # "synced"

(* Edits set aside at a restart are replayed in the end: they stay in the  *)
(* buffer until they are in the document, whatever happens meanwhile, save *)
(* that the document is closed or the page loaded again, or that a second  *)
(* restart meets a document told of a save before it was ever synced.      *)
BufferedIsKept ==
  [][\A d \in Doc : buffered[d] # Missing =>
       \/ buffered'[d] # Missing /\ buffered[d] \subseteq buffered'[d]
       \/ entries'[d] # Missing /\ buffered[d] \subseteq entries'[d].text
       \/ Close(d) \/ Reload
       \/ IsOpen(d) /\ ~HasSynced(entries[d]) /\ entries[d].acked # Missing]_poolVars
=============================================================================
