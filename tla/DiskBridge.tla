----------------------------- MODULE DiskBridge -----------------------------
(***************************************************************************)
(* The two-way bridge between one open document and its file:              *)
(*   Y.Doc -> disk   the debounced store of persistence.ts;                *)
(*   disk -> Y.Doc   the file watcher of file-watcher.ts, dispatched by    *)
(*                   handleDiskEvent in server-factory.ts.                 *)
(*                                                                         *)
(* A text is a function from its blocks (splitMarkdownBlocks) to the set   *)
(* of paragraphs found there; a paragraph is the number of the write that  *)
(* produced it, so that its author is known for ever.  Conflict markers    *)
(* are the text of one designated block.                                   *)
(***************************************************************************)
EXTENDS Integers, Sequences, FiniteSets

CONSTANTS
  Block,         \* the block positions of the document
  MarkerBlock,   \* the position that holds conflict markers, if it is a Block
  Slot,          \* watcher batches that may be in flight together
  Undefined,     \* no reconciled base
  NoFile,        \* the file does not exist
  Idle,          \* no store in flight
  Free,          \* no event in this slot
  Unread,        \* the event's file has not been read yet
  MaxWrites,     \* bound: edits and foreign writes together
  MaxFailures,   \* bound: failed stores and failed applies
  MaxResets,     \* bound: duplication-tripwire resets
  MaxStops       \* bound: crashes and shutdowns

Content == [Block -> SUBSET Nat]
Empty   == [b \in Block |-> {}]

ASSUME BoundsAssumption ==
  /\ MaxWrites \in Nat /\ MaxFailures \in Nat /\ MaxResets \in Nat /\ MaxStops \in Nat
  /\ IsFiniteSet(Slot)

ASSUME SentinelAssumption ==
  /\ Undefined \notin Content /\ NoFile \notin Content
  /\ Idle \notin Content /\ Unread \notin Content

EventKind == {"create", "update", "delete", "conflict"}
DiskEvent == [kind : EventKind, content : Content \cup {Unread}]
ASSUME FreeAssumption == Free \notin DiskEvent

VARIABLES
  server,      \* "up", "closing" (destroy() is running) or "down"
  disk,        \* the file: its text, or NoFile
  loaded,      \* hocuspocus.documents has the document
  ydoc,        \* Y.Text('source')
  base,        \* reconciledBaseByBranch: the reconciled base, or Undefined
  lifecycle,   \* the status in the document's lifecycle map
  storeTimer,  \* Hocuspocus' debounced onStoreDocument is pending
  inflight,    \* markdown of the store between its snapshot and its rename
  breaker,     \* tripwireResetFailedDocs has the document
  tracker,     \* writeTracker: hashes of our own writes, oldest first
  known,       \* lastKnownHash has the path
  raw,         \* the raw watcher event not yet classified, or "none"
  events,      \* classified events not yet handled, one per batch in flight
  writes,      \* number of texts written so far, by anyone
  failures, resets, stops,
  unsaved,     \* history: paragraphs typed, not on disk, not rescued, not retyped
  foreign,     \* history: another program's write may reach this document
  torn,        \* history: a store landed between a batch's start and its read
  stirred      \* history: somebody typed since the boot, or the document was
               \* opened while the watcher was behind

docVars   == <<loaded, ydoc, base, lifecycle, storeTimer, inflight, breaker>>
watchVars == <<tracker, known, raw, events>>
history   == <<unsaved, foreign, torn, stirred>>
counters  == <<writes, failures, resets, stops>>
vars == <<server, disk, docVars, watchVars, counters, history>>

Paragraphs(text) == UNION {text[b] : b \in Block}
HasMarkers(text) == \E b \in Block : b = MarkerBlock /\ text[b] # {}
DiskText == IF disk = NoFile THEN Empty ELSE disk
Watching == server = "up"

-----------------------------------------------------------------------------
(* reconcile(): the three-way merge of reconciliation.ts, block by block.  *)

(* Mutant of MergeBlock: the file wins a clash.                            *)
MergeBlockTheirs(b, o, t) ==
  IF o = b THEN t ELSE IF t = b THEN o ELSE IF b = {} THEN o \cup t ELSE t

MergeBlock(b, o, t) ==
  IF o = b THEN t
  ELSE IF t = b THEN o
  ELSE IF b = {} THEN o \cup t   \* both inserted: ours, then theirs
  ELSE o                         \* both changed it: ours is kept

Merge(bs, ours, theirs) ==
  [b \in Block |-> MergeBlock(bs[b], ours[b], theirs[b])]

Clashing(bs, ours, theirs) ==
  \E b \in Block : /\ bs[b] # {} /\ ours[b] # theirs[b]
                   /\ ours[b] # bs[b] /\ theirs[b] # bs[b]

Outcome(bs, ours, theirs) ==
  CASE theirs = bs                -> "noop"
    [] theirs # bs /\ ours = bs   -> "clean"
    [] theirs # bs /\ ours # bs   ->
         IF Clashing(bs, ours, theirs) THEN "conflicts" ELSE "merged"

NewContent(bs, ours, theirs) ==
  IF ours = bs THEN theirs ELSE Merge(bs, ours, theirs)

-----------------------------------------------------------------------------
(* The watcher library: events of one path coalesce until they are read.   *)

Coalesce(old, new) ==
  CASE old = "none"                        -> new
    [] old = "create" /\ new = "delete"    -> "none"
    [] old = "create" /\ new # "delete"    -> "create"
    [] old = "delete" /\ new = "create"    -> "update"
    [] old \in {"update", "delete"}
         /\ ~(old = "delete" /\ new = "create") -> new

Notice(kind) == raw' = IF Watching THEN Coalesce(raw, kind) ELSE raw

Unreading(s) == events[s] # Free /\ events[s].content = Unread

Quiet == raw = "none" /\ \A s \in Slot : events[s] = Free

-----------------------------------------------------------------------------
Init ==
  /\ server = "up"
  /\ disk \in {NoFile, Empty}
  /\ loaded = FALSE /\ ydoc = Empty /\ base = Undefined /\ lifecycle = "none"
  /\ storeTimer = FALSE /\ inflight = Idle /\ breaker = FALSE
  /\ tracker = <<>> /\ known = (disk # NoFile)
  /\ raw = "none" /\ events = [s \in Slot |-> Free]
  /\ writes = 0 /\ failures = 0 /\ resets = 0 /\ stops = 0
  /\ unsaved = {} /\ foreign = FALSE /\ torn = FALSE /\ stirred = FALSE

(* Mutant of Load: the base is set before the file is known to exist.      *)
LoadBaseFirst ==
  /\ server = "up" /\ ~loaded
  /\ loaded' = TRUE /\ ydoc' = DiskText /\ base' = disk
  /\ lifecycle' = "none" /\ storeTimer' = FALSE
  /\ unsaved' = {}
  /\ foreign' = ~(Quiet /\ inflight = Idle)
  /\ stirred' = (stirred \/ foreign')
  /\ UNCHANGED <<server, disk, inflight, breaker, watchVars, counters, torn>>

(* onLoadDocument: an absent file leaves an empty document with no base.   *)
Load ==
  /\ server = "up" /\ ~loaded
  /\ loaded' = TRUE
  /\ ydoc' = DiskText
  /\ base' = IF disk = NoFile THEN base ELSE disk
  /\ lifecycle' = "none" /\ storeTimer' = FALSE
  /\ unsaved' = {}
  /\ foreign' = ~(Quiet /\ inflight = Idle)
  /\ stirred' = (stirred \/ foreign')
  /\ UNCHANGED <<server, disk, inflight, breaker, watchVars, counters, torn>>

(* A client types over, or removes, a block: the update schedules a store. *)
UserEdit(b) ==
  /\ server # "down" /\ loaded /\ writes < MaxWrites
  /\ \/ ydoc' = [ydoc EXCEPT ![b] = {writes}] /\ b # MarkerBlock
     \/ ydoc' = [ydoc EXCEPT ![b] = {}] /\ ydoc[b] # {}
  /\ writes' = writes + 1
  /\ storeTimer' = TRUE
  /\ unsaved' = (unsaved \ ydoc[b]) \cup ydoc'[b]
  /\ stirred' = TRUE
  /\ UNCHANGED <<server, disk, loaded, base, lifecycle, inflight, breaker, watchVars,
                 failures, resets, stops, foreign, torn>>

-----------------------------------------------------------------------------
(* storeDocumentNow: the synchronous part runs when the debounce fires;    *)
(* Hocuspocus runs one store of a document at a time.                      *)

StoreDue == server # "down" /\ loaded /\ storeTimer /\ inflight = Idle

NothingToStore ==
  \/ lifecycle # "none"
  \/ base # Undefined /\ ydoc = base
  \/ base = Undefined /\ ydoc = Empty

SkipStore ==
  /\ StoreDue /\ NothingToStore
  /\ storeTimer' = FALSE
  /\ breaker' = (breaker /\ lifecycle = "none")
  /\ UNCHANGED <<server, disk, loaded, ydoc, base, lifecycle, inflight, watchVars,
                 counters, history>>

BeginStore ==
  /\ StoreDue /\ ~NothingToStore
  /\ storeTimer' = FALSE
  /\ inflight' = ydoc
  /\ UNCHANGED <<server, disk, loaded, ydoc, base, lifecycle, breaker, watchVars,
                 counters, history>>

(* classifyDuplication blocked the store: the document is reset to the     *)
(* file (to the base if that cannot be read), or, once a reset failed, left. *)
TripwireStore ==
  /\ StoreDue /\ ~NothingToStore /\ base # Undefined
  /\ storeTimer' = FALSE
  /\ resets < MaxResets /\ resets' = resets + 1
  /\ \/ breaker /\ UNCHANGED <<breaker, ydoc, unsaved>>
     \/ ~breaker /\ breaker' = TRUE /\ UNCHANGED <<ydoc, unsaved>>
     \/ /\ ~breaker /\ breaker' = FALSE
        /\ ydoc' \in {base} \cup ({disk} \ {NoFile})
        /\ unsaved' = unsaved \cap Paragraphs(ydoc')
  /\ UNCHANGED <<server, disk, loaded, base, lifecycle, inflight, watchVars,
                 writes, failures, stops, foreign, torn, stirred>>

(* Mutants of FinishStore: the base moves to the current document, not to  *)
(* the text that was written; the write is not registered; or the pending  *)
(* timer is cancelled with the store that ends.                            *)
StoreLanded ==
  /\ server # "down" /\ inflight # Idle
  /\ disk' = inflight /\ inflight' = Idle /\ breaker' = FALSE
  /\ Notice(IF disk = NoFile THEN "create" ELSE "update")
  /\ unsaved' = unsaved \ Paragraphs(inflight)
  /\ torn' = (torn \/ \E s \in Slot : Unreading(s))
  /\ UNCHANGED <<server, loaded, ydoc, lifecycle, known, events, counters, foreign, stirred>>

FinishStoreCurrentBase ==
  StoreLanded /\ tracker' = Append(tracker, inflight) /\ base' = ydoc
              /\ UNCHANGED storeTimer

FinishStoreUnregistered ==
  StoreLanded /\ base' = inflight /\ UNCHANGED <<tracker, storeTimer>>

FinishStoreDropsTimer ==
  StoreLanded /\ tracker' = Append(tracker, inflight) /\ base' = inflight
              /\ storeTimer' = FALSE

(* The rename lands; its continuation registers the write and moves the    *)
(* base in one turn of the event loop.                                     *)
FinishStore ==
  /\ server # "down" /\ inflight # Idle
  /\ disk' = inflight
  /\ tracker' = Append(tracker, inflight)
  /\ base' = inflight
  /\ breaker' = FALSE
  /\ inflight' = Idle
  /\ Notice(IF disk = NoFile THEN "create" ELSE "update")
  /\ unsaved' = unsaved \ Paragraphs(inflight)
  /\ torn' = (torn \/ \E s \in Slot : Unreading(s))
  /\ UNCHANGED <<server, loaded, ydoc, lifecycle, storeTimer, known, events, counters,
                 foreign, stirred>>

(* mkdir, realpath, write or rename threw: nothing retries the store.      *)
FailStore ==
  /\ server # "down" /\ inflight # Idle
  /\ failures < MaxFailures /\ failures' = failures + 1
  /\ inflight' = Idle
  /\ UNCHANGED <<server, disk, loaded, ydoc, base, lifecycle, storeTimer, breaker,
                 watchVars, writes, resets, stops, history>>

-----------------------------------------------------------------------------
(* The rest of the world: other programs, and the end of the process.      *)

ForeignTexts ==
  {[DiskText EXCEPT ![b] = {writes}] : b \in Block}   \* edits a block
    \cup {[DiskText EXCEPT ![b] = {}] : b \in Block}  \* removes a block
    \cup {tracker[i] : i \in 1 .. Len(tracker)}       \* restores a text of ours

ForeignWrite ==
  /\ writes < MaxWrites /\ writes' = writes + 1
  /\ disk' \in ForeignTexts
  /\ Notice(IF disk = NoFile THEN "create" ELSE "update")
  /\ foreign' = TRUE
  /\ UNCHANGED <<server, docVars, tracker, known, events, failures, resets, stops,
                 unsaved, torn, stirred>>

ForeignDelete ==
  /\ disk # NoFile
  /\ writes < MaxWrites /\ writes' = writes + 1
  /\ disk' = NoFile
  /\ Notice("delete")
  /\ foreign' = TRUE
  /\ UNCHANGED <<server, docVars, tracker, known, events, failures, resets, stops,
                 unsaved, torn, stirred>>

(* Nothing the process holds survives it.                                  *)
ProcessGone ==
  /\ server' = "down"
  /\ loaded' = FALSE /\ ydoc' = Empty /\ base' = Undefined /\ lifecycle' = "none"
  /\ storeTimer' = FALSE /\ inflight' = Idle /\ breaker' = FALSE
  /\ tracker' = <<>> /\ known' = FALSE
  /\ raw' = "none" /\ events' = [s \in Slot |-> Free]
  /\ UNCHANGED <<disk, writes, failures, resets, foreign, torn, stirred>>

Crash ==
  /\ server # "down"
  /\ stops < MaxStops /\ stops' = stops + 1
  /\ unsaved' = {}
  /\ ProcessGone

(* destroy(): the watcher goes first and forgets what it tracked, ...      *)
BeginShutdown ==
  /\ server = "up"
  /\ stops < MaxStops /\ stops' = stops + 1
  /\ server' = "closing"
  /\ tracker' = <<>> /\ known' = FALSE /\ raw' = "none"
  /\ UNCHANGED <<disk, docVars, events, writes, failures, resets, history>>

(* ... then pending stores are run and waited for, and the process ends.   *)
FinishShutdown ==
  /\ server = "closing"
  /\ ~storeTimer /\ inflight = Idle
  /\ UNCHANGED <<stops, unsaved>>
  /\ ProcessGone

(* The wait timed out: what is still loaded goes to the rescue buffer,     *)
(* when there is one.                                                      *)
TimeoutShutdown ==
  /\ server = "closing" /\ loaded
  /\ unsaved' \in {unsaved, unsaved \ Paragraphs(ydoc)}
  /\ UNCHANGED stops
  /\ ProcessGone

Boot ==
  /\ server = "down"
  /\ server' = "up"
  /\ known' = (disk # NoFile)
  /\ unsaved' = {} /\ foreign' = FALSE /\ torn' = FALSE /\ stirred' = FALSE
  /\ UNCHANGED <<disk, docVars, tracker, raw, events, counters>>

-----------------------------------------------------------------------------
(* classifyEvents, up to its await: the watcher's callback starts a batch. *)
Deliver(s) ==
  /\ Watching /\ raw # "none" /\ events[s] = Free
  /\ raw' = "none"
  /\ events' = [events EXCEPT ![s] =
       IF raw = "delete" THEN [kind |-> "delete", content |-> Empty]
       ELSE [kind |-> IF known THEN "update" ELSE raw, content |-> Unread]]
  /\ known' = (known /\ raw # "delete")
  /\ UNCHANGED <<server, disk, docVars, tracker, counters, history>>

(* ... and after it: the file is read, if it is still there.  The batch is *)
(* handled later, and another batch may overtake it.                       *)
KindOf(kind, text) == IF HasMarkers(text) THEN "conflict" ELSE kind

Read(s) ==
  /\ server # "down" /\ Unreading(s)
  /\ IF disk = NoFile
       THEN events' = [events EXCEPT ![s] = Free] /\ UNCHANGED known
       ELSE /\ events' = [events EXCEPT ![s] =
                  [kind |-> KindOf(events[s].kind, disk), content |-> disk]]
            /\ known' = TRUE
  /\ UNCHANGED <<server, disk, docVars, tracker, raw, counters, history>>

FirstMatch(hash) ==
  CHOOSE i \in 1 .. Len(tracker) :
    tracker[i] = hash /\ \A j \in 1 .. i - 1 : tracker[j] # hash

Without(seq, k) ==
  [i \in 1 .. Len(seq) - 1 |-> IF i < k THEN seq[i] ELSE seq[i + 1]]

IsSelfWrite(e) ==
  e.kind # "delete" /\ \E i \in 1 .. Len(tracker) : tracker[i] = e.content

Arrived(s) ==
  server # "down" /\ events[s] # Free /\ ~Unreading(s)
Done(s)    == events' = [events EXCEPT ![s] = Free]

(* The event is an echo of one of our own stores: one hash is used up.     *)
DropSelfWrite(s) ==
  /\ Arrived(s) /\ IsSelfWrite(events[s])
  /\ tracker' = Without(tracker, FirstMatch(events[s].content))
  /\ Done(s)
  /\ UNCHANGED <<server, disk, docVars, known, raw, counters, history>>

Dispatched(s, kind) ==
  /\ Arrived(s) /\ ~IsSelfWrite(events[s]) /\ events[s].kind = kind
  /\ Done(s)
  /\ UNCHANGED <<server, disk, tracker, known, raw, writes, resets, stops, foreign, torn, stirred>>

(* Indices only: a create, or anything about a document nobody has open.   *)
IgnoreEvent(s) ==
  /\ \/ Dispatched(s, "create")
     \/ ~loaded /\ \E k \in EventKind \ {"create"} : Dispatched(s, k)
  /\ UNCHANGED <<docVars, failures, unsaved>>

BaseText == IF base = Undefined THEN Empty ELSE base
(* Mutant of Resolved: the conflict status is never cleared.               *)
NeverResolved == lifecycle

Resolved == IF lifecycle = "conflict" THEN "none" ELSE lifecycle

HandleUpdate(s) ==
  LET theirs == events[s].content
      kind   == Outcome(BaseText, ydoc, theirs)
      new    == NewContent(BaseText, ydoc, theirs)
  IN /\ loaded /\ Dispatched(s, "update")
     /\ lifecycle' = IF kind = "conflicts" THEN lifecycle ELSE Resolved
     /\ IF kind = "noop"
          THEN UNCHANGED <<ydoc, base, failures>>
          ELSE \/ ydoc' = new /\ base' = new /\ UNCHANGED failures
               \/ /\ failures < MaxFailures /\ failures' = failures + 1
                  /\ ydoc' \in {ydoc, new}       \* applyToDoc threw part way
                  /\ base' = theirs
     /\ UNCHANGED <<loaded, storeTimer, inflight, breaker, unsaved>>

(* Larger than MAX_LCS_CELLS: refused, the document is put in conflict.    *)
(* (A text with markers is refused too, but Read makes it a "conflict".)   *)
RefuseUpdate(s) ==
  /\ loaded /\ Dispatched(s, "update")
  /\ Outcome(BaseText, ydoc, events[s].content) \in {"merged", "conflicts"}
  /\ failures < MaxFailures /\ failures' = failures + 1
  /\ lifecycle' = "conflict"
  /\ UNCHANGED <<loaded, ydoc, base, storeTimer, inflight, breaker, unsaved>>

(* A draft that differs from the base is checkpointed; then the document   *)
(* is closed, its last store being refused, and forgotten.                 *)
HandleDelete(s) ==
  /\ loaded /\ Dispatched(s, "delete")
  /\ unsaved' = IF ydoc # BaseText THEN {} ELSE unsaved
  /\ loaded' = FALSE /\ ydoc' = Empty /\ base' = Undefined /\ lifecycle' = "none"
  /\ breaker' = (breaker /\ ~storeTimer)
  /\ storeTimer' = FALSE
  /\ UNCHANGED <<inflight, failures>>

HandleConflict(s) ==
  /\ loaded /\ Dispatched(s, "conflict")
  /\ base' = ydoc
  /\ lifecycle' = "conflict"
  /\ UNCHANGED <<loaded, ydoc, storeTimer, inflight, breaker, failures, unsaved>>

(* Entries outlive every event of the write they stand for: the watcher    *)
(* answers within WRITE_TRACKER_TTL_MS.                                    *)
EvictStale ==
  /\ Watching /\ tracker # <<>> /\ Quiet
  /\ tracker' = Tail(tracker)
  /\ UNCHANGED <<server, disk, docVars, known, raw, events, counters, history>>

-----------------------------------------------------------------------------
HandleEvent(s) ==
  \/ DropSelfWrite(s) \/ IgnoreEvent(s)
  \/ HandleUpdate(s) \/ RefuseUpdate(s) \/ HandleDelete(s) \/ HandleConflict(s)

Store == SkipStore \/ BeginStore \/ TripwireStore \/ FinishStore \/ FailStore

World ==
  \/ ForeignWrite \/ ForeignDelete
  \/ Crash \/ BeginShutdown \/ FinishShutdown \/ TimeoutShutdown \/ Boot

Next ==
  \/ Load \/ (\E b \in Block : UserEdit(b))
  \/ Store
  \/ (\E s \in Slot : Deliver(s) \/ Read(s) \/ HandleEvent(s)) \/ EvictStale
  \/ World

Spec == Init /\ [][Next]_vars

-----------------------------------------------------------------------------
(* Properties.                                                             *)

(* Every variable holds a value the program's types allow. *)
TypeOK ==
  /\ server \in {"up", "closing", "down"}
  /\ disk \in Content \cup {NoFile}
  /\ loaded \in BOOLEAN /\ storeTimer \in BOOLEAN /\ breaker \in BOOLEAN
  /\ ydoc \in Content
  /\ base \in Content \cup {Undefined}
  /\ lifecycle \in {"none", "conflict"}
  /\ inflight \in Content \cup {Idle}
  /\ tracker \in Seq(Content)
  /\ known \in BOOLEAN
  /\ raw \in {"none", "create", "update", "delete"}
  /\ events \in [Slot -> DiskEvent \cup {Free}]
  /\ writes \in Nat /\ failures \in Nat /\ resets \in Nat /\ stops \in Nat
  /\ unsaved \subseteq Nat
  /\ foreign \in BOOLEAN /\ torn \in BOOLEAN /\ stirred \in BOOLEAN

(* Nobody but this server wrote the file since the document was loaded,    *)
(* and no store failed or was refused by the tripwire.                     *)
OnlyOurs == ~foreign /\ failures = 0 /\ resets = 0

(* Nor did a store land between the start of a watcher batch and its read. *)
Undisturbed == OnlyOurs /\ ~torn

(* No edit is stranded: a document whose text differs from its file has a  *)
(* store pending or in flight (persistence.ts storeDocumentNow: the skips  *)
(* never drop a text that is not on disk yet).                             *)
EditsReachDisk ==
  Undisturbed /\ server = "up" /\ loaded /\ ydoc # DiskText
    => storeTimer \/ inflight # Idle

(* A store is never echoed back: whatever the watcher reports of our own   *)
(* renames, coalesced or late, leaves document, base and status alone      *)
(* (writeTracker, isSelfWrite and the noop outcome together).              *)
NoEcho ==
  [][Undisturbed /\ server = "up" /\ (\E s \in Slot : HandleEvent(s))
       => UNCHANGED <<ydoc, base, lifecycle>>]_vars

(* Reconciling an external change never takes away a block in which the    *)
(* document differs from the base: the client's own text wins a clash and  *)
(* survives every merge, an apply that throws included.                    *)
UnsavedSurvivesReconcile ==
  [][\A s \in Slot : HandleUpdate(s) =>
       \A b \in Block : ydoc[b] # BaseText[b] => ydoc[b] \subseteq ydoc'[b]]_vars

(* With one batch at a time, a document nobody types in shows its file     *)
(* once the watcher has caught up, and is flagged "conflict" only while    *)
(* the file holds conflict markers.                                        *)
IdleDocShowsDisk ==
  server = "up" /\ loaded /\ ~stirred /\ failures = 0 /\ Quiet /\ base # Undefined
    => IF lifecycle = "conflict" THEN HasMarkers(DiskText) ELSE ydoc = DiskText

(* Fairness: timers fire and file operations end (destroy() relies on it). *)
Fairness ==
  /\ WF_vars(SkipStore \/ BeginStore)
  /\ WF_vars(FinishStore)

FairSpec == Spec /\ Fairness

(* What a client types reaches the file, unless somebody disturbs the      *)
(* document or stops the server first (the debounced store of              *)
(* persistence.ts gets there, whatever is typed while one is in flight).   *)
TypedTextLands ==
  (Undisturbed /\ server = "up" /\ unsaved # {})
    ~> (unsaved = {} \/ ~Undisturbed \/ server # "up")

(* service-topology.mdx:85: destroy() guarantees that all pending writes   *)
(* reach disk before the process exits.                                    *)
ShutdownDrains ==
  [][FinishShutdown /\ failures = 0 /\ resets = 0 /\ lifecycle = "none"
       => unsaved = {}]_vars
=============================================================================
