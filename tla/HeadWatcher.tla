----------------------------- MODULE HeadWatcher -----------------------------
(***************************************************************************)
(* head-watcher.ts: turns file events under .git into batches.  The first  *)
(* event of a batch calls onBatchBegin; a quiet window, or a timeout, ends *)
(* it and calls onBatchEnd with what HEAD then says.  Both callbacks are   *)
(* awaited while more events arrive: each call under way holds a Call.     *)
(* What the callbacks do is in BatchGate.                                  *)
(***************************************************************************)
CONSTANTS
  Branch,       \* what HEAD may name: branches and detached commits
  Detached,     \* those that are a commit ("detached-<sha>")
  Call,         \* callbacks that may be under way together
  None,         \* no call, no branch
  Free          \* this Call is not in use

ASSUME DetachedAssumption == Detached \subseteq Branch
ASSUME NoneAssumption == None \notin Branch /\ None \notin Call /\ Free \notin
  [stage : {"begin", "waiting", "end"}, awaits : Call \cup {None},
   old : Branch \cup {None}, new : Branch \cup {None}]

VARIABLES
  head,           \* .git/HEAD
  signal,         \* a watched file changed and the subscription was not yet called
  inBatch,
  beginInFlight,  \* the call of the pending onBatchBegin, or None
  quiet, timer,   \* the quiet window and the batch timeout are armed
  lastKnownBranch,
  call,           \* the callbacks under way
  overlapped      \* history: an event was handled while an end was awaited

headVars == <<head, signal, inBatch, beginInFlight, quiet, timer, lastKnownBranch,
              call, overlapped>>

CallState == [stage : {"begin", "waiting", "end"}, awaits : Call \cup {None},
              old : Branch \cup {None}, new : Branch \cup {None}]

HeadTypeOK ==
  /\ head \in Branch /\ lastKnownBranch \in Branch
  /\ signal \in BOOLEAN /\ inBatch \in BOOLEAN /\ overlapped \in BOOLEAN
  /\ quiet \in BOOLEAN /\ timer \in BOOLEAN
  /\ beginInFlight \in Call \cup {None}
  /\ call \in [Call -> CallState \cup {Free}]

HeadInit ==
  /\ head \in Branch \ Detached
  /\ signal = FALSE /\ inBatch = FALSE /\ beginInFlight = None
  /\ quiet = FALSE /\ timer = FALSE
  /\ lastKnownBranch = head
  /\ call = [c \in Call |-> Free]
  /\ overlapped = FALSE

At(c, stage) == call[c] # Free /\ call[c].stage = stage
FreeCall == CHOOSE c \in Call : call[c] = Free
Ending == \E c \in Call : At(c, "end")

(* batchKind, as emitBatchEnd computes it from the two branches.           *)
BatchKind(old, new) ==
  IF new \in Detached THEN "detached-head"
  ELSE IF old # new THEN "cross-branch" ELSE "within-branch"

-----------------------------------------------------------------------------
(* handleGitEvent: an event inside a batch only restarts the quiet window. *)
JoinBatch ==
  /\ signal /\ inBatch
  /\ signal' = FALSE /\ quiet' = TRUE
  /\ overlapped' = (overlapped \/ Ending)
  /\ UNCHANGED <<head, inBatch, beginInFlight, timer, lastKnownBranch, call>>

Resumed(e) == At(e, "waiting") /\ call[e].awaits # beginInFlight

(* ... and one outside it opens a batch: onBatchBegin is called.  An end   *)
(* that awaited the last begin goes on in the turn in which that returned. *)
OpenBatch(c) ==
  /\ signal /\ ~inBatch /\ call[c] = Free /\ c = FreeCall
  /\ \A e \in Call : ~Resumed(e)
  /\ signal' = FALSE /\ inBatch' = TRUE
  /\ beginInFlight' = c
  /\ call' = [call EXCEPT ![c] = 
       [stage |-> "begin", awaits |-> None, old |-> None, new |-> None]]
  /\ overlapped' = (overlapped \/ Ending)
  /\ UNCHANGED <<head, quiet, timer, lastKnownBranch>>

(* onBatchBegin has returned.                                              *)
BeginReturns(c) ==
  /\ At(c, "begin")
  /\ beginInFlight' = None
  /\ timer' = TRUE /\ quiet' = TRUE
  /\ call' = [call EXCEPT ![c] = Free]
  /\ UNCHANGED <<head, signal, inBatch, lastKnownBranch, overlapped>>

(* A timer fires while a begin is in flight: emitBatchEnd awaits it.       *)
Fired ==
  \/ quiet /\ quiet' = FALSE /\ UNCHANGED timer
  \/ timer /\ timer' = FALSE /\ UNCHANGED quiet

AwaitBegin(e) ==
  /\ call[e] = Free /\ e = FreeCall /\ beginInFlight # None
  /\ Fired
  /\ call' = [call EXCEPT ![e] =
       [stage |-> "waiting", awaits |-> beginInFlight, old |-> None, new |-> None]]
  /\ UNCHANGED <<head, signal, inBatch, beginInFlight, lastKnownBranch, overlapped>>

(* There is no batch to end: somebody else ended it.                       *)
EndNothing(e) ==
  /\ ~inBatch
  /\ \/ Resumed(e) /\ call' = [call EXCEPT ![e] = Free] /\ UNCHANGED <<quiet, timer>>
     \/ call[e] = Free /\ e = FreeCall /\ beginInFlight = None /\ Fired /\ UNCHANGED call
  /\ UNCHANGED <<head, signal, inBatch, beginInFlight, lastKnownBranch, overlapped>>

(* emitBatchEnd: the timers are cleared, HEAD is read, onBatchEnd called.  *)
EndBatch(e) ==
  /\ inBatch
  /\ \/ Resumed(e)
     \/ call[e] = Free /\ e = FreeCall /\ beginInFlight = None /\ (quiet \/ timer)
  /\ quiet' = FALSE /\ timer' = FALSE
  /\ call' = [call EXCEPT ![e] =
       [stage |-> "end", awaits |-> None, old |-> lastKnownBranch, new |-> head]]
  /\ overlapped' = (overlapped \/ Ending)
  /\ UNCHANGED <<head, signal, inBatch, beginInFlight, lastKnownBranch>>

(* onBatchEnd has returned.                                                *)
EndReturns(e) ==
  /\ At(e, "end")
  /\ inBatch' = FALSE
  /\ lastKnownBranch' = call[e].new
  /\ call' = [call EXCEPT ![e] = Free]
  /\ UNCHANGED <<head, signal, beginInFlight, quiet, timer, overlapped>>

(* git, in any process: something under .git changed; HEAD moved.          *)
Signal == signal' = TRUE
HeadUnchanged == UNCHANGED <<head, inBatch, beginInFlight, quiet, timer,
                             lastKnownBranch, call, overlapped>>
MoveHead(b) ==
  /\ head' = b /\ Signal
  /\ UNCHANGED <<inBatch, beginInFlight, quiet, timer, lastKnownBranch, call, overlapped>>
=============================================================================
