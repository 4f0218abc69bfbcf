----------------------------- MODULE ProcessLock -----------------------------
(***************************************************************************)
(* process-lock.ts: one lock file says which process serves a project.     *)
(* Servers start, race, update their port, release or are killed; other    *)
(* processes (the command line, the MCP proxy) read the lock and remove a  *)
(* stale one.  Each step is one file system call, since nothing serialises *)
(* processes.  The server's and the user interface's lock are two files of *)
(* the same kind; this is one of them.  All processes are on one host, and *)
(* process ids are not reused.                                             *)
(***************************************************************************)
EXTENDS Naturals

CONSTANTS
  Server,       \* processes that start, each once
  Reader,       \* processes that only read the lock
  NoLock,       \* there is no lock file
  MaxAttempts   \* MAX_ATTEMPTS

ASSUME LockAssumption ==
  /\ MaxAttempts \in Nat \ {0}
  /\ NoLock \notin [by : Server, whole : BOOLEAN]

VARIABLES
  lock,       \* the file: who made it, and whether its content is whole
  phase,      \* how far each server has got
  attempt,    \* which attempt of acquireProcessLock it is in
  judged,     \* what it found in the file when it decided to remove it
  removing,   \* the same, for readers
  snatched    \* history: a file was removed that was not the stale one judged

lockVars == <<lock, phase, attempt, judged, removing, snatched>>

LockFile == [by : Server, whole : BOOLEAN]
Phase == {"off", "look", "create", "write", "parse", "unlink", "held", "port",
          "update", "release", "refused", "failed", "gone", "dead"}

LockTypeOK ==
  /\ lock \in LockFile \cup {NoLock}
  /\ phase \in [Server -> Phase]
  /\ attempt \in [Server -> 0 .. MaxAttempts]
  /\ judged \in [Server -> LockFile \cup {NoLock}]
  /\ removing \in [Reader -> LockFile \cup {NoLock}]
  /\ snatched \in BOOLEAN
  /\ \A p \in Server :
       phase[p] \in {"off", "look", "create", "parse", "unlink"} => attempt[p] < MaxAttempts

LockInit ==
  /\ lock = NoLock
  /\ phase = [p \in Server |-> "off"] /\ attempt = [p \in Server |-> 0]
  /\ judged = [p \in Server |-> NoLock] /\ removing = [r \in Reader |-> NoLock]
  /\ snatched = FALSE

Alive(p) == phase[p] \notin {"off", "dead"}
Enters(p, s) == phase' = [phase EXCEPT ![p] = s]
Mine(p, whole) == [by |-> p, whole |-> whole]
OwnFile(p) == lock # NoLock /\ lock.by = p

-----------------------------------------------------------------------------
(* acquireProcessLock *)

Start(p) ==
  /\ phase[p] = "off"
  /\ Enters(p, "look")
  /\ UNCHANGED <<lock, attempt, judged, removing, snatched>>

(* existsSync *)
Look(p) ==
  /\ phase[p] = "look"
  /\ Enters(p, IF lock = NoLock THEN "create" ELSE "parse")
  /\ UNCHANGED <<lock, attempt, judged, removing, snatched>>

(* Mutant of Create: the flag is "w".                                      *)
CreateOver(p) ==
  /\ phase[p] = "create"
  /\ lock' = Mine(p, FALSE) /\ Enters(p, "write")
  /\ UNCHANGED <<attempt, judged, removing, snatched>>

(* openSync with flag "wx": it fails if the file is there by now.          *)
Create(p) ==
  /\ phase[p] = "create"
  /\ IF lock = NoLock THEN lock' = Mine(p, FALSE) /\ Enters(p, "write")
     ELSE Enters(p, "parse") /\ UNCHANGED lock
  /\ UNCHANGED <<attempt, judged, removing, snatched>>

(* writeSync, through the descriptor: if the file was removed meanwhile,   *)
(* nobody sees what is written.                                            *)
WriteOwn(p) ==
  /\ phase[p] \in {"write", "update"}
  /\ lock' = IF OwnFile(p) THEN Mine(p, TRUE) ELSE lock
  /\ Enters(p, "held")
  /\ UNCHANGED <<attempt, judged, removing, snatched>>

(* parseLock: a live holder is respected; a stale, partial or vanished     *)
(* file is to be replaced.                                                 *)
Parse(p) ==
  /\ phase[p] = "parse"
  /\ IF lock # NoLock /\ lock.whole /\ Alive(lock.by)
       THEN Enters(p, "refused") /\ UNCHANGED judged
       ELSE Enters(p, "unlink") /\ judged' = [judged EXCEPT ![p] = lock]
  /\ UNCHANGED <<lock, attempt, removing, snatched>>

(* What is removed is what is there now.  It is the stale file that was    *)
(* judged, unless it was replaced since, or was just being written.        *)
Snatches(file) ==
  lock # NoLock /\ (lock # file \/ (~file.whole /\ Alive(file.by)))

(* Mutant of Unlink: the attempts are not counted against the limit.       *)
UnlinkForever(p) ==
  /\ phase[p] = "unlink"
  /\ lock' = NoLock
  /\ snatched' = (snatched \/ Snatches(judged[p]))
  /\ attempt' = [attempt EXCEPT ![p] = @ + 1]
  /\ Enters(p, "look")
  /\ judged' = [judged EXCEPT ![p] = NoLock]
  /\ UNCHANGED removing

Unlink(p) ==
  /\ phase[p] = "unlink"
  /\ lock' = NoLock
  /\ snatched' = (snatched \/ Snatches(judged[p]))
  /\ attempt' = [attempt EXCEPT ![p] = @ + 1]
  /\ Enters(p, IF attempt[p] + 1 < MaxAttempts THEN "look" ELSE "failed")
  /\ judged' = [judged EXCEPT ![p] = NoLock]
  /\ UNCHANGED removing

-----------------------------------------------------------------------------
(* updateProcessLockPort, once the server listens: the file is read, ...   *)
UpdatePort(p) ==
  /\ phase[p] = "held" /\ OwnFile(p) /\ lock.whole
  /\ Enters(p, "port")
  /\ UNCHANGED <<lock, attempt, judged, removing, snatched>>

(* ... then opened for writing, which makes or empties it, whoever's it is *)
(* by now.  WriteOwn is the rest.                                          *)
Reopen(p) ==
  /\ phase[p] = "port"
  /\ lock' = Mine(p, FALSE) /\ Enters(p, "update")
  /\ UNCHANGED <<attempt, judged, removing, snatched>>

(* releaseProcessLock: read, then remove one's own.                        *)
Release(p) ==
  /\ phase[p] = "held"
  /\ Enters(p, IF OwnFile(p) /\ lock.whole THEN "release" ELSE "gone")
  /\ UNCHANGED <<lock, attempt, judged, removing, snatched>>

Remove(p) ==
  /\ phase[p] = "release"
  /\ lock' = NoLock /\ snatched' = (snatched \/ (lock # NoLock /\ lock.by # p))
  /\ Enters(p, "gone")
  /\ UNCHANGED <<attempt, judged, removing>>

(* The process is killed, at any point.                                    *)
Die(p) ==
  /\ Alive(p)
  /\ Enters(p, "dead")
  /\ UNCHANGED <<lock, attempt, judged, removing, snatched>>

(* readProcessLock: a whole lock of a dead process is removed.             *)
ReadStale(r) ==
  /\ removing[r] = NoLock
  /\ lock # NoLock /\ lock.whole /\ ~Alive(lock.by)
  /\ removing' = [removing EXCEPT ![r] = lock]
  /\ UNCHANGED <<lock, phase, attempt, judged, snatched>>

RemoveStale(r) ==
  /\ removing[r] # NoLock
  /\ lock' = NoLock /\ snatched' = (snatched \/ Snatches(removing[r]))
  /\ removing' = [removing EXCEPT ![r] = NoLock]
  /\ UNCHANGED <<phase, attempt, judged>>

-----------------------------------------------------------------------------
LockNext ==
  \/ \E p \in Server :
       \/ Start(p) \/ Look(p) \/ Create(p) \/ WriteOwn(p) \/ Parse(p) \/ Unlink(p)
       \/ UpdatePort(p) \/ Reopen(p) \/ Release(p) \/ Remove(p) \/ Die(p)
  \/ \E r \in Reader : ReadStale(r) \/ RemoveStale(r)

LockSpec == LockInit /\ [][LockNext]_lockVars

-----------------------------------------------------------------------------
Serving(p) == phase[p] \in {"held", "port", "update"}

(* Two processes never serve the project together, unless somebody removed *)
(* a lock other than the stale one it had judged: neither a race to        *)
(* create, nor a death at any point, nor a release or a port update by a   *)
(* process that has lost its lock can bring it about.                      *)
OneHolder ==
  snatched \/ \A p, q \in Server : Serving(p) /\ Serving(q) => p = q
=============================================================================
