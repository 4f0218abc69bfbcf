------------------------------ MODULE MCServices ------------------------------
(***************************************************************************)
(* The services that share no state, checked by one run: a behaviour is a  *)
(* behaviour of one of them, and the others stay as they were.             *)
(***************************************************************************)
EXTENDS ProcessLock, ManagedRename, SyncEngine, ObserverBridge, AgentSessions,
        ConfigStore, TLC

VARIABLE part   \* the service this behaviour is about

(* Which of the moved documents is which makes no difference.              *)
Renamings == Permutations(Moved)

Part == {"lock", "rename", "sync", "observers", "sessions", "config"}
Is(p) == part = p /\ UNCHANGED part

(* The one that moves may start anywhere; the others at a fixed place.     *)
ServicesInit ==
  /\ part \in Part
  /\ LockInit /\ RenameInit /\ SyncInit /\ ObserverInit /\ SessionInit /\ ConfigInit
  /\ part # "sync" => enabled
  /\ part # "observers" => fragment = {}
  /\ part # "config" => config = NoText

ServicesNext ==
  \/ Is("lock") /\ LockNext
       /\ UNCHANGED <<renameVars, syncVars, observerVars, sessionVars, configVars>>
  \/ Is("rename") /\ RenameNext
       /\ UNCHANGED <<lockVars, syncVars, observerVars, sessionVars, configVars>>
  \/ Is("sync") /\ SyncNext
       /\ UNCHANGED <<lockVars, renameVars, observerVars, sessionVars, configVars>>
  \/ Is("observers") /\ ObserverNext
       /\ UNCHANGED <<lockVars, renameVars, syncVars, sessionVars, configVars>>
  \/ Is("sessions") /\ SessionNext
       /\ UNCHANGED <<lockVars, renameVars, syncVars, observerVars, configVars>>
  \/ Is("config") /\ ConfigNext
       /\ UNCHANGED <<lockVars, renameVars, syncVars, observerVars, sessionVars>>

ServicesSpec == ServicesInit /\ [][ServicesNext]_<<part, lockVars, renameVars, syncVars,
                                                 observerVars, sessionVars, configVars>>

-----------------------------------------------------------------------------
(* Each part is well typed; with the types, what its flags say of each     *)
(* other: no attempt beyond the last, at most one session of a key, no     *)
(* dirty flag between batches, no store of a document that is not open.    *)
ServicesTypeOK ==
  /\ LockTypeOK /\ RenameTypeOK /\ ObserverTypeOK /\ SessionTypeOK /\ ConfigTypeOK
=============================================================================
