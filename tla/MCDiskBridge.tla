----------------------------- MODULE MCDiskBridge -----------------------------
(* DiskBridge with blocks, batches and sentinels as model values, and a      *)
(* history variable for what IdleDocShowsDisk says of one batch at a time.   *)
EXTENDS DiskBridge

VARIABLE overlapped   \* history: the events of two batches waited at a time

Overlapping == \E s, t \in Slot : s # t /\ events'[s] # Free /\ events'[t] # Free

BridgeInit == Init /\ overlapped = FALSE

BridgeNext == Next /\ overlapped' = (overlapped \/ Overlapping)

BridgeSpec == BridgeInit /\ [][BridgeNext]_<<vars, overlapped>> /\ Fairness

(* As long as the watcher's batches came one at a time, an idle document     *)
(* shows its file, whatever number of batches may be in flight (queueing of  *)
(* handleDiskEvent in server-factory.ts).                                    *)
SettlesAlone == overlapped \/ IdleDocShowsDisk
=============================================================================
