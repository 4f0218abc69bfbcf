---- MODULE MCObserverBridge ----
(* The observer bridge alone, for the claim its tests make.                *)
EXTENDS ObserverBridge
====
