---- MODULE MCSyncEngine ----
(* The sync engine alone, for the claim its documentation makes.           *)
EXTENDS SyncEngine
====
