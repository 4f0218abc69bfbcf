---------------------------- MODULE AttributionLog ----------------------------
(***************************************************************************)
(* What the version history promises about authorship, without timers,     *)
(* commits or failures: every writer's contributions enter the log in the  *)
(* order they were made, each at most once.  None is given up but at an    *)
(* epoch's end, that is by a saved version or with the server, and what    *)
(* remains keeps its order.                                                *)
(***************************************************************************)
EXTENDS Naturals, Sequences

CONSTANTS Writer, Contribution

VARIABLES
  due,   \* the contributions of each writer, logged ones first, oldest first
  log,   \* those of them that are in the history
  epoch  \* number of times contributions were given up

vars == <<due, log, epoch>>

(* "s is a prefix of t", without the recursion of the community modules. *)
Prefix(s, t) ==
  Len(s) <= Len(t) /\ \A i \in 1 .. Len(s) : s[i] = t[i]

Init ==
  /\ due = [w \in Writer |-> <<>>]
  /\ log = [w \in Writer |-> <<>>]
  /\ epoch = 0

Contribute(w, n) ==
  /\ due' = [due EXCEPT ![w] = Append(@, n)]
  /\ UNCHANGED <<log, epoch>>

(* The history grows by contributions the writer is due, in order. *)
Publish(w) ==
  /\ Prefix(log[w], log'[w]) /\ Prefix(log'[w], due[w])
  /\ log' = [log EXCEPT ![w] = log'[w]]
  /\ UNCHANGED <<due, epoch>>

(* t is s without the k entries that follow its first i. *)
Shortened(t, s) ==
  \E k \in 0 .. Len(s) : \E i \in 0 .. Len(s) - k :
    /\ Len(t) = Len(s) - k
    /\ \A n \in 1 .. Len(t) : t[n] = IF n <= i THEN s[n] ELSE s[n + k]

(* A run of contributions is given up, logged ones included, if they were  *)
(* the log's last.                                                         *)
GiveUp ==
  /\ \A w \in Writer :
       /\ Shortened(due'[w], due[w])
       /\ Prefix(log'[w], log[w]) /\ Prefix(log'[w], due'[w])
  /\ log' = [w \in Writer |-> log'[w]]
  /\ due' = [w \in Writer |-> due'[w]]
  /\ epoch' = epoch + 1

Next ==
  \/ \E w \in Writer, n \in Contribution : Contribute(w, n)
  \/ \E w \in Writer : Publish(w)
  \/ GiveUp

Spec == Init /\ [][Next]_vars
=============================================================================
