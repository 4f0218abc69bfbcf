---------------------------- MODULE AgentSessions ----------------------------
(***************************************************************************)
(* agent-sessions.ts: at most one session for each document and agent,     *)
(* opened when it is first asked for.  Opening and closing a session are   *)
(* awaited; requests, and the operations that close the sessions of an     *)
(* agent, of a document or of all, run meanwhile.  A session is named by   *)
(* the number of its connection.  A disconnect that throws is left out.    *)
(***************************************************************************)
EXTENDS Naturals, FiniteSets

CONSTANTS
  Document, Agent,
  Closing,        \* calls that close sessions, which may overlap
  MaxSessions,    \* maxSessions
  MaxConnections  \* bound: connections ever opened

ASSUME SessionAssumption ==
  /\ MaxSessions \in Nat /\ MaxConnections \in Nat
  /\ IsFiniteSet(Document) /\ IsFiniteSet(Agent)

Key == Document \X Agent
Connection == 1 .. MaxConnections

VARIABLES
  sessions,     \* the map, as a set of <<key, connection>>
  opening,      \* pendingSessions, likewise
  connected,    \* the connections that are open
  made,         \* how many were asked for
  closing,      \* what each closing call is doing
  twice,        \* history: a session was cleaned up by two calls
  overlooked    \* history: closeAllForAgent left a session open that it should have closed

sessionVars == <<sessions, opening, connected, made, closing, twice, overlooked>>

(* A call waits for the sessions of its agent that are being opened, takes *)
(* the keys to go through, and cleans one session up after the other.      *)
ClosingCall == [step : {"idle", "await", "loop", "clean"},
         waits : SUBSET Connection,      \* pendingKeys
         keys : SUBSET Key,              \* keys not looked at yet
         at : SUBSET (Key \X Connection),    \* the session being cleaned up
         due : SUBSET Connection]        \* history: what is to be closed in the end
NoCall == [step |-> "idle", waits |-> {}, keys |-> {}, at |-> {}, due |-> {}]

SessionTypeOK ==
  /\ sessions \subseteq Key \X Connection /\ opening \subseteq Key \X Connection
  /\ connected \subseteq Connection /\ made \in 0 .. MaxConnections
  /\ closing \in [Closing -> ClosingCall]
  /\ twice \in BOOLEAN /\ overlooked \in BOOLEAN
  /\ \A one, other \in sessions \cup opening : one[1] = other[1] => one = other

SessionInit ==
  /\ sessions = {} /\ opening = {} /\ connected = {} /\ made = 0
  /\ closing = [c \in Closing |-> NoCall]
  /\ twice = FALSE /\ overlooked = FALSE

Of(map, key) == {entry \in map : entry[1] = key}
Numbers(map) == {entry[2] : entry \in map}
KeysOf(map)  == {entry[1] : entry \in map}
OfAgent(map, agent) == {entry \in map : entry[1][2] = agent}

-----------------------------------------------------------------------------
(* getSession, where it neither finds a session, nor one being opened, nor *)
(* its limit reached.                                                      *)

(* Mutants of GetSession: another request for it is not noticed,           *)
GetSessionAgain(key) ==
  /\ Of(sessions, key) = {}
  /\ Cardinality(sessions) + Cardinality(opening) < MaxSessions
  /\ made < MaxConnections /\ made' = made + 1
  /\ opening' = opening \cup {<<key, made + 1>>}
  /\ UNCHANGED <<sessions, connected, closing, twice, overlooked>>

(* or what is being opened does not count.                                 *)
GetSessionUncounted(key) ==
  /\ Of(sessions, key) = {} /\ Of(opening, key) = {}
  /\ Cardinality(sessions) < MaxSessions
  /\ made < MaxConnections /\ made' = made + 1
  /\ opening' = opening \cup {<<key, made + 1>>}
  /\ UNCHANGED <<sessions, connected, closing, twice, overlooked>>

GetSession(key) ==
  /\ Of(sessions, key) = {} /\ Of(opening, key) = {}
  /\ Cardinality(sessions) + Cardinality(opening) < MaxSessions
  /\ made < MaxConnections /\ made' = made + 1
  /\ opening' = opening \cup {<<key, made + 1>>}
  /\ UNCHANGED <<sessions, connected, closing, twice, overlooked>>

(* openDirectConnection is done: the session replaces what the map has.    *)
SessionOpens(entry) ==
  /\ entry \in opening /\ opening' = opening \ {entry}
  /\ sessions' = (sessions \ Of(sessions, entry[1])) \cup {entry}
  /\ connected' = connected \cup {entry[2]}
  /\ UNCHANGED <<made, closing, twice, overlooked>>

OpenFails(entry) ==
  /\ entry \in opening /\ opening' = opening \ {entry}
  /\ UNCHANGED <<sessions, connected, made, closing, twice, overlooked>>

-----------------------------------------------------------------------------
(* The closing calls.                                                      *)

CallIs(c, next) == closing' = [closing EXCEPT ![c] = next]
OnlyCall == UNCHANGED <<sessions, opening, connected, made, twice, overlooked>>
Looping(keys, due) == [NoCall EXCEPT !.step = "loop", !.keys = keys, !.due = due]

(* Mutant of CloseAllForAgent: what is being opened is not waited for.     *)
CloseAllForAgentAtOnce(c, agent) ==
  /\ closing[c].step = "idle"
  /\ LET mine == OfAgent(sessions \cup opening, agent)
     IN CallIs(c, Looping(KeysOf(OfAgent(sessions, agent)), Numbers(mine)))
  /\ OnlyCall

CloseAllForAgent(c, agent) ==
  /\ closing[c].step = "idle"
  /\ LET underway == Numbers(OfAgent(opening, agent))
         mine     == OfAgent(sessions, agent)
     IN CallIs(c, IF underway = {} THEN Looping(KeysOf(mine), Numbers(mine))
                   ELSE [NoCall EXCEPT !.step = "await", !.waits = underway,
                           !.keys = Document \X {agent}, !.due = underway \cup Numbers(mine)])
  /\ OnlyCall

(* Promise.allSettled; the keys are taken now.                             *)
OpeningsSettle(c) ==
  /\ closing[c].step = "await" /\ closing[c].waits \cap Numbers(opening) = {}
  /\ CallIs(c, Looping(KeysOf(sessions) \cap closing[c].keys, closing[c].due))
  /\ OnlyCall

(* closeAllForDoc, closeAll and closeSession.                              *)
CloseSome(c, keys) ==
  /\ closing[c].step = "idle"
  /\ keys = Key \/ (\E document \in Document : keys = {document} \X Agent)
                \/ (\E key \in Key : keys = {key})
  /\ CallIs(c, Looping(KeysOf(sessions) \cap keys, {}))
  /\ OnlyCall

(* The next key of the loop: its session is looked up and cleaned up.      *)
CleanUp(c, key) ==
  /\ closing[c].step = "loop" /\ key \in closing[c].keys
  /\ LET here == Of(sessions, key) IN
       /\ CallIs(c, IF here = {} THEN [closing[c] EXCEPT !.keys = @ \ {key}]
                     ELSE [closing[c] EXCEPT !.keys = @ \ {key}, !.step = "clean", !.at = here])
       /\ twice' = (twice \/ \E d \in Closing \ {c} : here \cap closing[d].at # {})
  /\ UNCHANGED <<sessions, opening, connected, made, overlooked>>

(* disconnect() is done: the key leaves the map, whatever session it has   *)
(* by now.                                                                 *)
CleanedUp(c) ==
  /\ closing[c].step = "clean"
  /\ connected' = connected \ Numbers(closing[c].at)
  /\ sessions' = {entry \in sessions : entry[1] \notin KeysOf(closing[c].at)}
  /\ CallIs(c, [closing[c] EXCEPT !.step = "loop", !.at = {}])
  /\ UNCHANGED <<opening, made, twice, overlooked>>

CallReturns(c) ==
  /\ closing[c].step = "loop" /\ closing[c].keys = {}
  /\ overlooked' = (overlooked \/ closing[c].due \cap (connected \cup Numbers(opening)) # {})
  /\ CallIs(c, NoCall)
  /\ UNCHANGED <<sessions, opening, connected, made, twice>>

-----------------------------------------------------------------------------
SessionNext ==
  \/ \E key \in Key : GetSession(key)
  \/ \E entry \in opening : SessionOpens(entry) \/ OpenFails(entry)
  \/ \E c \in Closing :
       \/ \E agent \in Agent : CloseAllForAgent(c, agent)
       \/ \E keys \in SUBSET Key : CloseSome(c, keys)
       \/ \E key \in Key : CleanUp(c, key)
       \/ OpeningsSettle(c) \/ CleanedUp(c) \/ CallReturns(c)

SessionSpec == SessionInit /\ [][SessionNext]_sessionVars

-----------------------------------------------------------------------------
BeingClosed == UNION {Numbers(closing[c].at) : c \in Closing}

(* No connection is left open that no call can close any more: each is in  *)
(* the map, unless two calls were cleaning up the same session.            *)
NoneForgotten == twice \/ connected \subseteq Numbers(sessions) \cup BeingClosed

(* There are never more open connections, and openings, than the limit.    *)
WithinCapacity == twice \/ Cardinality(connected) + Cardinality(opening) <= MaxSessions

(* When closeAllForAgent returns, every session the agent had when it was  *)
(* called is closed, those still being opened then included; unless two    *)
(* calls were cleaning up the same session.                                *)
AgentIsClosed == twice \/ ~overlooked
=============================================================================
