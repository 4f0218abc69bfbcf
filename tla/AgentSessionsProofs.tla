------------------------ MODULE AgentSessionsProofs ------------------------
(***************************************************************************)
(* Theorems about AgentSessions, for all finite sets of documents and      *)
(* agents, any closing calls, and every limit.                             *)
(***************************************************************************)
EXTENDS AgentSessions, FiniteSetTheorems, Functions, TLAPS

USE SessionAssumption

(* A connection has one entry, in the map or among the sessions being      *)
(* opened, and is open only when it is no longer among those.              *)
Numbered ==
  /\ sessions \cap opening = {}
  /\ \A one, other \in sessions \cup opening : one[2] = other[2] => one = other
  /\ Numbers(sessions) \cup Numbers(opening) \cup connected \subseteq 1 .. made
  /\ Numbers(opening) \cap connected = {}

(* As long as no session is cleaned up by two calls, what is open is in    *)
(* the map, and so is what is being cleaned up, each by one call.          *)
Kept ==
  /\ \A c \in Closing : closing[c].step # "clean" => closing[c].at = {}
  /\ ~twice =>
       /\ connected \subseteq Numbers(sessions)
       /\ \A c \in Closing : closing[c].at \subseteq sessions
       /\ \A c, d \in Closing : c # d => closing[c].at \cap closing[d].at = {}

(* What a call has yet to close is on its way: it is waited for, or its    *)
(* key is one of those to go through or the one being cleaned up.          *)
Covered(c, n) ==
  /\ n \in 1 .. made
  /\ closing[c].step = "await" =>
       /\ n \in Numbers(opening) => n \in closing[c].waits
       /\ \A entry \in sessions \cup opening : entry[2] = n => entry[1] \in closing[c].keys
  /\ closing[c].step \in {"loop", "clean"} =>
       /\ n \notin Numbers(opening)
       /\ n \in connected =>
            \E entry \in sessions :
              entry[2] = n /\ entry[1] \in closing[c].keys \cup KeysOf(closing[c].at)
Promised == ~twice => \A c \in Closing : \A n \in closing[c].due : Covered(c, n)

Fits ==
  /\ IsFiniteSet(sessions) /\ IsFiniteSet(opening)
  /\ Cardinality(sessions) + Cardinality(opening) <= MaxSessions

SessionInv == SessionTypeOK /\ Numbered /\ Kept /\ Promised /\ ~(~twice /\ overlooked)

-----------------------------------------------------------------------------
LEMMA NoCallIsCall == NoCall \in ClosingCall /\ NoCall.step = "idle" /\ NoCall.at = {}
                      /\ NoCall.due = {} /\ NoCall.keys = {} /\ NoCall.waits = {}
  BY DEF NoCall, ClosingCall

LEMMA SessionInitInv == SessionInit => SessionInv /\ Fits
<1> SUFFICES ASSUME SessionInit PROVE SessionInv /\ Fits
  OBVIOUS
<1>1. SessionTypeOK
  <2>1. 0 \in 0 .. MaxConnections
    OBVIOUS
  <2> QED BY <2>1, NoCallIsCall, Zenon DEF SessionInit, SessionTypeOK
<1>2. Numbered
  BY DEF SessionInit, Numbered, Numbers
<1>3. Kept /\ Promised
  BY NoCallIsCall DEF SessionInit, Kept, Promised, Numbers
<1>4. Fits
  BY FS_EmptySet DEF SessionInit, Fits
<1> QED BY <1>1, <1>2, <1>3, <1>4 DEF SessionInv, SessionInit

-----------------------------------------------------------------------------
(* Opening a session. *)

LEMMA GetSessionInv ==
  ASSUME SessionInv, NEW key \in Key, GetSession(key)
  PROVE  SessionInv'
<1> DEFINE new == <<key, made + 1>>
<1> USE DEF GetSession, SessionInv
<1>1. made \in Nat /\ made' = made + 1 /\ made + 1 \in Connection /\ made' \in 0 .. MaxConnections
  BY DEF SessionTypeOK, Connection
<1>2. opening' = opening \cup {new} /\ new \in Key \X Connection
  BY <1>1
<1>3. \A entry \in sessions \cup opening : entry[1] # key /\ entry[2] # made + 1
  <2>1. \A entry \in sessions \cup opening : entry[1] # key
    BY DEF Of
  <2>2. \A entry \in sessions \cup opening : entry[2] \in 1 .. made
    BY DEF Numbered, Numbers
  <2> QED BY <1>1, <2>1, <2>2
<1>4. SessionTypeOK'
  BY <1>1, <1>2, <1>3 DEF SessionTypeOK
<1>5. Numbers(opening)' = Numbers(opening) \cup {made + 1}
  BY <1>2 DEF Numbers
<1>6. Numbered'
  <2>1. sessions' \cap opening' = {}
    BY <1>2, <1>3 DEF Numbered
  <2>2. \A one, other \in sessions' \cup opening' : one[2] = other[2] => one = other
    BY <1>2, <1>3 DEF Numbered
  <2>3. (Numbers(sessions) \cup Numbers(opening) \cup connected)' \subseteq 1 .. made'
    <3>1. Numbers(sessions)' = Numbers(sessions) /\ connected' = connected
      BY DEF Numbers
    <3>2. 1 .. made \subseteq 1 .. made' /\ made + 1 \in 1 .. made'
      BY <1>1
    <3> QED BY <1>5, <3>1, <3>2 DEF Numbered
  <2>4. made + 1 \notin connected
    BY <1>1 DEF Numbered
  <2>5. (Numbers(opening) \cap connected = {})'
    BY <1>5, <2>4 DEF Numbered
  <2> QED BY <2>1, <2>2, <2>3, <2>5 DEF Numbered
<1>7. Kept'
  BY DEF Kept, Numbers
<1>8. Promised'
  <2> SUFFICES ASSUME ~twice, NEW c \in Closing, NEW n \in closing[c].due PROVE Covered(c, n)'
    BY DEF Promised
  <2>1. Covered(c, n)
    BY DEF Promised
  <2>2. n \in 1 .. made /\ n # made + 1 /\ n \in 1 .. made'
    BY <1>1, <2>1 DEF Covered
  <2>3. n \in Numbers(opening)' => n \in Numbers(opening)
    BY <1>5, <2>2
  <2>4. \A entry \in (sessions \cup opening)' : entry[2] = n => entry \in sessions \cup opening
    BY <1>2, <2>2
  <2> QED BY <2>1, <2>2, <2>3, <2>4 DEF Covered, KeysOf
<1> QED BY <1>4, <1>6, <1>7, <1>8

LEMMA SessionOpensInv ==
  ASSUME SessionInv, NEW entry \in opening, SessionOpens(entry)
  PROVE  SessionInv' /\ sessions' = sessions \cup {entry}
<1> USE DEF SessionOpens, SessionInv
<1>1. Of(sessions, entry[1]) = {}
  BY DEF Of, SessionTypeOK, Numbered
<1>2. sessions' = sessions \cup {entry} /\ entry \notin sessions
  BY <1>1 DEF Numbered
<1>3. sessions' \cup opening' = sessions \cup opening
  BY <1>2
<1>4. entry \in Key \X Connection /\ entry[2] \in Connection
  BY DEF SessionTypeOK
<1>5. SessionTypeOK'
  BY <1>2, <1>3, <1>4 DEF SessionTypeOK
<1>6. /\ Numbers(sessions)' = Numbers(sessions) \cup {entry[2]}
      /\ Numbers(opening)' = Numbers(opening) \ {entry[2]}
  <2>1. \A other \in opening' : other[2] # entry[2]
    BY DEF Numbered
  <2> QED BY <1>2, <2>1 DEF Numbers
<1>7. entry[2] \in Numbers(opening)
  BY DEF Numbers
<1>8. Numbered'
  <2>1. (sessions \cap opening = {})'
    BY <1>2 DEF Numbered
  <2>2. (\A one, other \in sessions \cup opening : one[2] = other[2] => one = other)'
    BY <1>3 DEF Numbered
  <2>3. (Numbers(sessions) \cup Numbers(opening) \cup connected \subseteq 1 .. made)'
    BY <1>6, <1>7, Zenon DEF Numbered
  <2>4. (Numbers(opening) \cap connected = {})'
    BY <1>6 DEF Numbered
  <2> QED BY <2>1, <2>2, <2>3, <2>4 DEF Numbered
<1>9. Kept'
  BY <1>2, <1>6 DEF Kept
<1>10. Promised'
  <2> SUFFICES ASSUME ~twice, NEW c \in Closing, NEW n \in closing[c].due PROVE Covered(c, n)'
    BY DEF Promised
  <2>1. Covered(c, n)
    BY DEF Promised
  <2>2. n \in Numbers(opening)' => n \in Numbers(opening)
    BY <1>6
  <2>3. closing[c].step \in {"loop", "clean"} => n # entry[2]
    BY <1>7, <2>1 DEF Covered
  <2> QED BY <1>2, <1>3, <2>1, <2>2, <2>3 DEF Covered, KeysOf
<1> QED BY <1>2, <1>5, <1>8, <1>9, <1>10

LEMMA OpenFailsInv ==
  ASSUME SessionInv, NEW entry \in opening, OpenFails(entry)
  PROVE  SessionInv'
<1> USE DEF OpenFails, SessionInv
<1>1. SessionTypeOK'
  BY DEF SessionTypeOK
<1>2. Numbers(opening)' \subseteq Numbers(opening) /\ Numbers(sessions)' = Numbers(sessions)
  BY DEF Numbers
<1>3. Numbered' /\ Kept'
  BY <1>2 DEF Numbered, Kept
<1>4. Promised'
  BY <1>2 DEF Promised, Covered, KeysOf
<1> QED BY <1>1, <1>3, <1>4

-----------------------------------------------------------------------------
(* The closing calls. *)

(* A step of one call that leaves the sessions alone need only be checked  *)
(* for that call.                                                          *)
LEMMA CallStep ==
  ASSUME SessionInv, NEW c \in Closing, NEW next \in ClosingCall, CallIs(c, next),
         UNCHANGED <<sessions, opening, connected, made, twice>>, overlooked' \in BOOLEAN,
         next.step # "clean" => next.at = {},
         ~twice => /\ next.at \subseteq sessions
                   /\ \A d \in Closing \ {c} : next.at \cap closing[d].at = {},
         ~twice => \A n \in next.due : Covered(c, n)'
  PROVE  SessionTypeOK' /\ Numbered' /\ Kept' /\ Promised'
<1> USE DEF SessionInv, CallIs
<1>1. /\ closing' \in [Closing -> ClosingCall]
      /\ closing'[c] = next /\ \A d \in Closing \ {c} : closing'[d] = closing[d]
  BY DEF SessionTypeOK
<1>2. SessionTypeOK'
  BY <1>1 DEF SessionTypeOK
<1>3. Numbered' /\ Kept'
  BY <1>1 DEF Numbered, Kept, Numbers
<1>4. Promised'
  <2> SUFFICES ASSUME ~twice, NEW d \in Closing, NEW n \in closing'[d].due PROVE Covered(d, n)'
    BY DEF Promised
  <2>1. CASE d = c
    BY <1>1, <2>1
  <2>2. CASE d # c
    <3>1. closing'[d] = closing[d] /\ Covered(d, n)
      BY <1>1, <2>2 DEF Promised
    <3> QED BY <3>1 DEF Covered, Numbers, KeysOf
  <2> QED BY <2>1, <2>2
<1> QED BY <1>2, <1>3, <1>4

LEMMA LoopingIsCall ==
  ASSUME NEW keys \in SUBSET Key, NEW due \in SUBSET Connection
  PROVE  /\ Looping(keys, due) \in ClosingCall
         /\ Looping(keys, due).step = "loop" /\ Looping(keys, due).keys = keys
         /\ Looping(keys, due).due = due /\ Looping(keys, due).at = {}
  BY DEF Looping, NoCall, ClosingCall

(* The sessions of an agent, those being opened included, are all promised.*)
LEMMA CloseAllForAgentInv ==
  ASSUME SessionInv, NEW c \in Closing, NEW agent \in Agent, CloseAllForAgent(c, agent)
  PROVE  SessionInv'
<1> DEFINE underway == Numbers(OfAgent(opening, agent))
           mine == OfAgent(sessions, agent)
           waiting == [NoCall EXCEPT !.step = "await", !.waits = underway,
                         !.keys = Document \X {agent}, !.due = underway \cup Numbers(mine)]
           next == IF underway = {} THEN Looping(KeysOf(mine), Numbers(mine)) ELSE waiting
<1> USE DEF CloseAllForAgent, OnlyCall, SessionInv
<1>1. CallIs(c, next) /\ UNCHANGED <<sessions, opening, connected, made, twice, overlooked>>
  OBVIOUS
<1>2. /\ underway \in SUBSET Connection /\ Numbers(mine) \in SUBSET Connection
      /\ KeysOf(mine) \in SUBSET Key /\ Document \X {agent} \in SUBSET Key
  BY DEF SessionTypeOK, OfAgent, Numbers, KeysOf, Key
<1>3. /\ waiting \in ClosingCall /\ waiting.step = "await" /\ waiting.at = {}
      /\ waiting.waits = underway /\ waiting.keys = Document \X {agent}
      /\ waiting.due = underway \cup Numbers(mine)
  BY <1>2 DEF NoCall, ClosingCall
<1>4. next \in ClosingCall /\ next.at = {} /\ next.due = underway \cup Numbers(mine)
  BY <1>2, <1>3, LoopingIsCall
<1>5. closing'[c] = next
  BY <1>1 DEF CallIs, SessionTypeOK
<1>6. LET looping == Looping(KeysOf(mine), Numbers(mine))
      IN  looping.step = "loop" /\ looping.keys = KeysOf(mine)
  <2> HIDE DEF mine
  <2> QED BY <1>2, LoopingIsCall
<1>7. \A n \in next.due : Covered(c, n)'
  <2> SUFFICES ASSUME NEW n \in next.due PROVE Covered(c, n)'
    OBVIOUS
  <2>1. PICK mark \in OfAgent(opening, agent) \cup mine : mark[2] = n
    BY <1>4 DEF Numbers
  <2>2. mark \in sessions \cup opening /\ mark[1][2] = agent
    BY <2>1 DEF OfAgent
  <2>3. n \in 1 .. made
    BY <2>1, <2>2 DEF Numbered, Numbers
  <2>4. \A entry \in sessions \cup opening : entry[2] = n => entry = mark
    BY <2>1, <2>2 DEF Numbered
  <2>5. mark[1] \in Document \X {agent}
    BY <2>2 DEF SessionTypeOK, Key
  <2>6. CASE underway = {}
    <3>1. mark \in mine /\ n \in Numbers(mine)
      BY <2>1, <2>6 DEF Numbers
    <3>2. closing'[c].step = "loop" /\ closing'[c].keys = KeysOf(mine)
      BY <1>5, <2>6, <1>6
    <3>3. mark \in sessions /\ mark[1] \in KeysOf(mine)
      BY <3>1 DEF OfAgent, KeysOf
    <3>4. n \notin Numbers(opening)
      BY <2>4, <3>3 DEF Numbered, Numbers
    <3>5. \E entry \in sessions : entry[2] = n /\ entry[1] \in closing'[c].keys
      BY <2>1, <3>2, <3>3
    <3> HIDE DEF next
    <3> QED BY <1>1, <2>3, <3>2, <3>4, <3>5 DEF Covered, Numbers
  <2>7. CASE underway # {}
    <3>1. /\ closing'[c].step = "await" /\ closing'[c].waits = underway
          /\ closing'[c].keys = Document \X {agent}
      BY <1>3, <1>5, <2>7
    <3>2. n \in Numbers(opening) => n \in underway
      BY <2>2, <2>4 DEF Numbers, OfAgent
    <3> QED BY <1>1, <2>3, <2>4, <2>5, <3>1, <3>2 DEF Covered, Numbers
  <2> QED BY <2>6, <2>7
<1> QED
  <2> HIDE DEF next
  <2>1. overlooked' \in BOOLEAN
    BY DEF SessionTypeOK
  <2>2. SessionTypeOK' /\ Numbered' /\ Kept' /\ Promised'
    BY <1>1, <1>4, <1>7, <2>1, CallStep
  <2> QED BY <1>1, <2>2

LEMMA OpeningsSettleInv ==
  ASSUME SessionInv, NEW c \in Closing, OpeningsSettle(c)
  PROVE  SessionInv'
<1> DEFINE next == Looping(KeysOf(sessions) \cap closing[c].keys, closing[c].due)
<1> USE DEF OpeningsSettle, OnlyCall, SessionInv
<1>1. CallIs(c, next) /\ UNCHANGED <<sessions, opening, connected, made, twice, overlooked>>
  OBVIOUS
<1>2. closing[c] \in ClosingCall /\ closing[c].keys \in SUBSET Key
      /\ closing[c].due \in SUBSET Connection
  BY DEF SessionTypeOK, ClosingCall
<1> DEFINE keys == KeysOf(sessions) \cap closing[c].keys
<1>3. /\ next \in ClosingCall /\ next.step = "loop" /\ next.at = {}
      /\ next.keys = KeysOf(sessions) \cap closing[c].keys /\ next.due = closing[c].due
  <2>1. keys \in SUBSET Key
    BY <1>2
  <2>2. closing[c].due \in SUBSET Connection
    BY <1>2
  <2> HIDE DEF keys
  <2>3. /\ Looping(keys, closing[c].due) \in ClosingCall
        /\ Looping(keys, closing[c].due).step = "loop"
        /\ Looping(keys, closing[c].due).keys = keys
        /\ Looping(keys, closing[c].due).due = closing[c].due
        /\ Looping(keys, closing[c].due).at = {}
    BY <2>1, <2>2, LoopingIsCall
  <2> QED BY <2>3 DEF keys
<1>4. closing'[c] = next
  BY <1>1 DEF CallIs, SessionTypeOK
<1>5. ~twice => \A n \in next.due : Covered(c, n)'
  <2> SUFFICES ASSUME ~twice, NEW n \in closing[c].due PROVE Covered(c, n)'
    BY <1>3
  <2>1. Covered(c, n)
    BY DEF Promised
  <2>2. n \notin Numbers(opening)
    BY <2>1 DEF Covered
  <2>3. ASSUME n \in connected
        PROVE  \E entry \in sessions : entry[2] = n /\ entry[1] \in next.keys
    <3>1. PICK entry \in sessions : entry[2] = n
      BY <2>3 DEF Kept, Numbers
    <3> QED BY <1>3, <2>1, <3>1 DEF Covered, KeysOf
  <2> QED BY <1>1, <1>3, <1>4, <2>1, <2>2, <2>3 DEF Covered, Numbers
<1> QED
  <2> HIDE DEF next
  <2>1. overlooked' \in BOOLEAN
    BY DEF SessionTypeOK
  <2>2. SessionTypeOK' /\ Numbered' /\ Kept' /\ Promised'
    BY <1>1, <1>3, <1>5, <2>1, CallStep
  <2> QED BY <1>1, <2>2

LEMMA CloseSomeInv ==
  ASSUME SessionInv, NEW c \in Closing, NEW keys \in SUBSET Key, CloseSome(c, keys)
  PROVE  SessionInv'
<1> DEFINE next == Looping(KeysOf(sessions) \cap keys, {})
<1>1. CallIs(c, next) /\ UNCHANGED <<sessions, opening, connected, made, twice, overlooked>>
  BY DEF CloseSome, OnlyCall
<1>2. next \in ClosingCall /\ next.at = {} /\ next.due = {}
  BY LoopingIsCall
<1> QED
  <2> HIDE DEF next
  <2>1. overlooked' \in BOOLEAN
    BY <1>1 DEF SessionInv, SessionTypeOK
  <2>2. SessionTypeOK' /\ Numbered' /\ Kept' /\ Promised'
    BY <1>1, <1>2, <2>1, CallStep
  <2> QED BY <1>1, <2>2 DEF SessionInv

(* The session of the next key moves from the keys to the clean-up.        *)
LEMMA CleanUpInv ==
  ASSUME SessionInv, NEW c \in Closing, NEW key \in Key, CleanUp(c, key)
  PROVE  SessionInv'
<1> DEFINE here == Of(sessions, key)
           call == closing[c]
           next == IF here = {} THEN [call EXCEPT !.keys = @ \ {key}]
                   ELSE [call EXCEPT !.keys = @ \ {key}, !.step = "clean", !.at = here]
<1> USE DEF SessionInv
<1>1. /\ call.step = "loop" /\ CallIs(c, next)
      /\ UNCHANGED <<sessions, opening, connected, made, overlooked>>
      /\ twice' = (twice \/ \E d \in Closing \ {c} : here \cap closing[d].at # {})
  BY DEF CleanUp
<1>2. call \in ClosingCall /\ call.at = {} /\ here \subseteq sessions
      /\ here \in SUBSET (Key \X Connection)
  BY <1>1 DEF SessionTypeOK, Kept, Of
<1>3. /\ next \in ClosingCall /\ next.due = call.due /\ next.keys = call.keys \ {key}
      /\ next.at = here /\ next.step = (IF here = {} THEN "loop" ELSE "clean")
  BY <1>1, <1>2 DEF ClosingCall
<1>4. /\ closing'[c] = next /\ \A d \in Closing \ {c} : closing'[d] = closing[d]
      /\ closing' \in [Closing -> ClosingCall]
  BY <1>1, <1>3 DEF CallIs, SessionTypeOK
<1> HIDE DEF next
<1>5. SessionTypeOK'
  <2>1. twice' \in BOOLEAN
    BY <1>1 DEF SessionTypeOK
  <2> QED BY <1>1, <1>4, <2>1 DEF SessionTypeOK
<1>6. Numbered'
  BY <1>1 DEF Numbered, Numbers
<1>7. Kept'
  <2>1. \A d \in Closing : closing'[d].step # "clean" => closing'[d].at = {}
    BY <1>3, <1>4 DEF Kept
  <2>2. ASSUME ~twice'
        PROVE  /\ connected' \subseteq Numbers(sessions)'
               /\ \A d \in Closing : closing'[d].at \subseteq sessions'
               /\ \A d, e \in Closing : d # e => closing'[d].at \cap closing'[e].at = {}
    <3>1. \A d \in Closing \ {c} : here \cap closing[d].at = {}
      BY <1>1, <2>2
    <3>2. connected' \subseteq Numbers(sessions)'
      BY <1>1, <2>2 DEF Kept, Numbers
    <3>3. \A d \in Closing : closing'[d].at \subseteq sessions'
      BY <1>1, <1>2, <1>3, <1>4, <2>2 DEF Kept
    <3>4. ASSUME NEW d \in Closing, NEW e \in Closing, d # e
          PROVE  closing'[d].at \cap closing'[e].at = {}
      <4>1. closing[d].at \cap closing[e].at = {}
        BY <1>1, <2>2, <3>4 DEF Kept
      <4>2. CASE d = c
        BY <1>3, <1>4, <3>1, <3>4, <4>2
      <4>3. CASE e = c
        BY <1>3, <1>4, <3>1, <3>4, <4>3
      <4> QED BY <1>4, <4>1, <4>2, <4>3
    <3> QED BY <3>2, <3>3, <3>4
  <2> QED BY <2>1, <2>2 DEF Kept
<1>8. Promised'
  <2> SUFFICES ASSUME ~twice', NEW d \in Closing, NEW n \in closing'[d].due
               PROVE  Covered(d, n)'
    BY DEF Promised
  <2>1. ~twice /\ n \in closing[d].due
    BY <1>1, <1>3, <1>4
  <2>2. Covered(d, n)
    BY <2>1 DEF Promised
  <2>3. CASE d # c
    BY <1>1, <1>4, <2>2, <2>3 DEF Covered, Numbers, KeysOf
  <2>4. CASE d = c
    <3>1. n \in 1 .. made /\ n \notin Numbers(opening)
      BY <1>1, <2>2, <2>4 DEF Covered
    <3>2. ASSUME n \in connected
          PROVE  \E entry \in sessions : /\ entry[2] = n
                                         /\ entry[1] \in next.keys \cup KeysOf(next.at)
      <4>1. PICK entry \in sessions : entry[2] = n /\ entry[1] \in call.keys
        BY <1>1, <1>2, <2>2, <2>4, <3>2 DEF Covered, KeysOf
      <4>2. entry[1] = key => entry \in here
        BY DEF Of
      <4>3. entry \in here => entry[1] \in KeysOf(here)
        BY DEF KeysOf
      <4> QED BY <1>3, <4>1, <4>2, <4>3
    <3> QED BY <1>1, <1>3, <1>4, <2>4, <3>1, <3>2 DEF Covered, Numbers, KeysOf
  <2> QED BY <2>3, <2>4
<1> QED BY <1>1, <1>5, <1>6, <1>7, <1>8

(* What leaves the map is what was disconnected.                           *)
LEMMA CleanedUpInv ==
  ASSUME SessionInv, NEW c \in Closing, CleanedUp(c)
  PROVE  SessionInv' /\ sessions' \subseteq sessions /\ opening' = opening
<1> DEFINE call == closing[c]
           next == [call EXCEPT !.step = "loop", !.at = {}]
<1> USE DEF SessionInv
<1>1. /\ connected' = connected \ Numbers(call.at)
      /\ sessions' = {entry \in sessions : entry[1] \notin KeysOf(call.at)}
      /\ CallIs(c, next) /\ UNCHANGED <<opening, made, twice, overlooked>>
      /\ call.step = "clean"
  BY DEF CleanedUp
<1>2. call \in ClosingCall
  BY DEF SessionTypeOK
<1>3. /\ next \in ClosingCall /\ next.due = call.due /\ next.keys = call.keys
      /\ next.at = {} /\ next.step = "loop"
  BY <1>2 DEF ClosingCall
<1>4. /\ closing'[c] = next /\ \A d \in Closing \ {c} : closing'[d] = closing[d]
      /\ closing' \in [Closing -> ClosingCall]
  BY <1>1, <1>3 DEF CallIs, SessionTypeOK
<1> HIDE DEF next
<1>5. SessionTypeOK'
  BY <1>1, <1>4 DEF SessionTypeOK
<1>6. Numbers(sessions)' \subseteq Numbers(sessions) /\ Numbers(opening)' = Numbers(opening)
  BY <1>1 DEF Numbers
<1>7. Numbered'
  BY <1>1, <1>6 DEF Numbered
<1>8. ASSUME ~twice, NEW entry \in sessions, entry[1] \in KeysOf(call.at)
      PROVE  entry \in call.at
  <2>1. call.at \subseteq sessions
    BY <1>8 DEF Kept
  <2>2. PICK other \in call.at : other[1] = entry[1]
    BY <1>8 DEF KeysOf
  <2> QED BY <2>1, <2>2 DEF SessionTypeOK
<1>9. ASSUME ~twice, NEW entry \in sessions, entry[2] \in connected'
      PROVE  entry \in sessions' /\ entry[1] \notin KeysOf(call.at)
  <2>1. entry \notin call.at
    BY <1>1, <1>9 DEF Numbers
  <2> QED BY <1>1, <1>8, <1>9, <2>1
<1>10. Kept'
  <2>1. \A d \in Closing : closing'[d].step # "clean" => closing'[d].at = {}
    BY <1>3, <1>4 DEF Kept
  <2>2. ASSUME ~twice'
        PROVE  /\ connected' \subseteq Numbers(sessions)'
               /\ \A d \in Closing : closing'[d].at \subseteq sessions'
               /\ \A d, e \in Closing : d # e => closing'[d].at \cap closing'[e].at = {}
    <3>1. ~twice
      BY <1>1, <2>2
    <3>2. connected' \subseteq Numbers(sessions)'
      <4> SUFFICES ASSUME NEW n \in connected' PROVE n \in Numbers(sessions)'
        OBVIOUS
      <4>1. PICK entry \in sessions : entry[2] = n
        BY <1>1, <3>1 DEF Kept, Numbers
      <4> QED BY <1>9, <3>1, <4>1 DEF Numbers
    <3>3. ASSUME NEW d \in Closing \ {c}, NEW entry \in closing[d].at
          PROVE  entry \in sessions'
      <4>1. entry \in sessions /\ entry \notin call.at
        BY <3>1 DEF Kept
      <4> QED BY <1>1, <1>8, <3>1, <4>1
    <3>4. \A d \in Closing : closing'[d].at \subseteq sessions'
      BY <1>3, <1>4, <3>3
    <3>5. \A d, e \in Closing : d # e => closing'[d].at \cap closing'[e].at = {}
      BY <1>3, <1>4, <3>1 DEF Kept
    <3> QED BY <3>2, <3>4, <3>5
  <2> QED BY <2>1, <2>2 DEF Kept
<1>11. Promised'
  <2> SUFFICES ASSUME ~twice', NEW d \in Closing, NEW n \in closing'[d].due
               PROVE  Covered(d, n)'
    BY DEF Promised
  <2>1. ~twice /\ n \in closing[d].due
    BY <1>1, <1>3, <1>4
  <2>2. Covered(d, n)
    BY <2>1 DEF Promised
  <2>3. \A entry \in sessions : entry[2] = n /\ n \in connected' => entry \in sessions'
                                                /\ entry[1] \notin KeysOf(call.at)
    BY <1>9, <2>1
  <2>4. CASE d # c
    BY <1>1, <1>4, <1>6, <2>2, <2>3, <2>4 DEF Covered, KeysOf
  <2>5. CASE d = c
    <3>1. n \in 1 .. made /\ n \notin Numbers(opening)
      BY <1>1, <2>2, <2>5 DEF Covered
    <3>2. n \in connected' => \E entry \in sessions' : entry[2] = n /\ entry[1] \in next.keys
      BY <1>1, <1>3, <2>2, <2>3, <2>5 DEF Covered
    <3> QED BY <1>1, <1>3, <1>4, <1>6, <2>5, <3>1, <3>2 DEF Covered
  <2> QED BY <2>4, <2>5
<1> QED BY <1>1, <1>5, <1>7, <1>10, <1>11

(* A call returns with nothing left to go through, hence to close.         *)
LEMMA CallReturnsInv ==
  ASSUME SessionInv, NEW c \in Closing, CallReturns(c)
  PROVE  SessionInv'
<1> USE DEF CallReturns, SessionInv
<1>1. CallIs(c, NoCall) /\ UNCHANGED <<sessions, opening, connected, made, twice>>
  OBVIOUS
<1>2. ASSUME ~twice, NEW n \in closing[c].due
      PROVE  n \notin connected \cup Numbers(opening)
  <2>1. Covered(c, n) /\ KeysOf(closing[c].at) = {}
    BY <1>2 DEF Promised, Kept, KeysOf
  <2> QED BY <2>1 DEF Covered
<1>3. ~twice => ~overlooked'
  BY <1>2
<1>4. overlooked' \in BOOLEAN
  BY DEF SessionTypeOK
<1>5. SessionTypeOK' /\ Numbered' /\ Kept' /\ Promised'
  BY <1>1, <1>4, NoCallIsCall, CallStep
<1> QED BY <1>1, <1>3, <1>5

LEMMA SessionNextInv == SessionInv /\ [SessionNext]_sessionVars => SessionInv'
<1> SUFFICES ASSUME SessionInv, [SessionNext]_sessionVars PROVE SessionInv'
  OBVIOUS
<1>1. CASE UNCHANGED sessionVars
  BY <1>1 DEF sessionVars, SessionInv, SessionTypeOK, Numbered, Kept, Promised, Covered,
              Numbers, KeysOf
<1>2. CASE \E key \in Key : GetSession(key)
  BY <1>2, GetSessionInv
<1>3. CASE \E entry \in opening : SessionOpens(entry) \/ OpenFails(entry)
  BY <1>3, SessionOpensInv, OpenFailsInv
<1>4. ASSUME NEW c \in Closing,
             \/ \E agent \in Agent : CloseAllForAgent(c, agent)
             \/ \E keys \in SUBSET Key : CloseSome(c, keys)
             \/ \E key \in Key : CleanUp(c, key)
             \/ OpeningsSettle(c) \/ CleanedUp(c) \/ CallReturns(c)
      PROVE  SessionInv'
  BY <1>4, CloseAllForAgentInv, CloseSomeInv, CleanUpInv, OpeningsSettleInv, CleanedUpInv,
     CallReturnsInv
<1> QED BY <1>1, <1>2, <1>3, <1>4 DEF SessionNext

LEMMA SessionInvariance == SessionSpec => []SessionInv
<1>1. SessionInit => SessionInv
  BY SessionInitInv
<1> QED BY <1>1, SessionNextInv, PTL DEF SessionSpec

-----------------------------------------------------------------------------
LEMMA OneMore ==
  ASSUME NEW S, IsFiniteSet(S), NEW x
  PROVE  /\ IsFiniteSet(S \cup {x}) /\ Cardinality(S \cup {x}) \in Nat
         /\ Cardinality(S \cup {x}) <= Cardinality(S) + 1
<1>1. Cardinality(S) \in Nat
  BY FS_CardinalityType
<1>2. IsFiniteSet(S \cup {x}) /\ Cardinality(S \cup {x}) \in {Cardinality(S), Cardinality(S) + 1}
  BY FS_AddElement
<1> QED BY <1>1, <1>2

(* The limit: what is being opened counts like a session, so that opening  *)
(* is an exchange of one for the other.                                    *)
LEMMA FitsStays == SessionInv /\ Fits /\ [SessionNext]_sessionVars => Fits'
<1> SUFFICES ASSUME SessionInv, Fits, [SessionNext]_sessionVars PROVE Fits'
  OBVIOUS
<1>1. Cardinality(sessions) \in Nat /\ Cardinality(opening) \in Nat
  BY FS_CardinalityType DEF Fits
<1>2. ASSUME NEW key \in Key, GetSession(key) PROVE Fits'
  <2>1. opening' = opening \cup {<<key, made + 1>>} /\ sessions' = sessions
    BY <1>2 DEF GetSession
  <2>2. IsFiniteSet(opening') /\ Cardinality(opening') <= Cardinality(opening) + 1
        /\ Cardinality(opening') \in Nat
    BY <1>1, <2>1, OneMore DEF Fits
  <2> QED BY <1>1, <1>2, <2>1, <2>2 DEF Fits, GetSession
<1>3. ASSUME NEW entry \in opening, SessionOpens(entry) PROVE Fits'
  <2>1. sessions' = sessions \cup {entry}
    BY <1>3, SessionOpensInv
  <2>2. opening' = opening \ {entry}
    BY <1>3 DEF SessionOpens
  <2>3. IsFiniteSet(opening') /\ Cardinality(opening') = Cardinality(opening) - 1
    BY <2>2, FS_RemoveElement DEF Fits
  <2>4. IsFiniteSet(sessions') /\ Cardinality(sessions') <= Cardinality(sessions) + 1
        /\ Cardinality(sessions') \in Nat
    BY <1>1, <2>1, OneMore DEF Fits
  <2> QED BY <1>1, <2>3, <2>4 DEF Fits
<1>4. ASSUME NEW entry \in opening, OpenFails(entry) PROVE Fits'
  <2>1. opening' = opening \ {entry} /\ sessions' = sessions
    BY <1>4 DEF OpenFails
  <2>2. IsFiniteSet(opening') /\ Cardinality(opening') = Cardinality(opening) - 1
    BY <2>1, FS_RemoveElement DEF Fits
  <2> QED BY <1>1, <2>1, <2>2 DEF Fits
<1>5. ASSUME sessions' \subseteq sessions, opening' = opening PROVE Fits'
  <2>1. IsFiniteSet(sessions') /\ Cardinality(sessions') <= Cardinality(sessions)
        /\ Cardinality(sessions') \in Nat
    BY <1>5, FS_Subset, FS_CardinalityType DEF Fits
  <2> QED BY <1>1, <1>5, <2>1 DEF Fits
<1>6. ASSUME NEW c \in Closing,
             \/ \E agent \in Agent : CloseAllForAgent(c, agent)
             \/ \E keys \in SUBSET Key : CloseSome(c, keys)
             \/ \E key \in Key : CleanUp(c, key)
             \/ OpeningsSettle(c) \/ CallReturns(c)
      PROVE  Fits'
  BY <1>5, <1>6 DEF CloseAllForAgent, CloseSome, CleanUp, OpeningsSettle, CallReturns, OnlyCall
<1>7. ASSUME NEW c \in Closing, CleanedUp(c) PROVE Fits'
  BY <1>5, <1>7, CleanedUpInv
<1>8. CASE UNCHANGED sessionVars
  BY <1>5, <1>8 DEF sessionVars
<1> QED BY <1>2, <1>3, <1>4, <1>6, <1>7, <1>8 DEF SessionNext

LEMMA FitsInvariance == SessionSpec => []Fits
<1>1. SessionInit => Fits
  BY SessionInitInv
<1> QED BY <1>1, FitsStays, SessionInvariance, PTL DEF SessionSpec

(* There are no more numbers than entries.                                 *)
LEMMA NumbersAreFewer ==
  ASSUME NEW map, IsFiniteSet(map)
  PROVE  IsFiniteSet(Numbers(map)) /\ Cardinality(Numbers(map)) <= Cardinality(map)
<1> DEFINE number == [entry \in map |-> entry[2]]
<1>1. number \in Surjection(map, Numbers(map))
  BY DEF Surjection, Numbers
<1> QED BY <1>1, FS_Surjection

-----------------------------------------------------------------------------
(* Type correctness: there is one session at most for a document and an    *)
(* agent, whether open or being opened.                                    *)
THEOREM SessionTypeCorrect == SessionSpec => []SessionTypeOK
<1>1. SessionInv => SessionTypeOK
  BY DEF SessionInv
<1> QED BY <1>1, SessionInvariance, PTL

(* No connection is open that nothing can close any more.                  *)
THEOREM NoSessionForgotten == SessionSpec => []NoneForgotten
<1>1. SessionInv => NoneForgotten
  BY DEF SessionInv, Kept, NoneForgotten
<1> QED BY <1>1, SessionInvariance, PTL

(* When closeAllForAgent returns, all that the agent had is closed.        *)
THEOREM AgentGetsClosed == SessionSpec => []AgentIsClosed
<1>1. SessionInv => AgentIsClosed
  BY DEF SessionInv, AgentIsClosed
<1> QED BY <1>1, SessionInvariance, PTL

(* The limit on sessions holds for the connections that are really open.   *)
THEOREM CapacityHolds == SessionSpec => []WithinCapacity
<1>1. SessionInv /\ Fits => WithinCapacity
  <2> SUFFICES ASSUME SessionInv, Fits, ~twice
               PROVE  Cardinality(connected) + Cardinality(opening) <= MaxSessions
    BY DEF WithinCapacity
  <2>1. IsFiniteSet(Numbers(sessions)) /\ Cardinality(Numbers(sessions)) <= Cardinality(sessions)
    BY NumbersAreFewer DEF Fits
  <2>2. connected \subseteq Numbers(sessions)
    BY DEF SessionInv, Kept
  <2>3. IsFiniteSet(connected) /\ Cardinality(connected) <= Cardinality(Numbers(sessions))
    BY <2>1, <2>2, FS_Subset
  <2>4. /\ Cardinality(connected) \in Nat /\ Cardinality(opening) \in Nat
        /\ Cardinality(sessions) \in Nat /\ Cardinality(Numbers(sessions)) \in Nat
    BY <2>1, <2>3, FS_CardinalityType DEF Fits
  <2> QED BY <2>1, <2>3, <2>4 DEF Fits
<1> QED BY <1>1, SessionInvariance, FitsInvariance, PTL
=============================================================================
