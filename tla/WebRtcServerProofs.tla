-------------------------- MODULE WebRtcServerProofs --------------------------
(***************************************************************************)
(* Safety of WebRtcServer for any addresses, session ids and messages.     *)
(* The session tables agree only because the control thread touches them   *)
(* when no callback runs and the context is gone before they are cleared:  *)
(* Phases ties the two threads together and is what makes it inductive.    *)
(***************************************************************************)
EXTENDS WebRtcServer, TLAPS

USE SessionAssumption

\* stop() goes through its phases with running_ down, alone after the join, and
\* the context, once destroyed, has closed every connection.
Phases ==
  /\ ctl # "idle" => ~ running
  /\ ctl \in {"destroy", "clear"} => svc = "none"
  /\ ctl = "clear" => ~ ws_context
  /\ ctl = "idle" /\ ~ running => svc = "none" /\ ~ ws_context
  /\ svc # "none" => ws_context
  /\ ~ ws_context => \A w \in Wsi : ~ open[w]

\* What the callback that runs knows of its connection.
CallbackFrame ==
  /\ svc \in InCallback => frame.wsi \in Wsi
  /\ svc = "create" => open[frame.wsi] /\ user_data[frame.wsi] = NoSession

\* An id in the map was drawn once.
OnlyUsedIds == \A id \in SessionId : sessions[id] # Absent => id \in used

IInv == /\ TypeOK
        /\ SessionsMatchConnections
        /\ CallbackSessionAlive
        /\ Phases
        /\ CallbackFrame
        /\ OnlyUsedIds
-----------------------------------------------------------------------------
LEMMA InitEstablishes == Init => IInv
<1> SUFFICES ASSUME Init PROVE IInv
  OBVIOUS
<1> USE DEF Init
<1>1. TypeOK
  BY DEF TypeOK, Frame, NoFrame
<1>2. SessionsMatchConnections
  BY DEF SessionsMatchConnections
<1>3. CallbackSessionAlive /\ Phases /\ CallbackFrame /\ OnlyUsedIds
  BY DEF CallbackSessionAlive, Phases, CallbackFrame, OnlyUsedIds, InCallback
<1> QED BY <1>1, <1>2, <1>3 DEF IInv

\* Forget takes one connection and its session out of the three tables.
LEMMA ForgetFacts ==
  ASSUME TypeOK, SessionsMatchConnections, OnlyUsedIds, NEW w \in Wsi, Forget(w),
         \A v \in Wsi : open[v] /\ user_data[v] = NoSession => v = w
  PROVE  /\ sessions' \in [SessionId -> Session \cup {Absent}]
         /\ open' \in [Wsi -> BOOLEAN]
         /\ user_data' \in [Wsi -> SessionId \cup {NoSession}]
         /\ used' = used
         /\ \A id \in SessionId : sessions'[id] # Absent =>
              open'[sessions'[id].wsi] /\ user_data'[sessions'[id].wsi] = id
         /\ \A v \in Wsi : user_data'[v] # NoSession =>
              /\ open'[v]
              /\ user_data'[v] # NoSession
              /\ sessions'[user_data'[v]] # Absent
              /\ sessions'[user_data'[v]].wsi = v
         /\ \A v \in Wsi : ~ (open'[v] /\ user_data'[v] = NoSession)
         /\ OnlyUsedIds'
<1> USE DEF Forget
<1>1. /\ sessions' \in [SessionId -> Session \cup {Absent}]
      /\ open' \in [Wsi -> BOOLEAN]
      /\ user_data' \in [Wsi -> SessionId \cup {NoSession}]
      /\ used' = used
  BY DEF TypeOK
<1>2. /\ \A v \in Wsi : open'[v] <=> open[v] /\ v # w
      /\ \A v \in Wsi : user_data'[v] = IF v = w THEN NoSession ELSE user_data[v]
      /\ \A id \in SessionId :
           sessions'[id] = IF id = user_data[w] THEN Absent ELSE sessions[id]
  BY DEF TypeOK
<1>3. ASSUME NEW id \in SessionId, sessions'[id] # Absent
      PROVE  open'[sessions'[id].wsi] /\ user_data'[sessions'[id].wsi] = id
  <2>1. id # user_data[w] /\ sessions'[id] = sessions[id]
    BY <1>2, <1>3
  <2>2. sessions[id].wsi \in Wsi
    BY <1>3, <2>1 DEF TypeOK, Session
  <2>3. open[sessions[id].wsi] /\ user_data[sessions[id].wsi] = id
    BY <1>3, <2>1 DEF SessionsMatchConnections
  <2> QED BY <1>2, <2>1, <2>2, <2>3
<1>4. ASSUME NEW v \in Wsi, user_data'[v] # NoSession
      PROVE  /\ open'[v]
             /\ sessions'[user_data'[v]] # Absent
             /\ sessions'[user_data'[v]].wsi = v
  <2>1. v # w /\ user_data'[v] = user_data[v] /\ user_data[v] \in SessionId
    BY <1>2, <1>4 DEF TypeOK
  <2>2. /\ open[v]
        /\ sessions[user_data[v]] # Absent
        /\ sessions[user_data[v]].wsi = v
    BY <1>4, <2>1 DEF SessionsMatchConnections, Present
  <2>3. user_data[v] # user_data[w]
    BY <2>1, <2>2 DEF SessionsMatchConnections, Present
  <2> QED BY <1>2, <2>1, <2>2, <2>3
<1>5. ASSUME NEW v \in Wsi
      PROVE  ~ (open'[v] /\ user_data'[v] = NoSession)
  BY <1>2, <1>5
<1>6. OnlyUsedIds'
  BY <1>1, <1>2 DEF OnlyUsedIds
<1> QED BY <1>1, <1>3, <1>4, <1>5, <1>6
-----------------------------------------------------------------------------
\* The steps that leave the tables, and so their agreement, alone.
LEMMA TablesKept ==
  ASSUME IInv, UNCHANGED tables,
         \A w \in Wsi : open[w] /\ user_data[w] = NoSession =>
                          svc' = "create" /\ frame'.wsi = w
  PROVE  SessionsMatchConnections' /\ OnlyUsedIds'
BY DEF IInv, tables, SessionsMatchConnections, OnlyUsedIds, Present

\* start() and the parts of stop() that only move the phases along.
LEMMA PhaseStep ==
  ASSUME IInv,
         Start \/ StartWithoutThread \/ StopRequest \/ StopJoin \/ DestroyContext
  PROVE  IInv'
<1> USE DEF service, tables
<1>1. UNCHANGED tables
  BY DEF Start, StartWithoutThread, StopRequest, StopJoin, DestroyContext
<1>2. TypeOK'
  BY DEF IInv, TypeOK, Start, StartWithoutThread, StopRequest, StopJoin, DestroyContext
<1>3. Phases'
  BY DEF IInv, TypeOK, Phases, Start, StartWithoutThread, StopRequest, StopJoin,
         DestroyContext
<1>4. svc' = svc \/ (svc \in {"none", "done"} /\ svc' \in {"none", "test"})
  BY DEF IInv, Phases, Start, StartWithoutThread, StopRequest, StopJoin, DestroyContext
<1>5. frame' = frame
  BY DEF Start, StartWithoutThread, StopRequest, StopJoin, DestroyContext
<1>6. CallbackSessionAlive' /\ CallbackFrame'
  BY <1>1, <1>4, <1>5 DEF IInv, CallbackSessionAlive, CallbackFrame, Present, InCallback
<1>7. SessionsMatchConnections' /\ OnlyUsedIds'
  <2>1. \A w \in Wsi : open[w] /\ user_data[w] = NoSession =>
                         svc' = "create" /\ frame'.wsi = w
    BY <1>4, <1>5 DEF IInv, SessionsMatchConnections
  <2> QED BY <1>1, <2>1, TablesKept
<1> QED BY <1>2, <1>3, <1>6, <1>7 DEF IInv

\* The rest of stop(): the connections close, then the sessions are cleared.
LEMMA DestroyStep ==
  ASSUME IInv, NEW w \in Wsi, DestroyConnection(w)
  PROVE  IInv'
<1> USE DEF DestroyConnection, service
<1>1. svc = "none"
  BY DEF IInv, Phases
<1>2. \A v \in Wsi : open[v] /\ user_data[v] = NoSession => v = w
  BY <1>1 DEF IInv, SessionsMatchConnections
<1>3. /\ TypeOK'
      /\ SessionsMatchConnections'
      /\ OnlyUsedIds'
      /\ \A v \in Wsi : open'[v] => open[v]
  <2>1. /\ sessions' \in [SessionId -> Session \cup {Absent}]
        /\ open' \in [Wsi -> BOOLEAN]
        /\ user_data' \in [Wsi -> SessionId \cup {NoSession}]
        /\ used' = used
        /\ OnlyUsedIds'
    BY <1>2, ForgetFacts DEF IInv
  <2>2. TypeOK'
    BY <2>1 DEF IInv, TypeOK
  <2>3. SessionsMatchConnections'
    BY <1>2, ForgetFacts DEF IInv, SessionsMatchConnections, Present
  <2>4. \A v \in Wsi : open'[v] => open[v]
    BY DEF IInv, TypeOK, Forget
  <2> QED BY <2>1, <2>2, <2>3, <2>4
<1>4. CallbackSessionAlive' /\ CallbackFrame'
  BY <1>1 DEF CallbackSessionAlive, CallbackFrame, InCallback
<1>5. Phases'
  BY <1>1, <1>3 DEF IInv, Phases
<1> QED BY <1>3, <1>4, <1>5 DEF IInv

LEMMA ClearStep ==
  ASSUME IInv, ClearSessions
  PROVE  IInv'
<1> USE DEF ClearSessions, service
<1>1. svc = "none" /\ ~ ws_context /\ ~ running /\ \A w \in Wsi : ~ open[w]
  BY DEF IInv, Phases
<1>2. \A w \in Wsi : user_data[w] = NoSession
  BY <1>1 DEF IInv, SessionsMatchConnections
<1>3. TypeOK'
  BY DEF IInv, TypeOK
<1>4. SessionsMatchConnections' /\ OnlyUsedIds'
  BY <1>1, <1>2 DEF SessionsMatchConnections, OnlyUsedIds
<1>5. CallbackSessionAlive' /\ CallbackFrame' /\ Phases'
  BY <1>1 DEF CallbackSessionAlive, CallbackFrame, Phases, InCallback
<1> QED BY <1>3, <1>4, <1>5 DEF IInv
-----------------------------------------------------------------------------
\* The service loop, the lookups and the responses: no table changes.
LEMMA LoopStep ==
  ASSUME IInv, LoopTest \/ ServiceReturns \/ SendControlResponse
  PROVE  IInv'
<1> USE DEF tables
<1>1. UNCHANGED <<tables, running, ws_context, ctl>> /\ svc \in {"test", "service", "respond"}
      /\ svc' \in {"test", "service", "done"}
  BY DEF LoopTest, ServiceReturns, SendControlResponse
<1>2. TypeOK'
  BY DEF IInv, TypeOK, LoopTest, ServiceReturns, SendControlResponse, Frame, NoFrame, InCallback
<1>3. Phases' /\ CallbackSessionAlive' /\ CallbackFrame'
  BY <1>1 DEF IInv, Phases, CallbackSessionAlive, CallbackFrame, InCallback
<1>4. SessionsMatchConnections' /\ OnlyUsedIds'
  BY <1>1, TablesKept DEF IInv, SessionsMatchConnections
<1> QED BY <1>2, <1>3, <1>4 DEF IInv

LEMMA ReceiveStep ==
  ASSUME IInv, NEW w \in Wsi, NEW m \in Message, Receive(w, m)
  PROVE  IInv'
<1> DEFINE next == IF Present(user_data[w]) THEN Handler[m] ELSE "close"
<1>1. /\ UNCHANGED <<tables, running, ws_context, ctl, mutex, last_send>>
      /\ svc = "service"
      /\ svc' = next
      /\ frame' = IF next = "service" THEN NoFrame ELSE [wsi |-> w, id |-> user_data[w]]
  BY DEF Receive, tables
<1>2. /\ next \in {"ping", "handshake", "respond", "service", "close"}
      /\ next \in {"ping", "handshake", "respond"} => Present(user_data[w])
  <2>1. m \in {"ping", "handshake_response", "tile_request", "ignored", "malformed"}
    BY DEF Kind
  <2>2. Handler[m] \in {"ping", "handshake", "respond", "service", "close"}
    BY <2>1 DEF Handler
  <2> QED BY <2>2
<1>3. TypeOK'
  BY <1>1, <1>2 DEF IInv, TypeOK, Frame, NoFrame, InCallback, tables
<1>4. Phases'
  BY <1>1, <1>2 DEF IInv, Phases, tables
<1>5. CallbackSessionAlive'
  <2>1. Present(user_data[w]) => sessions[user_data[w]].wsi = w
    BY DEF IInv, SessionsMatchConnections, Present
  <2> QED BY <1>1, <1>2, <2>1 DEF CallbackSessionAlive, Present, tables
<1>6. CallbackFrame'
  BY <1>1, <1>2 DEF CallbackFrame, InCallback
<1>7. SessionsMatchConnections' /\ OnlyUsedIds'
  BY <1>1, TablesKept DEF IInv, SessionsMatchConnections
<1> QED BY <1>3, <1>4, <1>5, <1>6, <1>7 DEF IInv

\* A hangup only moves to the CLOSED callback.
LEMMA HangupStep ==
  ASSUME IInv, NEW w \in Wsi, Hangup(w)
  PROVE  IInv'
<1> USE DEF Hangup, tables
<1>1. TypeOK'
  BY DEF IInv, TypeOK, Frame, InCallback
<1>2. Phases' /\ CallbackSessionAlive' /\ CallbackFrame'
  BY DEF IInv, Phases, CallbackSessionAlive, CallbackFrame
<1>3. SessionsMatchConnections' /\ OnlyUsedIds'
  BY TablesKept DEF IInv, SessionsMatchConnections
<1> QED BY <1>1, <1>2, <1>3 DEF IInv
-----------------------------------------------------------------------------
\* The callbacks that write the tables.
LEMMA AcceptStep ==
  ASSUME IInv, NEW w \in Wsi, Accept(w)
  PROVE  IInv'
<1> USE DEF Accept
<1>1. ws_context /\ ctl \notin {"destroy", "clear"}
  BY DEF IInv, Phases
<1>2. user_data[w] = NoSession
  BY DEF IInv, SessionsMatchConnections
<1>3. TypeOK'
  BY DEF IInv, TypeOK, Frame, InCallback
<1>4. \A v \in Wsi : open'[v] <=> open[v] \/ v = w
  BY DEF IInv, TypeOK
<1>5. CallbackFrame' /\ CallbackSessionAlive' /\ OnlyUsedIds'
  BY <1>2, <1>4 DEF IInv, CallbackFrame, CallbackSessionAlive, OnlyUsedIds
<1>6. Phases'
  BY <1>1 DEF IInv, Phases
<1>7. SessionsMatchConnections'
  <2>1. ASSUME NEW id \in SessionId, sessions[id] # Absent
        PROVE  open'[sessions[id].wsi] /\ user_data[sessions[id].wsi] = id
    <3>1. sessions[id].wsi \in Wsi
      BY <2>1 DEF IInv, TypeOK, Session
    <3> QED BY <1>4, <2>1, <3>1 DEF IInv, SessionsMatchConnections
  <2>2. ASSUME NEW v \in Wsi, user_data[v] # NoSession
        PROVE  open'[v] /\ Present(user_data[v]) /\ sessions[user_data[v]].wsi = v
    BY <1>4, <2>2 DEF IInv, SessionsMatchConnections
  <2>3. ASSUME NEW v \in Wsi, open'[v], user_data[v] = NoSession
        PROVE  svc' = "create" /\ frame'.wsi = v
    BY <1>4, <2>3 DEF IInv, SessionsMatchConnections
  <2> QED BY <2>1, <2>2, <2>3 DEF SessionsMatchConnections, Present
<1> QED BY <1>3, <1>5, <1>6, <1>7 DEF IInv

LEMMA CreateStep ==
  ASSUME IInv, CreateSession
  PROVE  IInv'
<1> DEFINE w == frame.wsi
<1>1. w \in Wsi /\ open[w] /\ user_data[w] = NoSession /\ ws_context
  BY DEF IInv, CallbackFrame, Phases, InCallback, CreateSession
<1>2. PICK id \in SessionId \ used :
        /\ used' = used \cup {id}
        /\ sessions' = [sessions EXCEPT ![id] = [wsi |-> w, datachannel_ready |-> FALSE]]
        /\ user_data' = [user_data EXCEPT ![w] = id]
        /\ frame' = [frame EXCEPT !.id = id]
  BY DEF CreateSession
<1>3. svc' = "respond" /\ UNCHANGED <<running, ws_context, open, mutex, ctl, last_send>>
  BY DEF CreateSession
<1>4. sessions[id] = Absent /\ \A v \in Wsi : user_data[v] # id
  BY <1>2 DEF IInv, OnlyUsedIds, SessionsMatchConnections, Present
<1>5. [wsi |-> w, datachannel_ready |-> FALSE] \in Session
  BY <1>1 DEF Session
<1>6. TypeOK'
  BY <1>1, <1>2, <1>3, <1>5 DEF IInv, TypeOK, Frame, InCallback
<1>7. /\ \A i \in SessionId :
           sessions'[i] = IF i = id THEN [wsi |-> w, datachannel_ready |-> FALSE]
                          ELSE sessions[i]
      /\ \A v \in Wsi : user_data'[v] = IF v = w THEN id ELSE user_data[v]
      /\ frame'.wsi = w /\ frame'.id = id
  BY <1>1, <1>2 DEF IInv, TypeOK, Frame
<1>8. /\ sessions'[id] = [wsi |-> w, datachannel_ready |-> FALSE]
      /\ sessions'[id] # Absent
      /\ sessions'[id].wsi = w
      /\ id # NoSession
  <2>1. sessions'[id] = [wsi |-> w, datachannel_ready |-> FALSE]
    BY <1>2, <1>7
  <2>2. [wsi |-> w, datachannel_ready |-> FALSE] # Absent
    BY <1>5
  <2>3. id # NoSession
    BY <1>2
  <2> QED BY <2>1, <2>2, <2>3
<1>9. CallbackSessionAlive' /\ CallbackFrame' /\ Phases' /\ OnlyUsedIds'
  <2>1. CallbackSessionAlive'
    BY <1>7, <1>8 DEF CallbackSessionAlive, Present
  <2>2. CallbackFrame' /\ Phases'
    BY <1>1, <1>3, <1>7, CreateSession DEF IInv, Phases, CallbackFrame, CreateSession
  <2>3. OnlyUsedIds'
    BY <1>2, <1>7 DEF IInv, OnlyUsedIds
  <2> QED BY <2>1, <2>2, <2>3
<1>10. SessionsMatchConnections'
  <2>1. ASSUME NEW i \in SessionId, sessions'[i] # Absent
        PROVE  open'[sessions'[i].wsi] /\ user_data'[sessions'[i].wsi] = i
    <3>1. CASE i = id
      BY <1>1, <1>3, <1>7, <3>1
    <3>2. CASE i # id
      <4>1. /\ sessions'[i] = sessions[i]
            /\ sessions[i].wsi \in Wsi
            /\ open[sessions[i].wsi]
            /\ user_data[sessions[i].wsi] = i
        BY <1>7, <2>1, <3>2 DEF IInv, TypeOK, Session, SessionsMatchConnections
      <4> QED BY <1>1, <1>3, <1>7, <4>1
    <3> QED BY <3>1, <3>2
  <2>2. ASSUME NEW v \in Wsi, user_data'[v] # NoSession
        PROVE  open'[v] /\ sessions'[user_data'[v]] # Absent /\ sessions'[user_data'[v]].wsi = v
    <3>1. CASE v = w
      BY <1>1, <1>3, <1>7, <1>8, <3>1
    <3>2. CASE v # w
      <4>1. /\ user_data'[v] = user_data[v]
            /\ user_data[v] \in SessionId
            /\ user_data[v] # id
        BY <1>4, <1>7, <2>2, <3>2 DEF IInv, TypeOK
      <4>2. open[v] /\ Present(user_data[v]) /\ sessions[user_data[v]].wsi = v
        BY <2>2, <4>1 DEF IInv, SessionsMatchConnections
      <4> QED BY <1>3, <1>7, <4>1, <4>2 DEF Present
    <3> QED BY <3>1, <3>2
  <2>3. \A v \in Wsi : ~ (open'[v] /\ user_data'[v] = NoSession)
    BY <1>2, <1>3, <1>7 DEF IInv, SessionsMatchConnections
  <2> QED BY <2>1, <2>2, <2>3 DEF SessionsMatchConnections, Present
<1> QED BY <1>6, <1>9, <1>10 DEF IInv

LEMMA HandleStep ==
  ASSUME IInv, HandleLocked
  PROVE  IInv'
<1>1. /\ svc \in {"ping", "handshake"}
      /\ UNCHANGED <<running, ws_context, open, user_data, used, ctl, last_send>>
  BY DEF HandleLocked
<1>2. Present(frame.id) /\ sessions[frame.id].wsi = frame.wsi /\ frame.wsi \in Wsi
  BY <1>1 DEF IInv, CallbackSessionAlive, CallbackFrame, InCallback
<1>3. frame.id \in SessionId
  BY <1>2 DEF IInv, TypeOK, Frame, Present
<1>4. /\ mutex' = "svc" /\ svc' = "respond" /\ frame' = frame
      /\ sessions' = IF svc = "handshake"
                     THEN [sessions EXCEPT ![frame.id].datachannel_ready = TRUE]
                     ELSE sessions
  BY <1>2 DEF HandleLocked
<1>5. sessions[frame.id] \in Session
  BY <1>2, <1>3 DEF IInv, TypeOK, Present
<1>6. /\ sessions' \in [SessionId -> Session \cup {Absent}]
      /\ \A id \in SessionId : /\ sessions'[id] # Absent <=> sessions[id] # Absent
                               /\ sessions[id] # Absent => sessions'[id].wsi = sessions[id].wsi
  <2>1. CASE svc = "handshake"
    <3>1. [sessions[frame.id] EXCEPT !.datachannel_ready = TRUE] \in Session
      BY <1>5 DEF Session
    <3>2. [sessions[frame.id] EXCEPT !.datachannel_ready = TRUE].wsi = sessions[frame.id].wsi
      BY <1>5 DEF Session
    <3>3. sessions' = [sessions EXCEPT ![frame.id] =
                         [sessions[frame.id] EXCEPT !.datachannel_ready = TRUE]]
      BY <1>4, <2>1
    <3> QED BY <1>3, <1>5, <3>1, <3>2, <3>3 DEF IInv, TypeOK
  <2>2. CASE svc # "handshake"
    BY <1>4, <2>2 DEF IInv, TypeOK
  <2> QED BY <2>1, <2>2
<1>7. TypeOK'
  BY <1>1, <1>4, <1>6 DEF IInv, TypeOK, InCallback
<1>8. CallbackSessionAlive' /\ CallbackFrame' /\ Phases' /\ OnlyUsedIds'
  BY <1>1, <1>2, <1>3, <1>4, <1>6
  DEF IInv, CallbackSessionAlive, CallbackFrame, Phases, OnlyUsedIds, Present, InCallback
<1>9. SessionsMatchConnections'
  <2>1. ASSUME NEW id \in SessionId, sessions'[id] # Absent
        PROVE  open'[sessions'[id].wsi] /\ user_data'[sessions'[id].wsi] = id
    BY <1>1, <1>6, <2>1 DEF IInv, SessionsMatchConnections
  <2>2. ASSUME NEW v \in Wsi, user_data'[v] # NoSession
        PROVE  open'[v] /\ sessions'[user_data'[v]] # Absent /\ sessions'[user_data'[v]].wsi = v
    <3>1. user_data[v] \in SessionId /\ user_data'[v] = user_data[v]
      BY <1>1, <2>2 DEF IInv, TypeOK
    <3>2. open[v] /\ sessions[user_data[v]] # Absent /\ sessions[user_data[v]].wsi = v
      BY <2>2, <3>1 DEF IInv, SessionsMatchConnections, Present
    <3> QED BY <1>1, <1>6, <3>1, <3>2
  <2>3. \A v \in Wsi : ~ (open'[v] /\ user_data'[v] = NoSession)
    BY <1>1 DEF IInv, SessionsMatchConnections
  <2> QED BY <2>1, <2>2, <2>3 DEF SessionsMatchConnections, Present
<1> QED BY <1>7, <1>8, <1>9 DEF IInv

LEMMA ClosedStep ==
  ASSUME IInv, Closed
  PROVE  IInv'
<1> USE DEF Closed
<1>1. frame.wsi \in Wsi /\ ws_context
  BY DEF IInv, CallbackFrame, Phases, InCallback
<1>2. \A v \in Wsi : open[v] /\ user_data[v] = NoSession => v = frame.wsi
  BY DEF IInv, SessionsMatchConnections
<1>3. TypeOK' /\ SessionsMatchConnections' /\ OnlyUsedIds'
  BY <1>1, <1>2, ForgetFacts
  DEF IInv, TypeOK, SessionsMatchConnections, Present, Frame, NoFrame
<1>4. CallbackSessionAlive' /\ CallbackFrame'
  BY DEF CallbackSessionAlive, CallbackFrame, InCallback
<1>5. Phases'
  BY <1>1 DEF IInv, Phases
<1> QED BY <1>3, <1>4, <1>5 DEF IInv

\* Another thread's send_tile_data reads the tables and changes none.
LEMMA SendStep ==
  ASSUME IInv, NEW id \in SessionId, SendTileData(id)
  PROVE  IInv'
<1> USE DEF SendTileData, tables, service
<1>1. TypeOK'
  BY DEF IInv, TypeOK
<1>2. SessionsMatchConnections' /\ CallbackSessionAlive' /\ Phases' /\ CallbackFrame' /\ OnlyUsedIds'
  BY DEF IInv, SessionsMatchConnections, CallbackSessionAlive, Phases, CallbackFrame,
         OnlyUsedIds, Present
<1> QED BY <1>1, <1>2 DEF IInv

LEMMA StepPreserves == IInv /\ [Next]_vars => IInv'
<1> SUFFICES ASSUME IInv, [Next]_vars PROVE IInv'
  OBVIOUS
<1>1. CASE Control
  BY <1>1, PhaseStep, DestroyStep, ClearStep DEF Control
<1>2. CASE ServerThread
  BY <1>2, LoopStep, CreateStep, HandleStep, ClosedStep, AcceptStep, HangupStep, ReceiveStep
  DEF ServerThread
<1>3. CASE \E id \in SessionId : SendTileData(id)
  BY <1>3, SendStep
<1>4. CASE UNCHANGED vars
  BY <1>4 DEF vars, tables, service, IInv, TypeOK, SessionsMatchConnections,
              CallbackSessionAlive, Phases, CallbackFrame, OnlyUsedIds, Present
<1> QED BY <1>1, <1>2, <1>3, <1>4 DEF Next
-----------------------------------------------------------------------------
LEMMA Inductive == Spec => []IInv
BY InitEstablishes, StepPreserves, PTL DEF Spec

\* Every variable keeps its type, whatever the callbacks and the threads do.
THEOREM TypeCorrect == Spec => []TypeOK
<1>1. IInv => TypeOK
  BY DEF IInv
<1> QED BY <1>1, Inductive, PTL

\* sessions_ and the per-connection ids name each other at every moment, so a
\* tile is never written to the address of a closed or a reused connection.
THEOREM SessionsAlwaysMatch == Spec => []SessionsMatchConnections
<1>1. IInv => SessionsMatchConnections
  BY DEF IInv
<1> QED BY <1>1, Inductive, PTL

\* The pointer that get_session hands out without the lock never dangles while
\* the callback that asked for it runs.
THEOREM CallbackSessionAlwaysAlive == Spec => []CallbackSessionAlive
<1>1. IInv => CallbackSessionAlive
  BY DEF IInv
<1> QED BY <1>1, Inductive, PTL

\* lws_context_destroy runs only after the server thread has left lws_service.
THEOREM ContextAlwaysOutlives == Spec => []ContextOutlivesService
<1>1. IInv => ContextOutlivesService
  BY DEF IInv, TypeOK, Phases, ContextOutlivesService, InCallback
<1> QED BY <1>1, Inductive, PTL

\* A stop() that has returned left no thread, context, session or connection.
THEOREM StopAlwaysClean == Spec => []StoppedClean
<1>1. ASSUME IInv, ctl = "idle", ~ running
      PROVE  /\ svc = "none" /\ ~ ws_context
             /\ \A id \in SessionId : sessions[id] = Absent
             /\ \A w \in Wsi : ~ open[w] /\ user_data[w] = NoSession
  <2>1. svc = "none" /\ ~ ws_context /\ \A w \in Wsi : ~ open[w]
    BY <1>1 DEF IInv, Phases
  <2>2. \A id \in SessionId : sessions[id] # Absent => sessions[id].wsi \in Wsi
    BY <1>1 DEF IInv, TypeOK, Session
  <2> QED BY <1>1, <2>1, <2>2 DEF IInv, SessionsMatchConnections
<1>2. IInv => StoppedClean
  BY <1>1 DEF StoppedClean
<1> QED BY <1>2, Inductive, PTL
-----------------------------------------------------------------------------
(* What the second lock of sessions_mutex_ costs *)

\* The mutex is held from a handler to its response, a session is ready only while
\* it is held, and no sender can look then.
HeldToRespond ==
  /\ mutex = "svc" => svc = "respond"
  /\ \A id \in SessionId :
       sessions[id] # Absent /\ sessions[id].datachannel_ready => mutex = "svc"
  /\ last_send = NoSession

\* Nothing moves but the flags of start() and stop().
Stalled == UNCHANGED <<mutex, service, tables, ws_context, last_send>>

LEMMA HeldStalls ==
  ASSUME IInv, HeldToRespond, mutex = "svc", [Next]_vars
  PROVE  Stalled
<1>1. svc = "respond" /\ ctl \in {"idle", "join"} /\ (running \/ ctl = "join")
  BY DEF IInv, TypeOK, Phases, HeldToRespond
<1>2. CASE Control
  BY <1>1, <1>2 DEF Control, Start, StartWithoutThread, StopRequest, StopJoin, DestroyConnection,
                    DestroyContext, ClearSessions, Stalled, service, tables
<1>3. CASE ServerThread
  BY <1>1, <1>3 DEF ServerThread, LoopTest, ServiceReturns, CreateSession, HandleLocked,
                    SendControlResponse, Closed, Accept, Hangup, Receive
<1>4. CASE \E id \in SessionId : SendTileData(id)
  BY <1>4 DEF SendTileData
<1>5. CASE UNCHANGED vars
  BY <1>5 DEF vars, Stalled
<1> QED BY <1>2, <1>3, <1>4, <1>5 DEF Next

\* A handshake is the only step that makes a session ready.
LEMMA HeldStep == IInv /\ HeldToRespond /\ [Next]_vars => HeldToRespond'
<1> SUFFICES ASSUME IInv, HeldToRespond, [Next]_vars PROVE HeldToRespond'
  OBVIOUS
<1>1. CASE mutex = "svc"
  BY <1>1, HeldStalls DEF HeldToRespond, Stalled, service, tables
<1>2. CASE HandleLocked
  <2>1. mutex' = "svc" => svc' = "respond"
    BY <1>2 DEF HandleLocked
  <2>2. mutex' = "svc" \/ UNCHANGED <<mutex, sessions>>
    BY <1>2 DEF HandleLocked
  <2>3. UNCHANGED last_send
    BY <1>2 DEF HandleLocked
  <2> QED BY <2>1, <2>2, <2>3 DEF HeldToRespond
<1>3. CASE \E id \in SessionId : SendTileData(id)
  <2>1. PICK id \in SessionId : SendTileData(id)
    BY <1>3
  <2>2. mutex = "free" /\ UNCHANGED <<sessions, mutex, svc>>
    BY <2>1 DEF SendTileData, tables, service
  <2>3. last_send' = NoSession
    BY <2>1, <2>2 DEF SendTileData, Present, HeldToRespond
  <2> QED BY <2>2, <2>3 DEF HeldToRespond
<1>4. ASSUME mutex = "free", Control \/ ServerThread \/ UNCHANGED vars, ~ HandleLocked
      PROVE  HeldToRespond'
  <2>1. UNCHANGED <<mutex, last_send>>
    BY <1>4 DEF Control, Start, StartWithoutThread, StopRequest, StopJoin, DestroyConnection,
                DestroyContext, ClearSessions, ServerThread, LoopTest, ServiceReturns,
                CreateSession, SendControlResponse, Closed, Accept, Hangup, Receive, vars
  <2>2. \A id \in SessionId : \/ sessions'[id] = sessions[id]
                              \/ sessions'[id] = Absent
                              \/ ~ sessions'[id].datachannel_ready
    <3>1. sessions \in [SessionId -> Session \cup {Absent}]
      BY DEF IInv, TypeOK
    <3>2. CASE CreateSession
      BY <3>1, <3>2 DEF CreateSession
    <3>3. CASE Closed \/ ClearSessions \/ \E w \in Wsi : DestroyConnection(w)
      BY <3>1, <3>3 DEF Closed, ClearSessions, DestroyConnection, Forget
    <3>4. CASE UNCHANGED sessions
      BY <3>4
    <3> QED BY <1>4, <3>2, <3>3, <3>4
            DEF Control, Start, StartWithoutThread, StopRequest, StopJoin, DestroyContext,
                ServerThread, LoopTest, ServiceReturns, SendControlResponse, Accept, Hangup,
                Receive, vars, tables
  <2> QED BY <1>4, <2>1, <2>2 DEF HeldToRespond
<1> QED BY <1>1, <1>2, <1>3, <1>4 DEF IInv, TypeOK, Next

LEMMA AlwaysHeldToRespond == Spec => []HeldToRespond
<1>1. Init => HeldToRespond
  BY DEF Init, HeldToRespond
<1> QED BY <1>1, HeldStep, Inductive, PTL DEF Spec

\* After the first ping or handshake_response that finds its session the server
\* thread, its connections and every send stand still for good: neither a stop()
\* nor anything a client does ends it (webrtc_server.cpp:253, 269).
THEOREM DeadlockIsForever == Spec => [][mutex = "svc" => Stalled]_vars
<1>1. IInv /\ HeldToRespond /\ [Next]_vars => [mutex = "svc" => Stalled]_vars
  BY HeldStalls
<1> QED BY <1>1, Inductive, AlwaysHeldToRespond, PTL DEF Spec

\* So no tile frame is ever written: datachannel_ready is set under the mutex that
\* is not given back, and send_tile_data needs both (webrtc_server.cpp:246, 306-310).
THEOREM NoTileIsEverSent == Spec => [](last_send = NoSession)
<1>1. HeldToRespond => last_send = NoSession
  BY DEF HeldToRespond
<1> QED BY <1>1, AlwaysHeldToRespond, PTL
=============================================================================
