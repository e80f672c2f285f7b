----------------------------- MODULE WebRtcServer -----------------------------
(***************************************************************************)
(* remoteview::WebRtcServer (src/rtc_channel): WebSocket sessions kept by  *)
(* the callbacks that libwebsockets makes on the server thread, while one  *)
(* thread starts and stops the server and another sends tiles.             *)
(*                                                                         *)
(* `svc` is where the server thread is, `frame` the connection and the     *)
(* session of the callback it runs, `ctl` where the thread inside stop()   *)
(* is.  A critical section of sessions_mutex_ is one action, enabled when  *)
(* the mutex is free; only handle_ping and handle_handshake call out while *)
(* they hold it, so `mutex` tells who does.  std::mutex is not recursive:  *)
(* on the Linux targets of the build its owner waits for itself.           *)
(*                                                                         *)
(* libwebsockets is external: it accepts connections, delivers messages,   *)
(* closes a connection whose peer left or whose callback returned -1, and  *)
(* lws_context_destroy closes the open ones on the thread that calls it.   *)
(* The address of a closed connection (wsi) may be used again.  Session    *)
(* ids are taken to be distinct, though a 32-bit seed draws them.          *)
(***************************************************************************)
EXTENDS Naturals, FiniteSets

CONSTANTS Wsi,        \* addresses of struct lws
          SessionId,  \* ids create_session can draw; bounds the sessions of a run
          Message,    \* the kinds of message clients send, a subset of Kind
          NoWsi, NoSession, Absent

Kind == {"ping", "handshake_response", "tile_request", "ignored", "malformed"}

Session == [wsi : Wsi, datachannel_ready : BOOLEAN]
Frame   == [wsi : Wsi \cup {NoWsi}, id : SessionId \cup {NoSession}]
NoFrame == [wsi |-> NoWsi, id |-> NoSession]

ASSUME SessionAssumption ==
  /\ NoWsi \notin Wsi
  /\ NoSession \notin SessionId
  /\ Absent \notin Session
  /\ Message \subseteq Kind

VARIABLES running,
          ws_context,  \* lws context exists
          sessions,    \* SessionId -> Session, or Absent
          mutex,       \* sessions_mutex_: "free" or "svc"
          open,        \* Wsi -> established
          user_data,   \* Wsi -> the id in its per-session data, or NoSession
          used,        \* ids drawn so far
          svc, frame,
          ctl,
          last_send    \* the session of the last tile frame written

service == <<svc, frame>>
tables  == <<sessions, open, user_data, used>>
vars == <<running, ws_context, tables, mutex, service, ctl, last_send>>

Init == /\ running = FALSE
        /\ ws_context = FALSE
        /\ sessions = [id \in SessionId |-> Absent]
        /\ mutex = "free"
        /\ open = [w \in Wsi |-> FALSE]
        /\ user_data = [w \in Wsi |-> NoSession]
        /\ used = {}
        /\ svc = "none"
        /\ frame = NoFrame
        /\ ctl = "idle"
        /\ last_send = NoSession

Present(id) == id # NoSession /\ sessions[id] # Absent
-----------------------------------------------------------------------------
(* The control thread: start() and stop(). *)

Start == /\ ctl = "idle"
         /\ ~ running
         /\ running' = TRUE
         /\ ws_context' = TRUE
         /\ svc' = "test"
         /\ UNCHANGED <<tables, mutex, frame, ctl, last_send>>

\* std::thread throws: the context is destroyed, but running_ stays true.
StartWithoutThread == /\ ctl = "idle"
                      /\ ~ running
                      /\ running' = TRUE
                      /\ UNCHANGED <<ws_context, tables, mutex, service, ctl, last_send>>

\* Mutant: sessions_ is cleared before the server thread has ended.
StopClearsFirst == /\ ctl = "idle"
                   /\ running
                   /\ mutex = "free"
                   /\ running' = FALSE
                   /\ ctl' = "join"
                   /\ sessions' = [id \in SessionId |-> Absent]
                   /\ UNCHANGED <<ws_context, open, user_data, used, mutex, service, last_send>>

StopRequest == /\ ctl = "idle"
               /\ running
               /\ running' = FALSE
               /\ ctl' = "join"
               /\ UNCHANGED <<ws_context, tables, mutex, service, last_send>>

\* Mutant: the server thread is detached instead of joined.
StopDetach == /\ ctl = "join"
              /\ ctl' = "destroy"
              /\ UNCHANGED <<running, ws_context, tables, mutex, service, last_send>>

StopJoin == /\ ctl = "join"
            /\ svc \in {"none", "done"}
            /\ svc' = "none"
            /\ ctl' = "destroy"
            /\ UNCHANGED <<running, ws_context, tables, mutex, frame, last_send>>

\* Mutants of the CLOSED callback: the session stays in the map; the id string
\* is never deleted; the record is blanked in place of erased.
ForgetUserDataOnly(w) ==
  /\ open' = [open EXCEPT ![w] = FALSE]
  /\ user_data' = [user_data EXCEPT ![w] = NoSession]
  /\ UNCHANGED <<sessions, used>>
ForgetSessionOnly(w) ==
  /\ open' = [open EXCEPT ![w] = FALSE]
  /\ sessions' = [id \in SessionId |-> IF id = user_data[w] THEN Absent ELSE sessions[id]]
  /\ UNCHANGED <<user_data, used>>
ForgetBlank(w) ==
  /\ open' = [open EXCEPT ![w] = FALSE]
  /\ user_data' = [user_data EXCEPT ![w] = NoSession]
  /\ sessions' = [id \in SessionId |->
                    IF id = user_data[w] THEN [wsi |-> NoWsi, datachannel_ready |-> FALSE]
                    ELSE sessions[id]]
  /\ UNCHANGED used

\* LWS_CALLBACK_CLOSED, remove_session included; afterwards w is freed.
Forget(w) ==
  /\ open' = [open EXCEPT ![w] = FALSE]
  /\ user_data' = [user_data EXCEPT ![w] = NoSession]
  /\ sessions' = [id \in SessionId |-> IF id = user_data[w] THEN Absent ELSE sessions[id]]
  /\ UNCHANGED used

\* lws_context_destroy makes the CLOSED callbacks on this thread.
DestroyConnection(w) == /\ ctl = "destroy"
                        /\ ws_context
                        /\ open[w]
                        /\ mutex = "free"
                        /\ Forget(w)
                        /\ UNCHANGED <<running, ws_context, mutex, service, ctl, last_send>>

DestroyContext == /\ ctl = "destroy"
                  /\ \A w \in Wsi : ~ open[w]
                  /\ ws_context' = FALSE
                  /\ ctl' = "clear"
                  /\ UNCHANGED <<running, tables, mutex, service, last_send>>

ClearSessions == /\ ctl = "clear"
                 /\ mutex = "free"
                 /\ sessions' = [id \in SessionId |-> Absent]
                 /\ ctl' = "idle"
                 /\ UNCHANGED <<running, ws_context, open, user_data, used, mutex,
                                service, last_send>>
-----------------------------------------------------------------------------
(* The server thread: server_loop() and the callbacks. *)

\* Mutant: while (true).
LoopForever == /\ svc = "test"
               /\ svc' = "service"
               /\ UNCHANGED <<running, ws_context, tables, mutex, frame, ctl, last_send>>

LoopTest == /\ svc = "test"
            /\ svc' = IF running THEN "service" ELSE "done"
            /\ UNCHANGED <<running, ws_context, tables, mutex, frame, ctl, last_send>>

\* lws_service returns: nothing more is ready, or 50 ms have passed.
ServiceReturns == /\ svc = "service"
                  /\ svc' = "test"
                  /\ UNCHANGED <<running, ws_context, tables, mutex, frame, ctl, last_send>>

\* LWS_CALLBACK_ESTABLISHED; the per-session data of a new wsi is zeroed.
Accept(w) == /\ svc = "service"
             /\ ~ open[w]
             /\ used # SessionId
             /\ open' = [open EXCEPT ![w] = TRUE]
             /\ svc' = "create"
             /\ frame' = [wsi |-> w, id |-> NoSession]
             /\ UNCHANGED <<running, ws_context, sessions, user_data, used, mutex, ctl, last_send>>

\* Mutant: create_session's guard lives on while the handshake is sent.
CreateSessionKeepsLock ==
  /\ svc = "create" /\ mutex = "free" /\ mutex' = "svc"
  /\ \E id \in SessionId \ used :
       /\ used' = used \cup {id}
       /\ sessions' = [sessions EXCEPT ![id] = [wsi |-> frame.wsi, datachannel_ready |-> FALSE]]
       /\ user_data' = [user_data EXCEPT ![frame.wsi] = id]
       /\ frame' = [frame EXCEPT !.id = id]
  /\ svc' = "respond"
  /\ UNCHANGED <<running, ws_context, open, ctl, last_send>>

\* The user data is written after the unlock, but only this thread reads it.
CreateSession ==
  /\ svc = "create"
  /\ mutex = "free"
  /\ \E id \in SessionId \ used :
       /\ used' = used \cup {id}
       /\ sessions' = [sessions EXCEPT ![id] = [wsi |-> frame.wsi, datachannel_ready |-> FALSE]]
       /\ user_data' = [user_data EXCEPT ![frame.wsi] = id]
       /\ frame' = [frame EXCEPT !.id = id]
  /\ svc' = "respond"
  /\ UNCHANGED <<running, ws_context, open, mutex, ctl, last_send>>

\* Where each kind of message leads: "ignored" has no known type, no "type" at
\* all, or a field that handle_tile_request cannot convert; "malformed" is not
\* JSON, and the callback returns -1.
Handler == [ping |-> "ping", handshake_response |-> "handshake", tile_request |-> "respond",
            ignored |-> "service", malformed |-> "close"]

\* LWS_CALLBACK_RECEIVE up to the handler: get_session locks, looks up, unlocks.
Receive(w, m) ==
  LET next == IF Present(user_data[w]) THEN Handler[m] ELSE "close"
  IN  /\ svc = "service"
      /\ open[w]
      /\ mutex = "free"
      /\ svc' = next
      /\ frame' = IF next = "service" THEN NoFrame ELSE [wsi |-> w, id |-> user_data[w]]
      /\ UNCHANGED <<running, ws_context, tables, mutex, ctl, last_send>>

\* handle_ping and handle_handshake keep sessions_mutex_ while they respond.
HandleLocked ==
  /\ svc \in {"ping", "handshake"}
  /\ mutex = "free"
  /\ IF Present(frame.id)
     THEN /\ mutex' = "svc"
          /\ sessions' = IF svc = "handshake"
                         THEN [sessions EXCEPT ![frame.id].datachannel_ready = TRUE]
                         ELSE sessions
          /\ svc' = "respond"
          /\ UNCHANGED frame
     ELSE /\ svc' = "service"
          /\ frame' = NoFrame
          /\ UNCHANGED <<mutex, sessions>>
  /\ UNCHANGED <<running, ws_context, open, user_data, used, ctl, last_send>>

\* send_control_response locks sessions_mutex_ whoever holds it already.
SendControlResponse == /\ svc = "respond"
                       /\ mutex = "free"
                       /\ svc' = "service"
                       /\ frame' = NoFrame
                       /\ UNCHANGED <<running, ws_context, tables, mutex, ctl, last_send>>

\* The peer leaves, or the connection fails.
Hangup(w) == /\ svc = "service"
             /\ open[w]
             /\ svc' = "close"
             /\ frame' = [wsi |-> w, id |-> user_data[w]]
             /\ UNCHANGED <<running, ws_context, tables, mutex, ctl, last_send>>

Closed == /\ svc = "close"
          /\ mutex = "free"
          /\ Forget(frame.wsi)
          /\ svc' = "service"
          /\ frame' = NoFrame
          /\ UNCHANGED <<running, ws_context, mutex, ctl, last_send>>
-----------------------------------------------------------------------------
\* send_tile_data on any other thread, for any id it was ever given.
SendTileData(id) ==
  /\ id \in used
  /\ mutex = "free"
  /\ last_send' = IF Present(id) /\ sessions[id].datachannel_ready THEN id ELSE NoSession
  /\ UNCHANGED <<running, ws_context, tables, mutex, service, ctl>>

Control == \/ Start \/ StartWithoutThread
           \/ StopRequest \/ StopJoin \/ DestroyContext \/ ClearSessions
           \/ \E w \in Wsi : DestroyConnection(w)

ServerThread == \/ LoopTest \/ ServiceReturns \/ CreateSession
                \/ HandleLocked \/ SendControlResponse \/ Closed
                \/ \E w \in Wsi : Accept(w) \/ Hangup(w)
                \/ \E w \in Wsi, m \in Message : Receive(w, m)

Next == Control \/ ServerThread \/ \E id \in SessionId : SendTileData(id)

\* A thread inside stop() or a callback runs on; lws_service handles the events
\* that poll() reported and returns, however many more arrive meanwhile.
Fairness ==
  /\ WF_vars(LoopTest) /\ SF_vars(ServiceReturns)
  /\ WF_vars(CreateSession) /\ WF_vars(HandleLocked) /\ WF_vars(SendControlResponse)
  /\ WF_vars(Closed)
  /\ WF_vars(StopJoin) /\ WF_vars(DestroyContext) /\ WF_vars(ClearSessions)
  /\ \A w \in Wsi : WF_vars(DestroyConnection(w))

Spec == Init /\ [][Next]_vars /\ Fairness
-----------------------------------------------------------------------------
InCallback == {"create", "ping", "handshake", "respond", "close"}

TypeOK == /\ running \in BOOLEAN
          /\ ws_context \in BOOLEAN
          /\ sessions \in [SessionId -> Session \cup {Absent}]
          /\ mutex \in {"free", "svc"}
          /\ open \in [Wsi -> BOOLEAN]
          /\ user_data \in [Wsi -> SessionId \cup {NoSession}]
          /\ used \in SUBSET SessionId
          /\ svc \in {"none", "test", "service", "done"} \cup InCallback
          /\ frame \in Frame
          /\ ctl \in {"idle", "join", "destroy", "clear"}
          /\ last_send \in SessionId \cup {NoSession}

\* A session in the map belongs to an open connection whose user data names it,
\* and the other way round; only the connection being accepted has no session
\* yet.  So no send ever writes through the address of a closed connection, not
\* even when a new connection reuses the address.
SessionsMatchConnections ==
  /\ \A id \in SessionId : sessions[id] # Absent =>
       open[sessions[id].wsi] /\ user_data[sessions[id].wsi] = id
  /\ \A w \in Wsi : user_data[w] # NoSession =>
       open[w] /\ Present(user_data[w]) /\ sessions[user_data[w]].wsi = w
  /\ \A w \in Wsi : open[w] /\ user_data[w] = NoSession => svc = "create" /\ frame.wsi = w

\* The session pointer that get_session returned without the mutex stays valid
\* until the callback that got it has responded: nothing erases that session.
CallbackSessionAlive ==
  svc \in {"ping", "handshake", "respond"} =>
    Present(frame.id) /\ sessions[frame.id].wsi = frame.wsi

\* While the server thread is inside lws_service the context exists, and no
\* other thread is destroying it or running its callbacks.
ContextOutlivesService ==
  svc \in {"service"} \cup InCallback => ws_context /\ ctl \in {"idle", "join"}

\* When stop() has returned, the thread, the context, the sessions, the open
\* connections and the id strings hung on them are all gone.
StoppedClean ==
  ctl = "idle" /\ ~ running =>
    /\ svc = "none"
    /\ ~ ws_context
    /\ \A id \in SessionId : sessions[id] = Absent
    /\ \A w \in Wsi : ~ open[w] /\ user_data[w] = NoSession

\* Every callback returns to libwebsockets, so the other connections are served
\* again and the mutex is released.
CallbackReturns == svc \in InCallback ~> svc = "service"

\* A callback waits for the mutex that its own handler keeps.
WaitsForItself == svc = "respond" /\ mutex = "svc"

\* Nothing but a handler that responds with the mutex in its hand keeps a
\* callback from returning: a new connection, a closed one and a tile request
\* are always done with, whoever sends tiles or stops the server meanwhile.
OtherCallbacksReturn ==
  (svc \in {"create", "close"} \/ (svc = "respond" /\ ~ WaitsForItself)) ~> svc = "service"

\* stop() returns unless the server thread waits for itself: that thread sees
\* running_, and what is destroyed after it waits for nobody.
StopCompletes == ctl = "join" ~> (ctl = "idle" \/ WaitsForItself)
=============================================================================
