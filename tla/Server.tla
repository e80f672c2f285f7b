-------------------------------- MODULE Server --------------------------------
(***************************************************************************)
(* remoteview::Server and main() (src/server.cpp, src/main.cpp): start,    *)
(* the main loop, stop() called by the signal handler and by ~Server, and  *)
(* the destructors, with the components reduced to what their start and    *)
(* stop leave behind.                                                      *)
(*                                                                         *)
(* A signal interrupts the thread it is delivered to, the main thread or   *)
(* the WebSocket thread, between any two steps: `stack[t]` is the stack of *)
(* stop() frames on thread t, and below them t does not move.  stop() is   *)
(* one step per component call, and the calls that lock or that test a     *)
(* flag before they set it are split there.                                *)
(***************************************************************************)
EXTENDS Config, FiniteSets

CONSTANTS Signals,   \* SIGINT, SIGTERM; each is sent at most once
          Document,  \* what the file named on the command line may hold
          NoFile     \* no file is named

\* What is not a string can be had as a number.
ASSUME DocumentAssumption ==
  \A doc \in Document : \A k \in DOMAIN doc :
    doc[k].type \in {"number", "boolean"} => doc[k].holds \in Int

Thread == {"main", "ws"}

StopAt == {"check", "request", "metrics", "web_check", "web_flag", "web_join", "web_destroy",
           "web_null", "sessions_lock", "sessions_unlock", "cache_lock", "cache_unlock",
           "vds_lock", "vds_unlock", "mark"}

VARIABLES proc,                \* "up", or how the process ended
          config, document,    \* the configuration and the document it is from
          at,                  \* where main() is, below the handlers
          stack,               \* Thread -> its stop() frames, innermost first
          installed,           \* signal handlers are set
          sent,                \* signals delivered so far
          running, shutdown_requested,
          vds,                 \* VdsReader::initialized_
          web_running, web_context,
          web_thread,          \* "none", "run", or "done" and not joined
          destroys,            \* calls of lws_context_destroy per context
          metrics_running,
          cache_mutex, access_mutex, \* "free", or the thread inside
          sessions_mutex       \* likewise, or "callback" or "handler": see below

web    == <<web_running, web_context, web_thread, destroys>>
flags  == <<running, shutdown_requested>>
locks  == <<cache_mutex, access_mutex, sessions_mutex>>
setup  == <<config, document>>
vars   == <<proc, setup, at, stack, installed, sent, flags, vds, web, metrics_running, locks>>

Init == /\ proc = "up"
        /\ config = Default /\ document = NoFile
        /\ at = "load"
        /\ stack = [t \in Thread |-> << >>]
        /\ installed = FALSE
        /\ sent = {}
        /\ running = FALSE /\ shutdown_requested = FALSE
        /\ vds = FALSE
        /\ web_running = FALSE /\ web_context = FALSE
        /\ web_thread = "none" /\ destroys = 0
        /\ metrics_running = FALSE
        /\ cache_mutex = "free" /\ access_mutex = "free" /\ sessions_mutex = "free"

\* The main thread runs main(), at the point a, and no handler.
Main(a) == proc = "up" /\ at = a /\ stack["main"] = << >>
-----------------------------------------------------------------------------
(* main() before the server *)

\* Mutant: a file that cannot be loaded is reported and the server started.
LoadAnyConfig(doc) ==
  /\ Main("load")
  /\ document' = doc
  /\ config' = IF doc = NoFile THEN config ELSE FromJson(config, doc)
  /\ at' = "enter"
  /\ UNCHANGED <<proc, stack, installed, sent, flags, vds, web, metrics_running, locks>>

\* load_default, or load_from_file: what it throws ends main() with 1, with the
\* members assigned so far.
LoadConfig(doc) ==
  /\ Main("load")
  /\ document' = doc
  /\ config' = IF doc = NoFile THEN config ELSE FromJson(config, doc)
  /\ IF doc # NoFile /\ Throws(doc) # {}
     THEN proc' = "failed" /\ UNCHANGED at
     ELSE at' = "enter" /\ UNCHANGED proc
  /\ UNCHANGED <<stack, installed, sent, flags, vds, web, metrics_running, locks>>

\* The file cannot be opened, or is not JSON.
LoadFails == /\ Main("load")
             /\ proc' = "failed"
             /\ UNCHANGED <<setup, at, stack, installed, sent, flags, vds, web, metrics_running,
                            locks>>
-----------------------------------------------------------------------------
(* Server::start() on the main thread *)

\* Mutant: running_ is set first, so that no signal is lost.
MarkRunningFirst == /\ Main("enter")
                    /\ installed' = TRUE
                    /\ running' = TRUE
                    /\ at' = "vds"
                    /\ UNCHANGED <<proc, setup, stack, sent, shutdown_requested, vds, web,
                                   metrics_running, locks>>

SetupSignalHandlers == /\ Main("enter")
                       /\ installed' = TRUE
                       /\ at' = "vds"
                       /\ UNCHANGED <<proc, setup, stack, sent, flags, vds, web, metrics_running,
                                      locks>>

\* A VdsReader that fails to start never returns: module VdsReader.
StartVdsReader == /\ Main("vds")
                  /\ \/ vds' = TRUE /\ at' = "web" /\ UNCHANGED access_mutex
                     \/ at' = "stuck" /\ access_mutex' = "main" /\ UNCHANGED vds
                  /\ UNCHANGED <<proc, setup, stack, installed, sent, flags, web, metrics_running,
                                 cache_mutex, sessions_mutex>>

\* The context may fail, or the thread: then running_ is left set.
StartWebRtcServer ==
  /\ Main("web")
  /\ \/ /\ web_running' = TRUE /\ web_context' = TRUE /\ web_thread' = "run"
        /\ at' = "metrics"
     \/ /\ web_running' \in BOOLEAN
        /\ at' = "end"
        /\ UNCHANGED <<web_context, web_thread>>
  /\ UNCHANGED <<proc, setup, stack, installed, sent, flags, vds, destroys, metrics_running, locks>>

StartMetrics == /\ Main("metrics")
                /\ metrics_running' = TRUE
                /\ at' = "mark"
                /\ UNCHANGED <<proc, setup, stack, installed, sent, flags, vds, web, locks>>

MarkRunning == /\ Main("mark")
               /\ running' = TRUE
               /\ at' = "loop"
               /\ UNCHANGED <<proc, setup, stack, installed, sent, shutdown_requested, vds, web,
                              metrics_running, locks>>

\* main_loop ends, start returns, and ~Server calls stop().
LeaveMainLoop == /\ Main("loop")
                 /\ shutdown_requested
                 /\ at' = "end"
                 /\ stack' = [stack EXCEPT !["main"] = <<"check">>]
                 /\ UNCHANGED <<proc, setup, installed, sent, flags, vds, web, metrics_running,
                                locks>>

\* Mutant: the VDS reader has no destructor.
DestroyMembersKeepVds == /\ Main("end")
                         /\ cache_mutex = "free" /\ access_mutex = "free"
                         /\ web_running =>
                              web_thread = "none" /\ ~ web_context /\ sessions_mutex = "free"
                         /\ metrics_running' = FALSE
                         /\ web_running' = FALSE
                         /\ proc' = IF web_thread = "none" THEN "exited" ELSE "aborted"
                         /\ UNCHANGED <<setup, at, stack, installed, sent, flags, vds, web_context,
                                        web_thread, destroys, locks>>

\* The members are destroyed, each after its own stop() or shutdown().  A web
\* server that still counts as running here has no thread and no context; one
\* whose thread nobody has joined takes the process down.
DestroyMembers ==
  /\ Main("end")
  /\ web_running => web_thread = "none" /\ ~ web_context
  /\ metrics_running' = FALSE
  /\ \/ /\ web_thread # "none"
        /\ proc' = "aborted"
        /\ UNCHANGED <<web_running, vds>>
     \/ /\ web_thread = "none"
        /\ cache_mutex = "free" /\ access_mutex = "free"
        /\ web_running => sessions_mutex = "free"
        /\ web_running' = FALSE
        /\ vds' = FALSE
        /\ proc' = "exited"
  /\ UNCHANGED <<setup, at, stack, installed, sent, flags, web_context, web_thread, destroys,
                 locks>>
-----------------------------------------------------------------------------
(* The WebSocket thread: server_loop() and the callbacks that lws_service makes *)

\* The thread runs, and no handler interrupts it.
WebSocket == proc = "up" /\ web_thread = "run" /\ stack["ws"] = << >>

\* A callback locks sessions_mutex_.  One that opens, looks up or removes a session
\* is a "callback" and will unlock it.  handle_handshake and handle_ping are a "handler":
\* they respond with the mutex locked, and the response waits for it for ever (module
\* WebRtcServer).
CallbackLocks == /\ WebSocket
                 /\ sessions_mutex = "free"
                 /\ sessions_mutex' \in {"callback", "handler"}
                 /\ UNCHANGED <<proc, setup, at, stack, installed, sent, flags, vds, web,
                                metrics_running, cache_mutex, access_mutex>>

CallbackUnlocks == /\ WebSocket
                   /\ sessions_mutex = "callback"
                   /\ sessions_mutex' = "free"
                   /\ UNCHANGED <<proc, setup, at, stack, installed, sent, flags, vds, web,
                                  metrics_running, cache_mutex, access_mutex>>

\* lws_service has returned from its last callback and the loop tests running_.
ServerLoopEnds == /\ WebSocket
                  /\ sessions_mutex \notin {"callback", "handler"}
                  /\ ~ web_running
                  /\ web_thread' = "done"
                  /\ UNCHANGED <<proc, setup, at, stack, installed, sent, flags, vds, web_running,
                                 web_context, destroys, metrics_running, locks>>
-----------------------------------------------------------------------------
(* Signals *)

\* Before signal() the default action ends the process; afterwards the handler
\* calls stop() on the thread it interrupts.
Signal(t, s) ==
  /\ proc = "up"
  /\ s \notin sent
  /\ t = "ws" => web_thread = "run"
  /\ sent' = sent \cup {s}
  /\ IF installed
     THEN stack' = [stack EXCEPT ![t] = <<"check">> \o stack[t]] /\ UNCHANGED proc
     ELSE proc' = "killed" /\ UNCHANGED stack
  /\ UNCHANGED <<setup, at, installed, flags, vds, web, metrics_running, locks>>
-----------------------------------------------------------------------------
(* stop(), one step of the innermost frame of thread t *)

In(t, p)   == proc = "up" /\ stack[t] # << >> /\ Head(stack[t]) = p
Goto(t, p) == stack' = [stack EXCEPT ![t] = <<p>> \o Tail(stack[t])]
Return(t)  == stack' = [stack EXCEPT ![t] = Tail(stack[t])]

StopCheck(t) == /\ In(t, "check")
                /\ IF running THEN Goto(t, "request") ELSE Return(t)
                /\ UNCHANGED <<proc, setup, at, installed, sent, flags, vds, web, metrics_running,
                               locks>>

StopRequest(t) == /\ In(t, "request")
                  /\ shutdown_requested' = TRUE
                  /\ Goto(t, "metrics")
                  /\ UNCHANGED <<proc, setup, at, installed, sent, running, vds, web,
                                 metrics_running,
                                 locks>>

StopMetrics(t) == /\ In(t, "metrics")
                  /\ metrics_running' = FALSE
                  /\ Goto(t, "web_check")
                  /\ UNCHANGED <<proc, setup, at, installed, sent, flags, vds, web, locks>>

WebCheck(t) == /\ In(t, "web_check")
               /\ Goto(t, IF web_running THEN "web_flag" ELSE "cache_lock")
               /\ UNCHANGED <<proc, setup, at, installed, sent, flags, vds, web, metrics_running,
                              locks>>

\* Mutant: running_ is cleared only after the join.
WebFlagLate(t) == /\ In(t, "web_flag")
                  /\ Goto(t, "web_join")
                  /\ UNCHANGED <<proc, setup, at, installed, sent, flags, vds, web, metrics_running,
                                 locks>>

WebFlag(t) == /\ In(t, "web_flag")
              /\ web_running' = FALSE
              /\ Goto(t, "web_join")
              /\ UNCHANGED <<proc, setup, at, installed, sent, flags, vds, web_context, web_thread,
                             destroys, metrics_running, locks>>

\* Mutant: the thread is not waited for.
WebDetach(t) == /\ In(t, "web_join")
                /\ Goto(t, "web_destroy")
                /\ UNCHANGED <<proc, setup, at, installed, sent, flags, vds, web, metrics_running,
                               locks>>

\* A thread that joins itself gets a system_error, which nobody catches.
WebJoin(t) ==
  /\ In(t, "web_join")
  /\ \/ /\ t = "ws" /\ web_thread = "run"
        /\ proc' = "aborted"
        /\ UNCHANGED <<stack, web_thread>>
     \/ /\ web_thread # "run"
        /\ web_thread' = "none"
        /\ Goto(t, "web_destroy")
        /\ UNCHANGED proc
  /\ UNCHANGED <<setup, at, installed, sent, flags, vds, web_running, web_context, destroys,
                 metrics_running, locks>>

\* Mutant: no test whether the context is still there.
WebDestroyAlways(t) ==
  /\ In(t, "web_destroy")
  /\ destroys' = destroys + 1
  /\ Goto(t, "web_null")
  /\ UNCHANGED <<proc, setup, at, installed, sent, flags, vds, web_running, web_context, web_thread,
                 metrics_running, locks>>

\* The destruction of a context closes its connections, and their callbacks lock
\* sessions_mutex_ on this thread.
WebDestroy(t) ==
  /\ In(t, "web_destroy")
  /\ web_context => sessions_mutex = "free"
  /\ destroys' = IF web_context THEN destroys + 1 ELSE destroys
  /\ Goto(t, "web_null")
  /\ UNCHANGED <<proc, setup, at, installed, sent, flags, vds, web_running, web_context, web_thread,
                 metrics_running, locks>>

WebNull(t) == /\ In(t, "web_null")
              /\ web_context' = FALSE
              /\ Goto(t, "sessions_lock")
              /\ UNCHANGED <<proc, setup, at, installed, sent, flags, vds, web_running, web_thread,
                             destroys, metrics_running, locks>>

SessionsLock(t) == /\ In(t, "sessions_lock")
                   /\ sessions_mutex = "free"
                   /\ sessions_mutex' = t
                   /\ Goto(t, "sessions_unlock")
                   /\ UNCHANGED <<proc, setup, at, installed, sent, flags, vds, web,
                                  metrics_running, cache_mutex, access_mutex>>

SessionsUnlock(t) == /\ In(t, "sessions_unlock")
                     /\ sessions_mutex' = "free"
                     /\ Goto(t, "cache_lock")
                     /\ UNCHANGED <<proc, setup, at, installed, sent, flags, vds, web,
                                    metrics_running, cache_mutex, access_mutex>>

CacheLock(t) == /\ In(t, "cache_lock")
                /\ cache_mutex = "free"
                /\ cache_mutex' = t
                /\ Goto(t, "cache_unlock")
                /\ UNCHANGED <<proc, setup, at, installed, sent, flags, vds, web, metrics_running,
                               access_mutex, sessions_mutex>>

CacheUnlock(t) == /\ In(t, "cache_unlock")
                  /\ cache_mutex' = "free"
                  /\ Goto(t, "vds_lock")
                  /\ UNCHANGED <<proc, setup, at, installed, sent, flags, vds, web, metrics_running,
                                 access_mutex, sessions_mutex>>

VdsLock(t) == /\ In(t, "vds_lock")
              /\ access_mutex = "free"
              /\ access_mutex' = t
              /\ Goto(t, "vds_unlock")
              /\ UNCHANGED <<proc, setup, at, installed, sent, flags, vds, web, metrics_running,
                             cache_mutex, sessions_mutex>>

VdsUnlock(t) == /\ In(t, "vds_unlock")
                /\ vds' = FALSE
                /\ access_mutex' = "free"
                /\ Goto(t, "mark")
                /\ UNCHANGED <<proc, setup, at, installed, sent, flags, web, metrics_running,
                               cache_mutex, sessions_mutex>>

MarkStopped(t) == /\ In(t, "mark")
                  /\ running' = FALSE
                  /\ Return(t)
                  /\ UNCHANGED <<proc, setup, at, installed, sent, shutdown_requested, vds, web,
                                 metrics_running, locks>>

StopStep(t) == \/ StopCheck(t) \/ StopRequest(t) \/ StopMetrics(t)
               \/ WebCheck(t) \/ WebFlag(t) \/ WebJoin(t) \/ WebDestroy(t) \/ WebNull(t)
               \/ SessionsLock(t) \/ SessionsUnlock(t)
               \/ CacheLock(t) \/ CacheUnlock(t) \/ VdsLock(t) \/ VdsUnlock(t)
               \/ MarkStopped(t)

MainStep == \/ \E doc \in Document \cup {NoFile} : LoadConfig(doc)
            \/ LoadFails
            \/ SetupSignalHandlers \/ StartVdsReader \/ StartWebRtcServer \/ StartMetrics
            \/ MarkRunning \/ LeaveMainLoop \/ DestroyMembers

Next == \/ MainStep
        \/ CallbackLocks \/ CallbackUnlocks \/ ServerLoopEnds
        \/ \E t \in Thread : StopStep(t)
        \/ \E t \in Thread, s \in Signals : Signal(t, s)

\* Both threads keep running; nothing makes a signal or a client's message come.  One
\* lws_service handles what one poll() reported and returns, although new events keep
\* coming: the loop tests running_ again and again unless a callback never returns.
Fairness == /\ WF_vars(MainStep)
            /\ WF_vars(CallbackUnlocks)
            /\ SF_vars(ServerLoopEnds)
            /\ \A t \in Thread : WF_vars(StopStep(t))

Spec == Init /\ [][Next]_vars /\ Fairness
-----------------------------------------------------------------------------
TypeOK == /\ proc \in {"up", "exited", "failed", "killed", "aborted"}
          /\ DOMAIN config = Field
          /\ document \in Document \cup {NoFile}
          /\ at \in {"load", "enter", "vds", "stuck", "web", "metrics", "mark", "loop", "end"}
          /\ stack \in [Thread -> Seq(StopAt)]
          /\ installed \in BOOLEAN
          /\ sent \in SUBSET Signals
          /\ running \in BOOLEAN /\ shutdown_requested \in BOOLEAN
          /\ vds \in BOOLEAN
          /\ web_running \in BOOLEAN /\ web_context \in BOOLEAN
          /\ web_thread \in {"none", "run", "done"}
          /\ destroys \in 0..1
          /\ metrics_running \in BOOLEAN
          /\ cache_mutex \in Thread \cup {"free"} /\ access_mutex \in Thread \cup {"free"}
          /\ sessions_mutex \in Thread \cup {"free", "callback", "handler"}

\* Whoever sees running_ before a shutdown was requested sees every component
\* up: a stop() that acts at all never meets a half-started server.
RunningMeansComplete ==
  running /\ ~ shutdown_requested =>
    vds /\ web_running /\ web_context /\ web_thread = "run" /\ metrics_running

\* However many handlers overlap, on one thread or two, the context is there
\* while the WebSocket thread services it.
ContextOutlivesThread == web_thread = "run" => web_context

\* A process that exits has joined its thread and released the context and the
\* VDS reader, after a failed start too.
ReleasedOnExit ==
  proc = "exited" => /\ ~ web_context /\ web_thread = "none" /\ ~ vds /\ ~ metrics_running
                     /\ cache_mutex = "free" /\ access_mutex = "free"

\* A shutdown takes the process down in one way only: a stop() interrupts the
\* WebSocket thread and is about to join that thread to itself (webrtc_server.cpp:69).
\* Whatever handlers run, ~WebRtcServer meets a thread that nobody has joined only
\* while that stop() is under way.
AbortedByOwnJoin ==
  proc = "aborted" =>
    web_thread = "run" /\ \E i \in 1 .. Len(stack["ws"]) : stack["ws"][i] = "web_join"

\* Nobody waits for sessions_mutex_ in a stop(), nested or not, and even if a callback
\* keeps it for ever: the join comes first (webrtc_server.cpp:69-78).  Only a stop()
\* nested in another on one thread can make anybody wait for the other two: without one,
\* every stop() and the destructors find both free, however many signals come and
\* whichever threads they interrupt (server.cpp:69-70).
Waits(t, lock) == In(t, lock) \/ (t = "main" /\ Main("end"))
OnlyNestedStopsWait ==
  /\ \A t \in Thread : In(t, "web_destroy") \/ In(t, "sessions_lock") => sessions_mutex = "free"
  /\ (\A t \in Thread : Len(stack[t]) <= 1) =>
       \A t \in Thread : /\ Waits(t, "cache_lock") => cache_mutex = "free"
                         /\ Waits(t, "vds_lock") => access_mutex = "free"

\* Once main() has set out to start the server, what the file says is in force,
\* all of it: each key it has, read as a value of its member's type, and for
\* the rest the defaults.  from_json assigns as it goes and throws at the first
\* value of the wrong type (config.cpp:102-190, main.cpp:49-57).
WholeConfig ==
  at # "load" =>
    \A i \in DOMAIN Read :
      LET key == Read[i][1]
      IN  IF document # NoFile /\ key \in DOMAIN document
          THEN /\ Gets(Read[i][2], document[key])
               /\ config[Read[i][3]] = Get(Read[i][2], document[key])
          ELSE config[Read[i][3]] = Default[Read[i][3]]

\* A configuration, also one that was read only in part, is the same again after
\* it is saved and loaded.
ReloadsAsSaved == Throws(ToJson(config)) = {} /\ FromJson(Default, ToJson(config)) = config

\* Once stop() has asked for the shutdown the process ends, with two exceptions.  A
\* second signal may come, whose handler may wait for a mutex that the frame below it
\* holds.  And a client may have sent a ping or a handshake_response, whose handler
\* never returns, so that stop() waits for the WebSocket thread (webrtc_server.cpp:69).
ShutdownFinishes ==
  shutdown_requested ~>
    proc # "up" \/ Cardinality(sent) > 1 \/ sessions_mutex = "handler"

\* main.cpp:34: the server runs until terminated with Ctrl+C or SIGTERM.  A server
\* whose WebSocket thread is stuck in a handler is left to ShutdownFinishes.
SignalStops == \A s \in Signals : s \in sent ~> proc # "up" \/ sessions_mutex = "handler"
=============================================================================
