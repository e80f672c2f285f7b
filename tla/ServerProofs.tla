------------------------------ MODULE ServerProofs ------------------------------
(***************************************************************************)
(* Safety of Server for any set of signals and documents, that is, for any *)
(* number of handlers nested on the two threads.  What the stop() frames   *)
(* may be doing is said of every frame, not only of the innermost (Frames), *)
(* and of two frames of the main thread together (Nested): where the outer *)
(* one has cleared web_running, the inner one began later and stays out of *)
(* the part that joins and destroys.                                        *)
(***************************************************************************)
EXTENDS Server, FiniteSetTheorems, TLAPS

\* From the join on, a frame has the context to itself, and then the sessions.
Past    == {"web_destroy", "web_null"}
Cleanup == Past \cup {"sessions_lock", "sessions_unlock"}
Joining == Cleanup \cup {"web_join"}

\* Where a frame of thread t can be.
Place(t) ==
  {p \in StopAt : /\ p # "check" => at \in {"loop", "end"}
                  /\ p \notin {"check", "request"} => shutdown_requested
                  /\ p \in Joining => ~ web_running
                  /\ p \in Cleanup => t = "main" /\ web_thread = "none"}

Frames == \A t \in Thread : \A i \in 1 .. Len(stack[t]) : stack[t][i] \in Place(t)

Nested == \A i, j \in 1 .. Len(stack["main"]) :
            i < j /\ stack["main"][j] \in Joining => stack["main"][i] \notin Joining \cup {"web_flag"}

At(P) == \E i \in 1 .. Len(stack["main"]) : stack["main"][i] \in P

\* The context goes after the thread, and by one frame.
Context ==
  /\ web_thread = "run" => web_context
  /\ stack["ws"] # << >> => web_thread = "run"
  /\ web_context /\ web_thread = "none" => At(Past)
  /\ web_context /\ destroys = 1 => At({"web_null"})

\* How far start has come.
Stages ==
  /\ at \in {"load", "enter", "vds", "stuck", "web", "metrics", "mark"} => ~ running
  /\ at \in {"load", "enter", "vds", "stuck", "web"} =>
       ~ web_running /\ ~ web_context /\ web_thread = "none" /\ destroys = 0
  /\ at \in {"web", "metrics", "mark"} => vds
  /\ at \in {"metrics", "mark"} => web_running /\ web_context /\ web_thread = "run" /\ destroys = 0
  /\ at = "mark" => metrics_running
  /\ at = "end" => ~ running \/ shutdown_requested

FreshConfig == at = "load" /\ proc = "up" => config = Default

IInv == /\ TypeOK /\ Frames /\ Nested /\ Context /\ Stages /\ FreshConfig
        /\ RunningMeansComplete /\ ReleasedOnExit /\ WholeConfig
-----------------------------------------------------------------------------
(* Stacks *)

LEMMA StackType ==
  ASSUME TypeOK, NEW t \in Thread
  PROVE  stack[t] \in Seq(StopAt) /\ Len(stack[t]) \in Nat
BY DEF TypeOK

LEMMA GotoFacts ==
  ASSUME TypeOK, NEW t \in Thread, stack[t] # << >>, NEW p \in StopAt, Goto(t, p)
  PROVE  /\ stack' \in [Thread -> Seq(StopAt)]
         /\ Len(stack'[t]) = Len(stack[t]) /\ Len(stack[t]) >= 1
         /\ stack'[t] # << >>
         /\ stack'[t][1] = p
         /\ \A i \in 2 .. Len(stack[t]) : stack'[t][i] = stack[t][i]
         /\ \A u \in Thread : u # t => stack'[u] = stack[u]
<1> DEFINE s == stack[t]
<1>1. s \in Seq(StopAt) /\ s # << >>
  BY StackType
<1>2. <<p>> \o Tail(s) \in Seq(StopAt) /\ Len(<<p>> \o Tail(s)) = Len(s) /\ Len(s) >= 1
  BY <1>1
<1>3. (<<p>> \o Tail(s))[1] = p /\ \A i \in 2 .. Len(s) : (<<p>> \o Tail(s))[i] = s[i]
  BY <1>1
<1>4. stack' = [stack EXCEPT ![t] = <<p>> \o Tail(s)]
  BY DEF Goto
<1>5. stack \in [Thread -> Seq(StopAt)]
  BY DEF TypeOK
<1>6. stack'[t] = <<p>> \o Tail(s)
  BY <1>4, <1>5
<1>7. \A u \in Thread : u # t => stack'[u] = stack[u]
  BY <1>4, <1>5
<1>8. stack' \in [Thread -> Seq(StopAt)]
  BY <1>2, <1>4, <1>5
<1>9. stack'[t] # << >>
  BY <1>2, <1>6
<1> HIDE DEF s
<1> QED BY <1>2, <1>3, <1>6, <1>7, <1>8, <1>9 DEF s

LEMMA ReturnFacts ==
  ASSUME TypeOK, NEW t \in Thread, stack[t] # << >>, Return(t)
  PROVE  /\ stack' \in [Thread -> Seq(StopAt)]
         /\ Len(stack'[t]) = Len(stack[t]) - 1 /\ Len(stack[t]) >= 1
         /\ \A i \in 1 .. Len(stack[t]) - 1 : stack'[t][i] = stack[t][i + 1]
         /\ \A u \in Thread : u # t => stack'[u] = stack[u]
<1> DEFINE s == stack[t]
<1>1. s \in Seq(StopAt) /\ s # << >>
  BY StackType
<1>2. Tail(s) \in Seq(StopAt) /\ Len(Tail(s)) = Len(s) - 1 /\ Len(s) >= 1
  BY <1>1
<1>3. \A i \in 1 .. Len(s) - 1 : Tail(s)[i] = s[i + 1]
  BY <1>1
<1>4. stack' = [stack EXCEPT ![t] = Tail(s)] /\ stack \in [Thread -> Seq(StopAt)]
  BY DEF Return, TypeOK
<1>5. stack'[t] = Tail(s) /\ (\A u \in Thread : u # t => stack'[u] = stack[u])
      /\ stack' \in [Thread -> Seq(StopAt)]
  BY <1>2, <1>4
<1> QED BY <1>2, <1>3, <1>5

LEMMA PushFacts ==
  ASSUME TypeOK, NEW t \in Thread, stack' = [stack EXCEPT ![t] = <<"check">> \o stack[t]]
  PROVE  /\ stack' \in [Thread -> Seq(StopAt)]
         /\ Len(stack'[t]) = Len(stack[t]) + 1
         /\ stack'[t][1] = "check"
         /\ \A i \in 1 .. Len(stack[t]) : stack'[t][i + 1] = stack[t][i]
         /\ \A u \in Thread : u # t => stack'[u] = stack[u]
<1> DEFINE s == stack[t]
<1>1. s \in Seq(StopAt) /\ "check" \in StopAt
  BY StackType DEF StopAt
<1>2. /\ <<"check">> \o s \in Seq(StopAt) /\ Len(<<"check">> \o s) = Len(s) + 1
      /\ (<<"check">> \o s)[1] = "check"
      /\ \A i \in 1 .. Len(s) : (<<"check">> \o s)[i + 1] = s[i]
  BY <1>1
<1>3. stack' = [stack EXCEPT ![t] = <<"check">> \o s] /\ stack \in [Thread -> Seq(StopAt)]
  BY DEF TypeOK
<1>4. stack'[t] = <<"check">> \o s /\ (\A u \in Thread : u # t => stack'[u] = stack[u])
      /\ stack' \in [Thread -> Seq(StopAt)]
  BY <1>2, <1>3
<1> QED BY <1>2, <1>4

\* The innermost frame of a thread is one of its frames.
LEMMA Innermost ==
  ASSUME TypeOK, NEW t \in Thread, NEW p, In(t, p)
  PROVE  /\ stack[t] # << >> /\ Len(stack[t]) >= 1 /\ stack[t][1] = p
         /\ proc = "up"
<1>1. stack[t] \in Seq(StopAt) /\ stack[t] # << >> /\ Head(stack[t]) = p
  BY StackType DEF In
<1> QED BY <1>1 DEF In
-----------------------------------------------------------------------------
(* What becomes of the frames *)

\* What no step undoes once the frames rely on it.
Forward == /\ at \in {"loop", "end"} => at' \in {"loop", "end"}
           /\ shutdown_requested => shutdown_requested'
           /\ web_running' => web_running \/ at = "web"
           /\ web_thread = "none" => web_thread' = "none" \/ at = "web"

LEMMA FrameStays ==
  ASSUME NEW t \in Thread, NEW p \in Place(t), Forward
  PROVE  p \in Place(t)'
BY DEF Place, Forward, Past, Cleanup, Joining

LEMMA FramesGoto ==
  ASSUME IInv, Forward, NEW t \in Thread, NEW q \in StopAt, NEW p \in StopAt, In(t, q), Goto(t, p),
         p \in Place(t)',
         p \in Joining \cup {"web_flag"} => web_running \/ q \in Joining \cup {"web_flag"}
  PROVE  stack' \in [Thread -> Seq(StopAt)] /\ Frames' /\ Nested'
<1>0. TypeOK /\ Frames /\ Nested
  BY DEF IInv
<1>1. stack[t] # << >> /\ stack[t][1] = q
  BY <1>0, Innermost
<1>2. /\ stack' \in [Thread -> Seq(StopAt)]
      /\ Len(stack'[t]) = Len(stack[t]) /\ Len(stack[t]) >= 1
      /\ stack'[t][1] = p
      /\ \A i \in 2 .. Len(stack[t]) : stack'[t][i] = stack[t][i]
      /\ \A u \in Thread : u # t => stack'[u] = stack[u]
  BY <1>0, <1>1, GotoFacts
<1>3. Len(stack[t]) \in Nat
  BY <1>0, StackType
<1>4. Frames'
  <2> SUFFICES ASSUME NEW u \in Thread, NEW i \in 1 .. Len(stack'[u])
               PROVE  stack'[u][i] \in Place(u)'
    BY DEF Frames
  <2>1. CASE u = t /\ i = 1
    <3>1. stack'[u][i] = p
      BY <1>2, <2>1
    <3> QED BY <2>1, <3>1
  <2>2. CASE u # t \/ i # 1
    <3>1. i \in 1 .. Len(stack[u]) /\ stack'[u][i] = stack[u][i]
      BY <1>2, <1>3, <2>2
    <3>2. stack[u][i] \in Place(u)
      BY <1>0, <3>1 DEF Frames
    <3> QED BY <3>1, <3>2, FrameStays
  <2> QED BY <2>1, <2>2
<1>5. Nested'
  <2>1. CASE t # "main"
    <3>1. stack'["main"] = stack["main"]
      BY <1>2, <2>1 DEF Thread
    <3> QED BY <1>0, <3>1 DEF Nested
  <2>2. CASE t = "main"
    <3> SUFFICES ASSUME NEW i \in 1 .. Len(stack'["main"]), NEW j \in 1 .. Len(stack'["main"]),
                        i < j, stack'["main"][j] \in Joining
                 PROVE  stack'["main"][i] \notin Joining \cup {"web_flag"}
      BY DEF Nested
    <3>1. i \in 1 .. Len(stack["main"]) /\ j \in 2 .. Len(stack["main"])
      BY <1>2, <1>3, <2>2
    <3>2. stack["main"][j] \in Joining
      BY <1>2, <2>2, <3>1
    <3>3. ~ web_running
      BY <1>0, <3>1, <3>2 DEF Frames, Place, Thread
    <3>4. stack["main"][i] \notin Joining \cup {"web_flag"}
      BY <1>0, <3>1, <3>2 DEF Nested
    <3>5. CASE i = 1
      BY <1>1, <1>2, <2>2, <3>3, <3>4, <3>5
    <3>6. CASE i # 1
      BY <1>2, <2>2, <3>1, <3>4, <3>6
    <3> QED BY <3>5, <3>6
  <2> QED BY <2>1, <2>2
<1> QED BY <1>2, <1>4, <1>5

LEMMA FramesReturn ==
  ASSUME IInv, Forward, NEW t \in Thread, stack[t] # << >>, Return(t)
  PROVE  stack' \in [Thread -> Seq(StopAt)] /\ Frames' /\ Nested'
<1>0. TypeOK /\ Frames /\ Nested
  BY DEF IInv
<1>2. /\ stack' \in [Thread -> Seq(StopAt)]
      /\ Len(stack'[t]) = Len(stack[t]) - 1 /\ Len(stack[t]) >= 1
      /\ \A i \in 1 .. Len(stack[t]) - 1 : stack'[t][i] = stack[t][i + 1]
      /\ \A u \in Thread : u # t => stack'[u] = stack[u]
  BY <1>0, ReturnFacts
<1>3. Len(stack[t]) \in Nat
  BY <1>0, StackType
<1>4. Frames'
  <2> SUFFICES ASSUME NEW u \in Thread, NEW i \in 1 .. Len(stack'[u])
               PROVE  stack'[u][i] \in Place(u)'
    BY DEF Frames
  <2>1. PICK k \in 1 .. Len(stack[u]) : stack'[u][i] = stack[u][k]
    <3>1. CASE u = t
      <4>1. i + 1 \in 1 .. Len(stack[u]) /\ stack'[u][i] = stack[u][i + 1]
        BY <1>2, <1>3, <3>1
      <4> QED BY <4>1
    <3>2. CASE u # t
      BY <1>2, <3>2
    <3> QED BY <3>1, <3>2
  <2>2. stack[u][k] \in Place(u)
    BY <1>0 DEF Frames
  <2> QED BY <2>1, <2>2, FrameStays
<1>5. Nested'
  <2>1. CASE t # "main"
    <3>1. stack'["main"] = stack["main"]
      BY <1>2, <2>1 DEF Thread
    <3> QED BY <1>0, <3>1 DEF Nested
  <2>2. CASE t = "main"
    <3> SUFFICES ASSUME NEW i \in 1 .. Len(stack'["main"]), NEW j \in 1 .. Len(stack'["main"]),
                        i < j, stack'["main"][j] \in Joining
                 PROVE  stack'["main"][i] \notin Joining \cup {"web_flag"}
      BY DEF Nested
    <3>1. i + 1 \in 1 .. Len(stack["main"]) /\ j + 1 \in 1 .. Len(stack["main"]) /\ i + 1 < j + 1
      BY <1>2, <1>3, <2>2
    <3>2. stack'["main"][i] = stack["main"][i + 1] /\ stack'["main"][j] = stack["main"][j + 1]
      BY <1>2, <1>3, <2>2
    <3> QED BY <1>0, <3>1, <3>2 DEF Nested
  <2> QED BY <2>1, <2>2
<1> QED BY <1>2, <1>4, <1>5

LEMMA FramesPush ==
  ASSUME IInv, Forward, NEW t \in Thread, stack' = [stack EXCEPT ![t] = <<"check">> \o stack[t]]
  PROVE  stack' \in [Thread -> Seq(StopAt)] /\ Frames' /\ Nested'
<1>0. TypeOK /\ Frames /\ Nested
  BY DEF IInv
<1>2. /\ stack' \in [Thread -> Seq(StopAt)]
      /\ Len(stack'[t]) = Len(stack[t]) + 1
      /\ stack'[t][1] = "check"
      /\ \A i \in 1 .. Len(stack[t]) : stack'[t][i + 1] = stack[t][i]
      /\ \A u \in Thread : u # t => stack'[u] = stack[u]
  BY <1>0, PushFacts
<1>3. Len(stack[t]) \in Nat
  BY <1>0, StackType
<1>4. Frames'
  <2> SUFFICES ASSUME NEW u \in Thread, NEW i \in 1 .. Len(stack'[u])
               PROVE  stack'[u][i] \in Place(u)'
    BY DEF Frames
  <2>1. CASE u = t /\ i = 1
    <3>1. stack'[u][i] = "check"
      BY <1>2, <2>1
    <3> QED BY <3>1 DEF Place, StopAt, Joining, Cleanup, Past
  <2>2. CASE u # t \/ i # 1
    <3>1. PICK k \in 1 .. Len(stack[u]) : stack'[u][i] = stack[u][k]
      <4>1. CASE u = t
        <5>1. i - 1 \in 1 .. Len(stack[t]) /\ i = (i - 1) + 1
          BY <1>2, <1>3, <2>2, <4>1
        <5>2. stack'[t][i] = stack[t][i - 1]
          BY <1>2, <5>1
        <5> QED BY <4>1, <5>1, <5>2
      <4>2. CASE u # t
        BY <1>2, <4>2
      <4> QED BY <4>1, <4>2
    <3>2. stack[u][k] \in Place(u)
      BY <1>0 DEF Frames
    <3> QED BY <3>1, <3>2, FrameStays
  <2> QED BY <2>1, <2>2
<1>5. Nested'
  <2>1. CASE t # "main"
    <3>1. stack'["main"] = stack["main"]
      BY <1>2, <2>1 DEF Thread
    <3> QED BY <1>0, <3>1 DEF Nested
  <2>2. CASE t = "main"
    <3> SUFFICES ASSUME NEW i \in 1 .. Len(stack'["main"]), NEW j \in 1 .. Len(stack'["main"]),
                        i < j, stack'["main"][j] \in Joining
                 PROVE  stack'["main"][i] \notin Joining \cup {"web_flag"}
      BY DEF Nested
    <3>1. CASE i = 1
      BY <1>2, <2>2, <3>1 DEF Joining, Cleanup, Past
    <3>2. CASE i # 1
      <4>1. /\ i - 1 \in 1 .. Len(stack["main"]) /\ j - 1 \in 1 .. Len(stack["main"])
            /\ i - 1 < j - 1 /\ i = (i - 1) + 1 /\ j = (j - 1) + 1
        BY <1>2, <1>3, <2>2, <3>2
      <4>2. stack'["main"][i] = stack["main"][i - 1] /\ stack'["main"][j] = stack["main"][j - 1]
        BY <1>2, <2>2, <4>1
      <4> QED BY <1>0, <4>1, <4>2 DEF Nested
    <3> QED BY <3>1, <3>2
  <2> QED BY <2>1, <2>2
<1> QED BY <1>2, <1>4, <1>5

LEMMA FramesStay ==
  ASSUME IInv, Forward, UNCHANGED stack
  PROVE  stack' \in [Thread -> Seq(StopAt)] /\ Frames' /\ Nested'
<1>1. TypeOK /\ Frames /\ Nested
  BY DEF IInv
<1>2. Frames'
  <2> SUFFICES ASSUME NEW u \in Thread, NEW i \in 1 .. Len(stack[u])
               PROVE  stack[u][i] \in Place(u)'
    BY DEF Frames
  <2>1. stack[u][i] \in Place(u)
    BY <1>1 DEF Frames
  <2> QED BY <2>1, FrameStays
<1> QED BY <1>1, <1>2 DEF TypeOK, Nested

\* Frames of the main thread other than the innermost stay where they are.
LEMMA AtGoto ==
  ASSUME IInv, NEW t \in Thread, NEW q, NEW p \in StopAt, NEW P, In(t, q), Goto(t, p), q \notin P, At(P)
  PROVE  At(P)'
<1>1. PICK i \in 1 .. Len(stack["main"]) : stack["main"][i] \in P
  BY DEF At
<1>2. stack[t] # << >> /\ stack[t][1] = q /\ TypeOK
  BY Innermost DEF IInv
<1>3. stack'["main"][i] = stack["main"][i] /\ Len(stack'["main"]) = Len(stack["main"])
  BY <1>1, <1>2, GotoFacts DEF Thread
<1> QED BY <1>1, <1>3 DEF At

LEMMA AtReturn ==
  ASSUME IInv, NEW t \in Thread, NEW q, NEW P, In(t, q), Return(t), q \notin P, At(P)
  PROVE  At(P)'
<1>1. PICK i \in 1 .. Len(stack["main"]) : stack["main"][i] \in P
  BY DEF At
<1>2. stack[t] # << >> /\ stack[t][1] = q /\ TypeOK /\ Len(stack[t]) \in Nat
  BY Innermost, StackType DEF IInv
<1>3. CASE t = "main"
  <2>1. i - 1 \in 1 .. Len(stack[t]) - 1 /\ i = (i - 1) + 1
    BY <1>1, <1>2, <1>3
  <2>2. stack'["main"][i - 1] = stack["main"][i] /\ Len(stack'["main"]) = Len(stack["main"]) - 1
    BY <1>2, <1>3, <2>1, ReturnFacts
  <2> QED BY <1>1, <1>3, <2>1, <2>2 DEF At
<1>4. CASE t # "main"
  <2>1. stack'["main"] = stack["main"]
    BY <1>2, <1>4, ReturnFacts DEF Thread
  <2> QED BY <1>1, <2>1 DEF At
<1> QED BY <1>3, <1>4

LEMMA AtPush ==
  ASSUME IInv, NEW t \in Thread, NEW P, stack' = [stack EXCEPT ![t] = <<"check">> \o stack[t]], At(P)
  PROVE  At(P)'
<1>1. PICK i \in 1 .. Len(stack["main"]) : stack["main"][i] \in P
  BY DEF At
<1>2. TypeOK /\ Len(stack["main"]) \in Nat
  BY StackType DEF IInv, Thread
<1>3. CASE t = "main"
  <2>1. stack'["main"][i + 1] = stack["main"][i] /\ Len(stack'["main"]) = Len(stack["main"]) + 1
    BY <1>1, <1>2, <1>3, PushFacts
  <2>2. i + 1 \in 1 .. Len(stack'["main"])
    BY <1>1, <1>2, <2>1
  <2> QED BY <1>1, <2>1, <2>2 DEF At
<1>4. CASE t # "main"
  <2>1. stack'["main"] = stack["main"]
    BY <1>2, <1>4, PushFacts DEF Thread
  <2> QED BY <1>1, <2>1 DEF At
<1> QED BY <1>3, <1>4
-----------------------------------------------------------------------------
(* The steps of stop() *)

\* A frame that has found running_ set acts on a server that came up, and
\* touches neither the configuration nor main().
LEMMA StopKeeps ==
  ASSUME IInv, NEW t \in Thread, NEW q \in StopAt, q # "check", In(t, q), shutdown_requested',
         UNCHANGED <<setup, at>>, proc' \in {"up", "aborted"}
  PROVE  Stages' /\ FreshConfig' /\ WholeConfig' /\ RunningMeansComplete' /\ ReleasedOnExit'
<1>1. stack[t] # << >> /\ Len(stack[t]) >= 1 /\ stack[t][1] = q /\ proc = "up" /\ Len(stack[t]) \in Nat
  BY Innermost, StackType DEF IInv
<1>2. at \in {"loop", "end"}
  BY <1>1 DEF IInv, Frames, Place
<1>3. Stages'
  BY <1>2 DEF Stages
<1>4. FreshConfig' /\ RunningMeansComplete' /\ ReleasedOnExit'
  BY <1>2 DEF FreshConfig, RunningMeansComplete, ReleasedOnExit
<1>5. WholeConfig'
  BY DEF IInv, WholeConfig, setup
<1> QED BY <1>3, <1>4, <1>5

LEMMA Requested ==
  ASSUME IInv, NEW t \in Thread, NEW q \in StopAt, q \notin {"check", "request"}, In(t, q)
  PROVE  shutdown_requested /\ at \in {"loop", "end"}
<1>1. stack[t] # << >> /\ Len(stack[t]) >= 1 /\ stack[t][1] = q /\ Len(stack[t]) \in Nat
  BY Innermost, StackType DEF IInv
<1> QED BY <1>1 DEF IInv, Frames, Place

\* A step outside the part that joins and destroys.
LEMMA QuietStep ==
  ASSUME IInv, NEW t \in Thread, NEW q \in StopAt \ Past, NEW p \in StopAt \ Past, q # "check",
         In(t, q), Goto(t, p), p # "check",
         UNCHANGED <<proc, setup, at, installed, sent, running, web_context, web_thread, destroys>>,
         shutdown_requested', web_running' => web_running,
         vds' \in BOOLEAN, metrics_running' \in BOOLEAN, web_running' \in BOOLEAN,
         shutdown_requested' \in BOOLEAN,
         cache_mutex' \in Thread \cup {"free"}, access_mutex' \in Thread \cup {"free"},
         sessions_mutex' \in Thread \cup {"free", "callback", "handler"},
         p \in Joining \cup {"web_flag"} => web_running \/ q \in Joining \cup {"web_flag"},
         p \in Joining => ~ web_running',
         p \in Cleanup => t = "main" /\ web_thread = "none"
  PROVE  IInv'
<1>1. stack[t] # << >> /\ Len(stack[t]) >= 1 /\ stack[t][1] = q /\ Len(stack[t]) \in Nat /\ TypeOK
  BY Innermost, StackType DEF IInv
<1>2. at \in {"loop", "end"}
  BY <1>1 DEF IInv, Frames, Place
<1>3. Forward
  BY DEF Forward
<1>4. p \in Place(t)'
  BY <1>2 DEF Place
<1>5. stack' \in [Thread -> Seq(StopAt)] /\ Frames' /\ Nested'
  BY <1>3, <1>4, FramesGoto
<1>6. TypeOK'
  BY <1>1, <1>5 DEF TypeOK, setup
<1>7. stack'["ws"] # << >> => stack["ws"] # << >>
  BY <1>1, GotoFacts DEF Thread
<1>8. At(Past) => At(Past)'
  BY AtGoto
<1>9. At({"web_null"}) => At({"web_null"})'
  BY AtGoto DEF Past
<1>10. Context'
  BY <1>7, <1>8, <1>9 DEF IInv, Context
<1>11. Stages' /\ FreshConfig' /\ WholeConfig' /\ RunningMeansComplete' /\ ReleasedOnExit'
  <2>1. proc' \in {"up", "aborted"}
    BY DEF In
  <2> QED BY <2>1, StopKeeps DEF setup
<1> QED BY <1>5, <1>6, <1>10, <1>11 DEF IInv

LEMMA CheckStep ==
  ASSUME IInv, NEW t \in Thread, StopCheck(t)
  PROVE  IInv'
<1>1. In(t, "check") /\ UNCHANGED <<proc, setup, at, installed, sent, flags, vds, web, metrics_running, locks>>
  BY DEF StopCheck
<1>2. stack[t] # << >> /\ TypeOK
  BY <1>1, Innermost DEF IInv
<1>3. Forward
  BY <1>1 DEF Forward, flags, web
<1>4. /\ stack' \in [Thread -> Seq(StopAt)] /\ Frames' /\ Nested'
      /\ stack'["ws"] # << >> => stack["ws"] # << >>
      /\ At(Past) => At(Past)'
      /\ At({"web_null"}) => At({"web_null"})'
  <2>1. CASE running /\ Goto(t, "request")
    <3>1. at \in {"loop", "end"}
      BY <2>1 DEF IInv, Stages, TypeOK
    <3>2. "request" \in Place(t)'
      BY <1>1, <3>1 DEF Place, Joining, Cleanup, Past, StopAt
    <3>3. stack' \in [Thread -> Seq(StopAt)] /\ Frames' /\ Nested'
      BY <1>1, <1>3, <2>1, <3>2, FramesGoto DEF Joining, Cleanup, Past, StopAt
    <3>4. stack'["ws"] # << >> => stack["ws"] # << >>
      BY <1>2, <2>1, GotoFacts DEF Thread, StopAt
    <3>5. At(Past) => At(Past)'
      BY <1>1, <2>1, AtGoto DEF Past, StopAt
    <3>6. At({"web_null"}) => At({"web_null"})'
      BY <1>1, <2>1, AtGoto DEF StopAt
    <3> QED BY <3>3, <3>4, <3>5, <3>6
  <2>2. CASE Return(t)
    <3>3. stack' \in [Thread -> Seq(StopAt)] /\ Frames' /\ Nested'
      BY <1>2, <1>3, <2>2, FramesReturn
    <3>4. stack'["ws"] # << >> => stack["ws"] # << >>
      BY <1>2, <2>2, ReturnFacts DEF Thread
    <3>5. At(Past) => At(Past)'
      BY <1>1, <2>2, AtReturn DEF Past
    <3>6. At({"web_null"}) => At({"web_null"})'
      BY <1>1, <2>2, AtReturn
    <3> QED BY <3>3, <3>4, <3>5, <3>6
  <2> QED BY <2>1, <2>2 DEF StopCheck
<1>5. TypeOK'
  BY <1>1, <1>2, <1>4 DEF TypeOK, setup, flags, web, locks
<1>6. Context'
  BY <1>1, <1>4 DEF IInv, Context, web
<1>7. Stages' /\ FreshConfig' /\ WholeConfig' /\ RunningMeansComplete' /\ ReleasedOnExit'
  BY <1>1 DEF IInv, Stages, FreshConfig, WholeConfig, RunningMeansComplete, ReleasedOnExit,
              setup, flags, web, locks
<1> QED BY <1>4, <1>5, <1>6, <1>7 DEF IInv

\* Only the main thread gets past the join, and it leaves no thread behind.
LEMMA JoinStep ==
  ASSUME IInv, NEW t \in Thread, WebJoin(t)
  PROVE  IInv'
<1>1. /\ In(t, "web_join") /\ "web_join" \in StopAt
      /\ UNCHANGED <<setup, at, installed, sent, flags, vds, web_running, web_context, destroys,
                     metrics_running, locks>>
  BY DEF WebJoin, StopAt
<1>2. /\ stack[t] # << >> /\ Len(stack[t]) >= 1 /\ stack[t][1] = "web_join"
      /\ Len(stack[t]) \in Nat /\ TypeOK /\ proc = "up"
  BY <1>1, Innermost, StackType DEF IInv
<1>3. shutdown_requested /\ at \in {"loop", "end"} /\ ~ web_running
  BY <1>2 DEF IInv, Frames, Place, Joining
<1>4. CASE t = "ws" /\ web_thread = "run" /\ proc' = "aborted" /\ UNCHANGED <<stack, web_thread>>
  <2>1. Forward
    BY <1>1, <1>4 DEF Forward, flags
  <2>2. stack' \in [Thread -> Seq(StopAt)] /\ Frames' /\ Nested'
    BY <1>4, <2>1, FramesStay
  <2>3. TypeOK'
    BY <1>1, <1>2, <1>4 DEF TypeOK, setup, flags, locks
  <2>4. Context'
    BY <1>1, <1>4 DEF IInv, Context, At
  <2>5. Stages' /\ FreshConfig' /\ WholeConfig' /\ RunningMeansComplete' /\ ReleasedOnExit'
    BY <1>1, <1>3, <1>4, StopKeeps DEF flags
  <2> QED BY <2>2, <2>3, <2>4, <2>5 DEF IInv
<1>5. CASE web_thread # "run" /\ web_thread' = "none" /\ Goto(t, "web_destroy") /\ UNCHANGED proc
  <2>1. t = "main"
    BY <1>2, <1>5 DEF IInv, Context, Thread
  <2>2. Forward
    BY <1>1, <1>5 DEF Forward, flags
  <2>3. "web_destroy" \in Place(t)'
    BY <1>1, <1>3, <1>5, <2>1 DEF Place, Joining, Cleanup, Past, StopAt, flags
  <2>4. stack' \in [Thread -> Seq(StopAt)] /\ Frames' /\ Nested'
    BY <1>1, <1>5, <2>2, <2>3, FramesGoto DEF Joining, Cleanup, Past, StopAt
  <2>5. stack'["ws"] = stack["ws"] /\ stack'["main"][1] = "web_destroy" /\ Len(stack'["main"]) >= 1
        /\ Len(stack'["main"]) \in Nat
    BY <1>2, <1>5, <2>1, GotoFacts DEF Thread, StopAt
  <2>6. At(Past)'
    <3>1. 1 \in 1 .. Len(stack'["main"])
      BY <2>5
    <3> QED BY <2>5, <3>1 DEF At, Past
  <2>7. At({"web_null"}) => At({"web_null"})'
    BY <1>1, <1>5, AtGoto DEF StopAt
  <2>8. Context'
    BY <1>1, <1>5, <2>5, <2>6, <2>7 DEF IInv, Context
  <2>9. TypeOK'
    BY <1>1, <1>2, <1>5, <2>4 DEF TypeOK, setup, flags, locks
  <2>10. Stages' /\ FreshConfig' /\ WholeConfig' /\ RunningMeansComplete' /\ ReleasedOnExit'
    BY <1>1, <1>2, <1>3, <1>5, StopKeeps DEF flags
  <2> QED BY <2>4, <2>8, <2>9, <2>10 DEF IInv
<1> QED BY <1>4, <1>5 DEF WebJoin

\* One frame alone is at the context.
LEMMA Alone ==
  ASSUME IInv, NEW t \in Thread, NEW q \in Cleanup, In(t, q)
  PROVE  /\ t = "main" /\ web_thread = "none" /\ ~ web_running
         /\ \A j \in 2 .. Len(stack["main"]) : stack["main"][j] \notin Cleanup
<1>1. stack[t] # << >> /\ Len(stack[t]) >= 1 /\ stack[t][1] = q /\ Len(stack[t]) \in Nat
  BY Innermost, StackType DEF IInv
<1>2. t = "main" /\ web_thread = "none" /\ ~ web_running
  BY <1>1 DEF IInv, Frames, Place, Joining
<1>3. ASSUME NEW j \in 2 .. Len(stack["main"]) PROVE stack["main"][j] \notin Cleanup
  <2>1. 1 \in 1 .. Len(stack["main"]) /\ j \in 1 .. Len(stack["main"]) /\ 1 < j
    BY <1>1, <1>2
  <2> QED BY <1>1, <1>2, <2>1 DEF IInv, Nested, Joining
<1> QED BY <1>2, <1>3

LEMMA DestroyStep ==
  ASSUME IInv, NEW t \in Thread, WebDestroy(t)
  PROVE  IInv'
<1>1. /\ In(t, "web_destroy") /\ Goto(t, "web_null") /\ {"web_destroy", "web_null"} \subseteq StopAt
      /\ destroys' = (IF web_context THEN destroys + 1 ELSE destroys)
      /\ UNCHANGED <<proc, setup, at, installed, sent, flags, vds, web_running, web_context,
                     web_thread, metrics_running, locks>>
  BY DEF WebDestroy, StopAt
<1>2. /\ stack[t] # << >> /\ Len(stack[t]) >= 1 /\ stack[t][1] = "web_destroy"
      /\ Len(stack[t]) \in Nat /\ TypeOK /\ proc = "up"
  BY <1>1, Innermost, StackType DEF IInv
<1>3. /\ t = "main" /\ web_thread = "none" /\ ~ web_running
      /\ \A j \in 2 .. Len(stack["main"]) : stack["main"][j] \notin Cleanup
  BY <1>1, Alone DEF Cleanup, Past
<1>4. shutdown_requested /\ at \in {"loop", "end"}
  BY <1>1, Requested
<1>5. web_context => destroys = 0
  <2> SUFFICES ASSUME web_context, destroys = 1 PROVE FALSE
    BY <1>2 DEF TypeOK
  <2>1. PICK i \in 1 .. Len(stack["main"]) : stack["main"][i] = "web_null"
    BY DEF IInv, Context, At
  <2>2. i \in 2 .. Len(stack["main"])
    BY <1>2, <1>3, <2>1
  <2> QED BY <1>3, <2>1, <2>2 DEF Cleanup, Past
<1>6. Forward
  BY <1>1 DEF Forward, flags
<1>7. "web_null" \in Place(t)'
  BY <1>1, <1>3, <1>4 DEF Place, flags
<1>8. stack' \in [Thread -> Seq(StopAt)] /\ Frames' /\ Nested'
  BY <1>1, <1>6, <1>7, FramesGoto DEF Joining, Cleanup, Past
<1>9. /\ stack'["ws"] = stack["ws"] /\ stack'["main"][1] = "web_null"
      /\ 1 \in 1 .. Len(stack'["main"])
  BY <1>1, <1>2, <1>3, GotoFacts DEF Thread
<1>10. At(Past)' /\ At({"web_null"})'
  BY <1>9 DEF At, Past
<1>11. Context'
  BY <1>1, <1>9, <1>10 DEF IInv, Context
<1>12. destroys' \in 0 .. 1
  BY <1>1, <1>2, <1>5 DEF TypeOK
<1>13. TypeOK'
  BY <1>1, <1>2, <1>8, <1>12 DEF TypeOK, setup, flags, locks
<1>14. Stages' /\ FreshConfig' /\ WholeConfig' /\ RunningMeansComplete' /\ ReleasedOnExit'
  BY <1>1, <1>2, <1>4, StopKeeps DEF flags
<1> QED BY <1>8, <1>11, <1>13, <1>14 DEF IInv

LEMMA NullStep ==
  ASSUME IInv, NEW t \in Thread, WebNull(t)
  PROVE  IInv'
<1>1. /\ In(t, "web_null") /\ Goto(t, "sessions_lock") /\ {"sessions_lock", "web_null"} \subseteq StopAt
      /\ web_context' = FALSE
      /\ UNCHANGED <<proc, setup, at, installed, sent, flags, vds, web_running, web_thread,
                     destroys, metrics_running, locks>>
  BY DEF WebNull, StopAt
<1>2. stack[t] # << >> /\ TypeOK /\ proc = "up"
  BY <1>1, Innermost DEF IInv
<1>3. t = "main" /\ web_thread = "none" /\ ~ web_running
  BY <1>1, Alone DEF Cleanup, Past
<1>4. shutdown_requested /\ at \in {"loop", "end"}
  BY <1>1, Requested
<1>5. Forward
  BY <1>1 DEF Forward, flags
<1>6. "sessions_lock" \in Place(t)'
  BY <1>1, <1>3, <1>4 DEF Place, Joining, Cleanup, Past, flags
<1>7. stack' \in [Thread -> Seq(StopAt)] /\ Frames' /\ Nested'
  BY <1>1, <1>5, <1>6, FramesGoto DEF Joining, Cleanup, Past
<1>8. stack'["ws"] = stack["ws"]
  BY <1>1, <1>2, <1>3, GotoFacts DEF Thread
<1>9. Context'
  BY <1>1, <1>3, <1>8 DEF IInv, Context
<1>10. TypeOK'
  <2>1. web_context' \in BOOLEAN
    BY <1>1
  <2>2. UNCHANGED <<proc, setup, at, installed, sent, flags, vds, web_running, web_thread,
                    destroys, metrics_running, locks>>
    BY <1>1
  <2> QED BY <2>1, <2>2, <1>2, <1>7 DEF TypeOK, setup, flags, locks
<1>11. Stages' /\ FreshConfig' /\ WholeConfig' /\ RunningMeansComplete' /\ ReleasedOnExit'
  BY <1>1, <1>2, <1>4, StopKeeps DEF flags
<1> QED BY <1>7, <1>9, <1>10, <1>11 DEF IInv

LEMMA MarkStoppedStep ==
  ASSUME IInv, NEW t \in Thread, MarkStopped(t)
  PROVE  IInv'
<1>1. /\ In(t, "mark") /\ Return(t) /\ "mark" \in StopAt /\ running' = FALSE
      /\ UNCHANGED <<proc, setup, at, installed, sent, shutdown_requested, vds, web,
                     metrics_running, locks>>
  BY DEF MarkStopped, StopAt
<1>2. stack[t] # << >> /\ TypeOK /\ proc = "up"
  BY <1>1, Innermost DEF IInv
<1>3. shutdown_requested
  BY <1>1, Requested
<1>4. Forward
  BY <1>1 DEF Forward, web
<1>5. stack' \in [Thread -> Seq(StopAt)] /\ Frames' /\ Nested'
  BY <1>2, <1>1, <1>4, FramesReturn
<1>6. stack'["ws"] # << >> => stack["ws"] # << >>
  BY <1>1, <1>2, ReturnFacts DEF Thread
<1>7. At(Past) => At(Past)'
  BY <1>1, AtReturn DEF Past
<1>8. At({"web_null"}) => At({"web_null"})'
  BY <1>1, AtReturn
<1>9. Context'
  BY <1>1, <1>6, <1>7, <1>8 DEF IInv, Context, web
<1>10. TypeOK'
  <2>1. running' \in BOOLEAN
    BY <1>1
  <2>2. UNCHANGED <<proc, setup, at, installed, sent, shutdown_requested, vds, web,
                    metrics_running, locks>>
    BY <1>1
  <2> QED BY <2>1, <2>2, <1>2, <1>5 DEF TypeOK, setup, web, locks
<1>11. Stages' /\ FreshConfig' /\ WholeConfig' /\ RunningMeansComplete' /\ ReleasedOnExit'
  BY <1>1, <1>2, <1>3, StopKeeps
<1> QED BY <1>5, <1>9, <1>10, <1>11 DEF IInv

LEMMA StopStepPreserves ==
  ASSUME IInv, NEW t \in Thread, StopStep(t)
  PROVE  IInv'
<1>0. TypeOK
  BY DEF IInv
<1> USE DEF StopAt, Past, Cleanup, Joining, setup, flags, web, locks
<1>1. CASE StopRequest(t)
  <2>1. In(t, "request") /\ Goto(t, "metrics")
    BY <1>1 DEF StopRequest
  <2> QED BY <1>0, <1>1, <2>1, QuietStep DEF StopRequest, TypeOK
<1>2. CASE StopMetrics(t)
  <2>1. In(t, "metrics") /\ Goto(t, "web_check")
    BY <1>2 DEF StopMetrics
  <2>2. shutdown_requested
    BY <2>1, Requested
  <2> QED BY <1>0, <1>2, <2>1, <2>2, QuietStep DEF StopMetrics, TypeOK
<1>3. CASE WebCheck(t)
  <2> DEFINE p == IF web_running THEN "web_flag" ELSE "cache_lock"
  <2>1. In(t, "web_check") /\ Goto(t, p)
    BY <1>3 DEF WebCheck
  <2>2. shutdown_requested
    BY <2>1, Requested
  <2>3. p \in StopAt \ Past /\ p # "check" /\ p # "web_join" /\ (p = "web_flag" => web_running)
    OBVIOUS
  <2> HIDE DEF p
  <2> QED BY <1>0, <1>3, <2>1, <2>2, <2>3, QuietStep DEF WebCheck, TypeOK
<1>4. CASE WebFlag(t)
  <2>1. In(t, "web_flag") /\ Goto(t, "web_join")
    BY <1>4 DEF WebFlag
  <2>2. shutdown_requested
    BY <2>1, Requested
  <2> QED BY <1>0, <1>4, <2>1, <2>2, QuietStep DEF WebFlag, TypeOK
<1>5. CASE CacheLock(t)
  <2>1. In(t, "cache_lock") /\ Goto(t, "cache_unlock")
    BY <1>5 DEF CacheLock
  <2>2. shutdown_requested
    BY <2>1, Requested
  <2> QED BY <1>0, <1>5, <2>1, <2>2, QuietStep DEF CacheLock, TypeOK
<1>6. CASE CacheUnlock(t)
  <2>1. In(t, "cache_unlock") /\ Goto(t, "vds_lock")
    BY <1>6 DEF CacheUnlock
  <2>2. shutdown_requested
    BY <2>1, Requested
  <2> QED BY <1>0, <1>6, <2>1, <2>2, QuietStep DEF CacheUnlock, TypeOK
<1>7. CASE VdsLock(t)
  <2>1. In(t, "vds_lock") /\ Goto(t, "vds_unlock")
    BY <1>7 DEF VdsLock
  <2>2. shutdown_requested
    BY <2>1, Requested
  <2> QED BY <1>0, <1>7, <2>1, <2>2, QuietStep DEF VdsLock, TypeOK
<1>8. CASE VdsUnlock(t)
  <2>1. In(t, "vds_unlock") /\ Goto(t, "mark")
    BY <1>8 DEF VdsUnlock
  <2>2. shutdown_requested
    BY <2>1, Requested
  <2> QED BY <1>0, <1>8, <2>1, <2>2, QuietStep DEF VdsUnlock, TypeOK
<1>9. CASE SessionsLock(t)
  <2>1. In(t, "sessions_lock") /\ Goto(t, "sessions_unlock")
    BY <1>9 DEF SessionsLock
  <2>2. shutdown_requested /\ t = "main" /\ web_thread = "none" /\ ~ web_running
    BY <2>1, Requested, Alone
  <2> QED BY <1>0, <1>9, <2>1, <2>2, QuietStep DEF SessionsLock, TypeOK
<1>10. CASE SessionsUnlock(t)
  <2>1. In(t, "sessions_unlock") /\ Goto(t, "cache_lock")
    BY <1>10 DEF SessionsUnlock
  <2>2. shutdown_requested
    BY <2>1, Requested
  <2> QED BY <1>0, <1>10, <2>1, <2>2, QuietStep DEF SessionsUnlock, TypeOK
<1> QED BY <1>1, <1>2, <1>3, <1>4, <1>5, <1>6, <1>7, <1>8, <1>9, <1>10, CheckStep, JoinStep, DestroyStep,
          NullStep, MarkStoppedStep DEF StopStep
-----------------------------------------------------------------------------
(* main(), start and the destructors *)

\* Outside stop() the frames stay, and the context with them.
LEMMA MainKeeps ==
  ASSUME IInv, UNCHANGED stack, Forward, UNCHANGED <<web_context, web_thread, destroys>>
  PROVE  stack' \in [Thread -> Seq(StopAt)] /\ Frames' /\ Nested' /\ Context'
<1>1. stack' \in [Thread -> Seq(StopAt)] /\ Frames' /\ Nested'
  BY FramesStay
<1>2. Context'
  BY DEF IInv, Context, At
<1> QED BY <1>1, <1>2

LEMMA InitEstablishes == Init => IInv
<1> SUFFICES ASSUME Init PROVE IInv
  OBVIOUS
<1> USE DEF Init
<1>1. TypeOK
  <2>1. << >> \in Seq(StopAt)
    OBVIOUS
  <2>2. config = Default /\ DOMAIN config = Field
    BY DEF Field
  <2>3. stack \in [Thread -> Seq(StopAt)]
    BY <2>1
  <2>4. /\ installed \in BOOLEAN /\ running \in BOOLEAN /\ shutdown_requested \in BOOLEAN
        /\ vds \in BOOLEAN /\ web_running \in BOOLEAN /\ web_context \in BOOLEAN
        /\ metrics_running \in BOOLEAN
    OBVIOUS
  <2>5. /\ proc = "up" /\ document = NoFile /\ at = "load" /\ sent = {} /\ web_thread = "none"
        /\ destroys = 0 /\ cache_mutex = "free" /\ access_mutex = "free"
        /\ sessions_mutex = "free"
    OBVIOUS
  <2> HIDE DEF Init
  <2> QED BY <2>2, <2>3, <2>4, <2>5 DEF TypeOK
<1>2. \A t \in Thread : Len(stack[t]) = 0
  OBVIOUS
<1>3. Frames /\ Nested
  BY <1>2 DEF Frames, Nested, Thread
<1>4. Context /\ Stages /\ FreshConfig
  BY DEF Context, Stages, FreshConfig, Thread
<1>5. RunningMeansComplete /\ ReleasedOnExit /\ WholeConfig
  BY DEF RunningMeansComplete, ReleasedOnExit, WholeConfig
<1> QED BY <1>1, <1>3, <1>4, <1>5 DEF IInv

\* A member is read from one key.
LEMMA OneKey ==
  ASSUME NEW i \in DOMAIN Read, NEW j \in DOMAIN Read, Read[i][3] = Read[j][3]
  PROVE  i = j
BY SMTT(60) DEF Read

LEMMA ReadsFields ==
  ASSUME NEW i \in DOMAIN Read
  PROVE  Read[i][3] \in Field
BY SMTT(60) DEF Read, Field, Default

\* A document without a value of the wrong type is taken over whole.
LEMMA WholeDocument ==
  ASSUME NEW doc, Throws(doc) = {}, NEW i \in DOMAIN Read
  PROVE  /\ Read[i][1] \in DOMAIN doc =>
              /\ Gets(Read[i][2], doc[Read[i][1]])
              /\ FromJson(Default, doc)[Read[i][3]] = Get(Read[i][2], doc[Read[i][1]])
         /\ Read[i][1] \notin DOMAIN doc =>
              FromJson(Default, doc)[Read[i][3]] = Default[Read[i][3]]
<1>1. (CHOOSE p \in DOMAIN Read : Read[p][3] = Read[i][3]) = i
  BY OneKey
<1>2. Read[i][3] \in Field
  BY ReadsFields
<1> HIDE DEF Read, Default
<1>3. FromJson(Default, doc)[Read[i][3]] =
        IF Read[i][1] \in DOMAIN doc THEN Get(Read[i][2], doc[Read[i][1]]) ELSE Default[Read[i][3]]
  BY <1>1, <1>2 DEF FromJson
<1>4. Read[i][1] \in DOMAIN doc => Gets(Read[i][2], doc[Read[i][1]])
  BY DEF Throws
<1> QED BY <1>3, <1>4

LEMMA LoadStep ==
  ASSUME IInv, (\E doc \in Document \cup {NoFile} : LoadConfig(doc)) \/ LoadFails
  PROVE  IInv'
<1>0. TypeOK
  BY DEF IInv
<1>1. CASE LoadFails
  <2>1. /\ at = "load" /\ proc' = "failed"
        /\ UNCHANGED <<setup, at, stack, installed, sent, flags, vds, web, metrics_running, locks>>
    BY <1>1 DEF LoadFails, Main
  <2>2. stack' \in [Thread -> Seq(StopAt)] /\ Frames' /\ Nested' /\ Context'
    BY <2>1, MainKeeps DEF Forward, flags, web
  <2>3. TypeOK'
    BY <1>0, <2>1, <2>2 DEF TypeOK, setup, flags, web, locks
  <2>4. Stages' /\ FreshConfig' /\ WholeConfig' /\ RunningMeansComplete' /\ ReleasedOnExit'
    BY <2>1 DEF IInv, Stages, FreshConfig, WholeConfig, RunningMeansComplete, ReleasedOnExit,
                setup, flags, web, locks
  <2> QED BY <2>2, <2>3, <2>4 DEF IInv
<1>2. ASSUME NEW doc \in Document \cup {NoFile}, LoadConfig(doc) PROVE IInv'
  <2>1. /\ at = "load" /\ proc = "up" /\ config = Default
        /\ document' = doc
        /\ config' = (IF doc = NoFile THEN config ELSE FromJson(config, doc))
        /\ \/ proc' = "failed" /\ UNCHANGED at
           \/ /\ proc' = proc /\ at' = "enter"
              /\ doc = NoFile \/ Throws(doc) = {}
        /\ UNCHANGED <<stack, installed, sent, flags, vds, web, metrics_running, locks>>
    BY <1>2 DEF LoadConfig, Main, IInv, FreshConfig
  <2>2. stack' \in [Thread -> Seq(StopAt)] /\ Frames' /\ Nested' /\ Context'
    BY <2>1, MainKeeps DEF Forward, flags, web
  <2>3. TypeOK'
    <3>1. DOMAIN config' = Field
      BY <2>1 DEF FromJson, Field
    <3>2. proc' \in {"up", "failed"} /\ at' \in {"load", "enter"} /\ document' \in Document \cup {NoFile}
      BY <2>1
    <3>3. UNCHANGED <<stack, installed, sent, flags, vds, web, metrics_running, locks>>
      BY <2>1
    <3> QED BY <1>0, <2>2, <3>1, <3>2, <3>3 DEF TypeOK, flags, web, locks
  <2>4. Stages' /\ FreshConfig' /\ RunningMeansComplete' /\ ReleasedOnExit'
    BY <2>1 DEF IInv, Stages, FreshConfig, RunningMeansComplete, ReleasedOnExit, flags, web, locks
  <2>5. WholeConfig'
    <3>1. CASE at' = "load"
      BY <3>1 DEF WholeConfig
    <3>2. CASE at' # "load" /\ doc = NoFile
      BY <2>1, <3>2 DEF WholeConfig
    <3>3. CASE at' # "load" /\ doc # NoFile
      <4>1. config' = FromJson(Default, doc) /\ Throws(doc) = {} /\ document' = doc
        BY <2>1, <3>3
      <4> QED BY <3>3, <4>1, WholeDocument DEF WholeConfig
    <3> QED BY <3>1, <3>2, <3>3
  <2> QED BY <2>2, <2>3, <2>4, <2>5 DEF IInv
<1> QED BY <1>1, <1>2

LEMMA SameConfig ==
  ASSUME IInv, UNCHANGED setup, at # "load", at' # "load"
  PROVE  WholeConfig' /\ FreshConfig'
BY DEF IInv, WholeConfig, FreshConfig, setup

LEMMA StartSteps ==
  ASSUME IInv, SetupSignalHandlers \/ StartVdsReader \/ StartMetrics \/ MarkRunning
  PROVE  IInv'
<1>0. TypeOK
  BY DEF IInv
<1> USE DEF flags, web, locks
<1>1. /\ UNCHANGED <<stack, setup, proc, sent, shutdown_requested, web, cache_mutex, sessions_mutex>>
      /\ proc = "up" /\ at # "load" /\ at' # "load"
  BY DEF SetupSignalHandlers, StartVdsReader, StartMetrics, MarkRunning, Main
<1>2. Forward
  BY DEF SetupSignalHandlers, StartVdsReader, StartMetrics, MarkRunning, Main, Forward
<1>3. stack' \in [Thread -> Seq(StopAt)] /\ Frames' /\ Nested' /\ Context'
  BY <1>1, <1>2, MainKeeps
<1>4. WholeConfig' /\ FreshConfig'
  BY <1>1, SameConfig
<1>5. TypeOK'
  <2>1. /\ at' \in {"vds", "stuck", "web", "mark", "loop"}
        /\ installed' \in BOOLEAN /\ running' \in BOOLEAN /\ vds' \in BOOLEAN
        /\ metrics_running' \in BOOLEAN /\ access_mutex' \in Thread \cup {"free"}
    BY <1>0 DEF SetupSignalHandlers, StartVdsReader, StartMetrics, MarkRunning, TypeOK, Thread
  <2> QED BY <1>0, <1>1, <1>3, <2>1 DEF TypeOK, setup
<1>6. Stages' /\ RunningMeansComplete'
  BY DEF SetupSignalHandlers, StartVdsReader, StartMetrics, MarkRunning, Main,
         IInv, Stages, RunningMeansComplete
<1>7. ReleasedOnExit'
  BY <1>1 DEF ReleasedOnExit
<1> QED BY <1>3, <1>4, <1>5, <1>6, <1>7 DEF IInv

LEMMA StartWebStep ==
  ASSUME IInv, StartWebRtcServer
  PROVE  IInv'
<1>0. TypeOK
  BY DEF IInv
<1> USE DEF flags, web, locks
<1>1. /\ at = "web" /\ proc = "up" /\ stack["main"] = << >>
      /\ UNCHANGED <<proc, setup, stack, installed, sent, flags, vds, destroys, metrics_running, locks>>
      /\ \/ web_running' = TRUE /\ web_context' = TRUE /\ web_thread' = "run" /\ at' = "metrics"
         \/ web_running' \in BOOLEAN /\ at' = "end" /\ UNCHANGED <<web_context, web_thread>>
  BY DEF StartWebRtcServer, Main
<1>2. ~ running /\ vds /\ ~ web_context /\ web_thread = "none" /\ destroys = 0
  BY <1>1 DEF IInv, Stages
<1>3. Forward
  BY <1>1 DEF Forward
<1>4. stack' \in [Thread -> Seq(StopAt)] /\ Frames' /\ Nested'
  BY <1>1, <1>3, FramesStay
<1>5. stack["ws"] = << >>
  BY <1>2 DEF IInv, Context
<1>6. Context'
  BY <1>1, <1>2, <1>5 DEF Context
<1>7. WholeConfig' /\ FreshConfig'
  BY <1>1, SameConfig
<1>8. TypeOK'
  <2>1. at' \in {"metrics", "end"} /\ web_thread' \in {"none", "run"}
    BY <1>1, <1>2
  <2>2. web_running' \in BOOLEAN
    BY <1>1, Zenon
  <2>3. web_context' \in BOOLEAN
    <3>1. web_context \in BOOLEAN
      BY <1>0 DEF TypeOK
    <3> QED BY <1>1, <3>1, Zenon
  <2> QED BY <1>0, <1>1, <1>4, <2>1, <2>2, <2>3 DEF TypeOK, setup
<1>9. Stages' /\ RunningMeansComplete' /\ ReleasedOnExit'
  BY <1>1, <1>2 DEF Stages, RunningMeansComplete, ReleasedOnExit
<1> QED BY <1>4, <1>6, <1>7, <1>8, <1>9 DEF IInv
-----------------------------------------------------------------------------
(* The end of main(), the WebSocket thread and the signals *)

LEMMA LeaveStep ==
  ASSUME IInv, LeaveMainLoop
  PROVE  IInv'
<1>0. TypeOK
  BY DEF IInv
<1> USE DEF flags, web, locks
<1>1. /\ at = "loop" /\ at' = "end" /\ stack["main"] = << >> /\ shutdown_requested
      /\ stack' = [stack EXCEPT !["main"] = <<"check">>]
      /\ UNCHANGED <<proc, setup, installed, sent, flags, vds, web, metrics_running, locks>>
  BY DEF LeaveMainLoop, Main
<1>2. stack' = [stack EXCEPT !["main"] = <<"check">> \o stack["main"]]
  <2>1. <<"check">> \o << >> = <<"check">>
    OBVIOUS
  <2> QED BY <1>1, <2>1
<1>3. Forward
  BY <1>1 DEF Forward
<1>4. stack' \in [Thread -> Seq(StopAt)] /\ Frames' /\ Nested'
  BY <1>2, <1>3, FramesPush DEF Thread
<1>5. Context'
  <2>1. stack'["ws"] = stack["ws"]
    BY <1>0, <1>2, PushFacts DEF Thread
  <2>2. ASSUME NEW P, At(P) PROVE At(P)'
    BY <1>2, <2>2, AtPush DEF Thread
  <2> QED BY <1>1, <2>1, <2>2 DEF IInv, Context
<1>6. WholeConfig' /\ FreshConfig'
  BY <1>1, SameConfig
<1>7. TypeOK'
  BY <1>0, <1>1, <1>4 DEF TypeOK, setup
<1>8. Stages' /\ RunningMeansComplete'
  BY <1>1 DEF Stages, RunningMeansComplete
<1>9. ReleasedOnExit'
  BY <1>1 DEF ReleasedOnExit, LeaveMainLoop, Main
<1> QED BY <1>4, <1>5, <1>6, <1>7, <1>8, <1>9 DEF IInv

LEMMA ExitStep ==
  ASSUME IInv, DestroyMembers
  PROVE  IInv'
<1>0. TypeOK
  BY DEF IInv
<1> USE DEF flags, web, locks
<1>1. /\ at = "end" /\ stack["main"] = << >>
      /\ metrics_running' = FALSE
      /\ \/ web_thread # "none" /\ proc' = "aborted" /\ UNCHANGED <<web_running, vds>>
         \/ /\ web_thread = "none" /\ cache_mutex = "free" /\ access_mutex = "free"
            /\ web_running' = FALSE /\ vds' = FALSE /\ proc' = "exited"
      /\ UNCHANGED <<setup, at, stack, installed, sent, flags, web_context, web_thread, destroys,
                     locks>>
  BY DEF DestroyMembers, Main
<1>2. Forward
  BY <1>1 DEF Forward
<1>3. stack' \in [Thread -> Seq(StopAt)] /\ Frames' /\ Nested'
  BY <1>1, <1>2, FramesStay
<1>4. Context'
  BY <1>1 DEF IInv, Context, At
<1>5. WholeConfig' /\ FreshConfig'
  BY <1>1, SameConfig
<1>6. TypeOK'
  <2>1. metrics_running' \in BOOLEAN
    BY <1>1, Zenon
  <2>2. web_running' \in BOOLEAN /\ vds' \in BOOLEAN
    <3>1. web_running \in BOOLEAN /\ vds \in BOOLEAN
      BY <1>0 DEF TypeOK
    <3> QED BY <1>1, <3>1, Zenon
  <2>3. proc' \in {"aborted", "exited"}
    BY <1>1
  <2> QED BY <1>0, <1>1, <1>3, <2>1, <2>2, <2>3 DEF TypeOK, setup
<1>7. ~ running \/ shutdown_requested
  BY <1>1 DEF IInv, Stages
<1>8. Stages' /\ RunningMeansComplete'
  BY <1>1, <1>7 DEF Stages, RunningMeansComplete
<1>9. ReleasedOnExit'
  <2>1. ~ At(Past)
    <3>1. Len(stack["main"]) = 0
      BY <1>1
    <3> QED BY <3>1 DEF At
  <2>2. web_thread = "none" => ~ web_context
    BY <2>1 DEF IInv, Context
  <2> QED BY <1>1, <2>2 DEF ReleasedOnExit
<1> QED BY <1>3, <1>4, <1>5, <1>6, <1>8, <1>9 DEF IInv

LEMMA LoopStep ==
  ASSUME IInv, ServerLoopEnds
  PROVE  IInv'
<1>0. TypeOK
  BY DEF IInv
<1> USE DEF flags, web, locks
<1>1. /\ proc = "up" /\ web_thread = "run" /\ stack["ws"] = << >> /\ ~ web_running
      /\ web_thread' = "done"
      /\ UNCHANGED <<proc, setup, at, stack, installed, sent, flags, vds, web_running,
                     web_context, destroys, metrics_running, locks>>
  BY DEF ServerLoopEnds, WebSocket
<1>2. Forward
  BY <1>1 DEF Forward
<1>3. stack' \in [Thread -> Seq(StopAt)] /\ Frames' /\ Nested'
  BY <1>1, <1>2, FramesStay
<1>4. Context'
  BY <1>1 DEF IInv, Context, At
<1>5. at \in {"loop", "end"}
  BY <1>0, <1>1 DEF IInv, Stages, TypeOK
<1>6. WholeConfig' /\ FreshConfig'
  BY <1>1, <1>5, SameConfig
<1>7. TypeOK'
  BY <1>0, <1>1, <1>3 DEF TypeOK, setup
<1>8. Stages' /\ RunningMeansComplete' /\ ReleasedOnExit'
  BY <1>1, <1>5 DEF IInv, Stages, RunningMeansComplete, ReleasedOnExit
<1> QED BY <1>3, <1>4, <1>6, <1>7, <1>8 DEF IInv

LEMMA CallbackStep ==
  ASSUME IInv, CallbackLocks \/ CallbackUnlocks
  PROVE  IInv'
<1> USE DEF setup, flags, web, locks
<1>1. /\ proc = "up" /\ sessions_mutex' \in {"free", "callback", "handler"}
      /\ UNCHANGED <<proc, setup, at, stack, installed, sent, flags, vds, web, metrics_running,
                     cache_mutex, access_mutex>>
  BY DEF CallbackLocks, CallbackUnlocks, WebSocket
<1>2. TypeOK'
  BY <1>1 DEF IInv, TypeOK
<1> QED BY <1>1, <1>2 DEF IInv, Frames, Place, Nested, Context, At, Stages, FreshConfig,
                          RunningMeansComplete, ReleasedOnExit, WholeConfig

LEMMA SignalStep ==
  ASSUME IInv, NEW t \in Thread, NEW s \in Signals, Signal(t, s)
  PROVE  IInv'
<1>0. TypeOK
  BY DEF IInv
<1> USE DEF flags, web, locks
<1>1. /\ proc = "up" /\ (t = "ws" => web_thread = "run") /\ sent' = sent \cup {s}
      /\ \/ stack' = [stack EXCEPT ![t] = <<"check">> \o stack[t]] /\ UNCHANGED proc
         \/ proc' = "killed" /\ UNCHANGED stack
      /\ UNCHANGED <<setup, at, installed, flags, vds, web, metrics_running, locks>>
  BY DEF Signal
<1>2. Forward
  BY <1>1 DEF Forward
<1>3. stack' \in [Thread -> Seq(StopAt)] /\ Frames' /\ Nested'
  BY <1>1, <1>2, FramesPush, FramesStay
<1>4. Context'
  <2>1. CASE UNCHANGED stack
    BY <1>1, <2>1 DEF IInv, Context, At
  <2>2. CASE stack' = [stack EXCEPT ![t] = <<"check">> \o stack[t]]
    <3>1. ASSUME NEW P, At(P) PROVE At(P)'
      BY <2>2, <3>1, AtPush
    <3>2. t # "ws" => stack'["ws"] = stack["ws"]
      BY <1>0, <2>2, PushFacts DEF Thread
    <3> QED BY <1>1, <3>1, <3>2 DEF IInv, Context
  <2> QED BY <1>1, <2>1, <2>2
<1>5. FreshConfig' /\ WholeConfig'
  BY <1>1 DEF IInv, FreshConfig, WholeConfig, setup
<1>6. TypeOK'
  <2>1. sent' \in SUBSET Signals
    BY <1>0, <1>1 DEF TypeOK
  <2>2. proc' \in {"up", "killed"}
    BY <1>1
  <2> QED BY <1>0, <1>1, <1>3, <2>1, <2>2 DEF TypeOK, setup
<1>7. Stages' /\ RunningMeansComplete' /\ ReleasedOnExit'
  BY <1>1 DEF IInv, Stages, RunningMeansComplete, ReleasedOnExit
<1> QED BY <1>3, <1>4, <1>5, <1>6, <1>7 DEF IInv

LEMMA StepPreserves ==
  ASSUME IInv, [Next]_vars
  PROVE  IInv'
<1>1. CASE MainStep
  <2>1. CASE (\E doc \in Document \cup {NoFile} : LoadConfig(doc)) \/ LoadFails
    BY <2>1, LoadStep
  <2>2. CASE SetupSignalHandlers \/ StartVdsReader \/ StartMetrics \/ MarkRunning
    BY <2>2, StartSteps
  <2>3. CASE StartWebRtcServer
    BY <2>3, StartWebStep
  <2>4. CASE LeaveMainLoop
    BY <2>4, LeaveStep
  <2>5. CASE DestroyMembers
    BY <2>5, ExitStep
  <2> QED BY <1>1, <2>1, <2>2, <2>3, <2>4, <2>5 DEF MainStep
<1>2. CASE ServerLoopEnds \/ CallbackLocks \/ CallbackUnlocks
  BY <1>2, LoopStep, CallbackStep
<1>3. CASE \E t \in Thread : StopStep(t)
  BY <1>3, StopStepPreserves
<1>4. CASE \E t \in Thread, s \in Signals : Signal(t, s)
  BY <1>4, SignalStep
<1>5. CASE UNCHANGED vars
  BY <1>5 DEF vars, setup, flags, web, locks, IInv, TypeOK, Frames, Place, Nested, Context, At,
              Stages, FreshConfig, RunningMeansComplete, ReleasedOnExit, WholeConfig
<1> QED BY <1>1, <1>2, <1>3, <1>4, <1>5 DEF Next

LEMMA Inductive == Spec => []IInv
<1>1. Init => IInv
  BY InitEstablishes
<1>2. IInv /\ [Next]_vars => IInv'
  BY StepPreserves
<1> QED BY <1>1, <1>2, PTL DEF Spec
-----------------------------------------------------------------------------
\* Every variable keeps its type; in particular lws_context_destroy is called at
\* most once for the context (webrtc_server.cpp:99-104).
THEOREM TypeCorrect == Spec => []TypeOK
<1>1. IInv => TypeOK
  BY DEF IInv
<1> QED BY <1>1, Inductive, PTL

\* A stop() that acts, from a handler at any depth, meets a server whose start
\* came to its end (server.cpp:40-47, 59-61).
THEOREM RunningAlwaysMeansComplete == Spec => []RunningMeansComplete
<1>1. IInv => RunningMeansComplete
  BY DEF IInv
<1> QED BY <1>1, Inductive, PTL

\* No nesting of stop() takes the context from under the WebSocket thread: the
\* join comes before the destroy in every frame (webrtc_server.cpp:65-72, 99-104).
THEOREM ContextAlwaysOutlivesThread == Spec => []ContextOutlivesThread
<1>1. IInv => ContextOutlivesThread
  BY DEF IInv, Context, ContextOutlivesThread
<1> QED BY <1>1, Inductive, PTL

\* When the process exits, after any start that failed and any signals, the
\* destructors have released what start and stop() left (server.cpp:28-30).
THEOREM AlwaysReleasedOnExit == Spec => []ReleasedOnExit
<1>1. IInv => ReleasedOnExit
  BY DEF IInv
<1> QED BY <1>1, Inductive, PTL

\* A server that starts runs on the whole of its document or on the defaults, for
\* every document (config.cpp:102-190).
THEOREM AlwaysWholeConfig == Spec => []WholeConfig
<1>1. IInv => WholeConfig
  BY DEF IInv
<1> QED BY <1>1, Inductive, PTL
-----------------------------------------------------------------------------
(* Who joins the WebSocket thread *)

AfterWeb == {"sessions_lock", "sessions_unlock", "cache_lock", "cache_unlock", "vds_lock",
             "vds_unlock", "mark"}

\* Some frame of the thread is at p.
Has(t, p) == \E i \in 1 .. Len(stack[t]) : stack[t][i] = p

\* Some frame, on either thread, is about to join.
Joiner == \E t \in Thread : Has(t, "web_join")

PastWeb == \A t \in Thread : \A i \in 1 .. Len(stack[t]) : stack[t][i] \in AfterWeb => ~ web_running

\* A web server that still runs with its thread has a stop() before it: running_
\* is still set for ~Server to see, or its stop() is under way.
StopBefore ==
  /\ at \in {"loop", "end"} /\ ~ running => ~ web_running \/ web_thread = "none"
  /\ at = "end" /\ web_running /\ web_thread # "none" => stack["main"] # << >>

Unjoined == ~ web_running /\ web_thread # "none" => Joiner

JoinInv == PastWeb /\ StopBefore /\ Unjoined /\ AbortedByOwnJoin

LEMMA NoFrames ==
  ASSUME NEW t \in Thread, stack[t] = << >>
  PROVE  Len(stack[t]) = 0
OBVIOUS

LEMMA HasInnermost ==
  ASSUME TypeOK, NEW t \in Thread, NEW p, In(t, p)
  PROVE  Has(t, p)
<1>1. stack[t] # << >> /\ Len(stack[t]) >= 1 /\ stack[t][1] = p /\ Len(stack[t]) \in Nat
  BY Innermost, StackType
<1>2. 1 \in 1 .. Len(stack[t])
  BY <1>1
<1> QED BY <1>1, <1>2 DEF Has

LEMMA HasMoved ==
  ASSUME TypeOK, NEW t \in Thread, NEW q, NEW p \in StopAt, In(t, q), Goto(t, p)
  PROVE  Has(t, p)'
<1>1. stack[t] # << >> /\ Len(stack[t]) \in Nat
  BY Innermost, StackType
<1>2. Len(stack'[t]) = Len(stack[t]) /\ Len(stack[t]) >= 1 /\ stack'[t][1] = p
  BY <1>1, GotoFacts
<1>3. 1 \in 1 .. Len(stack'[t])
  BY <1>1, <1>2
<1> QED BY <1>2, <1>3 DEF Has

\* The frames that do not move are where they were.
LEMMA HasGoto ==
  ASSUME TypeOK, NEW t \in Thread, NEW q, NEW p \in StopAt, In(t, q), Goto(t, p),
         NEW u \in Thread, NEW x, x # q, Has(u, x)
  PROVE  Has(u, x)'
<1>1. stack[t] # << >> /\ stack[t][1] = q /\ Len(stack[t]) \in Nat /\ Len(stack[u]) \in Nat
  BY Innermost, StackType
<1>2. /\ Len(stack'[t]) = Len(stack[t]) /\ Len(stack[t]) >= 1
      /\ \A i \in 2 .. Len(stack[t]) : stack'[t][i] = stack[t][i]
      /\ \A v \in Thread : v # t => stack'[v] = stack[v]
  BY <1>1, GotoFacts
<1>3. PICK i \in 1 .. Len(stack[u]) : stack[u][i] = x
  BY DEF Has
<1>4. ~ (u = t /\ i = 1)
  BY <1>1, <1>3
<1>5. i \in 1 .. Len(stack'[u]) /\ stack'[u][i] = stack[u][i]
  BY <1>1, <1>2, <1>4
<1> QED BY <1>3, <1>5 DEF Has

LEMMA HasReturn ==
  ASSUME TypeOK, NEW t \in Thread, NEW q, In(t, q), Return(t),
         NEW u \in Thread, NEW x, x # q, Has(u, x)
  PROVE  Has(u, x)'
<1>1. stack[t] # << >> /\ stack[t][1] = q /\ Len(stack[t]) \in Nat
  BY Innermost, StackType
<1>2. /\ Len(stack'[t]) = Len(stack[t]) - 1 /\ Len(stack[t]) >= 1
      /\ \A i \in 1 .. Len(stack[t]) - 1 : stack'[t][i] = stack[t][i + 1]
      /\ \A v \in Thread : v # t => stack'[v] = stack[v]
  BY <1>1, ReturnFacts
<1>3. PICK i \in 1 .. Len(stack[u]) : stack[u][i] = x
  BY DEF Has
<1>4. CASE u = t
  <2>1. i - 1 \in 1 .. Len(stack[t]) - 1 /\ i = (i - 1) + 1
    BY <1>1, <1>3, <1>4
  <2>2. stack'[t][i - 1] = stack[t][i] /\ i - 1 \in 1 .. Len(stack'[t])
    BY <1>2, <2>1
  <2> QED BY <1>3, <1>4, <2>2 DEF Has
<1>5. CASE u # t
  BY <1>2, <1>3, <1>5 DEF Has
<1> QED BY <1>4, <1>5

LEMMA HasPush ==
  ASSUME TypeOK, NEW t \in Thread, stack' = [stack EXCEPT ![t] = <<"check">> \o stack[t]],
         NEW u \in Thread, NEW x, Has(u, x)
  PROVE  Has(u, x)'
<1>1. Len(stack[t]) \in Nat
  BY StackType
<1>2. /\ Len(stack'[t]) = Len(stack[t]) + 1
      /\ \A i \in 1 .. Len(stack[t]) : stack'[t][i + 1] = stack[t][i]
      /\ \A v \in Thread : v # t => stack'[v] = stack[v]
  BY PushFacts
<1>3. PICK i \in 1 .. Len(stack[u]) : stack[u][i] = x
  BY DEF Has
<1>4. CASE u = t
  <2>1. i + 1 \in 1 .. Len(stack'[t]) /\ stack'[t][i + 1] = stack[t][i]
    BY <1>1, <1>2, <1>3, <1>4
  <2> QED BY <1>3, <1>4, <2>1 DEF Has
<1>5. CASE u # t
  BY <1>2, <1>3, <1>5 DEF Has
<1> QED BY <1>4, <1>5

\* A frame of stop() moves on, and is not the one that joins.
LEMMA JoinGoto ==
  ASSUME IInv, JoinInv, NEW t \in Thread, NEW q \in StopAt \ {"web_join"}, NEW p \in StopAt,
         In(t, q), Goto(t, p), UNCHANGED <<proc, at, running, web_thread>>,
         web_running' => web_running,
         p \in AfterWeb => ~ web_running',
         ~ web_running' => ~ web_running \/ p = "web_join"
  PROVE  JoinInv'
<1>1. /\ stack[t] # << >> /\ stack[t][1] = q /\ TypeOK /\ proc = "up"
      /\ \A u \in Thread : Len(stack[u]) \in Nat
  BY Innermost, StackType DEF IInv
<1>2. /\ Len(stack'[t]) = Len(stack[t]) /\ Len(stack[t]) >= 1
      /\ stack'[t] # << >> /\ stack'[t][1] = p
      /\ \A i \in 2 .. Len(stack[t]) : stack'[t][i] = stack[t][i]
      /\ \A u \in Thread : u # t => stack'[u] = stack[u]
  BY <1>1, GotoFacts
<1>3. PastWeb'
  <2> SUFFICES ASSUME NEW u \in Thread, NEW i \in 1 .. Len(stack'[u]), stack'[u][i] \in AfterWeb
               PROVE  ~ web_running'
    BY DEF PastWeb
  <2>1. CASE u = t /\ i = 1
    BY <1>2, <2>1
  <2>2. CASE ~ (u = t /\ i = 1)
    <3>1. i \in 1 .. Len(stack[u]) /\ stack'[u][i] = stack[u][i]
      BY <1>1, <1>2, <2>2
    <3> QED BY <3>1 DEF JoinInv, PastWeb
  <2> QED BY <2>1, <2>2
<1>4. StopBefore'
  <2>1. stack["main"] # << >> => stack'["main"] # << >>
    BY <1>2 DEF Thread
  <2> QED BY <2>1 DEF JoinInv, StopBefore
<1>5. Unjoined'
  <2> SUFFICES ASSUME ~ web_running', web_thread # "none" PROVE Joiner'
    BY DEF Unjoined
  <2>1. CASE p = "web_join"
    <3>1. Has(t, "web_join")'
      BY <1>1, <2>1, HasMoved
    <3> QED BY <3>1 DEF Joiner
  <2>2. CASE ~ web_running
    <3>1. PICK u \in Thread : Has(u, "web_join")
      BY <2>2 DEF JoinInv, Unjoined, Joiner
    <3>2. Has(u, "web_join")'
      BY <1>1, <3>1, HasGoto
    <3> QED BY <3>2 DEF Joiner
  <2> QED BY <2>1, <2>2
<1> QED BY <1>1, <1>3, <1>4, <1>5 DEF JoinInv, AbortedByOwnJoin

\* A frame of stop() returns, once the web server has been seen to, or because
\* another frame has done everything.
LEMMA JoinReturn ==
  ASSUME IInv, JoinInv, NEW t \in Thread, NEW q \in StopAt \ {"web_join"},
         In(t, q), Return(t), UNCHANGED <<proc, at, web_running, web_thread>>,
         ~ running', running => ~ web_running
  PROVE  JoinInv'
<1>1. /\ stack[t] # << >> /\ stack[t][1] = q /\ TypeOK /\ proc = "up"
      /\ \A u \in Thread : Len(stack[u]) \in Nat
  BY Innermost, StackType DEF IInv
<1>2. /\ Len(stack'[t]) = Len(stack[t]) - 1 /\ Len(stack[t]) >= 1
      /\ \A i \in 1 .. Len(stack[t]) - 1 : stack'[t][i] = stack[t][i + 1]
      /\ \A u \in Thread : u # t => stack'[u] = stack[u]
  BY <1>1, ReturnFacts
<1>3. PastWeb'
  <2> SUFFICES ASSUME NEW u \in Thread, NEW i \in 1 .. Len(stack'[u]), stack'[u][i] \in AfterWeb
               PROVE  ~ web_running'
    BY DEF PastWeb
  <2>1. PICK k \in 1 .. Len(stack[u]) : stack'[u][i] = stack[u][k]
    <3>1. CASE u = t
      <4>1. i + 1 \in 1 .. Len(stack[u]) /\ stack'[u][i] = stack[u][i + 1]
        BY <1>1, <1>2, <3>1
      <4> QED BY <4>1
    <3>2. CASE u # t
      BY <1>2, <3>2
    <3> QED BY <3>1, <3>2
  <2> QED BY <2>1 DEF JoinInv, PastWeb
<1>4. at \in {"loop", "end"} => ~ web_running \/ web_thread = "none"
  BY DEF JoinInv, StopBefore
<1>5. StopBefore'
  BY <1>4 DEF StopBefore
<1>6. Unjoined'
  <2> SUFFICES ASSUME ~ web_running, web_thread # "none" PROVE Joiner'
    BY DEF Unjoined
  <2>1. PICK u \in Thread : Has(u, "web_join")
    BY DEF JoinInv, Unjoined, Joiner
  <2>2. Has(u, "web_join")'
    BY <1>1, <2>1, HasReturn
  <2> QED BY <2>2 DEF Joiner
<1> QED BY <1>1, <1>3, <1>5, <1>6 DEF JoinInv, AbortedByOwnJoin

\* A new frame is at its first test.
LEMMA JoinPush ==
  ASSUME IInv, JoinInv, NEW t \in Thread, stack' = [stack EXCEPT ![t] = <<"check">> \o stack[t]],
         UNCHANGED <<proc, running, web_running, web_thread>>, proc = "up",
         (UNCHANGED at) \/ (t = "main" /\ at = "loop")
  PROVE  JoinInv'
<1>1. TypeOK /\ \A u \in Thread : Len(stack[u]) \in Nat
  BY StackType DEF IInv
<1>2. /\ Len(stack'[t]) = Len(stack[t]) + 1
      /\ stack'[t][1] = "check"
      /\ \A i \in 1 .. Len(stack[t]) : stack'[t][i + 1] = stack[t][i]
      /\ \A u \in Thread : u # t => stack'[u] = stack[u]
  BY <1>1, PushFacts
<1>3. PastWeb'
  <2> SUFFICES ASSUME NEW u \in Thread, NEW i \in 1 .. Len(stack'[u]), stack'[u][i] \in AfterWeb
               PROVE  ~ web_running'
    BY DEF PastWeb
  <2>1. CASE u = t
    <3>1. i # 1
      BY <1>2, <2>1 DEF AfterWeb
    <3>2. i - 1 \in 1 .. Len(stack[t]) /\ i = (i - 1) + 1
      BY <1>1, <1>2, <2>1, <3>1
    <3>3. stack'[t][i] = stack[t][i - 1]
      BY <1>2, <3>2
    <3> QED BY <2>1, <3>2, <3>3 DEF JoinInv, PastWeb
  <2>2. CASE u # t
    BY <1>2, <2>2 DEF JoinInv, PastWeb
  <2> QED BY <2>1, <2>2
<1>4. StopBefore'
  <2>1. t = "main" => stack'["main"] # << >>
    <3> SUFFICES ASSUME t = "main", stack'["main"] = << >> PROVE FALSE
      OBVIOUS
    <3>1. Len(stack'["main"]) = 0
      OBVIOUS
    <3> QED BY <1>1, <1>2, <3>1
  <2>2. t # "main" => stack'["main"] = stack["main"]
    BY <1>2 DEF Thread
  <2> QED BY <2>1, <2>2 DEF JoinInv, StopBefore
<1>5. Unjoined'
  <2> SUFFICES ASSUME ~ web_running, web_thread # "none" PROVE Joiner'
    BY DEF Unjoined
  <2>1. PICK u \in Thread : Has(u, "web_join")
    BY DEF JoinInv, Unjoined, Joiner
  <2>2. Has(u, "web_join")'
    BY <1>1, <2>1, HasPush
  <2> QED BY <2>2 DEF Joiner
<1> QED BY <1>3, <1>4, <1>5 DEF JoinInv, AbortedByOwnJoin

LEMMA JoinStopStep ==
  ASSUME IInv, JoinInv, NEW t \in Thread, StopStep(t)
  PROVE  JoinInv'
<1> USE DEF StopAt, AfterWeb, setup, flags, web, locks
<1>1. CASE StopCheck(t)
  <2>1. CASE running
    BY <1>1, <2>1, JoinGoto DEF StopCheck
  <2>2. CASE ~ running
    BY <1>1, <2>2, JoinReturn DEF StopCheck
  <2> QED BY <2>1, <2>2
<1>2. CASE StopRequest(t)
  BY <1>2, JoinGoto DEF StopRequest
<1>3. CASE StopMetrics(t)
  BY <1>3, JoinGoto DEF StopMetrics
<1>4. CASE WebCheck(t)
  <2>1. CASE web_running
    BY <1>4, <2>1, JoinGoto DEF WebCheck
  <2>2. CASE ~ web_running
    BY <1>4, <2>2, JoinGoto DEF WebCheck
  <2> QED BY <2>1, <2>2
<1>5. CASE WebFlag(t)
  BY <1>5, JoinGoto DEF WebFlag
<1>6. CASE WebJoin(t)
  <2>1. /\ In(t, "web_join") /\ "web_join" \in StopAt
        /\ UNCHANGED <<at, running, web_running>>
    BY <1>6 DEF WebJoin
  <2>2. /\ stack[t] # << >> /\ Len(stack[t]) >= 1 /\ stack[t][1] = "web_join" /\ TypeOK
        /\ proc = "up" /\ \A u \in Thread : Len(stack[u]) \in Nat
    BY <2>1, Innermost, StackType DEF IInv
  <2>3. CASE t = "ws" /\ web_thread = "run" /\ proc' = "aborted" /\ UNCHANGED <<stack, web_thread>>
    <3>1. 1 \in 1 .. Len(stack'["ws"]) /\ stack'["ws"][1] = "web_join"
      BY <2>2, <2>3
    <3> QED BY <2>1, <2>3, <3>1
        DEF JoinInv, PastWeb, StopBefore, Unjoined, Joiner, Has, AbortedByOwnJoin
  <2>4. CASE web_thread' = "none" /\ Goto(t, "web_destroy") /\ UNCHANGED proc
    <3>1. /\ Len(stack'[t]) = Len(stack[t]) /\ stack'[t][1] = "web_destroy"
          /\ \A i \in 2 .. Len(stack[t]) : stack'[t][i] = stack[t][i]
          /\ \A u \in Thread : u # t => stack'[u] = stack[u]
      BY <2>2, <2>4, GotoFacts
    <3>2. PastWeb'
      <4> SUFFICES ASSUME NEW u \in Thread, NEW i \in 1 .. Len(stack'[u]), stack'[u][i] \in AfterWeb
                   PROVE  ~ web_running'
        BY DEF PastWeb
      <4>1. ~ (u = t /\ i = 1)
        BY <3>1
      <4>2. i \in 1 .. Len(stack[u]) /\ stack'[u][i] = stack[u][i]
        BY <2>2, <3>1, <4>1
      <4> QED BY <2>1, <4>2 DEF JoinInv, PastWeb
    <3> QED BY <2>1, <2>2, <2>4, <3>2 DEF JoinInv, StopBefore, Unjoined, AbortedByOwnJoin
  <2> QED BY <1>6, <2>3, <2>4 DEF WebJoin
<1>7. CASE WebDestroy(t)
  BY <1>7, JoinGoto DEF WebDestroy
<1>8. CASE WebNull(t)
  <2>1. In(t, "web_null") /\ Goto(t, "sessions_lock")
    BY <1>8 DEF WebNull
  <2>2. ~ web_running
    BY <2>1, Alone DEF Cleanup, Past
  <2> QED BY <1>8, <2>1, <2>2, JoinGoto DEF WebNull
<1>9. ASSUME NEW q \in AfterWeb, In(t, q) PROVE ~ web_running
  <2>1. stack[t] # << >> /\ Len(stack[t]) >= 1 /\ stack[t][1] = q /\ Len(stack[t]) \in Nat
    BY <1>9, Innermost, StackType DEF IInv
  <2>2. 1 \in 1 .. Len(stack[t])
    BY <2>1
  <2> QED BY <2>1, <2>2 DEF JoinInv, PastWeb
<1>10. CASE CacheLock(t)
  BY <1>9, <1>10, JoinGoto DEF CacheLock
<1>11. CASE CacheUnlock(t)
  BY <1>9, <1>11, JoinGoto DEF CacheUnlock
<1>12. CASE VdsLock(t)
  BY <1>9, <1>12, JoinGoto DEF VdsLock
<1>13. CASE VdsUnlock(t)
  BY <1>9, <1>13, JoinGoto DEF VdsUnlock
<1>14. CASE MarkStopped(t)
  BY <1>9, <1>14, JoinReturn DEF MarkStopped
<1>15. CASE SessionsLock(t)
  BY <1>9, <1>15, JoinGoto DEF SessionsLock
<1>16. CASE SessionsUnlock(t)
  BY <1>9, <1>16, JoinGoto DEF SessionsUnlock
<1> QED BY <1>1, <1>2, <1>3, <1>4, <1>5, <1>6, <1>7, <1>8, <1>10, <1>11, <1>12, <1>13, <1>14, <1>15,
           <1>16 DEF StopStep

LEMMA JoinMainStep ==
  ASSUME IInv, JoinInv, MainStep \/ ServerLoopEnds \/ CallbackLocks \/ CallbackUnlocks
  PROVE  JoinInv'
<1> USE DEF setup, flags, web, locks
<1>1. TypeOK
  BY DEF IInv
<1>2. CASE \/ \E doc \in Document \cup {NoFile} : LoadConfig(doc)
           \/ LoadFails \/ SetupSignalHandlers \/ StartVdsReader \/ StartMetrics \/ MarkRunning
  <2>1. /\ UNCHANGED <<stack, web_running, web_thread>> /\ proc' # "aborted"
        /\ at' \in {"loop", "end"} => running'
        /\ at' # "end"
    BY <1>1, <1>2 DEF LoadConfig, LoadFails, SetupSignalHandlers, StartVdsReader, StartMetrics,
                      MarkRunning, Main
  <2> QED BY <2>1 DEF JoinInv, PastWeb, StopBefore, Unjoined, Joiner, Has, AbortedByOwnJoin
<1>3. CASE StartWebRtcServer
  <2>1. at = "web" /\ UNCHANGED <<proc, stack>> /\ proc = "up"
    BY <1>3 DEF StartWebRtcServer, Main
  <2>2. web_thread = "none"
    BY <2>1 DEF IInv, Stages
  <2>3. \/ web_running' = TRUE /\ at' = "metrics"
        \/ at' = "end" /\ web_thread' = "none"
    BY <1>3, <2>2 DEF StartWebRtcServer
  <2>4. PastWeb'
    <3> SUFFICES ASSUME NEW u \in Thread, NEW i \in 1 .. Len(stack[u]), stack[u][i] \in AfterWeb
                 PROVE  FALSE
      BY <2>1 DEF PastWeb
    <3>1. stack[u][i] # "check"
      BY DEF AfterWeb
    <3> QED BY <2>1, <3>1 DEF IInv, Frames, Place
  <2> QED BY <2>1, <2>3, <2>4 DEF JoinInv, StopBefore, Unjoined, AbortedByOwnJoin
<1>4. CASE LeaveMainLoop
  <2>1. /\ proc = "up" /\ at = "loop" /\ stack["main"] = << >>
        /\ stack' = [stack EXCEPT !["main"] = <<"check">>]
        /\ UNCHANGED <<proc, running, web_running, web_thread>>
    BY <1>4 DEF LeaveMainLoop, Main
  <2>2. <<"check">> \o << >> = <<"check">>
    OBVIOUS
  <2>3. stack' = [stack EXCEPT !["main"] = <<"check">> \o stack["main"]]
    BY <2>1, <2>2
  <2> QED BY <2>1, <2>3, JoinPush DEF Thread
<1>5. CASE DestroyMembers
  <2>1. /\ at = "end" /\ stack["main"] = << >> /\ UNCHANGED <<at, stack, running, web_thread>>
        /\ web_running => web_thread = "none"
        /\ \/ web_thread # "none" /\ proc' = "aborted" /\ UNCHANGED web_running
           \/ web_thread = "none" /\ web_running' = FALSE /\ proc' = "exited"
    BY <1>5 DEF DestroyMembers, Main
  <2>2. CASE web_thread # "none"
    <3>1. ~ web_running /\ web_running' = web_running
      BY <2>1, <2>2
    <3>2. PICK u \in Thread : Has(u, "web_join")
      BY <2>2, <3>1 DEF JoinInv, Unjoined, Joiner
    <3>3. u = "ws" /\ stack["ws"] # << >>
      BY <2>1, <3>2, NoFrames DEF Thread, Has
    <3>4. web_thread = "run"
      BY <3>3 DEF IInv, Context
    <3>5. AbortedByOwnJoin'
      BY <2>1, <3>2, <3>3, <3>4 DEF AbortedByOwnJoin, Has
    <3> QED BY <2>1, <3>1, <3>5 DEF JoinInv, PastWeb, StopBefore, Unjoined, Joiner, Has
  <2>3. CASE web_thread = "none"
    BY <2>1, <2>3 DEF JoinInv, PastWeb, StopBefore, Unjoined, AbortedByOwnJoin
  <2> QED BY <2>2, <2>3
<1>6. CASE ServerLoopEnds \/ CallbackLocks \/ CallbackUnlocks
  BY <1>6 DEF ServerLoopEnds, CallbackLocks, CallbackUnlocks, WebSocket, JoinInv, PastWeb, StopBefore,
              Unjoined, Joiner, Has, AbortedByOwnJoin
<1> QED BY <1>2, <1>3, <1>4, <1>5, <1>6 DEF MainStep

LEMMA JoinSignal ==
  ASSUME IInv, JoinInv, NEW t \in Thread, NEW s \in Signals, Signal(t, s)
  PROVE  JoinInv'
<1> USE DEF setup, flags, web, locks
<1>1. CASE installed
  <2>1. /\ stack' = [stack EXCEPT ![t] = <<"check">> \o stack[t]] /\ proc = "up"
        /\ UNCHANGED <<proc, at, running, web_running, web_thread>>
    BY <1>1 DEF Signal
  <2>2. UNCHANGED at /\ UNCHANGED <<proc, running, web_running, web_thread>>
    BY <2>1
  <2> QED BY <2>1, <2>2, JoinPush
<1>2. CASE ~ installed
  BY <1>2 DEF Signal, JoinInv, PastWeb, StopBefore, Unjoined, Joiner, Has, AbortedByOwnJoin
<1> QED BY <1>1, <1>2

LEMMA JoinInductive == Spec => []JoinInv
<1>1. Init => JoinInv
  BY NoFrames DEF Init, JoinInv, PastWeb, StopBefore, Unjoined, AbortedByOwnJoin
<1>2. IInv /\ JoinInv /\ [Next]_vars => JoinInv'
  <2> SUFFICES ASSUME IInv, JoinInv, [Next]_vars PROVE JoinInv'
    OBVIOUS
  <2>1. CASE UNCHANGED vars
    BY <2>1 DEF vars, setup, flags, web, locks, JoinInv, PastWeb, StopBefore, Unjoined, Joiner, Has,
                AbortedByOwnJoin
  <2> QED BY <2>1, JoinMainStep, JoinStopStep, JoinSignal DEF Next
<1> QED BY <1>1, <1>2, Inductive, PTL DEF Spec

\* The process is taken down by no handler but one that interrupts the WebSocket
\* thread and joins it to itself (server.cpp:14-19, webrtc_server.cpp:57-80).
THEOREM OnlyOwnJoinAborts == Spec => []AbortedByOwnJoin
<1>1. JoinInv => AbortedByOwnJoin
  BY DEF JoinInv
<1> QED BY <1>1, JoinInductive, PTL

\* However main() comes to the destructors, ~WebRtcServer has nothing left to
\* stop: a web server that counts as running there is one whose start failed.
DestructorsFindItStopped == Main("end") => (web_running => web_thread = "none" /\ ~ web_context)

THEOREM AlwaysStoppedBeforeDestructors == Spec => []DestructorsFindItStopped
<1>1. IInv /\ JoinInv => DestructorsFindItStopped
  <2> SUFFICES ASSUME IInv, JoinInv, Main("end"), web_running
               PROVE  web_thread = "none" /\ ~ web_context
    BY DEF DestructorsFindItStopped
  <2>1. at = "end" /\ stack["main"] = << >> /\ Len(stack["main"]) = 0
    BY NoFrames DEF Main, Thread
  <2>2. web_thread = "none"
    BY <2>1 DEF JoinInv, StopBefore
  <2>3. ~ At(Past)
    BY <2>1 DEF At
  <2> QED BY <2>2, <2>3 DEF IInv, Context
<1> QED BY <1>1, Inductive, JoinInductive, PTL
-----------------------------------------------------------------------------
(* Who waits for a mutex *)

\* A mutex is held by a thread with a frame that will give it back, or by the
\* initialize that failed.
Held ==
  \A u \in Thread : /\ cache_mutex = u => Has(u, "cache_unlock")
                    /\ access_mutex = u => at = "stuck" \/ Has(u, "vds_unlock")
                    /\ sessions_mutex = u => Has(u, "sessions_unlock")

LEMMA HeldGoto ==
  ASSUME IInv, Held, NEW t \in Thread, NEW q \in StopAt, NEW p \in StopAt, In(t, q), Goto(t, p),
         UNCHANGED at,
         \A u \in Thread : cache_mutex' = u =>
           (cache_mutex = u /\ q # "cache_unlock") \/ (u = t /\ p = "cache_unlock"),
         \A u \in Thread : access_mutex' = u =>
           (access_mutex = u /\ q # "vds_unlock") \/ (u = t /\ p = "vds_unlock"),
         \A u \in Thread : sessions_mutex' = u =>
           (sessions_mutex = u /\ q # "sessions_unlock") \/ (u = t /\ p = "sessions_unlock")
  PROVE  Held'
<1> SUFFICES ASSUME NEW u \in Thread
             PROVE  /\ cache_mutex' = u => Has(u, "cache_unlock")'
                    /\ access_mutex' = u => at' = "stuck" \/ Has(u, "vds_unlock")'
                    /\ sessions_mutex' = u => Has(u, "sessions_unlock")'
  BY DEF Held
<1>0. TypeOK
  BY DEF IInv
<1>1. Has(t, p)'
  BY <1>0, HasMoved
<1>2. ASSUME NEW x, x # q, Has(u, x) PROVE Has(u, x)'
  BY <1>0, <1>2, HasGoto
<1> QED BY <1>1, <1>2 DEF Held

LEMMA HeldReturn ==
  ASSUME IInv, Held, NEW t \in Thread, NEW q \in StopAt \ {"cache_unlock", "vds_unlock", "sessions_unlock"},
         In(t, q), Return(t), UNCHANGED <<at, locks>>
  PROVE  Held'
<1>0. TypeOK
  BY DEF IInv
<1>1. ASSUME NEW u \in Thread, NEW x, x # q, Has(u, x) PROVE Has(u, x)'
  BY <1>0, <1>1, HasReturn
<1> QED BY <1>1 DEF Held, locks

LEMMA HeldPush ==
  ASSUME IInv, Held, NEW t \in Thread, stack' = [stack EXCEPT ![t] = <<"check">> \o stack[t]],
         UNCHANGED locks, at = "stuck" => at' = "stuck"
  PROVE  Held'
<1>0. TypeOK
  BY DEF IInv
<1>1. ASSUME NEW u \in Thread, NEW x, Has(u, x) PROVE Has(u, x)'
  BY <1>0, <1>1, HasPush
<1> QED BY <1>1 DEF Held, locks

LEMMA HeldStep == IInv /\ Held /\ [Next]_vars => Held'
<1> SUFFICES ASSUME IInv, Held, [Next]_vars PROVE Held'
  OBVIOUS
<1> USE DEF StopAt, setup, flags, web, locks
<1>1. ASSUME NEW t \in Thread, StopStep(t) PROVE Held'
  <2>1. CASE StopCheck(t)
    <3>1. CASE running
      BY <2>1, <3>1, HeldGoto DEF StopCheck
    <3>2. CASE ~ running
      BY <2>1, <3>2, HeldReturn DEF StopCheck
    <3> QED BY <3>1, <3>2
  <2>2. CASE StopRequest(t)
    BY <2>2, HeldGoto DEF StopRequest
  <2>3. CASE StopMetrics(t)
    BY <2>3, HeldGoto DEF StopMetrics
  <2>4. CASE WebCheck(t)
    <3>1. CASE web_running
      BY <2>4, <3>1, HeldGoto DEF WebCheck
    <3>2. CASE ~ web_running
      BY <2>4, <3>2, HeldGoto DEF WebCheck
    <3> QED BY <3>1, <3>2
  <2>5. CASE WebFlag(t)
    BY <2>5, HeldGoto DEF WebFlag
  <2>6. CASE WebJoin(t)
    <3>1. CASE UNCHANGED stack
      BY <2>6, <3>1 DEF WebJoin, Held, Has
    <3>2. CASE Goto(t, "web_destroy")
      BY <2>6, <3>2, HeldGoto DEF WebJoin
    <3> QED BY <2>6, <3>1, <3>2 DEF WebJoin
  <2>7. CASE WebDestroy(t)
    BY <2>7, HeldGoto DEF WebDestroy
  <2>8. CASE WebNull(t)
    BY <2>8, HeldGoto DEF WebNull
  <2>9. CASE CacheLock(t)
    BY <2>9, HeldGoto DEF CacheLock
  <2>10. CASE CacheUnlock(t)
    <3>1. "free" \notin Thread
      BY DEF Thread
    <3> QED BY <2>10, <3>1, HeldGoto DEF CacheUnlock
  <2>11. CASE VdsLock(t)
    BY <2>11, HeldGoto DEF VdsLock
  <2>12. CASE VdsUnlock(t)
    <3>1. "free" \notin Thread
      BY DEF Thread
    <3> QED BY <2>12, <3>1, HeldGoto DEF VdsUnlock
  <2>13. CASE MarkStopped(t)
    BY <2>13, HeldReturn DEF MarkStopped
  <2>14. CASE SessionsLock(t)
    BY <2>14, HeldGoto DEF SessionsLock
  <2>15. CASE SessionsUnlock(t)
    <3>1. "free" \notin Thread
      BY DEF Thread
    <3> QED BY <2>15, <3>1, HeldGoto DEF SessionsUnlock
  <2> QED BY <1>1, <2>1, <2>2, <2>3, <2>4, <2>5, <2>6, <2>7, <2>8, <2>9, <2>10, <2>11, <2>12, <2>13,
             <2>14, <2>15 DEF StopStep
<1>2. CASE LeaveMainLoop
  <2>1. /\ at = "loop" /\ stack["main"] = << >>
        /\ stack' = [stack EXCEPT !["main"] = <<"check">>]
        /\ UNCHANGED locks
    BY <1>2 DEF LeaveMainLoop, Main
  <2>2. <<"check">> \o << >> = <<"check">>
    OBVIOUS
  <2>3. stack' = [stack EXCEPT !["main"] = <<"check">> \o stack["main"]]
    BY <2>1, <2>2
  <2> QED BY <2>1, <2>3, HeldPush DEF Thread
<1>3. CASE MainStep /\ ~ LeaveMainLoop
  <2>1. /\ UNCHANGED <<stack, cache_mutex, sessions_mutex>> /\ at # "stuck"
        /\ UNCHANGED access_mutex \/ at' = "stuck"
    BY <1>3 DEF MainStep, LoadConfig, LoadFails, SetupSignalHandlers, StartVdsReader,
                StartWebRtcServer, StartMetrics, MarkRunning, DestroyMembers, Main
  <2> QED BY <2>1 DEF Held, Has
<1>4. CASE ServerLoopEnds \/ CallbackLocks \/ CallbackUnlocks \/ UNCHANGED vars
  <2>1. /\ UNCHANGED <<stack, at, cache_mutex, access_mutex>>
        /\ UNCHANGED sessions_mutex \/ sessions_mutex' \notin Thread
    BY <1>4 DEF ServerLoopEnds, CallbackLocks, CallbackUnlocks, vars, Thread
  <2> QED BY <2>1 DEF Held, Has
<1>5. ASSUME NEW t \in Thread, NEW s \in Signals, Signal(t, s) PROVE Held'
  <2>1. CASE installed
    <3>1. /\ stack' = [stack EXCEPT ![t] = <<"check">> \o stack[t]]
          /\ UNCHANGED locks /\ at' = at
      BY <1>5, <2>1 DEF Signal
    <3>2. UNCHANGED locks /\ (at = "stuck" => at' = "stuck")
      BY <3>1
    <3> QED BY <3>1, <3>2, HeldPush
  <2>2. CASE ~ installed
    BY <1>5, <2>2 DEF Signal, Held, Has
  <2> QED BY <2>1, <2>2
<1> QED BY <1>1, <1>2, <1>3, <1>4, <1>5 DEF Next

LEMMA AlwaysHeld == Spec => []Held
<1>1. Init => Held
  BY DEF Init, Held, Thread
<1> QED BY <1>1, HeldStep, Inductive, PTL DEF Spec

\* Callbacks are made by a thread that runs.
Serving == sessions_mutex \in {"callback", "handler"} => web_thread = "run"

LEMMA AlwaysServing == Spec => []Serving
<1>1. Init => Serving
  BY DEF Init, Serving
<1>2. Serving /\ [Next]_vars => Serving'
  <2> SUFFICES ASSUME Serving, [Next]_vars PROVE Serving'
    OBVIOUS
  <2> USE DEF Serving, web, locks
  <2>1. ASSUME NEW t \in Thread, StopStep(t) PROVE Serving'
    <3>1. \/ UNCHANGED <<sessions_mutex, web_thread>>
          \/ UNCHANGED sessions_mutex /\ web_thread # "run"
          \/ sessions_mutex' \in Thread \cup {"free"}
      BY <2>1 DEF StopStep, StopCheck, StopRequest, StopMetrics, WebCheck, WebFlag, WebJoin, WebDestroy,
                  WebNull, SessionsLock, SessionsUnlock, CacheLock, CacheUnlock, VdsLock, VdsUnlock,
                  MarkStopped
    <3> QED BY <3>1 DEF Thread
  <2>2. CASE MainStep
    BY <2>2 DEF MainStep, LoadConfig, LoadFails, SetupSignalHandlers, StartVdsReader,
                StartWebRtcServer, StartMetrics, MarkRunning, LeaveMainLoop, DestroyMembers
  <2>3. CASE ServerLoopEnds \/ CallbackLocks \/ CallbackUnlocks \/ UNCHANGED vars
    BY <2>3 DEF ServerLoopEnds, CallbackLocks, CallbackUnlocks, WebSocket, vars
  <2>4. ASSUME NEW t \in Thread, NEW s \in Signals, Signal(t, s) PROVE Serving'
    BY <2>4 DEF Signal
  <2> QED BY <2>1, <2>2, <2>3, <2>4 DEF Next
<1> QED BY <1>1, <1>2, PTL DEF Spec

\* The only frame of a thread is the innermost.
LEMMA OnlyFrame ==
  ASSUME TypeOK, proc = "up", NEW t \in Thread, Len(stack[t]) <= 1, NEW x, Has(t, x)
  PROVE  In(t, x)
<1>1. stack[t] \in Seq(StopAt) /\ Len(stack[t]) \in Nat
  BY StackType
<1>2. PICK i \in 1 .. Len(stack[t]) : stack[t][i] = x
  BY DEF Has
<1>3. i = 1 /\ Len(stack[t]) = 1
  <2> DEFINE n == Len(stack[t])
  <2>1. n \in Nat /\ n <= 1 /\ i \in 1 .. n
    BY <1>1
  <2> HIDE DEF n
  <2>2. i = 1 /\ n = 1
    BY <2>1
  <2> QED BY <2>2 DEF n
<1>4. stack[t] # << >> /\ Head(stack[t]) = stack[t][1]
  BY <1>1, <1>3
<1> QED BY <1>2, <1>3, <1>4 DEF In

\* A stop() past the web server has joined the WebSocket thread, unless another stop()
\* is about to; so as long as none is nested nobody is left who could hold a mutex.
THEOREM AlwaysWaitsForNested == Spec => []OnlyNestedStopsWait
<1>1. ASSUME IInv, JoinInv, Held, \A u \in Thread : Len(stack[u]) <= 1, NEW t \in Thread,
             NEW lock \in {"cache_lock", "vds_lock"}, Waits(t, lock),
             NEW u \in Thread, NEW unlock \in {"cache_unlock", "vds_unlock"}, Has(u, unlock)
      PROVE  FALSE
  <2>0. TypeOK /\ proc = "up"
    BY <1>1 DEF IInv, Waits, In, Main
  <2>1. In(u, unlock)
    BY <1>1, <2>0, OnlyFrame
  <2>2. ~ web_running
    BY <1>1 DEF JoinInv, PastWeb, Has, AfterWeb
  <2>3. t # u
    BY <1>1, <2>1 DEF Waits, In, Main
  <2>4. stack["ws"] # << >>
    <3>1. CASE t = "ws"
      BY <1>1, <3>1 DEF Waits, In
    <3>2. CASE u = "ws"
      BY <2>1, <3>2 DEF In
    <3> QED BY <2>3, <3>1, <3>2 DEF Thread
  <2>5. web_thread # "none"
    BY <1>1, <2>4 DEF IInv, Context
  <2>6. PICK v \in Thread : Has(v, "web_join")
    BY <1>1, <2>2, <2>5 DEF JoinInv, Unjoined, Joiner
  <2>7. In(v, "web_join")
    BY <1>1, <2>0, <2>6, OnlyFrame
  <2>8. v # u
    BY <2>1, <2>7 DEF In
  <2>9. v = t
    BY <2>3, <2>8 DEF Thread
  <2> QED BY <1>1, <2>7, <2>9 DEF Waits, In, Main
<1>2. ASSUME IInv, JoinInv, Held, \A u \in Thread : Len(stack[u]) <= 1, NEW t \in Thread
      PROVE  /\ Waits(t, "cache_lock") => cache_mutex = "free"
             /\ Waits(t, "vds_lock") => access_mutex = "free"
  <2>1. cache_mutex \in Thread \cup {"free"} /\ access_mutex \in Thread \cup {"free"}
    BY <1>2 DEF IInv, TypeOK
  <2>2. ASSUME Waits(t, "cache_lock"), cache_mutex # "free" PROVE FALSE
    BY <1>1, <1>2, <2>1, <2>2 DEF Held
  <2>3. ASSUME Waits(t, "vds_lock"), access_mutex # "free" PROVE FALSE
    <3>1. at # "stuck"
      <4>1. CASE In(t, "vds_lock")
        BY <1>2, <4>1, Requested DEF StopAt
      <4>2. CASE Main("end")
        BY <4>2 DEF Main
      <4> QED BY <2>3, <4>1, <4>2 DEF Waits
    <3> QED BY <1>1, <1>2, <2>1, <2>3, <3>1 DEF Held
  <2> QED BY <2>2, <2>3
<1>3. ASSUME IInv, Held, Serving, NEW t \in Thread, In(t, "web_destroy") \/ In(t, "sessions_lock")
      PROVE  sessions_mutex = "free"
  <2>1. PICK q \in {"web_destroy", "sessions_lock"} : In(t, q)
    BY <1>3
  <2>2. web_thread = "none" /\ \A j \in 2 .. Len(stack["main"]) : stack["main"][j] \notin Cleanup
    BY <1>3, <2>1, Alone DEF Cleanup, Past
  <2>3. t = "main" /\ stack["main"][1] = q
    BY <1>3, <2>1, Alone, Innermost DEF IInv, Cleanup, Past
  <2>4. ASSUME NEW u \in Thread, sessions_mutex = u PROVE FALSE
    <3>1. PICK j \in 1 .. Len(stack[u]) : stack[u][j] = "sessions_unlock"
      BY <1>3, <2>4 DEF Held, Has
    <3>2. u = "main"
      BY <1>3, <3>1 DEF IInv, Frames, Place, Cleanup
    <3>3. Len(stack["main"]) \in Nat
      BY <1>3, StackType DEF IInv, Thread
    <3>4. j \in 2 .. Len(stack["main"])
      BY <2>3, <3>1, <3>2, <3>3
    <3> QED BY <2>2, <3>1, <3>2, <3>4 DEF Cleanup
  <2> QED BY <1>3, <2>2, <2>4 DEF Serving, IInv, TypeOK
<1>4. IInv /\ JoinInv /\ Held /\ Serving => OnlyNestedStopsWait
  BY <1>2, <1>3 DEF OnlyNestedStopsWait
<1> QED BY <1>4, Inductive, JoinInductive, AlwaysHeld, AlwaysServing, PTL

\* Every stop() goes back to a signal; the one of ~Server to that which ended the
\* main loop.
Signalled ==
  /\ IsFiniteSet(sent)
  /\ shutdown_requested => sent # {}
  /\ \A t \in Thread : stack[t] # << >> => sent # {}
  /\ Cardinality(sent) <= 1 => \A t \in Thread : Len(stack[t]) <= 1

LEMMA SignalledStop ==
  ASSUME IInv, Signalled, NEW t \in Thread, StopStep(t)
  PROVE  Signalled'
<1> USE DEF setup, flags, web, locks
<1>1. TypeOK /\ \A u \in Thread : Len(stack[u]) \in Nat
  BY StackType DEF IInv
<1>2. stack[t] # << >> /\ sent # {} /\ UNCHANGED sent
  BY DEF StopStep, StopCheck, StopRequest, StopMetrics, WebCheck, WebFlag, WebJoin, WebDestroy,
         WebNull, SessionsLock, SessionsUnlock, CacheLock, CacheUnlock, VdsLock, VdsUnlock,
         MarkStopped, In, Signalled
<1>3. (UNCHANGED stack) \/ (\E p \in StopAt : Goto(t, p)) \/ Return(t)
  BY DEF StopStep, StopCheck, StopRequest, StopMetrics, WebCheck, WebFlag, WebJoin, WebDestroy,
         WebNull, SessionsLock, SessionsUnlock, CacheLock, CacheUnlock, VdsLock, VdsUnlock,
         MarkStopped, StopAt
<1>4. ASSUME NEW u \in Thread PROVE Len(stack'[u]) <= Len(stack[u])
  <2>1. CASE UNCHANGED stack
    BY <1>1, <2>1
  <2>2. CASE \E p \in StopAt : Goto(t, p)
    <3>1. PICK p \in StopAt : Goto(t, p)
      BY <2>2
    <3>2. Len(stack'[t]) = Len(stack[t]) /\ (u # t => stack'[u] = stack[u])
      BY <1>1, <1>2, <3>1, GotoFacts
    <3> QED BY <1>1, <3>2
  <2>3. CASE Return(t)
    <3>1. Len(stack'[t]) = Len(stack[t]) - 1 /\ (u # t => stack'[u] = stack[u])
      BY <1>1, <1>2, <2>3, ReturnFacts
    <3> QED BY <1>1, <3>1
  <2> QED BY <1>3, <2>1, <2>2, <2>3
<1>5. IInv'
  BY StopStepPreserves
<1>6. \A u \in Thread : Len(stack'[u]) \in Nat
  BY <1>5 DEF IInv, TypeOK
<1>7. Cardinality(sent) <= 1 => \A u \in Thread : Len(stack'[u]) <= 1
  BY <1>1, <1>4, <1>6 DEF Signalled
<1> QED BY <1>2, <1>7 DEF Signalled

LEMMA SignalledStep == IInv /\ Signalled /\ [Next]_vars => Signalled'
<1> SUFFICES ASSUME IInv, Signalled, [Next]_vars PROVE Signalled'
  OBVIOUS
<1> USE DEF setup, flags, web, locks
<1>0. TypeOK /\ \A u \in Thread : Len(stack[u]) \in Nat
  BY StackType DEF IInv
<1>1. CASE LeaveMainLoop
  <2>1. /\ shutdown_requested /\ stack["main"] = << >>
        /\ stack' = [stack EXCEPT !["main"] = <<"check">>]
        /\ UNCHANGED <<sent, shutdown_requested>>
    BY <1>1 DEF LeaveMainLoop, Main
  <2>2. <<"check">> \o << >> = <<"check">>
    OBVIOUS
  <2>3. stack' = [stack EXCEPT !["main"] = <<"check">> \o stack["main"]]
    BY <2>1, <2>2
  <2>4. /\ Len(stack'["main"]) = Len(stack["main"]) + 1
        /\ \A u \in Thread : u # "main" => stack'[u] = stack[u]
    BY <1>0, <2>3, PushFacts DEF Thread
  <2>5. Len(stack'["main"]) <= 1
    BY <2>1, <2>4
  <2> QED BY <2>1, <2>4, <2>5 DEF Signalled
<1>2. CASE MainStep /\ ~ LeaveMainLoop
  BY <1>2 DEF MainStep, LoadConfig, LoadFails, SetupSignalHandlers, StartVdsReader,
              StartWebRtcServer, StartMetrics, MarkRunning, DestroyMembers, Signalled
<1>3. CASE ServerLoopEnds \/ CallbackLocks \/ CallbackUnlocks \/ UNCHANGED vars
  BY <1>3 DEF ServerLoopEnds, CallbackLocks, CallbackUnlocks, vars, Signalled
<1>4. ASSUME NEW t \in Thread, NEW s \in Signals, Signal(t, s) PROVE Signalled'
  <2>1. s \notin sent /\ sent' = sent \cup {s} /\ UNCHANGED shutdown_requested
    BY <1>4 DEF Signal
  <2>2. /\ IsFiniteSet(sent') /\ Cardinality(sent') = Cardinality(sent) + 1
        /\ Cardinality(sent) \in Nat
    BY <2>1, FS_AddElement, FS_CardinalityType DEF Signalled
  <2>3. Cardinality(sent') <= 1 => sent = {}
    <3>1. Cardinality(sent) = 0 => sent = {}
      BY FS_EmptySet DEF Signalled
    <3> QED BY <2>2, <3>1
  <2>4. Cardinality(sent') <= 1 => \A u \in Thread : Len(stack'[u]) <= 1
    <3> SUFFICES ASSUME sent = {}, NEW u \in Thread PROVE Len(stack'[u]) <= 1
      BY <2>3
    <3>1. \A v \in Thread : stack[v] = << >> /\ Len(stack[v]) = 0
      BY NoFrames DEF Signalled
    <3>2. CASE installed
      <4>1. stack' = [stack EXCEPT ![t] = <<"check">> \o stack[t]]
        BY <1>4, <3>2 DEF Signal
      <4>2. Len(stack'[t]) = Len(stack[t]) + 1 /\ (u # t => stack'[u] = stack[u])
        BY <1>0, <4>1, PushFacts
      <4> QED BY <3>1, <4>2
    <3>3. CASE ~ installed
      <4>1. stack' = stack
        BY <1>4, <3>3 DEF Signal
      <4> QED BY <3>1, <4>1
    <3> QED BY <3>2, <3>3
  <2> QED BY <2>1, <2>2, <2>4 DEF Signalled
<1> QED BY <1>1, <1>2, <1>3, <1>4, SignalledStop DEF Next

\* One signal nests no stop() in another, so none of its steps ever waits for a mutex:
\* what ShutdownFinishes leaves to the scheduler. It takes a second signal to
\* deadlock a shutdown (server.cpp:14-19, 69-70).
THEOREM OneSignalNeverWaits ==
  Spec => [](Cardinality(sent) <= 1 =>
               \A t \in Thread : /\ Len(stack[t]) <= 1
                                 /\ Waits(t, "cache_lock") => cache_mutex = "free"
                                 /\ Waits(t, "vds_lock") => access_mutex = "free")
<1>1. Init => Signalled
  <2> SUFFICES ASSUME Init PROVE Signalled
    OBVIOUS
  <2>1. \A t \in Thread : stack[t] = << >> /\ Len(stack[t]) <= 1
    BY DEF Init
  <2> QED BY <2>1, FS_EmptySet DEF Init, Signalled
<1>2. Spec => []Signalled
  BY <1>1, SignalledStep, Inductive, PTL DEF Spec
<1>3. Signalled /\ OnlyNestedStopsWait =>
        (Cardinality(sent) <= 1 =>
           \A t \in Thread : /\ Len(stack[t]) <= 1
                             /\ Waits(t, "cache_lock") => cache_mutex = "free"
                             /\ Waits(t, "vds_lock") => access_mutex = "free")
  BY DEF Signalled, OnlyNestedStopsWait
<1> QED BY <1>2, <1>3, AlwaysWaitsForNested, PTL

-----------------------------------------------------------------------------
(* What is saved is loaded again *)

\* A value of a member: cut to the width of its type once, it stays what it is.
Fits(T, v) == T \in DOMAIN Modulus => v \in Lowest(T) .. Lowest(T) + Modulus[T] - 1

Storable == /\ config = [f \in Field |-> config[f]]
            /\ \A i \in DOMAIN Read : Fits(Read[i][2], config[Read[i][3]])

LEMMA EveryFieldRead ==
  ASSUME NEW f \in Field
  PROVE  \E i \in DOMAIN Read : Read[i][3] = f
BY SMTT(60) DEF Read, Field, Default

\* Each key is written for the member it is read into, as a value of a type that
\* can be got as the member's.
LEMMA WrittenAsRead ==
  ASSUME NEW i \in DOMAIN Read
  PROVE  /\ \E w \in Written : w[1] = Read[i][1]
         /\ \A w \in Written : w[1] = Read[i][1] =>
              /\ w[3] = Read[i][3]
              /\ w[2] = CASE Read[i][2] = "string" -> "string"
                          [] Read[i][2] = "bool"   -> "boolean"
                          [] OTHER                 -> "number"
BY SMTT(60) DEF Read, Written

LEMMA LowestInt ==
  ASSUME NEW T \in DOMAIN Modulus
  PROVE  /\ Lowest(T) \in Int
         /\ T \in {"u16", "u32", "u64"} => Lowest(T) = 0
         /\ T = "int" => Lowest(T) <= 0 /\ 2 < Lowest(T) + Modulus[T]
<1>1. T \in {"u16", "u32", "u64", "int"} /\ Modulus["int"] \in Nat /\ Modulus["int"] > 5
  BY ConfigAssumption
<1>2. \A m \in Nat : m > 5 => - (m \div 2) \in Int /\ - (m \div 2) <= 0 /\ 2 < - (m \div 2) + m
  OBVIOUS
<1> QED BY <1>1, <1>2 DEF Lowest

LEMMA DefaultFits ==
  ASSUME NEW i \in DOMAIN Read
  PROVE  Fits(Read[i][2], Default[Read[i][3]])
<1> DEFINE T == Read[i][2]
           v == Default[Read[i][3]]
<1>1. T \in {"u16", "u32", "u64", "int"} =>
        v \in Nat /\ (T = "u16" => v <= 9090) /\ (T = "u32" => v <= 256)
                  /\ (T = "u64" => v <= 1024) /\ (T = "int" => v <= 2)
  <2>1. /\ T = "u16" => Read[i][3] \in {"server_port", "metrics_port"}
        /\ T = "u32" => Read[i][3] \in {"default_tile_size", "max_tiles_in_flight"}
        /\ T = "u64" => Read[i][3] = "cache_size_mb"
        /\ T = "int" => Read[i][3] \in {"compression_level", "log_level"}
    BY SMTT(60) DEF Read
  <2>2. /\ Default["server_port"] = 8080 /\ Default["metrics_port"] = 9090
        /\ Default["default_tile_size"] = 256 /\ Default["max_tiles_in_flight"] = 64
        /\ Default["cache_size_mb"] = 1024
        /\ Default["compression_level"] = 1 /\ Default["log_level"] = 2
    BY DEF Default
  <2> QED BY <2>1, <2>2
<1>2. /\ DOMAIN Modulus = {"u16", "u32", "u64", "int"}
      /\ \A U \in DOMAIN Modulus : Modulus[U] \in Nat
      /\ Modulus["u16"] > 9090 /\ Modulus["u32"] > 256 /\ Modulus["u64"] > 1024
  BY ConfigAssumption
<1> HIDE DEF T, v
<1>3. ASSUME T \in DOMAIN Modulus
      PROVE  v \in Lowest(T) .. Lowest(T) + Modulus[T] - 1
  BY <1>1, <1>2, <1>3, LowestInt
<1>4. Fits(T, v)
  BY <1>3 DEF Fits
<1> QED BY <1>4 DEF T, v

\* Cut to its type, a value that is there to be got fits.
LEMMA GotFits ==
  ASSUME NEW doc \in Document, NEW k \in DOMAIN doc, NEW T, Gets(T, doc[k])
  PROVE  Fits(T, Get(T, doc[k]))
<1> SUFFICES ASSUME T \in DOMAIN Modulus
             PROVE  Get(T, doc[k]) \in Lowest(T) .. Lowest(T) + Modulus[T] - 1
  BY DEF Fits
<1>1. T \in {"u16", "u32", "u64", "int"} /\ Modulus[T] \in Nat \ {0}
  BY ConfigAssumption
<1>2. doc[k].holds \in Int
  BY <1>1, DocumentAssumption DEF Gets
<1>3. \A h \in Int, m \in Nat \ {0} : h % m \in 0 .. m - 1
  OBVIOUS
<1>4. Get(T, doc[k]) = Lowest(T) + ((doc[k].holds - Lowest(T)) % Modulus[T])
  BY DEF Get
<1>5. (doc[k].holds - Lowest(T)) % Modulus[T] \in 0 .. Modulus[T] - 1
  <2>1. doc[k].holds - Lowest(T) \in Int
    BY <1>2, LowestInt
  <2> QED BY <1>1, <1>3, <2>1
<1> QED BY <1>1, <1>4, <1>5, LowestInt

\* from_json leaves values that fit in the place of values that did.
LEMMA LoadedFits ==
  ASSUME NEW doc \in Document
  PROVE  LET new == FromJson(Default, doc)
         IN  /\ new = [f \in Field |-> new[f]]
             /\ \A i \in DOMAIN Read : Fits(Read[i][2], new[Read[i][3]])
<1> DEFINE new == FromJson(Default, doc)
<1>1. new = [f \in Field |-> new[f]]
  BY DEF FromJson
<1>2. ASSUME NEW i \in DOMAIN Read
      PROVE  Fits(Read[i][2], new[Read[i][3]])
  <2>1. (CHOOSE p \in DOMAIN Read : Read[p][3] = Read[i][3]) = i
    BY OneKey
  <2>2. Read[i][3] \in Field
    BY ReadsFields
  <2> HIDE DEF Read, Default
  <2>3. new[Read[i][3]] =
          IF Read[i][1] \in DOMAIN doc /\ \A j \in Throws(doc) : i < j
          THEN Get(Read[i][2], doc[Read[i][1]])
          ELSE Default[Read[i][3]]
    BY <2>1, <2>2 DEF FromJson
  <2>4. ASSUME Read[i][1] \in DOMAIN doc, \A j \in Throws(doc) : i < j
        PROVE  Fits(Read[i][2], Get(Read[i][2], doc[Read[i][1]]))
    <3>1. i \notin Throws(doc)
      <4>1. DOMAIN Read \subseteq Int
        BY DEF Read
      <4> QED BY <2>4, <4>1
    <3>2. Gets(Read[i][2], doc[Read[i][1]])
      BY <2>4, <3>1 DEF Throws
    <3> QED BY <2>4, <3>2, GotFits
  <2> QED BY <2>3, <2>4, DefaultFits
<1> QED BY <1>1, <1>2

LEMMA StorableInductive == Spec => []Storable
<1>1. Init => Storable
  <2> SUFFICES ASSUME Init PROVE Storable
    OBVIOUS
  <2>1. config = Default
    BY DEF Init
  <2>2. Default = [f \in Field |-> Default[f]]
    <3>1. Default \in [Field -> {Default[f] : f \in Field}]
      BY SMTT(60) DEF Default, Field
    <3> QED BY <3>1
  <2> QED BY <2>1, <2>2, DefaultFits DEF Storable
<1>2. IInv /\ Storable /\ [Next]_vars => Storable'
  <2> SUFFICES ASSUME IInv, Storable, [Next]_vars PROVE Storable'
    OBVIOUS
  <2>1. CASE UNCHANGED config
    BY <2>1 DEF Storable
  <2>2. ASSUME NEW doc \in Document, LoadConfig(doc), doc # NoFile PROVE Storable'
    <3>1. config' = FromJson(Default, doc)
      BY <2>2 DEF LoadConfig, Main, IInv, FreshConfig
    <3> QED BY <3>1, LoadedFits DEF Storable
  <2>3. UNCHANGED config \/ \E doc \in Document : LoadConfig(doc) /\ doc # NoFile
    BY DEF Next, MainStep, StopStep, LoadConfig, LoadFails, SetupSignalHandlers, StartVdsReader,
           StartWebRtcServer, StartMetrics, MarkRunning, LeaveMainLoop, DestroyMembers,
           ServerLoopEnds, Signal, StopCheck, StopRequest, StopMetrics, WebCheck, WebFlag, WebJoin,
           WebDestroy, WebNull, SessionsLock, SessionsUnlock, CacheLock, CacheUnlock, VdsLock,
           VdsUnlock, MarkStopped, CallbackLocks, CallbackUnlocks, setup, vars
  <2> QED BY <2>1, <2>2, <2>3
<1> QED BY <1>1, <1>2, Inductive, PTL DEF Spec

LEMMA SavedKey ==
  ASSUME NEW i \in DOMAIN Read
  PROVE  /\ Read[i][1] \in DOMAIN ToJson(config)
         /\ ToJson(config)[Read[i][1]].holds = config[Read[i][3]]
         /\ Gets(Read[i][2], ToJson(config)[Read[i][1]])
<1> DEFINE k == Read[i][1]
           w == CHOOSE x \in Written : x[1] = k
           type == CASE Read[i][2] = "string" -> "string"
                     [] Read[i][2] = "bool"   -> "boolean"
                     [] OTHER                 -> "number"
<1>1. k \in Key /\ w[3] = Read[i][3] /\ w[2] = type
  <2>1. \E x \in Written : x[1] = k
    BY WrittenAsRead
  <2>2. w \in Written /\ w[1] = k
    BY <2>1
  <2> HIDE DEF w
  <2>3. w[3] = Read[i][3] /\ w[2] = type
    BY <2>2, WrittenAsRead
  <2> QED BY <2>2, <2>3 DEF Key
<1>2. k \in DOMAIN ToJson(config) /\ ToJson(config)[k] = Value(w[2], config[w[3]])
  BY <1>1 DEF ToJson
<1> HIDE DEF w, k
<1>3. ToJson(config)[k] = [type |-> type, holds |-> config[Read[i][3]]]
  BY <1>1, <1>2 DEF Value
<1>4. Gets(Read[i][2], ToJson(config)[k])
  <2>1. Read[i][2] \in {"string", "bool", "u16", "u32", "u64", "int"}
    BY SMTT(60) DEF Read
  <2>2. CASE Read[i][2] = "string"
    BY <1>3, <2>2 DEF Gets
  <2>3. CASE Read[i][2] = "bool"
    BY <1>3, <2>3 DEF Gets
  <2>4. CASE Read[i][2] \in {"u16", "u32", "u64", "int"}
    <3>1. ToJson(config)[k].type = "number"
      BY <1>3, <2>4
    <3> QED BY <2>4, <3>1 DEF Gets
  <2> QED BY <2>1, <2>2, <2>3, <2>4
<1> QED BY <1>2, <1>3, <1>4 DEF k

\* to_json and from_json name the same keys for the same members, with types that
\* convert: what is saved, after any load, is loaded again (config.cpp:54-190).
THEOREM AlwaysReloadsAsSaved == Spec => []ReloadsAsSaved
<1>1. ASSUME Storable PROVE ReloadsAsSaved
  <2> DEFINE doc == ToJson(config)
             new == FromJson(Default, doc)
  <2>1. Throws(doc) = {}
    BY SavedKey DEF Throws
  <2>2. ASSUME NEW f \in Field PROVE new[f] = config[f]
    <3>1. PICK i \in DOMAIN Read : Read[i][3] = f
      BY EveryFieldRead
    <3>2. new[f] = Get(Read[i][2], doc[Read[i][1]])
      BY <2>1, <3>1, SavedKey, WholeDocument
    <3>3. doc[Read[i][1]].holds = config[f] /\ Fits(Read[i][2], config[f])
      BY <3>1, SavedKey, <1>1 DEF Storable
    <3>4. ASSUME Read[i][2] \in DOMAIN Modulus PROVE Get(Read[i][2], doc[Read[i][1]]) = config[f]
      <4> DEFINE T == Read[i][2]
                 v == config[f]
      <4>1. v \in Lowest(T) .. Lowest(T) + Modulus[T] - 1
        BY <3>3, <3>4 DEF Fits
      <4>2. Lowest(T) \in Int /\ Modulus[T] \in Nat
        BY <3>4, ConfigAssumption, LowestInt
      <4>3. \A m \in Nat, n \in Int : n \in 0 .. m - 1 => n % m = n
        OBVIOUS
      <4>4. v - Lowest(T) \in 0 .. Modulus[T] - 1
        BY <4>1, <4>2
      <4>5. Get(T, doc[Read[i][1]]) = Lowest(T) + ((v - Lowest(T)) % Modulus[T])
        BY <3>3, <3>4 DEF Get
      <4> QED BY <4>1, <4>2, <4>3, <4>4, <4>5
    <3> QED BY <3>2, <3>3, <3>4 DEF Get
  <2>3. new = [f \in Field |-> new[f]] /\ config = [f \in Field |-> config[f]]
    BY <1>1 DEF FromJson, Storable
  <2> HIDE DEF new
  <2>4. new = config
    BY <2>2, <2>3
  <2> QED BY <2>1, <2>4 DEF ReloadsAsSaved, new
<1> QED BY <1>1, StorableInductive, PTL
=============================================================================
