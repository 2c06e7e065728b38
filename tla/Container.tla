------------------------------ MODULE Container ------------------------------
(***************************************************************************)
(* The life of a process: Container.create, startup and close              *)
(* (src/app/bootstrap/container.py, called from bootstrap/factory.py and   *)
(* main.py), composed of the MCP manager and the cancel bus.               *)
(*                                                                         *)
(* The main event loop runs the listener, the runs and the requests; it    *)
(* stands still while the main thread waits for the MCP thread.  The HTTP  *)
(* server may begin to close while requests are still unwinding, when its  *)
(* grace period is over.                                                   *)
(***************************************************************************)
EXTENDS McpManager, CancelBus

VARIABLES app,  \* where create, startup or close is
          pools \* Redis clients that are open

vars == <<mcpVars, busVars, app, pools>>

Clients == {"main", "pubsub"}

ClosePcs == {"closeChat", "closeMcp", "closePubsub", "closeRedis"}

Init == /\ McpInit
        /\ BusInit
        /\ app = "create"
        /\ pools = Clients

-----------------------------------------------------------------------------
(* create and startup.                                                     *)

\* _build_tooling_bundle: the manager is made, and its tools registered; two of
\* a name end it, as does an exception of a later part.
Creates == /\ app = "create"
           /\ \/ mgr \in {"refused", "failed"} /\ app' = "dead"
              \/ mgr \in {"idle", "up"} /\ app' = IF IsInjective(tools) THEN "startup" ELSE "dead"
           /\ UNCHANGED <<mcpVars, busVars, pools>>

CreateRaises == /\ app = "create"
                /\ mgr \in {"idle", "up"}
                /\ Fault
                /\ app' = "dead"
                /\ UNCHANGED <<file, MainThread, started, life, ctx, conns, tools, busVars, pools>>

StartsListener == /\ app = "startup"
                  /\ StartListener
                  /\ app' = "warmup"
                  /\ UNCHANGED <<mcpVars, pubsub, leaked, channel, others, pools>>

\* The warm-up of the pool; when it raises the server gives up, and no shutdown
\* handler runs.
WarmsUp == /\ app = "warmup"
           /\ app' = "serving"
           /\ UNCHANGED <<mcpVars, busVars, pools>>

WarmUpRaises == /\ app = "warmup"
                /\ Fault
                /\ app' = "dead"
                /\ UNCHANGED <<file, MainThread, started, life, ctx, conns, tools, busVars, pools>>

-----------------------------------------------------------------------------
(* close: one part behind the other, and an exception ends it.             *)

ClosesChat == /\ app = "serving"
              /\ app' = "closeChat"
              /\ CloseListener
              /\ UNCHANGED <<mcpVars, pools>>

ClosesMcp == /\ app = "closeChat"
             /\ closer \in {"closed", "raised"}
             /\ IF closer = "raised" THEN app' = "closeRaised" /\ UNCHANGED mcpVars
                ELSE app' = "closeMcp" /\ Aclose
             /\ UNCHANGED <<busVars, pools>>

McpClosed == /\ app = "closeMcp"
             /\ mgr \in {"closed", "closeRaised"}
             /\ app' = IF mgr = "closed" THEN "closePubsub" ELSE "closeRaised"
             /\ UNCHANGED <<mcpVars, busVars, pools>>

\* The pool of the pubsub client takes its connections with it.
PubsubClosed == /\ app = "closePubsub"
                /\ app' = "closeRedis"
                /\ pools' = pools \ {"pubsub"}
                /\ leaked' = 0
                /\ UNCHANGED <<mcpVars, listener, pubsub, channel, others>>

RedisClosed == /\ app = "closeRedis"
               /\ app' = "closed"
               /\ pools' = pools \ {"main"}
               /\ UNCHANGED <<mcpVars, busVars>>

PoolRaises == /\ app \in {"closePubsub", "closeRedis"}
              /\ Fault
              /\ app' = "closeRaised"
              /\ UNCHANGED <<file, MainThread, started, life, ctx, conns, tools, busVars, pools>>

-----------------------------------------------------------------------------
(* Composition.                                                            *)

Over == {"dead", "closed", "closeRaised"}

\* The main event loop turns.
LoopTurns == ~Blocked /\ app \notin Over

Manager == MainStep /\ app \notin Over /\ UNCHANGED <<busVars, app, pools>>

Lifecycle == (LifeStep \/ LifeFaults) /\ app \notin Over /\ UNCHANGED <<busVars, app, pools>>

ShutdownCut == AcloseCut /\ UNCHANGED <<busVars, app, pools>>

ToolCall(c) == /\ app \in {"serving"} \union ClosePcs
               /\ CallTool(c) \/ (LoopTurns /\ CallDropped(c))
               /\ UNCHANGED <<busVars, app, pools>>

ToolCallEnds(c) == CallEnds(c) /\ app \notin Over /\ UNCHANGED <<busVars, app, pools>>

Listener == LoopTurns /\ (ListenerStep \/ PoolRunsDry) /\ UNCHANGED <<mcpVars, app, pools>>

BusCloses == LoopTurns /\ ClosesBus /\ UNCHANGED <<mcpVars, app, pools>>

BusFaults == /\ LoopTurns
             /\ Fault
             /\ \/ SubscribeRaises \/ Reconnects \/ ListenRaises \/ LeaveRaises \/ CloseBusRaises
                \/ \E q \in Requests : PublishRaises(q)
             /\ UNCHANGED <<file, MainThread, started, life, ctx, conns, tools, app, pools>>

\* Requests come while the process serves, and go on while it closes.
RunStep(r) == /\ LoopTurns
              /\ app \in {"serving"} \union ClosePcs
              /\ RunArrives(r) \/ RunEnters(r) \/ RunMoves(r)
              /\ UNCHANGED <<mcpVars, app, pools>>

CancelStep(q) == /\ q.away \/ LoopTurns
                 /\ app \in {"serving"} \union ClosePcs
                 /\ ReadsRecord(q) \/ Cancels(q)
                 /\ UNCHANGED <<mcpVars, app, pools>>

PublishStep(q) == /\ q.away \/ LoopTurns
                  /\ app \notin Over
                  /\ Connects(q) \/ Publishes(q)
                  /\ UNCHANGED <<mcpVars, app, pools>>

Lifetime == \/ Creates \/ StartsListener \/ WarmsUp
            \/ LoopTurns /\ (ClosesMcp \/ McpClosed \/ PubsubClosed \/ RedisClosed)

LifetimeFaults == CreateRaises \/ WarmUpRaises \/ PoolRaises

Next == \/ Lifetime \/ LifetimeFaults \/ ClosesChat
        \/ Manager \/ Lifecycle \/ ShutdownCut
        \/ Listener \/ BusCloses \/ BusFaults
        \/ \E c \in Calls : ToolCall(c) \/ ToolCallEnds(c)
        \/ \E r \in Runs : RunStep(r)
        \/ \E q \in Requests : CancelStep(q) \/ PublishStep(q)

Spec == Init /\ [][Next]_vars

\* Threads and tasks that can go on do.  Nothing makes a run or a request end,
\* the process close, or a fault happen.
FairSpec == /\ Spec
            /\ WF_vars(Lifetime)
            /\ WF_vars(Manager)
            /\ WF_vars(LifeStep /\ app \notin Over /\ UNCHANGED <<busVars, app, pools>>)
            /\ WF_vars(Listener)
            /\ WF_vars(BusCloses)
            /\ \A q \in Requests : WF_vars(PublishStep(q))

-----------------------------------------------------------------------------
(* Properties.                                                             *)

\* A close without an exception has given back everything: listener and pubsub,
\* every MCP context and the thread, both Redis clients; and no client is closed
\* under a part that still uses it (Container.close).
CloseReleasesAll ==
  /\ ListenerStaysClosed
  /\ "pubsub" \notin pools => ~Alive /\ ~pubsub.held
  /\ pools # Clients => /\ \A i \in Servers, l \in Layers : ctx[i][l] = "none"
                        /\ conns = <<>> /\ thread \in {"none", "closed"}
  /\ app = "closed" => pools = {} /\ leaked = 0

\* A cancel published for a run that is here, while its process listens, sets the
\* run's event or finds the run over; unless a fault or the close of the process
\* comes first (cancel_run, _listen_cancel_messages).
CancelArrives == \A q \in Requests :
  (request[q] \in {"sending", "publishing"} /\ Active(q.run) /\ ListenerAt("listening"))
    ~> (q.run \in asked \/ ~Active(q.run) \/ closer # "idle" \/ faults < MaxFaults)
=============================================================================
