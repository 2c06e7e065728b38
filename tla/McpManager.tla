----------------------------- MODULE McpManager -----------------------------
(***************************************************************************)
(* MCPClientManager (src/app/infra/tools/mcp_client_manager.py): tools of  *)
(* other servers, reached through a thread that runs an event loop of its  *)
(* own.  One long task on that loop, _run_lifecycle, enters every context  *)
(* and leaves it again; the main thread waits for it, sends it signals and *)
(* stops the loop.  Tool calls come from the main loop and run on the      *)
(* thread's.                                                               *)
(*                                                                         *)
(* A step goes from one await to the next.  What a context of the mcp SDK  *)
(* does is seen from outside: entering and leaving return, raise, or are   *)
(* cut by a cancellation, and one whose exit raised may hold anything.     *)
(***************************************************************************)
EXTENDS Naturals, Sequences, SequencesExt

CONSTANTS Files,     \* configuration files, see Server
          Calls,     \* tool calls
          MaxFaults  \* bound on the faults of a behaviour

\* An item of the file: a server, the limits its item sets, whether it stops
\* answering at some request ("cursor": list_tools always names a next page),
\* and the tools it lists, on how many pages.
Server == [enabled : BOOLEAN, http : BOOLEAN,
           startLimit : BOOLEAN,  \* startup_timeout_seconds, stdio only
           readLimit : BOOLEAN,   \* timeout_seconds
           silentAt : {"never", "initialize", "list", "cursor", "call"},
           pages : 1..2, tools : Seq(STRING)]

\* The name of a tool item without a valid one.
Nameless == ""

ASSUME FilesAssumption == Files \subseteq [valid : BOOLEAN, servers : Seq(Server)]

VARIABLES file,      \* the file at settings.mcp_servers_config_path
          mgr,       \* where the main thread is in the manager
          started,   \* started_future
          signalled, \* _close_event is set
          life,      \* the lifecycle task
          ctx,       \* the contexts of each connection
          conns,     \* _connections, by the number of their server
          tools,     \* _tools
          thread,    \* the loop thread
          call,      \* the future of each tool call, and its server
          faults     \* faults left to happen

mcpVars == <<file, mgr, started, signalled, life, ctx, conns, tools, thread, call, faults>>

Layers == {"client", "transport", "session"}

Opening == {"client", "transport", "session", "initialize"}

Closing == {"closeSession", "closeTransport"}

Servers == DOMAIN file.servers

\* The enabled servers behind the i-th, in the order of the file.
Behind(i) == {j \in Servers : j > i /\ file.servers[j].enabled}

First(i) == CHOOSE j \in Behind(i) : \A k \in Behind(i) : j <= k

At(pc) == life.pc = pc

Here == file.servers[life.at]

McpInit ==
  /\ file \in Files
  /\ mgr = "new"
  /\ started = "pending"
  /\ signalled = FALSE
  /\ life = [pc |-> "none", at |-> 0, page |-> 0, cancel |-> FALSE, cut |-> FALSE, err |-> FALSE]
  /\ ctx = [i \in Servers |-> [l \in Layers |-> "none"]]
  /\ conns = <<>>
  /\ tools = <<>>
  /\ thread = "none"
  /\ call = [c \in Calls |-> [state |-> "none", server |-> 0]]
  /\ faults = MaxFaults

MainThread == <<mgr, signalled, call, thread, file>>

\* The main thread, and with it the main event loop, waits for the other one.
Blocked == mgr \in {"waiting", "abandoning", "joinFailed", "signalling", "stopping",
                    "stopRaised", "joining", "joinRaised"}

Fault == faults > 0 /\ faults' = faults - 1

-----------------------------------------------------------------------------
(* The lifecycle task: opening.                                            *)

\* To the first context of the next server, or, behind the last, to the wait
\* for the close event.
NextServer(i) ==
  IF Behind(i) = {}
  THEN /\ life' = [life EXCEPT !.pc = "hold", !.at = 0, !.page = 0]
       /\ started' = "ok"
  ELSE /\ life' = [life EXCEPT !.at = First(i), !.page = 1,
                     !.pc = IF file.servers[First(i)].http THEN "client" ELSE "transport"]
       /\ UNCHANGED started

\* mutant: only the finally runs, and start() never hears of the exception
FailsUntold == /\ UNCHANGED started
               /\ life' = [life EXCEPT !.err = TRUE, !.cancel = FALSE, !.page = 0,
                             !.pc = IF conns = <<>> THEN "done" ELSE "closeSession",
                             !.at = IF conns = <<>> THEN 0 ELSE Last(conns)]

\* From an exception in the body to the finally, which closes what has been
\* appended to _connections.  start() hears of the exception first.
Fails == /\ started' = IF started = "pending" THEN "error" ELSE started
         /\ life' = [life EXCEPT !.err = TRUE, !.cancel = FALSE, !.page = 0,
                       !.pc = IF conns = <<>> THEN "done" ELSE "closeSession",
                       !.at = IF conns = <<>> THEN 0 ELSE Last(conns)]

\* A context of the connection is entered.
Enters == /\ life.pc \in Layers
          /\ ctx' = [ctx EXCEPT ![life.at][life.pc] = "open"]
          /\ life' = [life EXCEPT !.pc = CASE At("client") -> "transport"
                                           [] At("transport") -> "session"
                                           [] At("session") -> "initialize"]
          /\ UNCHANGED <<MainThread, started, conns, tools, faults>>

\* The session is initialized and the connection belongs to the manager.
Initialized == /\ At("initialize")
               /\ Here.silentAt # "initialize"
               /\ conns' = Append(conns, life.at)
               /\ life' = [life EXCEPT !.pc = "list"]
               /\ UNCHANGED <<MainThread, started, ctx, tools, faults>>

\* A page of tools; behind the last, one adapter for each, and the first item
\* without a name ends it all.
Listed == /\ At("list")
          /\ Here.silentAt \notin {"list", "cursor"}
          /\ IF life.page < Here.pages
             THEN /\ life' = [life EXCEPT !.page = @ + 1]
                  /\ UNCHANGED <<started, tools>>
             ELSE IF Contains(Here.tools, Nameless)
             THEN /\ Fails
                  /\ \E n \in DOMAIN Here.tools :
                       /\ Here.tools[n] = Nameless
                       /\ \A m \in 1..(n - 1) : Here.tools[m] # Nameless
                       /\ tools' = tools \o SubSeq(Here.tools, 1, n - 1)
             ELSE /\ NextServer(life.at)
                  /\ tools' = tools \o Here.tools
          /\ UNCHANGED <<MainThread, ctx, conns, faults>>

\* An attempt that has not got as far as its session leaves the first contexts
\* to themselves: a generator that raised is over, but an http client that was
\* entered is known to nobody.
AttemptFails == IF life.pc \in {"session", "initialize"}
                THEN life' = [life EXCEPT !.pc = "unwindSession"] /\ UNCHANGED started
                ELSE Fails

\* The startup limit of a stdio server covers its opening, the read limit each
\* request of a session.
TimesOut == /\ \/ life.pc \in Opening /\ Here.startLimit /\ ~Here.http
               \/ At("initialize") /\ Here.readLimit
               \/ At("list") /\ Here.readLimit /\ Here.silentAt # "cursor"
            /\ AttemptFails
            /\ UNCHANGED <<MainThread, ctx, conns, tools, faults>>

OpeningRaises == /\ life.pc \in Opening \union {"list"}
                 /\ Fault
                 /\ AttemptFails
                 /\ UNCHANGED <<MainThread, ctx, conns, tools>>

\* The session of a failed attempt is left, and then its transport, which an
\* exception of the first skips.
Unwinds == /\ life.pc \in {"unwindSession", "unwindTransport"}
           /\ IF At("unwindSession")
              THEN /\ ctx' = [ctx EXCEPT ![life.at].session = "none"]
                   /\ life' = [life EXCEPT !.pc = "unwindTransport"]
                   /\ UNCHANGED started
              ELSE /\ ctx' = [ctx EXCEPT ![life.at] = [l \in Layers |-> "none"]]
                   /\ Fails
           /\ UNCHANGED <<MainThread, conns, tools, faults>>

UnwindRaises == /\ life.pc \in {"unwindSession", "unwindTransport"}
                /\ Fault
                /\ ctx' = [ctx EXCEPT ![life.at] =
                             IF At("unwindSession") THEN [@ EXCEPT !.session = "torn"]
                             ELSE [@ EXCEPT !.transport = "torn", !.client = "none"]]
                /\ Fails
                /\ UNCHANGED <<MainThread, conns, tools>>

-----------------------------------------------------------------------------
(* The lifecycle task: closing.                                            *)

\* The close event is set: the finally without an exception.
Wakes == /\ At("hold")
         /\ signalled
         /\ ~life.cancel
         /\ life' = [life EXCEPT !.pc = "closeSession", !.at = Last(conns)]
         /\ UNCHANGED <<MainThread, started, ctx, conns, tools, faults>>

\* A transport whose task group breaks down cancels the task that entered it.
Breaks == /\ At("hold")
          /\ Fault
          /\ Fails
          /\ UNCHANGED <<MainThread, ctx, conns, tools>>

\* Where the connection that is being closed is among them.
Position == CHOOSE k \in DOMAIN conns : conns[k] = life.at

\* Behind the transport: the connection in front, or the end.  An exception of
\* this connection keeps the others open.
ClosesNext ==
  IF life.cut
  THEN /\ life' = [life EXCEPT !.pc = "done", !.at = 0, !.err = TRUE]
       /\ UNCHANGED <<conns, tools>>
  ELSE IF Position = 1
  THEN /\ life' = [life EXCEPT !.pc = "done", !.at = 0]
       /\ conns' = <<>>
       /\ tools' = <<>>
  ELSE /\ life' = [life EXCEPT !.pc = "closeSession", !.at = conns[Position - 1]]
       /\ UNCHANGED <<conns, tools>>

\* mutant: the transport of a connection is left before its session
ExitsTransportFirst ==
  /\ life.pc \in Closing
  /\ ~life.cancel
  /\ IF At("closeSession")
     THEN /\ ctx' = [ctx EXCEPT ![life.at] = [@ EXCEPT !.transport = "none", !.client = "none"]]
          /\ life' = [life EXCEPT !.pc = "closeTransport"]
          /\ UNCHANGED <<conns, tools>>
     ELSE ctx' = [ctx EXCEPT ![life.at].session = "none"] /\ ClosesNext
  /\ UNCHANGED <<MainThread, started, faults>>

Exits == /\ life.pc \in Closing
         /\ ~life.cancel
         /\ IF At("closeSession")
            THEN /\ ctx' = [ctx EXCEPT ![life.at].session = "none"]
                 /\ life' = [life EXCEPT !.pc = "closeTransport"]
                 /\ UNCHANGED <<conns, tools>>
            ELSE /\ ctx' = [ctx EXCEPT ![life.at] = [@ EXCEPT !.transport = "none", !.client = "none"]]
                 /\ ClosesNext
         /\ UNCHANGED <<MainThread, started, faults>>

\* An exit raises or is cut.  The transport is still left; the AsyncExitStack
\* of an http one leaves its client in any case.
ExitTorn ==
  IF At("closeSession")
  THEN /\ ctx' = [ctx EXCEPT ![life.at].session = "torn"]
       /\ life' = [life EXCEPT !.pc = "closeTransport", !.cut = TRUE, !.cancel = FALSE]
  ELSE /\ ctx' = [ctx EXCEPT ![life.at] = [@ EXCEPT !.transport = "torn", !.client = "none"]]
       /\ life' = [life EXCEPT !.pc = "done", !.at = 0, !.err = TRUE, !.cancel = FALSE]

ExitRaises == /\ life.pc \in Closing
              /\ Fault
              /\ ExitTorn
              /\ UNCHANGED <<MainThread, started, conns, tools>>

\* A cancel() is delivered at the await it finds.
CancelHits == /\ life.cancel
              /\ \/ At("hold") /\ Fails /\ UNCHANGED ctx
                 \/ life.pc \in Closing /\ ExitTorn /\ UNCHANGED started
              /\ UNCHANGED <<MainThread, conns, tools, faults>>

LifeStep == Enters \/ Initialized \/ Listed \/ TimesOut \/ Unwinds \/ Wakes \/ Exits \/ CancelHits

LifeFaults == OpeningRaises \/ UnwindRaises \/ Breaks \/ ExitRaises

-----------------------------------------------------------------------------
(* The main thread: from_settings, start and aclose.                       *)

LoopThread == <<file, started, ctx, conns, tools>>

\* from_settings: a file that does not parse stops it, one without an enabled
\* server starts no thread.
FromSettings ==
  /\ mgr = "new"
  /\ IF file.valid /\ Behind(0) # {}
     THEN /\ mgr' = "waiting"
          /\ thread' = "runs"
          /\ NextServer(0)
     ELSE /\ mgr' = IF file.valid THEN "idle" ELSE "refused"
          /\ UNCHANGED <<thread, life, started>>
  /\ UNCHANGED <<file, signalled, ctx, conns, tools, call, faults>>

StartReturns == /\ mgr = "waiting"
                /\ started = "ok"
                /\ mgr' = "up"
                /\ UNCHANGED <<LoopThread, signalled, life, thread, call, faults>>

RequestCancel == life' = [life EXCEPT !.cancel = life.pc # "done"]

\* start() raises: it cancels the lifecycle task, in whatever it is by now ...
StartRaises == /\ mgr = "waiting"
               /\ started = "error"
               /\ mgr' = "abandoning"
               /\ RequestCancel
               /\ UNCHANGED <<LoopThread, signalled, thread, call, faults>>

\* mutant: the loop is closed over its tasks
StopsLoopAtOnce == /\ mgr \in {"abandoning", "stopping", "stopRaised"}
                   /\ thread' = "draining"
                   /\ mgr' = CASE mgr = "abandoning" -> "joinFailed"
                               [] mgr = "stopping" -> "joining"
                               [] mgr = "stopRaised" -> "joinRaised"
                   /\ UNCHANGED <<LoopThread, life, call, signalled, faults>>

\* ... and stops the loop: what has not ended is cancelled, and run to its end.
\* A cancelled call raises CancelledError in its tool.
StopsLoop == /\ mgr \in {"abandoning", "stopping", "stopRaised"}
             /\ thread' = "draining"
             /\ mgr' = CASE mgr = "abandoning" -> "joinFailed"
                         [] mgr = "stopping" -> "joining"
                         [] mgr = "stopRaised" -> "joinRaised"
             /\ RequestCancel
             /\ call' = [c \in Calls |-> IF call[c].state = "sent"
                                         THEN [call[c] EXCEPT !.state = "cancelled"] ELSE call[c]]
             /\ UNCHANGED <<LoopThread, signalled, faults>>

ThreadEnds == /\ thread = "draining"
              /\ At("done")
              /\ thread' = "closed"
              /\ UNCHANGED <<LoopThread, mgr, signalled, life, call, faults>>

Joined == /\ mgr \in {"joinFailed", "joining", "joinRaised"}
          /\ thread = "closed"
          /\ mgr' = CASE mgr = "joinFailed" -> "failed"
                      [] mgr = "joining" -> "closed"
                      [] mgr = "joinRaised" -> "closeRaised"
          /\ UNCHANGED <<LoopThread, signalled, life, thread, call, faults>>

\* aclose finds no thread, or looks at _close_event, which the other thread
\* resets when the lifecycle ends ...
Aclose == /\ mgr \in {"idle", "up"}
          /\ mgr' = IF mgr = "idle" THEN "closed"
                    ELSE IF At("done") THEN "closing" ELSE "signalling"
          /\ UNCHANGED <<LoopThread, signalled, life, thread, call, faults>>

\* mutant: nobody wakes the lifecycle task
SignalsNobody == /\ mgr = "signalling"
                 /\ mgr' = "closing"
                 /\ UNCHANGED <<LoopThread, signalled, life, thread, call, faults>>

\* ... and reads it a second time for its set, None by then or not ...
Signals == /\ mgr = "signalling"
           /\ IF At("done") THEN mgr' = "stopRaised" /\ UNCHANGED signalled
                            ELSE mgr' = "closing" /\ signalled' = TRUE
           /\ UNCHANGED <<LoopThread, life, thread, call, faults>>

\* ... and awaits the lifecycle future, whose exception it passes on.
LifecycleEnds == /\ mgr = "closing"
                 /\ At("done")
                 /\ mgr' = IF life.err THEN "stopRaised" ELSE "stopping"
                 /\ UNCHANGED <<LoopThread, signalled, life, thread, call, faults>>

\* The shutdown itself is cancelled, and through wrap_future the lifecycle.
AcloseCut == /\ mgr = "closing"
             /\ Fault
             /\ mgr' = "stopRaised"
             /\ RequestCancel
             /\ UNCHANGED <<LoopThread, signalled, thread, call>>

MainStep == \/ FromSettings \/ StartReturns \/ StartRaises \/ StopsLoop \/ ThreadEnds \/ Joined
            \/ Signals \/ LifecycleEnds

-----------------------------------------------------------------------------
(* Tool calls.                                                             *)

\* MCPToolAdapter.call hands the request to the loop; a closed loop refuses it
\* and the tool reports an error.
CallTool(c) == /\ call[c].state = "none"
               /\ mgr \in {"up", "signalling", "closing", "closed", "closeRaised"}
               /\ \E i \in Behind(0) :
                    call' = [call EXCEPT ![c] =
                      [server |-> i, state |-> IF thread = "runs" THEN "sent" ELSE "error"]]
               /\ UNCHANGED <<LoopThread, mgr, signalled, life, thread, faults>>

\* The server answers, a limit cuts it off, or the session is left under it.
CallEnds(c) ==
  LET i == call[c].server IN
  /\ call[c].state = "sent"
  /\ thread = "runs"
  /\ \E result \in {"result", "error"} :
       /\ result = "result" => /\ file.servers[i].silentAt # "call"
                               /\ ctx[i].session = "open"
       /\ result = "error" => file.servers[i].readLimit \/ ctx[i].session # "open"
       /\ call' = [call EXCEPT ![c].state = result]
  /\ UNCHANGED <<LoopThread, mgr, signalled, life, thread, faults>>

\* The run behind the call is cancelled, which cancels the task on the loop.
CallDropped(c) == /\ call[c].state = "sent"
                  /\ ~Blocked
                  /\ call' = [call EXCEPT ![c].state = "cancelled"]
                  /\ UNCHANGED <<LoopThread, mgr, signalled, life, thread, faults>>

-----------------------------------------------------------------------------
(* Properties.                                                             *)

\* A session is never open over a transport that has been left, nor a transport
\* of http over its client, nor a connection over an earlier one that has been
\* left: contexts are left in the reverse of the order they were entered in, at
\* the end and when an attempt fails (_async_close, the except of the opening).
ContextsNest == \A i \in Servers :
  /\ ctx[i].session = "open" => ctx[i].transport = "open"
  /\ ctx[i].transport = "open" /\ file.servers[i].http => ctx[i].client = "open"
  /\ ctx[i].session = "open" => \A j \in Servers :
       j < i /\ file.servers[j].enabled => ctx[j].session = "open"

\* When the loop is closed no task is left on it that nobody would ever wake:
\* the lifecycle has ended and every call has an outcome.
LoopLeavesNothing == thread = "closed" => At("done") /\ \A c \in Calls : call[c].state # "sent"

\* Every wait of the opening of s has a limit, or an answer.
Bounded(s) == \/ s.silentAt \in {"never", "call"}
              \/ s.silentAt = "initialize" /\ (s.readLimit \/ (s.startLimit /\ ~s.http))
              \/ s.silentAt = "list" /\ s.readLimit

\* start() blocks the process until it has an outcome, and it has one when each
\* enabled server answers or is covered by a limit; the startup limit alone does
\* not cover the listing of tools (_open_stdio_connection, _list_all_tool_items).
StartEnds == (mgr = "waiting" /\ \A i \in Behind(0) : Bounded(file.servers[i]))
               ~> mgr \in {"up", "failed"}

\* aclose comes to an end, whatever calls are under way and whichever exit
\* raises, provided the exits themselves end.
CloseEnds == mgr = "signalling" ~> mgr \in {"closed", "closeRaised"}
=============================================================================
