------------------------------ MODULE CancelBus ------------------------------
(***************************************************************************)
(* How a cancel request finds a run of another process: the route          *)
(* (src/app/interfaces/http/routes/runs.py), ChatService.cancel_run with   *)
(* its listener (services/chat_service.py), and the Redis channel between  *)
(* them (infra/store/redis_run_cancel_bus.py).  The module follows one     *)
(* process and the runs it hosts; requests arrive here or in a process     *)
(* away, which publishes.                                                  *)
(*                                                                         *)
(* The listener takes one of the PoolSize connections of the pubsub client *)
(* and a publication takes one while it lasts.  Redis delivers what is     *)
(* published to whoever is subscribed at that moment, and in order.        *)
(***************************************************************************)
EXTENDS Naturals, Sequences, SequencesExt, FiniteSets

CONSTANTS Runs,      \* runs of this process
          Requests,  \* cancel requests: [run, away]
          PoolSize   \* connections of the pubsub client

ASSUME RequestsAssumption == \A q \in Requests : q.run \in Runs /\ q.away \in BOOLEAN
ASSUME PoolAssumption == PoolSize \in Nat

VARIABLES listener, \* the task of _listen_cancel_messages
          pubsub,   \* the pubsub object the listener last made
          leaked,   \* connections of earlier ones, never given back
          channel,  \* delivered to the subscription, not read yet
          closer,   \* where ChatService.aclose is
          run,      \* how far each run is
          asked,    \* runs whose cancel event is set
          request   \* how far each request is

busVars == <<listener, pubsub, leaked, channel, closer, run, asked, request>>

\* From the registration in _active_cancel_events to its pop.
Active(r) == run[r] \in {"entered", "running", "stored"}

BusInit == /\ listener = [pc |-> "none", cancel |-> FALSE]
           /\ pubsub = [held |-> FALSE, conn |-> FALSE, subscribed |-> FALSE]
           /\ leaked = 0
           /\ channel = <<>>
           /\ closer = "idle"
           /\ run = [r \in Runs |-> "none"]
           /\ asked = {}
           /\ request = [q \in Requests |-> "none"]

ListenerAt(pc) == listener.pc = pc

\* The listener goes to pc; a cancel() it has received is consumed or stays.
Goto(pc) == listener' = [listener EXCEPT !.pc = pc]

Alive == listener.pc \notin {"none", "done"}

\* Connections that pubsub objects keep, and all that are taken from the pool.
Held == leaked + IF pubsub.conn THEN 1 ELSE 0

InUse == Held + Cardinality({q \in Requests : request[q] = "publishing" /\ ~q.away})

others == <<closer, run, asked, request>>

-----------------------------------------------------------------------------
(* The listener.                                                           *)

\* mutant: the flag of aclose is not looked at
StartListenerAnyway == IF Alive THEN UNCHANGED listener
                       ELSE listener' = [pc |-> "created", cancel |-> FALSE]

\* start_cancel_listener: a new task if there is none or the last has ended.
\* The lock around it is never waited for, as neither holder awaits anything.
StartListener == IF closer # "idle" \/ Alive THEN UNCHANGED listener
                 ELSE listener' = [pc |-> "created", cancel |-> FALSE]

\* The task starts: a new pubsub takes the place of the last, whose connection
\* is lost to the pool if it still had one, and takes a connection or waits.
Subscribes == /\ ListenerAt("created")
              /\ ~listener.cancel
              /\ Goto("subscribing")
              /\ leaked' = Held
              /\ pubsub' = [held |-> TRUE, conn |-> InUse < PoolSize, subscribed |-> FALSE]
              /\ UNCHANGED <<channel, others>>

Subscribed == /\ ListenerAt("subscribing")
              /\ ~listener.cancel
              /\ pubsub.conn \/ InUse < PoolSize
              /\ Goto("listening")
              /\ pubsub' = [pubsub EXCEPT !.conn = TRUE, !.subscribed = TRUE]
              /\ UNCHANGED <<leaked, channel, others>>

\* psubscribe stands before the try: an exception there, or the pool's own when
\* no connection is left, ends the task with the pubsub as it is.
SubscribeRaises == /\ ListenerAt("subscribing")
                   /\ Goto("done")
                   /\ \E conn \in {FALSE, pubsub.conn} :
                        pubsub' = [pubsub EXCEPT !.conn = conn]
                   /\ UNCHANGED <<leaked, channel, others>>

\* mutant: the name of the channel is not cut down to the run id
DeliversUnknown == /\ ListenerAt("listening")
                   /\ ~listener.cancel
                   /\ channel # <<>>
                   /\ channel' = Tail(channel)
                   /\ UNCHANGED <<listener, pubsub, leaked, closer, run, asked, request>>

\* The next message sets the event of its run, if the run is here.
Delivers == /\ ListenerAt("listening")
            /\ ~listener.cancel
            /\ channel # <<>>
            /\ channel' = Tail(channel)
            /\ asked' = asked \union {r \in {Head(channel)} : Active(r)}
            /\ UNCHANGED <<listener, pubsub, leaked, closer, run, request>>

\* The connection breaks: the client subscribes again, and what was published
\* meanwhile or not yet read is gone ...
Reconnects == /\ ListenerAt("listening")
              /\ channel' = <<>>
              /\ UNCHANGED <<listener, pubsub, leaked, others>>

\* ... or listen() raises, and the finally gives the pubsub back.
ListenRaises == /\ ListenerAt("listening")
                /\ Goto("leaving")
                /\ channel' = <<>>
                /\ pubsub' = [pubsub EXCEPT !.subscribed = FALSE]
                /\ UNCHANGED <<leaked, others>>

\* _close_pubsub: unsubscribe, then, with an exception or not, close.  Only
\* without one the bus forgets the pubsub.
Leaves == /\ ListenerAt("leaving")
          /\ ~listener.cancel
          /\ Goto("done")
          /\ pubsub' = [held |-> FALSE, conn |-> FALSE, subscribed |-> FALSE]
          /\ channel' = <<>>
          /\ UNCHANGED <<leaked, others>>

LeaveCut == /\ Goto("done")
            /\ pubsub' = [held |-> TRUE, conn |-> FALSE, subscribed |-> FALSE]
            /\ channel' = <<>>

LeaveRaises == ListenerAt("leaving") /\ LeaveCut /\ UNCHANGED <<leaked, others>>

\* The cancel of aclose: a task that has not started never does, the await of
\* psubscribe ends as with an exception, and listen() goes to the finally.
ListenerCancelled ==
  /\ Alive
  /\ listener.cancel
  /\ \/ ListenerAt("leaving") /\ LeaveCut
     \/ /\ ListenerAt("listening")
        /\ listener' = [pc |-> "leaving", cancel |-> FALSE]
        /\ UNCHANGED <<pubsub, channel>>
     \/ /\ listener.pc \in {"created", "subscribing"}
        /\ Goto("done")
        /\ \E sub \in {FALSE, ListenerAt("subscribing") /\ pubsub.conn} :
             pubsub' = [pubsub EXCEPT !.subscribed = sub]
        /\ UNCHANGED channel
  /\ UNCHANGED <<leaked, others>>

ListenerStep == Subscribes \/ Subscribed \/ Delivers \/ Leaves \/ ListenerCancelled

\* Without a connection left the wait of the subscription ends in an exception.
PoolRunsDry == ~pubsub.conn /\ InUse >= PoolSize /\ SubscribeRaises

-----------------------------------------------------------------------------
(* ChatService.aclose.                                                     *)

CloseListener == /\ closer = "idle"
                 /\ closer' = "awaiting"
                 /\ listener' = [listener EXCEPT !.cancel = Alive]
                 /\ UNCHANGED <<pubsub, leaked, channel, run, asked, request>>

\* Behind the listener, the bus closes the pubsub it still holds.
ClosesBus == /\ closer = "awaiting"
             /\ ~Alive
             /\ closer' = "closed"
             /\ pubsub' = [held |-> FALSE, conn |-> FALSE, subscribed |-> FALSE]
             /\ channel' = <<>>
             /\ UNCHANGED <<listener, leaked, run, asked, request>>

CloseBusRaises == /\ closer = "awaiting"
                  /\ ~Alive
                  /\ pubsub.held
                  /\ closer' = "raised"
                  /\ pubsub' = [pubsub EXCEPT !.conn = FALSE, !.subscribed = FALSE]
                  /\ channel' = <<>>
                  /\ UNCHANGED <<listener, leaked, run, asked, request>>

-----------------------------------------------------------------------------
(* Runs and requests.                                                      *)

\* stream_chat looks after the listener, and then asks for the lock.
RunArrives(r) == /\ run[r] = "none"
                 /\ StartListener
                 /\ run' = [run EXCEPT ![r] = "arrived"]
                 /\ UNCHANGED <<pubsub, leaked, channel, closer, asked, request>>

\* With the lock it registers the event, without it the run is over; nobody looks
\* after the listener again.
RunEnters(r) == /\ run[r] = "arrived"
                /\ \E pc \in {"entered", "over"} : run' = [run EXCEPT ![r] = pc]
                /\ UNCHANGED <<listener, pubsub, leaked, channel, closer, asked, request>>

\* The record is created behind the event, and given its last status before the
\* event is popped.  A run can end without a record.
RunMoves(r) == /\ Active(r)
               /\ \E next \in {<<"entered", "running">>, <<"entered", "over">>,
                              <<"running", "stored">>, <<"stored", "over">>} :
                    run[r] = next[1] /\ run' = [run EXCEPT ![r] = next[2]]
               /\ UNCHANGED <<listener, pubsub, leaked, channel, closer, asked, request>>

\* The route reads the record and refuses unless it is RUNNING.
ReadsRecord(q) ==
  /\ request[q] = "none"
  /\ request' = [request EXCEPT ![q] = IF run[q.run] = "running" THEN "read" ELSE "refused"]
  /\ UNCHANGED <<listener, pubsub, leaked, channel, closer, run, asked>>

\* cancel_run, by what the record was: the event of a run that is still here,
\* otherwise a task that publishes.  The caller is told TRUE either way.
Cancels(q) ==
  /\ request[q] = "read"
  /\ IF Active(q.run) /\ ~q.away
     THEN /\ asked' = asked \union {q.run}
          /\ request' = [request EXCEPT ![q] = "local"]
     ELSE /\ request' = [request EXCEPT ![q] = "sending"]
          /\ UNCHANGED asked
  /\ UNCHANGED <<listener, pubsub, leaked, channel, closer, run>>

\* The task takes a connection, or waits for one in vain.  What a process away
\* does with its own pool is not followed.
Connects(q) ==
  /\ request[q] = "sending"
  /\ request' = [request EXCEPT ![q] = IF q.away \/ InUse < PoolSize THEN "publishing" ELSE "dropped"]
  /\ UNCHANGED <<listener, pubsub, leaked, channel, closer, run, asked>>

Publishes(q) ==
  /\ request[q] = "publishing"
  /\ request' = [request EXCEPT ![q] = "sent"]
  /\ channel' = IF pubsub.subscribed THEN Append(channel, q.run) ELSE channel
  /\ UNCHANGED <<listener, pubsub, leaked, closer, run, asked>>

\* A publication that raises is dropped with its task.
PublishRaises(q) == /\ request[q] \in {"sending", "publishing"}
                    /\ request' = [request EXCEPT ![q] = "dropped"]
                    /\ UNCHANGED <<listener, pubsub, leaked, channel, closer, run, asked>>

-----------------------------------------------------------------------------
(* Properties.                                                             *)

\* Once the service is closed no listener runs or comes back, with requests that
\* were let in before still under way (_cancel_listener_closed), and the bus
\* holds no pubsub if it closed without an exception.
ListenerStaysClosed ==
  /\ closer \in {"closed", "raised"} => ~Alive
  /\ closer = "closed" => ~pubsub.held /\ ~pubsub.conn /\ channel = <<>>
=============================================================================
