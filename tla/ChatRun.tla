------------------------------ MODULE ChatRun ------------------------------
(***************************************************************************)
(* A chat request from entry to its last event: ChatService.stream_chat    *)
(* (src/app/services/chat_service.py), the write buffer it hands the       *)
(* events to, the route that consumes it and the stores it writes.         *)
(*                                                                         *)
(* The session lock is the SessionLease that RunLock implements.  A store  *)
(* call takes two steps, its effect in Redis and the return of the await,  *)
(* so that a fault or a cancellation can fall before, between or after.    *)
(* A pending owner_task.cancel() is delivered at the await it finds, whose *)
(* result is lost.                                                         *)
(***************************************************************************)
EXTENDS Naturals, Sequences, FiniteSets

CONSTANTS Runs,      \* run ids, one per call of stream_chat
          Sessions,  \* session ids
          SessionOf, \* the session of each run
          NoRun,     \* nobody holds the lock
          MaxSteps,  \* bound on the messages one agent loop produces
          Faults     \* which faults the environment may inject

FaultKinds == {"beat",    \* the heartbeat loses a lock nobody has taken
               "lapse",   \* the lock's TTL runs out under a stalled process
               "store",   \* a store call raises, applied or not
               "prepare", \* building the context raises
              "kill"}    \* the server cancels the task of the request

ASSUME RunsAssumption == NoRun \notin Runs /\ SessionOf \in [Runs -> Sessions]
ASSUME StepsAssumption == MaxSteps \in Nat
ASSUME FaultsAssumption == Faults \subseteq FaultKinds

VARIABLES holder, age, phase, \* the lock, see SessionLease
          run,     \* what the task of each run has in its frame
          stored,  \* the status of the run's record
          output,  \* the record carries an output
          log,     \* the main context of each session
          emitted  \* the event that closed the run's stream

vars == <<holder, age, phase, run, stored, output, log, emitted>>
leaseVars == <<holder, age, phase>>
storeVars == <<stored, output, log>>

Lease == INSTANCE SessionLease WITH Ttl <- 1

Terminal == {"completed", "failed", "cancelled"}

\* A completion with no text and no reasoning stores no answer: "empty".
Outcomes == Terminal \union {"empty"}

Pcs == {"idle", "prepare", "user", "create", "loop", "yield", "flush", "persist",
        "persistFailed", "finally", "window", "lateFlush", "lateCancel",
        "stop", "release", "exit", "persistLost", "done"}

\* The awaits of a store call.
StorePcs == {"user", "create", "persist", "persistFailed", "lateCancel", "persistLost"}

\* Between the registration in _active_cancel_events and its pop.
Registered(r) == run[r].pc \in {"prepare", "user", "create", "loop", "yield",
                                "flush", "persist", "persistFailed", "finally"}

Frame == [pc : Pcs,              \* where the generator is
          applied : BOOLEAN,     \* Redis has executed the call in progress
          exc : {"none", "error", "cancelled", "closed"},  \* on its way out
          term : Outcomes \union {"none"},     \* terminal_event
          loopTerm : Outcomes \union {"none"}, \* loop_state.terminal_event
          created : BOOLEAN,     \* run_created
          asked : BOOLEAN,       \* effective_cancel_event is set
          gone : BOOLEAN,        \* the client has disconnected
          closing : BOOLEAN,     \* aclose() runs it, in a task of its own
          cancelReq : BOOLEAN,   \* owner_task.cancel() not yet delivered
          beatLost : BOOLEAN,    \* _heartbeat_error is set
          cleanCut : BOOLEAN,    \* cleanup_cancelled of __aexit__
          steps : 0..MaxSteps,   \* messages the loop has produced
          queue : 0..MaxSteps,   \* those the write chain has not stored yet
          bufErr : BOOLEAN,      \* _error of the write buffer is set
          failed : BOOLEAN,      \* a store call of the run has raised, for the
                                 \* properties to refer to
          killed : BOOLEAN]      \* the server has cancelled its task; bound: once

Fresh == [pc |-> "idle", applied |-> FALSE, exc |-> "none", term |-> "none",
          loopTerm |-> "none", created |-> FALSE, asked |-> FALSE, gone |-> FALSE,
          closing |-> FALSE, cancelReq |-> FALSE, beatLost |-> FALSE,
          cleanCut |-> FALSE, steps |-> 0, queue |-> 0, bufErr |-> FALSE,
          failed |-> FALSE, killed |-> FALSE]

Init == /\ Lease!Init
        /\ run = [r \in Runs |-> Fresh]
        /\ stored = [r \in Runs |-> "absent"]
        /\ output = [r \in Runs |-> FALSE]
        /\ log = [s \in Sessions |-> <<>>]
        /\ emitted = [r \in Runs |-> "none"]

At(r, p) == run[r].pc = p

\* A step of r makes f of its frame.
Becomes(r, f) == run' = [run EXCEPT ![r] = f]

\* The run goes to p, with an exception under way or not.
Goto(r, p, exc) == Becomes(r, [run[r] EXCEPT !.pc = p, !.applied = FALSE, !.exc = exc])

\* The generator is over; locals nobody will read are forgotten.
Over(r, failed) ==
  Becomes(r, [Fresh EXCEPT
            !.pc = "done", !.created = run[r].created, !.asked = run[r].asked,
            !.gone = run[r].gone, !.steps = run[r].steps, !.queue = run[r].queue,
            !.failed = failed, !.killed = run[r].killed])

Finish(r, event) ==
  /\ Over(r, run[r].failed)
  /\ emitted' = [emitted EXCEPT ![r] = event]

Write(r, kind) == log' = [log EXCEPT ![SessionOf[r]] = Append(@, <<r, kind>>)]

-----------------------------------------------------------------------------
(* Entry.                                                                  *)

\* No such session, no such agent, or an agent bound to another session.
Reject(r) == /\ At(r, "idle")
             /\ Finish(r, "request_failed")
             /\ UNCHANGED <<leaseVars, storeVars>>

\* mutant: the lock is taken over, held or not
AcquireLockAnyway(r) == /\ At(r, "idle")
                        /\ holder' = [holder EXCEPT ![SessionOf[r]] = r]
                        /\ phase' = [phase EXCEPT ![r] = "in"]
                        /\ Goto(r, "prepare", "none")
                        /\ UNCHANGED <<age, storeVars, emitted>>

AcquireLock(r) == /\ At(r, "idle")
                  /\ Lease!Grant(r)
                  /\ Goto(r, "prepare", "none")
                  /\ UNCHANGED <<storeVars, emitted>>

Conflict(r) == /\ At(r, "idle")
               /\ Lease!Deny(r)
               /\ Finish(r, "request_failed")
               /\ UNCHANGED storeVars

\* acquire() raises, or is cut by a cancel, before or after Redis has set the
\* key, which then has no owner: __aenter__ fails, so no heartbeat extends it
\* and no __aexit__ gives it back (AcquireInterrupted of RunLock).
AcquireFails(r) ==
  /\ At(r, "idle")
  /\ Lease!Move(r, "out", "gone")
  /\ \/ UNCHANGED holder
     \/ holder[SessionOf[r]] = NoRun /\ holder' = [holder EXCEPT ![SessionOf[r]] = r]
  /\ \/ /\ "store" \in Faults
        /\ Over(r, TRUE)
        /\ emitted' = [emitted EXCEPT ![r] = "request_failed"]
     \/ /\ "kill" \in Faults
        /\ Becomes(r, [run[r] EXCEPT !.pc = "done", !.killed = TRUE])
        /\ UNCHANGED emitted
  /\ UNCHANGED <<age, storeVars>>

Prepare(r) == /\ At(r, "prepare")
              /\ ~run[r].cancelReq
              /\ Goto(r, "user", "none")
              /\ UNCHANGED <<leaseVars, storeVars, emitted>>

PrepareRaises(r) == /\ At(r, "prepare")
                    /\ "prepare" \in Faults
                    /\ Goto(r, "finally", "error")
                    /\ UNCHANGED <<leaseVars, storeVars, emitted>>

-----------------------------------------------------------------------------
(* The store calls.                                                        *)

Status(term) == IF term = "empty" THEN "completed" ELSE term

\* _persist_terminal_state: the record and the closing message in one MULTI.
TerminalWrite(r) ==
  LET term == run[r].term IN
  /\ stored' = [stored EXCEPT ![r] = Status(term)]
  /\ output' = [output EXCEPT ![r] = @ \/ Status(term) = "completed"]
  /\ CASE term = "completed" -> Write(r, "answer")
       [] term = "cancelled" -> Write(r, "hint")
       [] OTHER -> UNCHANGED log

AppendUserMessage(r) == Write(r, "user") /\ UNCHANGED <<stored, output>>

CreateRecord(r) == stored' = [stored EXCEPT ![r] = "running"] /\ UNCHANGED <<output, log>>

\* Redis executes the call in progress.
CallApplied(r) == /\ run[r].pc \in StorePcs
                  /\ ~run[r].applied
                  /\ Becomes(r, [run[r] EXCEPT !.applied = TRUE])
                  /\ CASE At(r, "user") -> AppendUserMessage(r)
                       [] At(r, "create") -> CreateRecord(r)
                       [] OTHER -> TerminalWrite(r)
                  /\ UNCHANGED <<leaseVars, emitted>>

\* The await returns.  Once the record is created the loop starts, and its
\* first event, run_started, is yielded without another await.
CallReturns(r) ==
  /\ run[r].applied
  /\ ~run[r].cancelReq
  /\ CASE At(r, "user") -> Goto(r, "create", "none") /\ UNCHANGED emitted
       [] At(r, "create") -> /\ Becomes(r, [run[r] EXCEPT !.pc = "yield",
                                          !.applied = FALSE, !.created = TRUE])
                             /\ UNCHANGED emitted
       [] At(r, "persist") -> Goto(r, "finally", "none") /\ UNCHANGED emitted
       [] At(r, "persistFailed") -> Goto(r, "finally", "error") /\ UNCHANGED emitted
       [] At(r, "lateCancel") -> Goto(r, "stop", run[r].exc) /\ UNCHANGED emitted
       [] At(r, "persistLost") -> Finish(r, "failed")
  /\ UNCHANGED <<leaseVars, storeVars>>

\* The await raises, whether the call was applied or not.
CallRaises(r) ==
  /\ run[r].pc \in StorePcs
  /\ "store" \in Faults
  /\ IF At(r, "persistLost") THEN Over(r, TRUE)
     ELSE Becomes(r, [run[r] EXCEPT !.pc = IF At(r, "lateCancel") THEN "stop" ELSE "finally",
                        !.applied = FALSE, !.exc = "error", !.failed = TRUE])
  /\ UNCHANGED <<leaseVars, storeVars, emitted>>

-----------------------------------------------------------------------------
(* The agent loop and the write buffer.                                    *)

\* A message of the loop goes to the write chain; a tool result is yielded
\* to the client as well.
LoopStep(r) == /\ At(r, "loop")
               /\ ~run[r].cancelReq
               /\ ~run[r].bufErr
               /\ run[r].steps < MaxSteps
               /\ \E next \in {"loop", "yield"} :
                    Becomes(r, [run[r] EXCEPT !.pc = next, !.steps = @ + 1, !.queue = @ + 1])
               /\ UNCHANGED <<leaseVars, storeVars, emitted>>

\* The finally of _consume_loop_events: a chain that has failed makes flush
\* raise at once, and whatever was under way the run fails, inside the lock.
StartFlush(r, exc, end) ==
  Becomes(r, IF run[r].bufErr
             THEN [run[r] EXCEPT !.cancelReq = FALSE, !.pc = "persistFailed", !.exc = "error",
                                 !.term = "failed", !.loopTerm = "none"]
             ELSE [run[r] EXCEPT !.cancelReq = FALSE, !.pc = "flush", !.exc = exc,
                                 !.term = "none", !.loopTerm = end])

\* enqueue raises what the chain failed with.
EnqueueRaises(r) == /\ At(r, "loop")
                    /\ ~run[r].cancelReq
                    /\ run[r].bufErr
                    /\ StartFlush(r, "error", "none")
                    /\ UNCHANGED <<leaseVars, storeVars, emitted>>

\* The terminal event of the loop; it raises CancelledError itself, and turns
\* it into run_cancelled, when it finds the cancel event set.
LoopEnds(r) == /\ At(r, "loop")
               /\ ~run[r].cancelReq
               /\ \E end \in Outcomes :
                    /\ end = "cancelled" => run[r].asked
                    /\ StartFlush(r, "none", end)
               /\ UNCHANGED <<leaseVars, storeVars, emitted>>

ClientReads(r) == /\ At(r, "yield")
                  /\ ~run[r].cancelReq
                  /\ ~run[r].gone
                  /\ Becomes(r, [run[r] EXCEPT !.pc = "loop"])
                  /\ UNCHANGED <<leaseVars, storeVars, emitted>>

\* mutant: the route closes the stream without the cancel event
CloseStreamUnasked(r) == /\ At(r, "yield")
                         /\ run[r].gone \/ run[r].cancelReq
                         /\ Becomes(r, [run[r] EXCEPT !.pc = "finally", !.exc = "closed",
                                         !.closing = TRUE, !.cancelReq = FALSE])
                         /\ UNCHANGED <<leaseVars, storeVars, emitted>>

\* _wrapped_sse_stream sets the cancel event if the client is gone, then
\* closes the generator from a task of its own: GeneratorExit at the yield.
CloseStream(r) == /\ At(r, "yield")
                  /\ run[r].gone \/ run[r].cancelReq
                  /\ Becomes(r, [run[r] EXCEPT !.pc = "finally", !.exc = "closed", !.closing = TRUE,
                                  !.cancelReq = FALSE, !.asked = @ \/ run[r].gone])
                  /\ UNCHANGED <<leaseVars, storeVars, emitted>>

\* The write chain stores the next message ...
ChainWrites(r) == /\ run[r].queue > 0
                  /\ Write(r, "step")
                  /\ Becomes(r, [run[r] EXCEPT !.queue = @ - 1])
                  /\ UNCHANGED <<leaseVars, stored, output, emitted>>

\* mutant: the error of the chain is not captured
ChainFailsSilently(r) == /\ run[r].queue > 0
                         /\ "store" \in Faults
                         /\ Becomes(r, [run[r] EXCEPT !.queue = 0])
                         /\ Write(r, "step") \/ UNCHANGED log
                         /\ UNCHANGED <<leaseVars, stored, output, emitted>>

\* ... or fails at it, applied or not, and all that is queued behind fails too.
ChainFails(r) == /\ run[r].queue > 0
                 /\ "store" \in Faults
                 /\ Becomes(r, [run[r] EXCEPT !.queue = 0, !.bufErr = TRUE, !.failed = TRUE])
                 /\ Write(r, "step") \/ UNCHANGED log
                 /\ UNCHANGED <<leaseVars, stored, output, emitted>>

\* mutant: flush returns without awaiting the chain
FlushedUnawaited(r) == ~run[r].bufErr /\ ~run[r].cancelReq

Flushed(r) == run[r].queue = 0 /\ ~run[r].bufErr /\ ~run[r].cancelReq

\* mutant: a terminal event is not persisted
FlushReturnsUnstored(r) ==
  /\ At(r, "flush")
  /\ Flushed(r)
  /\ IF run[r].exc = "cancelled"
     THEN Goto(r, "finally", "cancelled")
     ELSE Becomes(r, [run[r] EXCEPT !.pc = "finally", !.term = run[r].loopTerm])
  /\ UNCHANGED <<leaseVars, storeVars, emitted>>

\* flush at the end of _consume_loop_events returns.
FlushReturns(r) ==
  /\ At(r, "flush")
  /\ Flushed(r)
  /\ IF run[r].exc = "cancelled"
     THEN Goto(r, "finally", "cancelled")
     ELSE Becomes(r, [run[r] EXCEPT !.pc = "persist", !.term = run[r].loopTerm])
  /\ UNCHANGED <<leaseVars, storeVars, emitted>>

\* The chain fails while flush awaits it.
FlushRaises(r) ==
  /\ At(r, "flush")
  /\ run[r].bufErr
  /\ Becomes(r, [run[r] EXCEPT !.pc = "persistFailed", !.exc = "error", !.term = "failed"])
  /\ UNCHANGED <<leaseVars, storeVars, emitted>>

-----------------------------------------------------------------------------
(* Cancellation of the owner task: cancel() is called by the heartbeat      *)
(* (BeatFails) or by the server (TaskCancelled).                            *)

\* CancelledError in the body, with no handler of its own on the way out.
CancelBody(r) ==
  /\ run[r].pc \in {"prepare", "user", "create", "persist", "persistFailed"}
  /\ Becomes(r, [run[r] EXCEPT !.pc = "finally", !.exc = "cancelled",
                                !.applied = FALSE, !.cancelReq = FALSE])

\* In the loop it becomes run_cancelled if the cancel event is set.
CancelLoop(r) ==
  /\ At(r, "loop")
  /\ IF run[r].asked THEN StartFlush(r, "none", "cancelled")
                    ELSE StartFlush(r, "cancelled", "none")

\* A flush that is cancelled cancels the chain it awaits with it.
CancelFlush(r) ==
  /\ run[r].pc \in {"flush", "lateFlush"}
  /\ Becomes(r, [run[r] EXCEPT !.pc = IF At(r, "flush") THEN "finally" ELSE "stop",
                                !.exc = "cancelled", !.cancelReq = FALSE, !.queue = 0])

CancelFinally(r) ==
  /\ run[r].pc \in {"window", "lateCancel"}
  /\ Becomes(r, [run[r] EXCEPT !.pc = "stop", !.exc = "cancelled",
                                !.applied = FALSE, !.cancelReq = FALSE])

\* _run_cleanup finishes its task before it re-raises.
CancelCleanup(r) ==
  /\ run[r].pc \in {"stop", "release"}
  /\ Becomes(r, [run[r] EXCEPT !.cleanCut = TRUE, !.cancelReq = FALSE])

\* Behind the lock scope nothing catches it.
CancelLost(r) == At(r, "persistLost") /\ Over(r, run[r].failed)

CancelDelivered(r) ==
  /\ run[r].cancelReq
  /\ \/ CancelBody(r) \/ CancelLoop(r) \/ CancelFlush(r)
     \/ CancelFinally(r) \/ CancelCleanup(r) \/ CancelLost(r)
  /\ UNCHANGED <<leaseVars, storeVars, emitted>>

-----------------------------------------------------------------------------
(* The way out.                                                            *)

\* finally: the cancel event is unregistered.  Without a terminal event the
\* run waits half a second for the monitor to set the event.
StartLateFlush(r) == IF run[r].bufErr THEN Goto(r, "stop", "error")
                                      ELSE Goto(r, "lateFlush", run[r].exc)

\* mutant: a cancellation that came too late overrides the terminal event
EnterFinallyAskedFirst(r) ==
  /\ At(r, "finally")
  /\ CASE run[r].asked -> StartLateFlush(r)
       [] ~run[r].asked /\ run[r].term # "none" -> Goto(r, "stop", run[r].exc)
       [] OTHER -> Goto(r, "window", run[r].exc)
  /\ UNCHANGED <<leaseVars, storeVars, emitted>>

EnterFinally(r) ==
  /\ At(r, "finally")
  /\ CASE run[r].term # "none" -> Goto(r, "stop", run[r].exc)
       [] run[r].term = "none" /\ run[r].asked -> StartLateFlush(r)
       [] OTHER -> Goto(r, "window", run[r].exc)
  /\ UNCHANGED <<leaseVars, storeVars, emitted>>

\* mutant: the wait has no timeout
WindowOverUnbounded(r) ==
  /\ At(r, "window")
  /\ ~run[r].cancelReq
  /\ run[r].asked
  /\ StartLateFlush(r)
  /\ UNCHANGED <<leaseVars, storeVars, emitted>>

WindowOver(r) ==
  /\ At(r, "window")
  /\ ~run[r].cancelReq
  /\ IF run[r].asked THEN StartLateFlush(r) ELSE Goto(r, "stop", run[r].exc)
  /\ UNCHANGED <<leaseVars, storeVars, emitted>>

LateFlushReturns(r) ==
  /\ At(r, "lateFlush")
  /\ Flushed(r)
  /\ Becomes(r, [run[r] EXCEPT !.pc = "lateCancel", !.term = "cancelled"])
  /\ UNCHANGED <<leaseVars, storeVars, emitted>>

LateFlushRaises(r) ==
  /\ At(r, "lateFlush")
  /\ run[r].bufErr
  /\ Goto(r, "stop", "error")
  /\ UNCHANGED <<leaseVars, storeVars, emitted>>

\* __aexit__: the heartbeat has ended.
HeartbeatStops(r) ==
  /\ At(r, "stop")
  /\ ~run[r].cancelReq
  /\ Lease!StartLeaving(r)
  /\ Goto(r, "release", run[r].exc)
  /\ UNCHANGED <<storeVars, emitted>>

\* The lock is given back if it is still the run's own; an error of the
\* store is logged, and the lock left to its TTL.
LockReleased(r) ==
  /\ At(r, "release")
  /\ ~run[r].cancelReq
  /\ \/ Lease!Release(r) /\ Goto(r, "exit", run[r].exc)
     \/ holder[SessionOf[r]] # r /\ UNCHANGED leaseVars /\ Goto(r, "exit", run[r].exc)
     \/ /\ "store" \in Faults
        /\ UNCHANGED leaseVars
        /\ Becomes(r, [run[r] EXCEPT !.pc = "exit", !.failed = TRUE])
  /\ UNCHANGED <<storeVars, emitted>>

\* How __aexit__ ends decides which handler of stream_chat the run meets.
HeartbeatLost(r) == run[r].exc = "cancelled" /\ run[r].beatLost

LostExit(r) ==
  /\ HeartbeatLost(r)
  /\ IF run[r].created
     THEN /\ Becomes(r, [run[r] EXCEPT !.pc = "persistLost", !.term = "failed"])
          /\ UNCHANGED emitted
     ELSE Finish(r, "failed")

CancelledExit(r) ==
  /\ ~HeartbeatLost(r)
  /\ run[r].cleanCut \/ run[r].exc \in {"cancelled", "closed"}
  /\ Finish(r, "none")

ErrorExit(r) ==
  /\ ~run[r].cleanCut
  /\ run[r].exc = "error"
  /\ Finish(r, CASE run[r].closing -> "none"  \* a yield under aclose() is an error
                 [] ~run[r].closing /\ run[r].created -> "failed"
                 [] OTHER -> "request_failed")

NormalExit(r) ==
  /\ ~run[r].cleanCut
  /\ run[r].exc = "none"
  /\ Finish(r, Status(run[r].term))

Exit(r) == /\ At(r, "exit")
           /\ Lease!Abandon(r)
           /\ LostExit(r) \/ CancelledExit(r) \/ ErrorExit(r) \/ NormalExit(r)
           /\ UNCHANGED storeVars

-----------------------------------------------------------------------------
(* What others do to the run.                                              *)

\* POST cancel finds the run in _active_cancel_events, here or, through the
\* cancel bus, in the process that runs it.
CancelRun(r) == /\ Registered(r)
                /\ ~run[r].asked
                /\ Becomes(r, [run[r] EXCEPT !.asked = TRUE])
                /\ UNCHANGED <<leaseVars, storeVars, emitted>>

Disconnect(r) == /\ run[r].pc \notin {"idle", "done"}
                 /\ ~run[r].gone
                 /\ Becomes(r, [run[r] EXCEPT !.gone = TRUE])
                 /\ UNCHANGED <<leaseVars, storeVars, emitted>>

\* _disconnect_monitor; CloseStream cancels it.
MonitorSees(r) == /\ run[r].gone
                  /\ ~run[r].asked
                  /\ run[r].pc # "done"
                  /\ ~run[r].closing
                  /\ Becomes(r, [run[r] EXCEPT !.asked = TRUE])
                  /\ UNCHANGED <<leaseVars, storeVars, emitted>>

\* The heartbeat cannot extend and cancels the owner task, which a closed
\* generator no longer runs in.
BeatFails(r) == /\ phase[r] = "in"
                /\ ~run[r].beatLost
                /\ "beat" \in Faults \/ holder[SessionOf[r]] # r
                /\ Becomes(r, [run[r] EXCEPT !.beatLost = TRUE, !.cancelReq = ~run[r].closing])
                /\ UNCHANGED <<leaseVars, storeVars, emitted>>

\* The server cancels the task that serves the request, as it does with those
\* that outlive its shutdown; a close runs in a task of its own.
TaskCancelled(r) == /\ "kill" \in Faults
                    /\ run[r].pc \notin {"idle", "exit", "done"}
                    /\ ~run[r].closing
                    /\ ~run[r].killed
                    /\ Becomes(r, [run[r] EXCEPT !.killed = TRUE, !.cancelReq = TRUE])
                    /\ UNCHANGED <<leaseVars, storeVars, emitted>>

LockLapses == /\ "lapse" \in Faults
              /\ \E r \in Runs : phase[r] \in {"in", "leaving"}
              /\ Lease!Elapse
              /\ UNCHANGED <<run, storeVars, emitted>>

\* A lock that its run could not give back lapses behind the run.
LeftLockLapses(s) == /\ holder[s] \in {r \in Runs : phase[r] = "gone"}
                     /\ holder' = [holder EXCEPT ![s] = NoRun]
                     /\ UNCHANGED <<age, phase, run, storeVars, emitted>>

-----------------------------------------------------------------------------
RunStep(r) ==
  \/ Reject(r) \/ AcquireLock(r) \/ Conflict(r) \/ AcquireFails(r) \/ Prepare(r)
  \/ PrepareRaises(r)
  \/ CallApplied(r) \/ CallReturns(r) \/ CallRaises(r)
  \/ LoopStep(r) \/ EnqueueRaises(r) \/ LoopEnds(r) \/ ClientReads(r) \/ CloseStream(r)
  \/ FlushReturns(r) \/ FlushRaises(r) \/ CancelDelivered(r)
  \/ EnterFinally(r) \/ WindowOver(r) \/ LateFlushReturns(r) \/ LateFlushRaises(r)
  \/ HeartbeatStops(r) \/ LockReleased(r) \/ Exit(r)

ChainStep(r) == ChainWrites(r) \/ ChainFails(r)

Next == \/ \E r \in Runs : \/ RunStep(r) \/ ChainStep(r) \/ CancelRun(r) \/ Disconnect(r)
                           \/ MonitorSees(r) \/ BeatFails(r) \/ TaskCancelled(r)
        \/ LockLapses
        \/ \E s \in Sessions : LeftLockLapses(s)

Spec == Init /\ [][Next]_vars

\* Tasks that can run do run, and a client that stays reads its stream; no
\* client has to cancel or leave.
Fairness == \A r \in Runs : WF_vars(RunStep(r)) /\ WF_vars(ChainStep(r))

FairSpec == Spec /\ Fairness

-----------------------------------------------------------------------------
(* Properties.                                                             *)

\* Every variable has its type, the lock as SessionLease keeps it.
TypeOK ==
  /\ holder \in [Sessions -> Runs \union {NoRun}]
  /\ age \in [Sessions -> {0}]
  /\ phase \in [Runs -> {"out", "in", "leaving", "gone"}]
  /\ run \in [Runs -> Frame]
  /\ stored \in [Runs -> Terminal \union {"absent", "running"}]
  /\ output \in [Runs -> BOOLEAN]
  /\ log \in [Sessions -> Seq(Runs \X {"user", "step", "answer", "hint"})]
  /\ emitted \in [Runs -> Terminal \union {"none", "request_failed"}]

Done(r) == At(r, "done")

\* A run that was created and is over has left a terminal status in its record,
\* whether it completed, failed, was cancelled on request or cut off by its
\* client.  What can prevent it is a store call that raised, or a server that
\* cancelled the task: with the cancel event unset that cancel is raised on
\* through every handler.
DoneIsTerminal ==
  \A r \in Runs : Done(r) /\ run[r].created /\ ~run[r].failed /\ ~run[r].killed
                    => stored[r] \in Terminal

\* What the last event told the client is settled: the record says the same and
\* the lock is free, so a client that reads it and asks again is not refused on
\* account of the run it saw end; and a client still there when its run
\* completed is told so, if the server has let the run end.
EmittedIsSettled ==
  \A r \in Runs : ~run[r].failed =>
    /\ emitted[r] \in Terminal => stored[r] = emitted[r] /\ holder[SessionOf[r]] # r
    /\ Done(r) /\ stored[r] = "completed" /\ ~run[r].gone /\ ~run[r].killed => emitted[r] = "completed"

Count(s, m) == Cardinality({i \in 1..Len(s) : s[i] = m})

\* The background writes are all in the log before the run may count as
\* completed: no tool result is missing from the history of a completed run.
CompletedHasAllSteps ==
  \A r \in Runs : stored[r] = "completed"
                    => Count(log[SessionOf[r]], <<r, "step">>) = run[r].steps

\* What the write chain stores for a run whose stream was open when the server
\* cancelled its task: the close flushes only a run that was asked to end, so
\* the chain may go on behind the release of the lock.
Stray(m) == run[m[1]].killed /\ m[2] = "step"

\* The messages of a run stand together in the history, its user message first
\* and a closing message, if there is one, last; a request that was cancelled
\* before its user message leaves the hint alone.  The stray messages of a run
\* that the server cut can stand anywhere behind.
LogSerial ==
  \A s \in Sessions : \A i \in 1..Len(log[s]) : ~Stray(log[s][i]) =>
    LET r == log[s][i][1]
        kind == log[s][i][2]
        own == {j \in 1..(i - 1) : log[s][j][1] = r}
    IN /\ own = {} => kind \in {"user", "hint"}
       /\ \A j \in own : /\ kind # "user" /\ log[s][j][2] \in {"user", "step"}
                         /\ \A k \in j..(i - 1) : k \in own \/ Stray(log[s][k])

\* Only the run that holds the session's lock writes to its main context, but
\* for the stray messages of a run that the server cut.
WritesAreLeased ==
  \A s \in Sessions : log'[s] # log[s] =>
    LET m == log'[s][Len(log'[s])] IN holder[s] = m[1] \/ Stray(m)

WritesUnderLease == [][WritesAreLeased]_vars

\* A record that has reached a terminal status keeps it.
RecordIsFinal == \A r \in Runs : stored[r] \in Terminal => stored'[r] = stored[r]

TerminalIsFinal == [][RecordIsFinal]_vars

\* A failed run has neither an output nor an answer in the history.
FailedHasNoAnswer ==
  \A r \in Runs : stored[r] = "failed"
    => ~output[r] /\ Count(log[SessionOf[r]], <<r, "answer">>) = 0

\* Every request that was begun comes to its end.
EveryRequestEnds == \A r \in Runs : ~At(r, "idle") ~> Done(r)
=============================================================================
