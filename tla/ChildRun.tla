------------------------------ MODULE ChildRun ------------------------------
(***************************************************************************)
(* The Task calls of a master run: TaskTool                                *)
(* (src/app/infra/tools/task_tool.py) and ChildAgentRunner                 *)
(* (src/app/services/child_agent_runner.py) with the child's run record,   *)
(* context and summary in Redis.                                           *)
(*                                                                         *)
(* The calls of a turn run in parallel in one process.  They share the     *)
(* cancel event of the master run, and are all cancelled with its task.    *)
(* Each store call may raise, before or after it took effect.  The child's *)
(* AgentLoop keeps LoopContract; of its events only the writes are kept.   *)
(***************************************************************************)
EXTENDS Naturals, Sequences, FiniteSets, SequencesExt

CONSTANTS Calls,    \* the Task calls
          Old,      \* a child id that a call may resume
          OldType,  \* its subagent type
          Types,    \* subagent types
          NoCall,   \* who holds a lock that is free, and wrote what was there before
          MaxSteps, \* bound on the tool messages of a child run
          MaxFaults \* bound on the store calls that raise

ASSUME BoundsAssumption == {MaxSteps, MaxFaults} \subseteq Nat
ASSUME OldAssumption == Old \notin Calls /\ OldType \in Types /\ NoCall \notin Calls \union {Old}

\* A call without resume gets a child id of its own, named after the call.
Children == Calls \union {Old}

VARIABLES call,      \* what each call has in its frame
          holder,    \* the in-process lock of each child
          record,    \* the run records
          context,   \* the messages of each child
          summary,   \* the subagent type in the session's child summaries
          cancelled, \* the cancel event of the master run
          killed,    \* the calls to which the cancel of the task has still to be delivered
          asked,     \* that task was cancelled
          faults,    \* store calls that raised
          seen       \* mishaps of each call, for the properties to refer to

vars == <<call, holder, record, context, summary, cancelled, killed, asked, faults, seen>>

store == <<record, context, summary>>

outside == <<cancelled, killed, asked>>

Pcs == {"idle", "lock", "resume", "create", "history", "input", "loop", "answer", "complete",
        "loopFailed", "loopCancelled", "hint", "onCancel", "onError", "done"}

Statuses == {"none", "running", "completed", "failed", "cancelled"}

Mishaps == {"caught",    \* a call raised in the try block
            "unguarded", \* a call raised before it or in a handler
            "value"}     \* it raised a ValueError, which no handler takes

Frame == [pc |-> "idle", child |-> Old, type |-> "", resume |-> FALSE, steps |-> 0,
          result |-> "none"]

NoRecord == [status |-> "none", output |-> FALSE]

Init ==
  /\ call = [c \in Calls |-> Frame]
  /\ holder = [d \in Children |-> NoCall]
  /\ record = [c \in Calls |-> NoRecord]
  /\ context = [d \in Children |->
       IF d = Old THEN <<[by |-> NoCall, kind |-> "user", type |-> OldType]>> ELSE <<>>]
  /\ summary = [d \in Children |-> IF d = Old THEN OldType ELSE ""]
  /\ cancelled = FALSE /\ killed = {} /\ asked = FALSE /\ faults = 0
  /\ seen = [c \in Calls |-> {}]

At(c, pc) == call[c].pc = pc

Goto(c, pc) == call' = [call EXCEPT ![c].pc = pc]

Child(c) == call[c].child

Saw(c, mishap) == seen' = [seen EXCEPT ![c] = @ \union {mishap}]

-----------------------------------------------------------------------------
(* How a call leaves.                                                        *)

\* mutant: an error leaves the lock held
LeaveLocked(c, result) ==
  /\ call' = [call EXCEPT ![c] = [@ EXCEPT !.pc = "done", !.result = result]]
  /\ holder' = IF result = "error" THEN holder
               ELSE [d \in Children |-> IF holder[d] = c THEN NoCall ELSE holder[d]]

\* run_child returns or raises: the lock is free, and the tool has a result.
Leave(c, result) ==
  /\ call' = [call EXCEPT ![c] = [@ EXCEPT !.pc = "done", !.result = result]]
  /\ holder' = [d \in Children |-> IF holder[d] = c THEN NoCall ELSE holder[d]]

\* Where an exception is caught: before the try block nowhere, in it by the
\* handlers, in a handler nowhere.
Guarded(c) == call[c].pc \in {"history", "input", "loop", "answer", "complete", "loopFailed",
                              "loopCancelled", "hint"}

Raise(c, handler, result) ==
  \/ Guarded(c) /\ Goto(c, handler) /\ UNCHANGED holder /\ Saw(c, "caught")
  \/ ~Guarded(c) /\ Leave(c, result) /\ Saw(c, "unguarded")

RedisError(c) ==
  /\ faults < MaxFaults /\ faults' = faults + 1
  /\ Raise(c, "onError", "error")
  /\ UNCHANGED outside

\* The task is cancelled.  In run_child this becomes a result that is an error.
CancelledError(c) ==
  /\ c \in killed /\ killed' = killed \ {c}
  /\ Raise(c, "onCancel", "stopped")
  /\ UNCHANGED <<cancelled, asked, faults>>

\* A store call with its effect: it returns, or raises with or without it.
Store(c, effect, return) ==
  \/ effect /\ return /\ UNCHANGED <<outside, faults, seen>>
  \/ (effect \/ UNCHANGED store) /\ (RedisError(c) \/ CancelledError(c))

Write(c, status, output) ==
  record' = [record EXCEPT ![c] = [status |-> status, output |-> @.output \/ output]]

Push(c, kind) ==
  context' = [context EXCEPT ![Child(c)] = Append(@, [by |-> c, kind |-> kind, type |-> call[c].type])]

Proceed(c, pc) == Goto(c, pc) /\ UNCHANGED holder

-----------------------------------------------------------------------------
(* A call.                                                                   *)

\* The tool is called, with or without resume, or refuses its arguments.
TaskCalled(c) ==
  /\ At(c, "idle")
  /\ \/ \E t \in Types, resume \in BOOLEAN :
          call' = [call EXCEPT ![c] = [@ EXCEPT !.pc = "lock", !.type = t, !.resume = resume,
                                         !.child = IF resume THEN Old ELSE c]]
     \/ call' = [call EXCEPT ![c] = [@ EXCEPT !.pc = "done", !.result = "error"]]
  /\ UNCHANGED <<holder, store, outside, faults, seen>>

\* mutant: the lock is per call
LockEach(c) ==
  /\ At(c, "lock")
  /\ holder' = [holder EXCEPT ![Child(c)] = c]
  /\ Goto(c, "resume")
  /\ UNCHANGED <<store, outside, faults, seen>>

Lock(c) ==
  /\ At(c, "lock") /\ holder[Child(c)] = NoCall
  /\ holder' = [holder EXCEPT ![Child(c)] = c]
  /\ Goto(c, "resume")
  /\ UNCHANGED <<store, outside, faults, seen>>

KilledInQueue(c) == At(c, "lock") /\ CancelledError(c) /\ UNCHANGED store

\* _ensure_resume_matches_subagent reads the first message.
Fits(c) ==
  IF context[Child(c)] = <<>> THEN ~call[c].resume
  ELSE Head(context[Child(c)]).type = call[c].type

EnsureResume(c) ==
  /\ At(c, "resume")
  /\ \/ /\ IF Fits(c) THEN Proceed(c, "create") ELSE Leave(c, "error")
        /\ UNCHANGED <<outside, faults, seen>>
     \/ RedisError(c) \/ CancelledError(c)
  /\ UNCHANGED store

CreateRecord(c) ==
  /\ At(c, "create")
  /\ Store(c, Write(c, "running", FALSE) /\ UNCHANGED <<context, summary>>, Proceed(c, "history"))

\* Reads the history and builds the context; see ContextWindow for its writes.
BuildContext(c) ==
  /\ At(c, "history")
  /\ Store(c, UNCHANGED store, Proceed(c, "input"))

\* except ValueError: raise.  A stored message or a model name that cannot be
\* handled raises one; the record is left as it is.
BuildRaisesValueError(c) ==
  /\ At(c, "history")
  /\ Leave(c, "error")
  /\ Saw(c, "value")
  /\ UNCHANGED <<store, outside, faults>>

\* mutant: the summary is written, the message is not yet
WriteInputLate(c) ==
  /\ At(c, "input")
  /\ Store(c, summary' = [summary EXCEPT ![Child(c)] = call[c].type] /\ UNCHANGED <<record, context>>,
           Proceed(c, "loop"))

WriteInput(c) ==
  /\ At(c, "input")
  /\ Store(c, /\ Push(c, "user")
              /\ summary' = [summary EXCEPT ![Child(c)] = call[c].type]
              /\ UNCHANGED record,
           Proceed(c, "loop"))

\* A message with tool calls or the result of one.
LoopStep(c) ==
  /\ At(c, "loop") /\ call[c].steps < MaxSteps
  /\ Store(c, Push(c, "step") /\ UNCHANGED <<record, summary>>,
           call' = [call EXCEPT ![c].steps = @ + 1] /\ UNCHANGED holder)

\* The loop ends with an event: cancelled only if that was asked for.
LoopEnds(c) ==
  /\ At(c, "loop")
  /\ \/ Proceed(c, "answer") \/ Proceed(c, "loopFailed")
     \/ cancelled /\ Proceed(c, "loopCancelled")
  /\ UNCHANGED <<store, outside, faults, seen>>

\* Cancelled from outside, it ends with that event or raises.
LoopKilled(c) ==
  /\ At(c, "loop")
  /\ IF cancelled
     THEN /\ c \in killed /\ killed' = killed \ {c}
          /\ Proceed(c, "loopCancelled")
          /\ UNCHANGED <<cancelled, asked, faults, seen>>
     ELSE CancelledError(c)
  /\ UNCHANGED store

AppendAnswer(c) ==
  /\ At(c, "answer")
  /\ Store(c, Push(c, "answer") /\ UNCHANGED <<record, summary>>, Proceed(c, "complete"))

\* mutant: the master is answered whether or not the record could be written
CompleteAnyway(c) ==
  /\ At(c, "complete")
  /\ \/ Write(c, "completed", TRUE) /\ UNCHANGED <<context, summary>>
     \/ UNCHANGED store
  /\ Leave(c, "ok")
  /\ UNCHANGED <<outside, faults, seen>>

Complete(c) ==
  /\ At(c, "complete")
  /\ Store(c, Write(c, "completed", TRUE) /\ UNCHANGED <<context, summary>>, Leave(c, "ok"))

\* The record is closed first, and the ValueError leaves.
LoopFailed(c) ==
  /\ At(c, "loopFailed")
  /\ Store(c, Write(c, "failed", FALSE) /\ UNCHANGED <<context, summary>>, Leave(c, "error"))

LoopCancelled(c) ==
  /\ At(c, "loopCancelled")
  /\ Store(c, Write(c, "cancelled", FALSE) /\ UNCHANGED <<context, summary>>, Proceed(c, "hint"))

AppendHint(c) ==
  /\ At(c, "hint")
  /\ Store(c, Push(c, "hint") /\ UNCHANGED <<record, summary>>, Leave(c, "error"))

\* except CancelledError: record and hint in one MULTI.
OnCancel(c) ==
  /\ At(c, "onCancel")
  /\ Store(c, Write(c, "cancelled", FALSE) /\ Push(c, "hint") /\ UNCHANGED summary,
           Leave(c, "error"))

\* mutant: the handler leaves the record alone
OnErrorIdle(c) ==
  /\ At(c, "onError")
  /\ Leave(c, "error")
  /\ UNCHANGED <<store, outside, faults, seen>>

\* except Exception.
OnError(c) ==
  /\ At(c, "onError")
  /\ Store(c, Write(c, "failed", FALSE) /\ UNCHANGED <<context, summary>>, Leave(c, "error"))

-----------------------------------------------------------------------------
(* The master run.                                                           *)

\* The cancel event is set: by a listener, at any time.
SetCancel ==
  /\ ~cancelled /\ cancelled' = TRUE
  /\ UNCHANGED <<call, holder, store, killed, asked, faults, seen>>

\* Its task is cancelled, and the gather cancels every call that runs.
KillTask ==
  /\ ~asked /\ asked' = TRUE
  /\ killed' = {c \in Calls : call[c].pc \notin {"idle", "done"}}
  /\ UNCHANGED <<call, holder, store, cancelled, faults, seen>>

Step(c) ==
  \/ Lock(c) \/ KilledInQueue(c) \/ EnsureResume(c) \/ CreateRecord(c)
  \/ BuildContext(c) \/ BuildRaisesValueError(c) \/ WriteInput(c) \/ LoopStep(c) \/ LoopEnds(c)
  \/ LoopKilled(c) \/ AppendAnswer(c) \/ Complete(c) \/ LoopFailed(c) \/ LoopCancelled(c)
  \/ AppendHint(c) \/ OnCancel(c) \/ OnError(c)

Next == SetCancel \/ KillTask \/ \E c \in Calls : TaskCalled(c) \/ Step(c)

Spec == Init /\ [][Next]_vars

\* The event loop runs every ready task, Redis answers and the child's loop
\* ends (RunEnds of AgentLoop).
FairSpec == Spec /\ \A c \in Calls : WF_vars(Step(c))

-----------------------------------------------------------------------------
(* What has to hold.                                                         *)

\* The state is of its types; a call that holds the lock of a child is under
\* way and on that child.
TypeOK ==
  /\ \A c \in Calls :
       /\ call[c].pc \in Pcs /\ call[c].child \in {c, Old} /\ call[c].steps \in 0..MaxSteps
       /\ call[c].result \in {"none", "ok", "error", "stopped"}
       /\ record[c].status \in Statuses /\ record[c].output \in BOOLEAN
       /\ seen[c] \subseteq Mishaps
  /\ \A d \in Children :
       /\ summary[d] \in Types \union {""}
       /\ holder[d] # NoCall => /\ Child(holder[d]) = d
                                /\ call[holder[d]].pc \notin {"idle", "lock", "done"}
  /\ killed \subseteq Calls /\ faults \in 0..MaxFaults

\* The runs on one child follow one another: its history is a sequence of whole
\* runs, never two of them interleaved.
ChildSerial ==
  \A d \in Children : \A i, j, k \in DOMAIN context[d] :
    i < j /\ j < k /\ context[d][i].by = context[d][k].by => context[d][j].by = context[d][i].by

\* A child that is listed for resuming can be resumed: it has a history, and
\* all its runs are of the type it is listed with.
ListedIsResumable ==
  \A d \in Children : summary[d] # "" =>
    /\ context[d] # <<>>
    /\ \A i \in DOMAIN context[d] : context[d][i].type = summary[d]

\* What the master is told and what is stored agree: of a success, the record is
\* completed and the answer is the run's last message; of an error, it is not
\* completed, unless a handler's own write failed.
ResultIsStored ==
  \A c \in Calls : LET messages == context[Child(c)] IN
    /\ call[c].result = "ok" =>
         /\ record[c].status = "completed"
         /\ \E i \in DOMAIN messages :
              /\ messages[i].by = c /\ messages[i].kind = "answer"
              /\ \A j \in DOMAIN messages : j > i => messages[j].by # c
    /\ call[c].result = "error" /\ "unguarded" \notin seen[c] => record[c].status # "completed"

\* No run is left running by a call that is over, but for those an exception
\* takes past the handlers: a ValueError, one of the call that creates the
\* record, one of a handler.  A run recorded as cancelled has told the child so.
DoneIsClosed ==
  \A c \in Calls : At(c, "done") /\ "unguarded" \notin seen[c] =>
    /\ "value" \notin seen[c] => record[c].status # "running"
    /\ record[c].status = "cancelled" =>
         \E m \in Range(context[Child(c)]) : m.by = c /\ m.kind = "hint"

\* Every call returns to the master and frees its child.
CallsReturn ==
  \A c \in Calls : (call[c].pc # "idle") ~> At(c, "done") /\ \A d \in Children : holder[d] # c
=============================================================================
