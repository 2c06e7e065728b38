----------------------------- MODULE AgentLoop -----------------------------
(***************************************************************************)
(* One run of AgentLoop (src/app/core/loop/agent_loop.py) with the LLM     *)
(* call of AgentRuntime (src/app/core/runtime/agent_runtime.py), the hook  *)
(* pipelines and the tools, which run in parallel.                         *)
(*                                                                         *)
(* A step goes from one await of the generator to the next.  Texts and     *)
(* results are left out; a call is known by its turn and its place there.  *)
(* The cancel event is set by another task at any time.  The task that     *)
(* consumes the generator can itself be cancelled, as the heartbeat does.  *)
(***************************************************************************)
EXTENDS Naturals, Sequences, FiniteSets, SequencesExt

CONSTANTS MaxTurns,  \* max_turns of the profile, or the default
          Attempts,  \* AgentRuntime._max_retries
          MaxSaid,   \* bound on the chunks of text in a turn
          ToolTurns  \* bound on what the model asks for: sequences of kinds of calls

\* What becomes of a call before it is run: its arguments are no JSON, its
\* tool is unknown, a before_tool hook fails, or nothing.
Kinds == {"malformed", "unknown", "refused", "runs"}

\* How a tool that runs ends: well, with a message to attach, with an
\* exception, with a failing after_tool hook, or with a CancelledError.
Outcomes == {"ok", "attached", "error", "unhooked", "stopped"}

ASSUME BoundsAssumption == {MaxTurns, MaxSaid} \subseteq Nat /\ Attempts \in Nat \ {0}
ASSUME ToolTurnsAssumption == ToolTurns \subseteq Seq(Kinds) \ {<<>>}

VARIABLES pc,
          turn,      \* turn_count
          attempt,   \* of the LLM call
          said,      \* chunks of text in this turn
          calls,     \* tool_calls of this turn
          next,      \* the call that is prepared or reported next
          tasks,     \* tools_to_execute: how each of them stands
          talk,      \* conversation_messages added by this run
          events,    \* what was yielded
          cancelled, \* cancel_event is set
          killed     \* the consuming task was cancelled

vars == <<pc, turn, attempt, said, calls, next, tasks, talk, events, cancelled, killed>>

Pcs == {"start", "turn", "stream", "prepare", "gather", "report", "over", "raised"}

NoCall == <<0, 0>>

Event(type, call) == [type |-> type, call |-> call, said |-> 0, attached |-> FALSE]

Entry(role, call) == [role |-> role, call |-> call]

Emit(event) == events' = Append(events, event)

Init ==
  /\ pc = "start" /\ turn = 0 /\ attempt = 0 /\ said = 0
  /\ calls = <<>> /\ next = 0 /\ tasks = <<>>
  /\ talk = <<>> /\ events = <<>>
  /\ cancelled = FALSE /\ killed = FALSE

Frame == <<turn, attempt, said, calls, next, tasks, talk>>

\* A terminal event, and return.
EndWith(type) ==
  /\ Emit([Event(type, NoCall) EXCEPT !.said = said])
  /\ pc' = "over"
  /\ UNCHANGED <<Frame, cancelled, killed>>

\* except CancelledError: an end of its own only if the cancel event is set.
CancelledErrorRaised ==
  IF cancelled THEN EndWith("cancelled")
  ELSE pc' = "raised" /\ UNCHANGED <<Frame, events, cancelled, killed>>

Start ==
  /\ pc = "start"
  /\ Emit(Event("run_started", NoCall))
  /\ pc' = "turn"
  /\ UNCHANGED <<Frame, cancelled, killed>>

-----------------------------------------------------------------------------
(* A turn: the LLM call.                                                     *)

TurnsExceeded == pc = "turn" /\ turn = MaxTurns /\ EndWith("failed")

CancelledBetweenTurns == pc = "turn" /\ turn < MaxTurns /\ cancelled /\ EndWith("cancelled")

\* mutant: the cancel event is not looked at between turns
BeginTurnUnchecked ==
  /\ pc = "turn" /\ turn < MaxTurns
  /\ turn' = turn + 1
  /\ attempt' = 1 /\ said' = 0 /\ calls' = <<>> /\ next' = 0 /\ tasks' = <<>>
  /\ pc' = "stream"
  /\ UNCHANGED <<talk, events, cancelled, killed>>

BeginTurn ==
  /\ pc = "turn" /\ turn < MaxTurns /\ ~cancelled
  /\ turn' = turn + 1
  /\ attempt' = 1 /\ said' = 0 /\ calls' = <<>> /\ next' = 0 /\ tasks' = <<>>
  /\ pc' = "stream"
  /\ UNCHANGED <<talk, events, cancelled, killed>>

\* A chunk of text.  What the model sends looks at the cancel event first; what the
\* text guard passes on with it or held back until the end does not.
Chunk ==
  /\ pc = "stream"
  /\ said < MaxSaid
  /\ said' = said + 1
  /\ Emit(Event("delta", <<turn, 0>>))
  /\ UNCHANGED <<pc, turn, attempt, calls, next, tasks, talk, cancelled, killed>>

CancelledInStream == pc = "stream" /\ cancelled /\ EndWith("cancelled")

\* A transient error, also after text was passed on, which stays in the turn.
Retry ==
  /\ pc = "stream" /\ attempt < Attempts
  /\ attempt' = attempt + 1
  /\ UNCHANGED <<pc, turn, said, calls, next, tasks, talk, events, cancelled, killed>>

\* Another error of the model or of a model hook.
StreamFails == pc = "stream" /\ EndWith("failed")

Completes == pc = "stream" /\ EndWith("completed")

AsksForTools ==
  /\ pc = "stream"
  /\ \E t \in ToolTurns :
       /\ calls' = t
       /\ Emit([Event("assistant_with_tools", <<turn, Len(t)>>) EXCEPT !.said = said])
       /\ talk' = Append(talk, Entry("assistant", <<turn, Len(t)>>))
  /\ next' = 1
  /\ pc' = "prepare"
  /\ UNCHANGED <<turn, attempt, said, tasks, cancelled, killed>>

-----------------------------------------------------------------------------
(* The tools of the turn: one after the other up to their start.             *)

Call == <<turn, next>>

Preparing(kinds) == pc = "prepare" /\ next <= Len(calls) /\ calls[next] \in kinds

Prepared == next' = next + 1 /\ UNCHANGED <<pc, turn, attempt, said, calls, cancelled, killed>>

\* Malformed arguments or an unknown tool: started and completed at once.
FailsAtOnce ==
  /\ Preparing({"malformed", "unknown"})
  /\ events' = events \o <<Event("tool_started", Call), Event("tool_completed", Call)>>
  /\ talk' = Append(talk, Entry("tool", Call))
  /\ Prepared /\ UNCHANGED tasks

\* mutant: the model is not told of the refusal
RefusedUntold ==
  /\ Preparing({"refused"})
  /\ Emit(Event("tool_completed", Call))
  /\ Prepared /\ UNCHANGED <<tasks, talk>>

\* mutant: the consumers are not told of the refusal
RefusedSilent ==
  /\ Preparing({"refused"})
  /\ talk' = Append(talk, Entry("tool", Call))
  /\ Prepared /\ UNCHANGED <<tasks, events>>

\* A before_tool hook fails: completed without having started.
Refused ==
  /\ Preparing({"refused"})
  /\ Emit(Event("tool_completed", Call))
  /\ talk' = Append(talk, Entry("tool", Call))
  /\ Prepared /\ UNCHANGED tasks

Starts ==
  /\ Preparing({"runs"})
  /\ Emit(Event("tool_started", Call))
  /\ tasks' = Append(tasks, [k |-> next, state |-> "ready"])
  /\ Prepared /\ UNCHANGED talk

AllPrepared == pc = "prepare" /\ next > Len(calls)

NothingToRun ==
  /\ AllPrepared /\ tasks = <<>>
  /\ pc' = "turn"
  /\ UNCHANGED <<Frame, events, cancelled, killed>>

CancelledBeforeTools == AllPrepared /\ tasks # <<>> /\ cancelled /\ EndWith("cancelled")

-----------------------------------------------------------------------------
(* Their tasks, in parallel, and what is reported of them, in order.         *)

RunTools ==
  /\ AllPrepared /\ tasks # <<>> /\ ~cancelled
  /\ tasks' = [i \in DOMAIN tasks |-> [tasks[i] EXCEPT !.state = "running"]]
  /\ pc' = "gather"
  /\ UNCHANGED <<turn, attempt, said, calls, next, talk, events, cancelled, killed>>

ToolEnds(i) ==
  /\ pc = "gather" /\ tasks[i].state = "running"
  /\ \E o \in Outcomes : tasks' = [tasks EXCEPT ![i].state = o]
  /\ UNCHANGED <<pc, turn, attempt, said, calls, next, talk, events, cancelled, killed>>

AllEnded == pc = "gather" /\ \A i \in DOMAIN tasks : tasks[i].state # "running"

Gathered ==
  /\ AllEnded /\ ~killed
  /\ next' = 1
  /\ pc' = "report"
  /\ UNCHANGED <<turn, attempt, said, calls, tasks, talk, events, cancelled, killed>>

\* mutant: a cancelled gather starts over
GatherRetries ==
  /\ AllEnded /\ killed
  /\ tasks' = [i \in DOMAIN tasks |-> [tasks[i] EXCEPT !.state = "running"]]
  /\ UNCHANGED <<pc, turn, attempt, said, calls, next, talk, events, cancelled, killed>>

\* A cancelled gather waits for its tools and raises whatever they return.
GatherRaises == AllEnded /\ killed /\ CancelledErrorRaised

Reporting(i) == pc = "report" /\ next = i /\ i \in DOMAIN tasks

Completed(i) ==
  [Event("tool_completed", <<turn, tasks[i].k>>) EXCEPT !.attached = tasks[i].state = "attached"]

\* mutant: the attached message is stored but not told to the model
ReportBare(i) ==
  /\ Reporting(i) /\ tasks[i].state # "stopped"
  /\ Emit(Completed(i))
  /\ talk' = Append(talk, Entry("tool", <<turn, tasks[i].k>>))
  /\ next' = next + 1
  /\ UNCHANGED <<pc, turn, attempt, said, calls, tasks, cancelled, killed>>

Report(i) ==
  /\ Reporting(i) /\ tasks[i].state # "stopped"
  /\ Emit(Completed(i))
  /\ talk' = talk \o <<Entry("tool", <<turn, tasks[i].k>>)>>
                  \o (IF tasks[i].state = "attached"
                      THEN <<Entry("attached", <<turn, tasks[i].k>>)>> ELSE <<>>)
  /\ next' = next + 1
  /\ UNCHANGED <<pc, turn, attempt, said, calls, tasks, cancelled, killed>>

\* A CancelledError is no Exception to the check of the results, and has no
\* content: AttributeError, the end of the run.
ReportRaises(i) == Reporting(i) /\ tasks[i].state = "stopped" /\ EndWith("failed")

TurnOver ==
  /\ pc = "report" /\ next > Len(tasks)
  /\ pc' = "turn"
  /\ UNCHANGED <<Frame, events, cancelled, killed>>

-----------------------------------------------------------------------------
(* From outside.                                                             *)

SetCancel ==
  /\ ~cancelled /\ pc \notin {"over", "raised"}
  /\ cancelled' = TRUE
  /\ UNCHANGED <<pc, Frame, events, killed>>

\* The consuming task is cancelled while the generator awaits a chunk or a hook.
Kill ==
  /\ ~killed
  /\ pc = "stream" \/ Preparing({"runs", "refused"})
  /\ CancelledErrorRaised

KillGather ==
  /\ ~killed /\ pc = "gather"
  /\ killed' = TRUE
  /\ UNCHANGED <<pc, Frame, events, cancelled>>

Proceed ==
  \/ Start \/ TurnsExceeded \/ CancelledBetweenTurns \/ BeginTurn
  \/ Chunk \/ CancelledInStream \/ Retry \/ StreamFails \/ Completes \/ AsksForTools
  \/ FailsAtOnce \/ Refused \/ Starts \/ NothingToRun \/ CancelledBeforeTools
  \/ RunTools \/ Gathered \/ GatherRaises
  \/ \E i \in 1..Len(tasks) : ToolEnds(i) \/ Report(i) \/ ReportRaises(i)
  \/ TurnOver

Next == Proceed \/ SetCancel \/ Kill \/ KillGather

Spec == Init /\ [][Next]_vars

\* The event loop runs every ready coroutine; the model ends its streams (the
\* adapter has a timeout) and the tools end.
FairSpec == Spec /\ WF_vars(Proceed)

-----------------------------------------------------------------------------
(* What has to hold.                                                         *)

Types == {"run_started", "delta", "assistant_with_tools", "tool_started", "tool_completed",
          "completed", "failed", "cancelled"}

\* Each variable is of its type, and the tasks of a turn are calls of that turn
\* that were to be run, each once, in their order.
TypeOK ==
  /\ pc \in Pcs
  /\ turn \in 0..MaxTurns /\ attempt \in 0..Attempts /\ said \in 0..MaxSaid
  /\ calls \in ToolTurns \union {<<>>}
  /\ next \in 0..(Len(calls) + 1)
  /\ \A i \in DOMAIN tasks : /\ tasks[i].k \in DOMAIN calls /\ calls[tasks[i].k] = "runs"
                             /\ tasks[i].state \in {"ready", "running"} \union Outcomes
                             /\ i > 1 => tasks[i - 1].k < tasks[i].k
  /\ \A i \in DOMAIN talk : talk[i].role \in {"assistant", "tool", "attached"}
  /\ \A i \in DOMAIN events : events[i].type \in Types
  /\ cancelled \in BOOLEAN /\ killed \in BOOLEAN

\* The entries ChatEventProcessor stores for the events of a run.
Stored ==
  LET Of(e) == CASE e.type = "assistant_with_tools" -> <<Entry("assistant", e.call)>>
                 [] e.type = "tool_completed" -> <<Entry("tool", e.call)>>
                      \o (IF e.attached THEN <<Entry("attached", e.call)>> ELSE <<>>)
                 [] OTHER -> <<>>
  IN FlattenSeq([i \in DOMAIN events |-> Of(events[i])])

\* What a later run reads in the history is what the model was told in this
\* one, in the same order; and the answer that is stored is the text that was
\* streamed since the last tool turn, also after an attempt that failed halfway.
HistoryIsTalk ==
  LET deltas == {i \in DOMAIN events : events[i].type = "delta" /\ events[i].call[1] = turn}
  IN /\ Stored = talk
     /\ \A i \in DOMAIN events :
          events[i].type = "completed" => events[i].said = Cardinality(deltas)

\* When the model is called it has the result of each call it asked for, once
\* and before it asked for others, however the call ended.
CallsAnswered ==
  pc = "stream" =>
    \A i \in DOMAIN talk : talk[i].role = "assistant" =>
      \A k \in 1..talk[i].call[2] :
        LET result == Entry("tool", <<talk[i].call[1], k>>)
            later == {j \in (i + 1)..Len(talk) : talk[j].role = "assistant"}
        IN \E j \in DOMAIN talk : /\ talk[j] = result /\ i < j
                                 /\ \A m \in later : j < m
                                 /\ \A l \in DOMAIN talk : talk[l] = result => l = j

\* Once the run is cancelled no turn begins and no tool is run any more; what
\* is under way ends.
NoWorkAfterCancel ==
  [][cancelled => /\ turn' = turn
                  /\ pc # "gather" => pc' # "gather"]_vars

\* Every run ends: within MaxTurns turns, whatever fails.
RunEnds == <>(pc \in {"over", "raised"})

\* What the consumers make of an event: its type, and the calls it is about.
Signal(e) ==
  [type |-> e.type,
   calls |-> CASE e.type = "assistant_with_tools" -> {<<e.call[1], k>> : k \in 1..e.call[2]}
               [] e.type \in {"tool_started", "tool_completed"} -> {e.call}
               [] OTHER -> {}]

Heard == [i \in DOMAIN events |-> Signal(events[i])]

Contract == INSTANCE LoopContract WITH heard <- Heard, raised <- (pc = "raised")

\* The events of a run, all of them and in their order, keep the contract its
\* consumers rely on: one start, one end and nothing behind it, and for each call
\* one result, behind its announcement and before the next.
KeepsContract == Contract!Spec
=============================================================================
