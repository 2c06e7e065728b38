---------------------------- MODULE ContextWindow ----------------------------
(***************************************************************************)
(* The history of a conversation and the part of it a run sends to the     *)
(* model: RedisSessionStore's message list and summary state               *)
(* (src/app/infra/store/redis_session_store.py), the token-budget policy   *)
(* of context_builder.py, ContextSummaryPlanner and the writes of a run.   *)
(*                                                                         *)
(* One context, main or child: both use the same code on keys of their     *)
(* own.  Runs follow one another under the session lock, but one whose     *)
(* lock has lapsed goes on beside its successor.  Every Redis command is a *)
(* step.  Whether the context is over the token threshold is left open.    *)
(***************************************************************************)
EXTENDS MessageRepair

CONSTANTS Seeds,   \* the histories a context may start with
          MaxRuns, \* bound on the runs that follow
          MaxLog,  \* bound on the messages
          Turns    \* tool turns an agent may take: the tools called, and if it speaks

Kinds == {"user", "assistant", "calls", "tool", "skill", "hint", "summary"}

Messages == [kind : Kinds, calls : Seq(Tools), text : BOOLEAN, call : Nat \X Nat,
             covers : SUBSET Nat]

\* Each result in a message list answers a call of a message before it.
Answers(l) ==
  \A i \in 1..Len(l) : l[i].kind = "tool" =>
    \E g \in 1..(i - 1) : l[g].kind = "calls" /\ l[i].call \in CallsOf(l, g)

\* No call has two results.
AnswersOnce(l) ==
  \A i, j \in 1..Len(l) :
    l[i].kind = "tool" /\ l[j].kind = "tool" /\ l[i].call = l[j].call => i = j

\* Between a call and its result no round starts, and nothing is summarized.
AnswersSoon(l) ==
  \A i \in 1..Len(l) : l[i].kind = "tool" =>
    \A p \in l[i].call[1]..i : l[p].kind \notin {"user", "summary"}

ASSUME BoundsAssumption == MaxRuns \in Nat /\ MaxLog \in Nat
ASSUME TurnsAssumption == Turns \subseteq [calls : Seq(Tools) \ {<<>>}, text : BOOLEAN]
\* Histories that runs one after the other write without a summary.
ASSUME SeedsAssumption ==
  \A l \in Seeds : /\ l \in Seq(Messages) /\ Len(l) <= MaxLog
                   /\ \A i \in 1..Len(l) : l[i].kind # "summary" /\ l[i].covers = {}
                   /\ Answers(l) /\ AnswersOnce(l) /\ AnswersSoon(l)

Runs == 1..MaxRuns

NoState == [id |-> 0, start |-> 0, offset |-> 0, startOffset |-> 0]

VARIABLES log,     \* the message list
          summary, \* the summary state: message ids and the offsets cached with them
          dirty,   \* the dirty flag of the context
          run,     \* what each run has in its frame
          seen     \* mishaps so far, for the properties to refer to

vars == <<log, summary, dirty, run, seen>>

Mishaps == {"overlap",  \* a run starts beside one whose lock has lapsed
            "gap"}      \* a run ends between its summary and its user message

Message(kind) == [kind |-> kind, calls |-> <<>>, text |-> TRUE, call |-> NoCall, covers |-> {}]

Pcs == {"idle", "state", "range", "all", "plan", "length", "persist", "mark", "user",
        "turn", "tools", "attach", "answer", "done"}

Frame == [pc |-> "idle",
          state |-> NoState,  \* the summary state it has read
          window |-> <<>>,    \* the active history
          keep |-> 0,         \* keep_history_start_index
          old |-> {},         \* the older_history_records its summary is of
          offset |-> 0,       \* llen before the summary
          group |-> 0,        \* its message with tool calls
          left |-> {}]        \* its calls without a result

Init == /\ log \in Seeds
        /\ summary = NoState
        /\ dirty = FALSE
        /\ run = [r \in Runs |-> Frame]
        /\ seen = {}

At(r, pc) == run[r].pc = pc

Active(r) == run[r].pc \notin {"idle", "done"}

Becomes(r, frame) == run' = [run EXCEPT ![r] = frame]

Goto(r, pc) == Becomes(r, [run[r] EXCEPT !.pc = pc])

Push(message) == Len(log) < MaxLog /\ log' = Append(log, message)

End(r) == Becomes(r, [Frame EXCEPT !.pc = "done"])

-----------------------------------------------------------------------------
(* The active window of a message list and a summary state.                 *)

Span(from, to) == [k \in 1..(to + 1 - from) |-> from - 1 + k]

\* build_active_messages_with_indices: find the messages by id.  A message is
\* its own position, so the id is found if it is in the list.
FullWindow(l, st) ==
  LET all == Span(1, Len(l))
      Found(i) == i \in 1..Len(l)
  IN CASE st = NoState \/ ~Found(st.id) -> all
       [] Found(st.id) /\ ~Found(st.start) -> Span(st.id, Len(l))
       [] Found(st.id) /\ Found(st.start) /\ st.start > st.id -> all
       [] OTHER -> <<st.id>> \o Span(st.start, st.id - 1) \o Span(st.id + 1, Len(l))

RangedUnchecked(l, st) ==  \* mutant: the offset of the summary is trusted
  st.startOffset <= st.offset /\ st.offset <= Len(l)

\* The checks of the fast path on the offsets, and on the ids found there.
Ranged(l, st) ==
  /\ st.startOffset <= st.offset
  /\ st.offset <= Len(l)
  /\ st.offset = st.id
  /\ (st.start # 0 /\ st.startOffset < st.offset) => st.startOffset = st.start

\* _rebuild_active_window_from_ranged_messages: the summary first, then the
\* range without the place it has there.
RangedWindow(l, st) ==
  <<st.offset>> \o RemoveAt(Span(st.startOffset, Len(l)), st.offset + 1 - st.startOffset)

\* A run enters; with the lock of its predecessor lapsed, beside it.
Start(r) ==
  /\ At(r, "idle")
  /\ \A q \in 1..(r - 1) : ~At(q, "idle")
  /\ Goto(r, "state")
  /\ seen' = seen \union IF \E q \in Runs : Active(q) THEN {"overlap"} ELSE {}
  /\ UNCHANGED <<log, summary, dirty>>

ReadState(r) ==
  /\ At(r, "state")
  /\ Becomes(r, [run[r] EXCEPT !.state = summary,
                               !.pc = IF summary = NoState THEN "all" ELSE "range"])
  /\ UNCHANGED <<log, summary, dirty, seen>>

\* LRANGE from the cached start; the whole list is read if a check fails.
ReadRange(r) ==
  /\ At(r, "range")
  /\ IF Ranged(log, run[r].state)
     THEN Becomes(r, [run[r] EXCEPT !.window = RangedWindow(log, run[r].state), !.pc = "plan"])
     ELSE Goto(r, "all")
  /\ UNCHANGED <<log, summary, dirty, seen>>

ReadAll(r) ==
  /\ At(r, "all")
  /\ Becomes(r, [run[r] EXCEPT !.window = FullWindow(log, run[r].state), !.pc = "plan"])
  /\ UNCHANGED <<log, summary, dirty, seen>>

-----------------------------------------------------------------------------
(* The plan of ContextSummaryPlanner and the summary.                        *)

\* The places of a window where a round starts.
RoundStarts(window) == {k \in DOMAIN window : log[window[k]].kind = "user"}

KeepLastRound(window) ==  \* mutant: one round is kept
  LET starts == RoundStarts(window)
  IN CASE window = <<>> -> 0
       [] window # <<>> /\ Cardinality(starts) <= 1 -> Head(window)
       [] OTHER -> window[CHOOSE k \in starts : \A j \in starts : j <= k]

\* _find_keep_start_index: the last round but one, else what the window
\* starts with.
KeepStart(window) ==
  LET starts == RoundStarts(window)
  IN CASE window = <<>> -> 0
       [] window # <<>> /\ Cardinality(starts) <= 2 -> Head(window)
       [] OTHER -> window[CHOOSE k \in starts : Cardinality({j \in starts : j > k}) = 1]

Records(r) == Normalize(log, run[r].window).out

Pruned(r) == Prune(log, Records(r), KeepStart(run[r].window))

\* older_history_records: what repair and pruning leave before the border.
Older(r) == {i \in Kept(Pruned(r)) : i < KeepStart(run[r].window)}

\* The context is built; the run forgets what it was built from.
Built(r) ==
  Becomes(r, [Frame EXCEPT !.keep = run[r].keep,
                           !.pc = IF Normalize(log, run[r].window).dirty THEN "mark" ELSE "user"])

\* Under the threshold, perhaps after pruning, which is not stored.
Fits(r) ==
  /\ At(r, "plan")
  /\ Built(r)
  /\ UNCHANGED <<log, summary, dirty, seen>>

\* Over it: nothing old to summarize, or the model fails to do it, in bounds.
Refused(r) ==
  /\ At(r, "plan")
  /\ End(r)
  /\ UNCHANGED <<log, summary, dirty, seen>>

Summarize(r) ==
  /\ At(r, "plan")
  /\ Older(r) # {}
  /\ Becomes(r, [run[r] EXCEPT !.keep = KeepStart(run[r].window), !.old = Older(r),
                               !.pc = "length"])
  /\ UNCHANGED <<log, summary, dirty, seen>>

\* _append_context_summary_to_keys reads the length first ...
ReadLength(r) ==
  /\ At(r, "length")
  /\ Becomes(r, [run[r] EXCEPT !.offset = Len(log) + 1, !.pc = "persist"])
  /\ UNCHANGED <<log, summary, dirty, seen>>

\* mutant: the window starts behind what is kept
PersistSummaryLate(r) ==
  /\ At(r, "persist")
  /\ Push([Message("summary") EXCEPT !.covers = run[r].old])
  /\ summary' = [id |-> Len(log) + 1, start |-> run[r].keep + 1,
                 offset |-> run[r].offset, startOffset |-> run[r].keep + 1]
  /\ Built(r)
  /\ UNCHANGED <<dirty, seen>>

\* ... then pushes the summary and sets the state in one MULTI.
PersistSummary(r) ==
  /\ At(r, "persist")
  /\ Push([Message("summary") EXCEPT !.covers = run[r].old])
  /\ summary' = [id |-> Len(log) + 1, start |-> run[r].keep,
                 offset |-> run[r].offset, startOffset |-> run[r].keep]
  /\ Built(r)
  /\ UNCHANGED <<dirty, seen>>

MarkDirty(r) ==
  /\ At(r, "mark")
  /\ dirty' = TRUE
  /\ Goto(r, "user")
  /\ UNCHANGED <<log, summary, seen>>

-----------------------------------------------------------------------------
(* The messages of the run.                                                 *)

AppendUser(r) ==
  /\ At(r, "user")
  /\ Push(Message("user"))
  /\ Goto(r, "turn")
  /\ UNCHANGED <<summary, dirty, seen>>

\* The assistant message of a tool turn; a run takes at most one here.
AppendCalls(r) ==
  /\ At(r, "turn")
  /\ \E t \in Turns :
       /\ Push([Message("calls") EXCEPT !.calls = t.calls, !.text = t.text])
       /\ Becomes(r, [run[r] EXCEPT !.pc = "tools", !.group = Len(log) + 1,
                                    !.left = 1..Len(t.calls)])
  /\ UNCHANGED <<summary, dirty, seen>>

\* A result, in any order: calls that fail before they run come first.  The
\* result of the skill tool has a hidden message attached.
AppendResult(r) ==
  /\ At(r, "tools")
  /\ \E k \in run[r].left :
       /\ Push([Message("tool") EXCEPT !.call = <<run[r].group, k>>, !.text = FALSE])
       /\ Becomes(r, [run[r] EXCEPT !.left = run[r].left \ {k},
                    !.pc = IF log[run[r].group].calls[k] = "skill" THEN "attach"
                           ELSE IF run[r].left = {k} THEN "answer" ELSE "tools"])
  /\ UNCHANGED <<summary, dirty, seen>>

AppendAttached(r) ==
  /\ At(r, "attach")
  /\ Push(Message("skill"))
  /\ Goto(r, IF run[r].left = {} THEN "answer" ELSE "tools")
  /\ UNCHANGED <<summary, dirty, seen>>

AppendAnswer(r) ==
  /\ run[r].pc \in {"turn", "answer"}
  /\ Push(Message("assistant"))
  /\ End(r)
  /\ UNCHANGED <<summary, dirty, seen>>

\* The run is cancelled, with a hint for the history, or fails or crashes.
Interrupted(r) ==
  /\ run[r].pc \in {"mark", "user", "turn", "tools", "attach", "answer"}
  /\ Push(Message("hint")) \/ UNCHANGED log
  /\ End(r)
  /\ seen' = seen \union IF run[r].pc \in {"mark", "user"} /\ run[r].keep # 0
                         THEN {"gap"} ELSE {}
  /\ UNCHANGED <<summary, dirty>>

-----------------------------------------------------------------------------
Step(r) ==
  \/ Start(r) \/ ReadState(r) \/ ReadRange(r) \/ ReadAll(r)
  \/ Fits(r) \/ Refused(r) \/ Summarize(r) \/ ReadLength(r) \/ PersistSummary(r)
  \/ MarkDirty(r) \/ AppendUser(r) \/ AppendCalls(r) \/ AppendResult(r)
  \/ AppendAttached(r) \/ AppendAnswer(r) \/ Interrupted(r)

Next == \E r \in Runs : Step(r)

Spec == Init /\ [][Next]_vars

-----------------------------------------------------------------------------
(* What has to hold.                                                         *)

\* The log, the summary state and the frames of the runs are of their types,
\* and what they refer to is in the log: the summary and the start of the
\* window, the window of a run, its border and the message of its open calls.
TypeOK ==
  /\ log \in Seq(Messages) /\ Len(log) <= MaxLog
  /\ summary # NoState => {summary.id, summary.start, summary.startOffset} \subseteq 1..Len(log)
  /\ dirty \in BOOLEAN
  /\ seen \subseteq Mishaps
  /\ \A r \in Runs : /\ run[r].pc \in Pcs
                     /\ Range(run[r].window) \subseteq 1..Len(log)
                     /\ run[r].keep \in {0} \union 1..Len(log)
                     /\ run[r].group # 0 => run[r].group \in 1..Len(log)
                                            /\ log[run[r].group].kind = "calls"
                                            /\ run[r].left \subseteq DOMAIN log[run[r].group].calls

\* The cheap read of the window, from the offsets in the summary state, agrees
\* with the scan by message ids whenever its checks pass, also when two runs
\* have written summaries and one of the offsets is wrong.
RangedIsExact ==
  \A st \in {summary} \union {run[r].state : r \in Runs} :
    st # NoState /\ Ranged(log, st) => RangedWindow(log, st) = FullWindow(log, st)

\* The messages the next run gets to know: those of its window and those its
\* summaries are made of, directly or through older summaries.
Known == LET window == Range(FullWindow(log, summary))
             known[i \in 1..Len(log)] ==
               \/ i \in window
               \/ \E s \in (i + 1)..Len(log) : i \in log[s].covers /\ known[s]
         IN {i \in 1..Len(log) : known[i]}

\* What a summary may leave out: hidden skill messages and the results of
\* query_tool_result, which pruning removes before it, and a message of calls
\* without a text, which is dropped with them or by repair; a call of it that has
\* another result is known with that result.
Expendable(l, i) ==
  \/ l[i].kind = "skill"
  \/ l[i].kind = "tool" /\ ToolOf(l, l[i].call) = "query"
  \/ l[i].kind = "calls" /\ ~l[i].text

\* Compression loses nothing that was said: whatever the user, the model, a tool or
\* an older summary has said, ever, is in the window, or a summary that is known was
\* made of it, also when summaries of summaries are written side by side; only what
\* pruning and repair take out before the summary is made may be gone.
NothingForgotten == \A i \in 1..Len(log) : i \in Known \/ Expendable(log, i)

\* Only what lies before the last two rounds is summarized, as long as no run
\* ends, and none starts, between the summary of a run and its user message
\* (ContextSummaryPlanner.plan).
RecentRoundsKept ==
  seen = {} => \A s \in 1..Len(log) :
    LET rounds == {k \in 1..(s - 1) : log[k].kind = "user"}
    IN log[s].covers # {} =>
         /\ Cardinality(rounds) > 2
         /\ \A i \in log[s].covers : Cardinality({k \in rounds : k > i}) > 1

\* The request of a run has each tool result right behind the message that
\* asks for it, and stays so when the history before the last two rounds is
\* pruned or summarized; yet repair drops nothing that the user, the model or a
\* tool has said: only a message of calls without a text may be left out.
\* A summary that another run pushes among the results of a message can become
\* the border that pruning splits them at.
RequestsWellFormed ==
  \A r \in Runs : At(r, "plan") =>
    LET keep == KeepStart(run[r].window)
        recent == Only(Pruned(r), {k \in DOMAIN Pruned(r) : Pruned(r)[k].at >= keep})
    IN /\ WellFormed(Records(r))
       /\ \A i \in Range(run[r].window) \ Kept(Records(r)) : log[i].kind = "calls" /\ ~log[i].text
       /\ "overlap" \notin seen => WellFormed(Pruned(r)) /\ WellFormed(recent)
=============================================================================
