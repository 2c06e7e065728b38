---------------------------- MODULE SessionStore ----------------------------
(***************************************************************************)
(* The Redis keys of one session: who writes them, which of them lapse,    *)
(* and what delete_session_cascade finds of them while runs go on.         *)
(*                                                                         *)
(* Known by the session's id are its hash, messages and marks (dirty flag, *)
(* summary state) of the main context, the counter and the hash of its     *)
(* plan, and three indices: of the runs, the children and the tool         *)
(* results.  Records, child contexts and results are found through an      *)
(* index only.  An action is one command or MULTI of Redis; between two,   *)
(* other requests, the deletion, a TTL or the end of a process come in.    *)
(* Texts are all the same message, "text"; a result that is too large is   *)
(* replaced by a message that names its key.  Of the plan there is only    *)
(* whether it has been begun (its tasks are in TaskBoard).                 *)
(***************************************************************************)
EXTENDS Naturals, FiniteSets

CONSTANTS Masters,       \* the runs that a chat request starts
          ChildRuns,     \* the runs that a Task call of a master starts
          Children,      \* ids of child contexts
          Results,       \* ids of large tool results
          None,          \* no run, no child, no result
          MaxDeletions   \* bound: calls of delete_session_cascade

ASSUME NamesAssumption ==
  /\ Masters \cap ChildRuns = {}
  /\ None \notin Masters \cup Children \cup Results
  /\ "main" \notin Children /\ "text" \notin Results

ASSUME BoundAssumption == MaxDeletions \in Nat

Runs == Masters \cup ChildRuns
Contexts == {"main"} \cup Children
Messages == {"text"} \cup Results

VARIABLES session,    \* "none", "live" or "deleted": the hash of the session
          messages,   \* what each context holds; an empty list is no key
          marks,      \* contexts with a dirty flag or a summary state
          record,     \* which fields of a run's hash are there, or were, and if it has a TTL
          runIndex,   \* the zset of runs
          children,   \* the hash of children
          results,    \* the results whose body is stored
          resultIndex,\* the set of results
          plan,       \* a task of the plan has been counted, and perhaps stored
          run,        \* the frame of each run
          del,        \* the frame of the deletion
          late,       \* ghost: keys written while a deletion goes on, or after it
          early,      \* ghost: keys that a run cancelled before its entry has written
          torn,       \* ghost: a deletion has met a run under way
          missing     \* ghost: a query found nothing, and it was not torn

redis == <<session, messages, marks, record, runIndex, children, results, resultIndex, plan>>
ghosts == <<late, early, missing>>
vars == <<redis, run, del, ghosts, torn>>

Pcs == {"idle", "checked", "read", "prepare", "summarize", "dirty", "mark", "input",
        "create", "loop", "ask", "push", "tell", "tellPush", "unlock", "done"}

Frame == [pc : Pcs,
          child : Children \cup {None}, parent : Masters \cup {None},
          seen : SUBSET Results,          \* the results its history or a tool names
          pending : Results \cup {None},  \* the result that its next message names
          asked : Results \cup {None}]    \* the result that it queries

DelPcs == {"idle", "children", "contexts", "records", "list", "bodies", "index", "metadata"}

Deletion == [pc : DelPcs, calls : 0..MaxDeletions,
             runs : SUBSET Runs, children : SUBSET Children, results : SUBSET Results]

MessagesKey(x) == <<"messages", x>>
MarksKey(x) == <<"marks", x>>
RecordKey(r) == <<"record", r>>
ResultKey(t) == <<"result", t>>
IndexKey(i) == <<"index", i>>
PlanKeys == {<<"plan", "counter">>, <<"plan", "tasks">>}

Keyspace == {MessagesKey(x) : x \in Contexts} \cup {MarksKey(x) : x \in Contexts}
            \cup {RecordKey(r) : r \in Runs} \cup {ResultKey(t) : t \in Results}
            \cup {IndexKey(i) : i \in {"runs", "children", "results"}} \cup PlanKeys

TypeOK ==
  /\ session \in {"none", "live", "deleted"}
  /\ messages \in [Contexts -> SUBSET Messages] /\ marks \subseteq Contexts
  /\ record \in [Runs -> [fields : {"none", "gone", "partial", "whole"}, ttl : BOOLEAN]]
  /\ runIndex \subseteq Runs
  /\ children \in [Children -> {"none", "placeholder", "summary"}]
  /\ results \subseteq Results /\ resultIndex \subseteq Results /\ plan \in BOOLEAN
  /\ run \in [Runs -> Frame] /\ del \in Deletion
  /\ late \subseteq Keyspace /\ early \subseteq Keyspace
  /\ missing \in BOOLEAN /\ torn \in BOOLEAN

NoRecord == [fields |-> "none", ttl |-> FALSE]
Gone == [fields |-> "gone", ttl |-> FALSE]
Exists(r) == record[r].fields \in {"partial", "whole"}

\* The messages that earlier runs have left behind in the contexts they had.
LeftBehind(had, known) ==
  [x \in Contexts |-> IF x = "main" /\ had # {} THEN {"text"} \cup known
                      ELSE IF x \in had THEN {"text"} ELSE {}]

\* A session to be created, or one whose earlier runs have left children, results
\* and a plan behind, or the hint of a child cancelled before its entry, and
\* whose records have lapsed.
Init ==
  \E old \in SUBSET Children, hinted \in SUBSET Children, known \in SUBSET Results :
    /\ session = IF old \cup hinted = {} THEN "none" ELSE "live"
    /\ hinted \cap old = {} /\ (old \cup hinted = {} => known = {})
    /\ messages = LeftBehind(old \cup hinted, known)
    /\ marks = {}
    /\ record = [r \in Runs |-> NoRecord] /\ runIndex = {}
    /\ children = [c \in Children |-> IF c \in old THEN "summary" ELSE "none"]
    /\ results = known /\ resultIndex = known /\ plan = (session = "live")
    /\ run = [r \in Runs |-> [pc |-> "idle", child |-> None, parent |-> None,
                              seen |-> {}, pending |-> None, asked |-> None]]
    /\ del = [pc |-> "idle", calls |-> 0, runs |-> {}, children |-> {}, results |-> {}]
    /\ late = {} /\ early = {MessagesKey(c) : c \in hinted}
    /\ missing = FALSE /\ torn = FALSE

At(r, pc) == run[r].pc = pc
Goto(r, pc) == run' = [run EXCEPT ![r].pc = pc]
Left(frame) == [frame EXCEPT !.pc = "done", !.seen = {}, !.pending = None, !.asked = None]
Done(r) == run' = [run EXCEPT ![r] = Left(@)]
Active(r) == run[r].pc \notin {"idle", "done"}
\* A run is inside the scope of the session lock, which lets in one at a time.
Locked == \E m \in Masters : run[m].pc \notin {"idle", "checked", "done"}
Deleting == del.pc # "idle"
Context(r) == IF r \in Masters THEN "main" ELSE run[r].child
Kids(m) == {k \in ChildRuns : run[k].parent = m /\ Active(k)}

\* Keys written while a deletion goes on, or when the session is gone, are late.
Write(keys) == late' = IF Deleting \/ session # "live" THEN late \cup keys ELSE late

Deleted(keys) == late' = late \ keys /\ early' = early \ keys

Pushed(x, message) == messages' = [messages EXCEPT ![x] = @ \cup {message}]

\* HSET of the terminal fields: without a record it makes a partial one, and it
\* never sets a TTL.
Updated(r) ==
  record' = [record EXCEPT ![r].fields = IF Exists(r) THEN @ ELSE "partial"]

-----------------------------------------------------------------------------
(* Sessions, and how a chat request begins.                                  *)

CreateSession ==
  /\ session = "none" /\ session' = "live"
  /\ UNCHANGED <<messages, marks, record, runIndex, children, results, resultIndex, plan, run, del, ghosts>>

\* get_session: a session that is gone refuses the request.
Request(m) ==
  /\ At(m, "idle")
  /\ Goto(m, IF session = "live" THEN "checked" ELSE "done")
  /\ UNCHANGED <<redis, del, ghosts>>

Enter(m) ==
  /\ At(m, "checked")
  /\ Goto(m, IF Locked THEN "done" ELSE "read")
  /\ UNCHANGED <<redis, del, ghosts>>

Unlock(m) ==
  /\ At(m, "unlock") /\ Done(m)
  /\ UNCHANGED <<redis, del, ghosts>>

-----------------------------------------------------------------------------
(* The start of a run: history, summary and dirty flag, input, record.       *)

AfterInput(r) == IF r \in Masters THEN "create" ELSE "loop"
AfterCreate(r) == IF r \in Masters THEN "loop" ELSE "read"

ReadHistory(r) ==
  /\ At(r, "read")
  /\ LET held == messages[Context(r)]
     IN run' = [run EXCEPT ![r] = [@ EXCEPT !.pc = IF held = {} THEN "input" ELSE "prepare",
                                            !.seen = held \ {"text"}]]
  /\ UNCHANGED <<redis, del, ghosts>>

\* A history over the threshold: RPUSH of the summary and SET of its state in
\* one MULTI; a child is registered before it.
PushSummary(r) ==
  /\ At(r, IF r \in Masters THEN "prepare" ELSE "summarize") /\ Goto(r, "dirty")
  /\ Pushed(Context(r), "text") /\ marks' = marks \cup {Context(r)}
  /\ Write({MessagesKey(Context(r)), MarksKey(Context(r))})
  /\ UNCHANGED <<session, record, runIndex, children, results, resultIndex, plan,
                 del, early, missing>>

Unmarked(r) == At(r, "prepare") \/ At(r, "dirty")

\* The dirty flag of a history that was repaired; a child is registered before it.
MarkDirty(r) ==
  /\ IF r \in Masters THEN Unmarked(r) ELSE At(r, "mark")
  /\ marks' = marks \cup {Context(r)} /\ Goto(r, "input")
  /\ Write({MarksKey(Context(r))})
  /\ UNCHANGED <<session, messages, record, runIndex, children, results, resultIndex, plan,
                 del, early, missing>>

Prepared(r) ==
  /\ Unmarked(r) /\ Goto(r, "input")
  /\ UNCHANGED <<redis, del, ghosts>>

\* The user message; with that of a child its summary, in one MULTI.
Input(r) ==
  /\ At(r, "input") /\ Goto(r, AfterInput(r))
  /\ Pushed(Context(r), "text")
  /\ children' = [c \in Children |-> IF c = Context(r) THEN "summary" ELSE children[c]]
  /\ Write({MessagesKey(Context(r))} \cup IF r \in Masters THEN {} ELSE {IndexKey("children")})
  /\ UNCHANGED <<session, marks, record, runIndex, results, resultIndex, plan,
                 del, early, missing>>

\* mutant: a record without EXPIRE
CreateLasting(r) ==
  /\ At(r, "create") /\ Goto(r, AfterCreate(r))
  /\ record' = [record EXCEPT ![r] = [fields |-> "whole", ttl |-> FALSE]]
  /\ runIndex' = runIndex \cup {r}
  /\ Write({RecordKey(r), IndexKey("runs")})
  /\ UNCHANGED <<session, messages, marks, children, results, resultIndex, plan,
                 del, early, missing>>

\* create_run_and_index_session: HSET, EXPIRE and ZADD in one MULTI.
CreateRecord(r) ==
  /\ At(r, "create") /\ Goto(r, AfterCreate(r))
  /\ record' = [record EXCEPT ![r] = [fields |-> "whole", ttl |-> TRUE]]
  /\ runIndex' = runIndex \cup {r}
  /\ Write({RecordKey(r), IndexKey("runs")})
  /\ UNCHANGED <<session, messages, marks, children, results, resultIndex, plan,
                 del, early, missing>>

-----------------------------------------------------------------------------
(* The loop: messages, large results, queries, Task calls.                   *)

Told(r) == IF run[r].pending = None THEN "text" ELSE run[r].pending

Append(m) ==
  /\ At(m, "loop")
  /\ Pushed("main", Told(m)) /\ run' = [run EXCEPT ![m].pending = None]
  /\ Write({MessagesKey("main")})
  /\ UNCHANGED <<session, marks, record, runIndex, children, results, resultIndex, plan,
                 del, early, missing>>

\* mutant: the summary and the dirty flag of a child are written without it
RegisterLate(k) ==
  /\ \/ At(k, "prepare") /\ Goto(k, "summarize")
     \/ Unmarked(k) /\ Goto(k, "mark")
     \/ At(k, "loop") /\ Goto(k, "push")
     \/ At(k, "tell") /\ Goto(k, "tellPush")
  /\ children' = [children EXCEPT ![run[k].child] =
                    IF @ = "none" /\ ~Unmarked(k) THEN "placeholder" ELSE @]
  /\ Write({IndexKey("children")})
  /\ UNCHANGED <<session, messages, marks, record, runIndex, results, resultIndex, plan,
                 del, early, missing>>

\* ensure_session_child_registered: an HSETNX before the summary, the dirty flag
\* or a message of a child is written.
Register(k) ==
  /\ \/ At(k, "prepare") /\ Goto(k, "summarize")
     \/ Unmarked(k) /\ Goto(k, "mark")
     \/ At(k, "loop") /\ Goto(k, "push")
     \/ At(k, "tell") /\ Goto(k, "tellPush")
  /\ children' = [children EXCEPT ![run[k].child] = IF @ = "none" THEN "placeholder" ELSE @]
  /\ Write({IndexKey("children")})
  /\ UNCHANGED <<session, messages, marks, record, runIndex, results, resultIndex, plan,
                 del, early, missing>>

PushChild(k) ==
  /\ At(k, "push") \/ At(k, "tellPush")
  /\ Pushed(run[k].child, Told(k))
  /\ run' = [run EXCEPT ![k] = IF At(k, "push") THEN [@ EXCEPT !.pc = "loop", !.pending = None]
                                ELSE Left(@)]
  /\ Write({MessagesKey(run[k].child)})
  /\ UNCHANGED <<session, marks, record, runIndex, children, results, resultIndex, plan,
                 del, early, missing>>

\* mutant: a result without an entry in the index
PersistUnlisted(r, t) ==
  /\ At(r, "loop") /\ run[r].pending = None
  /\ t \notin results \cup resultIndex \cup UNION {run[s].seen : s \in Runs}
  /\ \A x \in Contexts : t \notin messages[x]
  /\ results' = results \cup {t} /\ UNCHANGED resultIndex
  /\ run' = [run EXCEPT ![r] = [@ EXCEPT !.pending = t, !.seen = run[r].seen \cup {t}]]
  /\ Write({ResultKey(t)})
  /\ UNCHANGED <<session, messages, marks, record, runIndex, children, plan,
                 del, early, missing>>

\* persist_result: HSET and SADD in one MULTI; the result becomes a preview.
PersistResult(r, t) ==
  /\ At(r, "loop") /\ run[r].pending = None
  /\ t \notin results \cup resultIndex \cup UNION {run[s].seen : s \in Runs}
  /\ \A x \in Contexts : t \notin messages[x]
  /\ results' = results \cup {t} /\ resultIndex' = resultIndex \cup {t}
  /\ run' = [run EXCEPT ![r] = [@ EXCEPT !.pending = t, !.seen = run[r].seen \cup {t}]]
  /\ Write({ResultKey(t), IndexKey("results")})
  /\ UNCHANGED <<session, messages, marks, record, runIndex, children, plan,
                 del, early, missing>>

\* get_result, asked for by query_tool_result: SISMEMBER, then HGETALL.
Query(r, t) ==
  /\ At(r, "loop") /\ t \in run[r].seen
  /\ IF t \in resultIndex
       THEN /\ run' = [run EXCEPT ![r] = [@ EXCEPT !.pc = "ask", !.asked = t]]
            /\ UNCHANGED missing
       ELSE missing' = (missing \/ ~torn) /\ UNCHANGED run
  /\ UNCHANGED <<redis, del, late, early>>

Answer(r) ==
  /\ At(r, "ask")
  /\ missing' = (missing \/ (~torn /\ run[r].asked \notin results))
  /\ run' = [run EXCEPT ![r] = [@ EXCEPT !.pc = "loop", !.asked = None]]
  /\ UNCHANGED <<redis, del, late, early>>

\* create_task: INCR of the counter, and HSET of the task; updates of it make no
\* further key.
CountTask(r) ==
  /\ At(r, "loop") /\ plan' = TRUE
  /\ UNCHANGED <<session, messages, marks, record, runIndex, children, results, resultIndex,
                 run, del, ghosts>>

\* A Task call makes a new child, or resumes one that has messages.
Task(m, k, c) ==
  /\ At(m, "loop") /\ At(k, "idle")
  /\ \A j \in ChildRuns : run[j].child = c => ~Active(j)
  /\ messages[c] # {} \/ (children[c] = "none" /\ c \notin marks)
  /\ run' = [run EXCEPT ![k] = [@ EXCEPT !.pc = "create", !.child = c, !.parent = m]]
  /\ UNCHANGED <<redis, del, ghosts>>

-----------------------------------------------------------------------------
(* How a run ends.  A store call that raises is a run that ends early.       *)

\* persist_terminal_state: the record, and for an answer or a cancel a message.
Terminal(m) ==
  /\ At(m, "loop") /\ Kids(m) = {} /\ Goto(m, "unlock")
  /\ Updated(m)
  /\ \/ UNCHANGED messages /\ Write({RecordKey(m)})
     \/ Pushed("main", "text") /\ Write({RecordKey(m), MessagesKey("main")})
  /\ UNCHANGED <<session, marks, runIndex, children, results, resultIndex, plan,
                 del, early, missing>>

BeforeRecord(m) == run[m].pc \in {"read", "prepare", "dirty", "input", "create"}

\* An exception before the record is created: nothing is written.
Abort(m) ==
  /\ BeforeRecord(m) /\ Goto(m, "unlock")
  /\ UNCHANGED <<redis, del, ghosts>>

\* A client that leaves then: a record and a hint for a run that has no entry.
CancelledEarly(m) ==
  /\ BeforeRecord(m) /\ Goto(m, "unlock")
  /\ Updated(m) /\ Pushed("main", "text")
  /\ Write({RecordKey(m), MessagesKey("main")}) /\ early' = early \cup {RecordKey(m)}
  /\ UNCHANGED <<session, marks, runIndex, children, results, resultIndex, plan,
                 del, missing>>

InChild(k) == Active(k) /\ ~At(k, "create")

\* update_run_fields: completed, or failed.
Finish(k) ==
  /\ InChild(k) /\ Done(k)
  /\ Updated(k) /\ Write({RecordKey(k)})
  /\ UNCHANGED <<session, messages, marks, runIndex, children, results, resultIndex, plan,
                 del, early, missing>>

\* RunCancelledEvent: the record, then the hint as another message.
TellCancelled(k) ==
  /\ At(k, "loop") /\ Goto(k, "tell")
  /\ Updated(k) /\ Write({RecordKey(k)})
  /\ run[k].pending = None
  /\ UNCHANGED <<session, messages, marks, runIndex, children, results, resultIndex, plan,
                 del, early, missing>>

\* CancelledError: record and hint in one MULTI, which registers no child.
CancelledChild(k) ==
  /\ InChild(k) /\ Done(k)
  /\ Updated(k) /\ Pushed(run[k].child, "text")
  /\ Write({RecordKey(k), MessagesKey(run[k].child)})
  /\ early' = IF run[k].pc \in {"read", "prepare", "input"} /\ children[run[k].child] = "none"
              THEN early \cup {MessagesKey(run[k].child)} ELSE early
  /\ UNCHANGED <<session, marks, runIndex, children, results, resultIndex, plan,
                 del, missing>>

\* A ValueError passes the handlers.
Leave(k) ==
  /\ Active(k) /\ Done(k)
  /\ UNCHANGED <<redis, del, ghosts>>

\* The process of a run ends; its lock lapses.
Crash(m) ==
  /\ Active(m)
  /\ run' = [r \in Runs |-> IF r = m \/ r \in Kids(m) THEN Left(run[r]) ELSE run[r]]
  /\ UNCHANGED <<redis, del, ghosts>>

\* The TTL of a record runs out, whether or not its run has ended.
Lapse(r) ==
  /\ record[r].ttl
  /\ record' = [record EXCEPT ![r] = Gone]
  /\ Deleted({RecordKey(r)})
  /\ UNCHANGED <<session, messages, marks, runIndex, children, results, resultIndex, plan,
                 run, del, missing>>

-----------------------------------------------------------------------------
(* delete_session_cascade.                                                   *)

ListRuns ==
  /\ ~Deleting /\ session # "none" /\ del.calls < MaxDeletions
  /\ del' = [del EXCEPT !.pc = "children", !.calls = @ + 1, !.runs = runIndex]
  /\ UNCHANGED <<redis, run, ghosts>>

ListChildren ==
  /\ del.pc = "children"
  /\ del' = [del EXCEPT !.pc = "contexts", !.children = {c \in Children : children[c] # "none"}]
  /\ UNCHANGED <<redis, run, ghosts>>

\* mutant: the dirty flag and the summary state stay
DeleteMessages(x) ==
  /\ messages' = [messages EXCEPT ![x] = {}] /\ Deleted({MessagesKey(x)})
  /\ UNCHANGED <<session, marks, record, runIndex, children, results, resultIndex, plan, run, missing>>

\* The three keys of a context, in one DEL.
DeleteContext(x) ==
  /\ messages' = [messages EXCEPT ![x] = {}] /\ marks' = marks \ {x}
  /\ Deleted({MessagesKey(x), MarksKey(x)})
  /\ UNCHANGED <<session, record, runIndex, children, results, resultIndex, plan, run, missing>>

DeleteChildContext(c) ==
  /\ del.pc = "contexts" /\ c \in del.children
  /\ del' = [del EXCEPT !.children = @ \ {c}]
  /\ DeleteContext(c)

DeleteMainContext ==
  /\ del.pc = "contexts" /\ del.children = {}
  /\ del' = [del EXCEPT !.pc = "records"]
  /\ DeleteContext("main")

DeleteRuns ==
  /\ del.pc = "records" /\ del' = [del EXCEPT !.pc = "list", !.runs = {}]
  /\ record' = [r \in Runs |-> IF r \in del.runs /\ Exists(r) THEN Gone ELSE record[r]]
  /\ Deleted({RecordKey(r) : r \in del.runs})
  /\ UNCHANGED <<session, messages, marks, runIndex, children, results, resultIndex, plan,
                 run, missing>>

\* delete_session_results: SMEMBERS, DEL of the bodies, DEL of the index.
ListResults ==
  /\ del.pc = "list" /\ del' = [del EXCEPT !.pc = "bodies", !.results = resultIndex]
  /\ UNCHANGED <<redis, run, ghosts>>

DeleteBodies ==
  /\ del.pc = "bodies" /\ del' = [del EXCEPT !.pc = "index", !.results = {}]
  /\ results' = results \ del.results /\ Deleted({ResultKey(t) : t \in del.results})
  /\ UNCHANGED <<session, messages, marks, record, runIndex, children, resultIndex,
                 plan, run, missing>>

DeleteResultIndex ==
  /\ del.pc = "index" /\ del' = [del EXCEPT !.pc = "metadata"]
  /\ resultIndex' = {} /\ Deleted({IndexKey("results")})
  /\ UNCHANGED <<session, messages, marks, record, runIndex, children, results,
                 plan, run, missing>>

NoDeletion == [del EXCEPT !.pc = "idle", !.runs = {}, !.children = {}, !.results = {}]

DeleteMetadata ==
  /\ del.pc = "metadata" /\ del' = NoDeletion
  /\ session' = "deleted" /\ runIndex' = {} /\ children' = [c \in Children |-> "none"]
  /\ Deleted({IndexKey("runs"), IndexKey("children")})
  /\ UNCHANGED <<messages, marks, record, results, resultIndex, plan, run, missing>>

\* A command raises, or the process ends, between two steps.
Interrupt ==
  /\ Deleting /\ del' = NoDeletion
  /\ UNCHANGED <<redis, run, ghosts>>

-----------------------------------------------------------------------------

Begin(r) == ReadHistory(r) \/ PushSummary(r) \/ MarkDirty(r) \/ Prepared(r) \/ Input(r) \/ CreateRecord(r)

Master(m) ==
  \/ Request(m) \/ Enter(m) \/ Append(m) \/ Terminal(m)
  \/ Abort(m) \/ CancelledEarly(m) \/ Unlock(m) \/ Crash(m)
  \/ \E k \in ChildRuns, c \in Children : Task(m, k, c)

ChildRun(k) ==
  \/ Register(k) \/ PushChild(k) \/ Finish(k)
  \/ TellCancelled(k) \/ CancelledChild(k) \/ Leave(k)

Tools(r) == Answer(r) \/ Lapse(r) \/ CountTask(r) \/ \E t \in Results : PersistResult(r, t) \/ Query(r, t)

Delete ==
  \/ ListRuns \/ ListChildren \/ DeleteMainContext \/ DeleteRuns \/ ListResults
  \/ DeleteBodies \/ DeleteResultIndex \/ DeleteMetadata \/ Interrupt
  \/ \E c \in Children : DeleteChildContext(c)

Step ==
  \/ CreateSession \/ Delete
  \/ \E m \in Masters : Master(m)
  \/ \E k \in ChildRuns : ChildRun(k)
  \/ \E r \in Runs : Begin(r) \/ Tools(r)

Overlap == Deleting /\ \E r \in Runs : Active(r)

Next == Step /\ torn' = (torn \/ Overlap \/ Overlap')

Spec == Init /\ [][Next]_vars

-----------------------------------------------------------------------------
(* Properties.                                                               *)

Keys ==
  {MessagesKey(x) : x \in {y \in Contexts : messages[y] # {}}}
  \cup {MarksKey(x) : x \in marks}
  \cup {RecordKey(r) : r \in {q \in Runs : Exists(q)}}
  \cup {ResultKey(t) : t \in results}
  \cup (IF runIndex = {} THEN {} ELSE {IndexKey("runs")})
  \cup (IF \A c \in Children : children[c] = "none" THEN {} ELSE {IndexKey("children")})
  \cup (IF resultIndex = {} THEN {} ELSE {IndexKey("results")})
  \cup (IF plan THEN PlanKeys ELSE {})

\* The keys that a deletion cannot know: no index leads to them.
Unlisted ==
  {RecordKey(r) : r \in Runs \ runIndex} \cup {ResultKey(t) : t \in Results \ resultIndex}
  \cup UNION {{MessagesKey(c), MarksKey(c)} : c \in {d \in Children : children[d] = "none"}}

\* Every key of the session can be found by a deletion, also by one that comes
\* after an interrupted one, but for those that were written while a deletion
\* went on or after it, and those of runs cancelled before their entry.
OrphansAreLate == Keys \cap Unlisted \subseteq late \cup early

\* delete_session_cascade promises the deletion of all known keys of the session
\* ('全部已知相关 key'), and keeps it but for the counter and the tasks of the plan:
\* these it never deletes and no TTL ends them.  When the hash of the session is
\* gone, so is all the rest that was not late or early.
NothingOutlivesSession ==
  session = "deleted" => Keys \subseteq late \cup early \cup PlanKeys

\* A whole record lapses.  One that does not is only the terminal fields, which
\* get_run cannot read, and comes to be only where a record had lapsed or been
\* deleted under its run, or for a run cancelled before it had one.
RecordsLapse ==
  \A r \in Runs : Exists(r)' /\ ~record'[r].ttl =>
    /\ record'[r].fields = "partial"
    /\ record'[r] = record[r] \/ record[r].fields = "gone" \/ RecordKey(r) \in early'

LastingRecordsAreRemains == [][RecordsLapse]_vars

\* Unless a deletion has met a run, what a message refers to can be queried: a
\* preview names a result that is stored and listed, and every query of a result
\* that a run has read of, or was given, finds it.
PreviewsResolve ==
  /\ ~missing
  /\ ~torn => \A x \in Contexts : messages[x] \ {"text"} \subseteq results \cap resultIndex
=============================================================================
