------------------------- MODULE SessionStoreProofs -------------------------
(***************************************************************************)
(* What is proved of SessionStore for every number of runs, children,      *)
(* results and deletions.                                                  *)
(***************************************************************************)
EXTENDS SessionStore, TLAPS

(* Keys and runs. *)

\* The places of a child run whose record is created, and those of a master.
ChildPcs == {"read", "prepare", "summarize", "dirty", "mark", "input",
             "loop", "ask", "push", "tell", "tellPush"}
MasterPcs == {"idle", "checked", "read", "prepare", "dirty", "input", "create", "loop",
              "ask", "unlock", "done"}

Places ==
  /\ \A m \in Masters : run[m].pc \in MasterPcs
  /\ \A k \in ChildRuns : /\ run[k].pc \in {"idle", "create", "done"} \cup ChildPcs
                          /\ Active(k) => run[k].child \in Children

Typed == TypeOK /\ Places

\* A run is a master or a child run, not both.
LEMMA RunKinds == Runs = Masters \cup ChildRuns /\ Masters \cap ChildRuns = {}
BY NamesAssumption DEF Runs

\* The keys of the module are in the keyspace.
LEMMA KeyTypes ==
  /\ \A x \in Contexts : MessagesKey(x) \in Keyspace /\ MarksKey(x) \in Keyspace
  /\ \A r \in Runs : RecordKey(r) \in Keyspace
  /\ \A t \in Results : ResultKey(t) \in Keyspace
  /\ \A i \in {"runs", "children", "results"} : IndexKey(i) \in Keyspace
BY DEF Keyspace

\* Keys of different things differ.
LEMMA KeysDiffer ==
  /\ \A x, y : /\ MessagesKey(x) = MessagesKey(y) => x = y
               /\ MarksKey(x) = MarksKey(y) => x = y
               /\ RecordKey(x) = RecordKey(y) => x = y
               /\ ResultKey(x) = ResultKey(y) => x = y
               /\ IndexKey(x) = IndexKey(y) => x = y
  /\ \A x, y : /\ MessagesKey(x) \notin {MarksKey(y), RecordKey(y), ResultKey(y), IndexKey(y)}
               /\ MarksKey(x) \notin {RecordKey(y), ResultKey(y), IndexKey(y)}
               /\ RecordKey(x) \notin {ResultKey(y), IndexKey(y)}
               /\ ResultKey(x) # IndexKey(y)
  /\ \A x : {MessagesKey(x), MarksKey(x), RecordKey(x), ResultKey(x), IndexKey(x)} \cap PlanKeys = {}
BY DEF MessagesKey, MarksKey, RecordKey, ResultKey, IndexKey, PlanKeys

\* A run that touches its context has one.
LEMMA ContextType ==
  ASSUME Typed, NEW r \in Runs, Active(r)
  PROVE  Context(r) \in Contexts
BY RunKinds DEF Typed, Places, Context, Contexts

\* A step of r alone, to one of the places pcs, in the same context.
Moves(r, pcs) ==
  /\ run' \in [Runs -> Frame]
  /\ run'[r].pc \in pcs /\ run'[r].child = run[r].child
  /\ \A q \in Runs : q # r => run'[q] = run[q]

\* Goto moves a run to its place.
LEMMA Goes ==
  ASSUME run \in [Runs -> Frame], NEW r \in Runs, NEW pc \in Pcs, Goto(r, pc)
  PROVE  Moves(r, {pc})
BY DEF Goto, Frame, Moves

\* Done ends a run.
LEMMA Ends ==
  ASSUME run \in [Runs -> Frame], NEW r \in Runs, Done(r)
  PROVE  Moves(r, {"done"})
BY DEF Done, Left, Frame, Pcs, Moves

\* A new frame in the same context moves its run to the place of the frame.
LEMMA Reframes ==
  ASSUME run \in [Runs -> Frame], NEW r \in Runs, NEW f \in Frame, f.child = run[r].child,
         run' = [run EXCEPT ![r] = f]
  PROVE  Moves(r, {f.pc})
BY DEF Moves

\* A run reads its history: a context that holds nothing has nothing to prepare.
LEMMA Reads ==
  ASSUME Typed, NEW r \in Runs, ReadHistory(r)
  PROVE  /\ Moves(r, {"prepare", "input"})
         /\ messages[Context(r)] = {} => run'[r].pc = "input"
<1> DEFINE named == messages[Context(r)] \ {"text"}
<1>1. named \in SUBSET Results
  BY ContextType DEF ReadHistory, At, Active, Messages, Typed, TypeOK
<1>2. run \in [Runs -> Frame]
  BY DEF Typed, TypeOK
<1>3. PICK pc \in {"input", "prepare"} :
        /\ run' = [run EXCEPT ![r] = [@ EXCEPT !.pc = pc, !.seen = named]]
        /\ messages[Context(r)] = {} => pc = "input"
  BY DEF ReadHistory
<1> DEFINE f == [run[r] EXCEPT !.pc = pc, !.seen = named]
<1>4. f \in Frame /\ f.pc = pc /\ f.child = run[r].child
  BY <1>1, <1>2 DEF Frame, Pcs
<1>5. Moves(r, {pc})
  BY <1>2, <1>3, <1>4, Reframes
<1>6. QED  BY <1>3, <1>5 DEF Moves

\* A message that is written leaves the run in the loop.
LEMMA Appends ==
  ASSUME run \in [Runs -> Frame], NEW m \in Masters, Append(m)
  PROVE  Moves(m, {"loop"})
<1>1. m \in Runs  BY RunKinds
<1>2. run' = [run EXCEPT ![m].pending = None] /\ run[m].pc = "loop"
  BY DEF Append, At
<1>3. QED  BY <1>1, <1>2 DEF Frame, Moves

\* A result that is stored leaves the run in the loop.
LEMMA Persists ==
  ASSUME run \in [Runs -> Frame], NEW r \in Runs, NEW t \in Results, PersistResult(r, t)
  PROVE  Moves(r, {"loop"})
<1> DEFINE f == [run[r] EXCEPT !.pending = t, !.seen = run[r].seen \cup {t}]
<1>1. run' = [run EXCEPT ![r] = f] /\ run[r].pc = "loop"
  BY DEF PersistResult, At
<1>2. f \in Frame /\ f.pc = "loop" /\ f.child = run[r].child
  BY <1>1 DEF Frame
<1>3. QED  BY <1>1, <1>2, Reframes

\* A query waits for its answer, or stays in the loop without one.
LEMMA Queries ==
  ASSUME run \in [Runs -> Frame], NEW r \in Runs, NEW t \in Results, Query(r, t)
  PROVE  Moves(r, {"ask", "loop"})
<1>1. CASE t \in resultIndex
  <2> DEFINE f == [run[r] EXCEPT !.pc = "ask", !.asked = t]
  <2>1. run' = [run EXCEPT ![r] = f]
    BY <1>1 DEF Query
  <2>2. f \in Frame /\ f.pc = "ask" /\ f.child = run[r].child
    BY DEF Frame, Pcs
  <2>3. QED  BY <2>1, <2>2, Reframes DEF Moves
<1>2. CASE t \notin resultIndex
  BY <1>2 DEF Query, At, Moves
<1>3. QED  BY <1>1, <1>2

\* An answer leads back into the loop.
LEMMA Answers ==
  ASSUME run \in [Runs -> Frame], NEW r \in Runs, Answer(r)
  PROVE  Moves(r, {"loop"})
<1> DEFINE f == [run[r] EXCEPT !.pc = "loop", !.asked = None]
<1>1. run' = [run EXCEPT ![r] = f]
  BY DEF Answer
<1>2. f \in Frame /\ f.pc = "loop" /\ f.child = run[r].child
  BY DEF Frame, Pcs
<1>3. QED  BY <1>1, <1>2, Reframes

\* A Task call places an idle child run before its record.
LEMMA Calls ==
  ASSUME run \in [Runs -> Frame], NEW m \in Masters, NEW k \in ChildRuns, NEW c \in Children,
         Task(m, k, c)
  PROVE  /\ run' \in [Runs -> Frame]
         /\ run'[k].pc = "create" /\ run'[k].child = c
         /\ \A q \in Runs : q # k => run'[q] = run[q]
<1> DEFINE f == [run[k] EXCEPT !.pc = "create", !.child = c, !.parent = m]
<1>1. run' = [run EXCEPT ![k] = f] /\ k \in Runs
  BY RunKinds DEF Task
<1>2. f \in Frame /\ f.pc = "create" /\ f.child = c
  BY <1>1 DEF Frame, Pcs
<1>3. QED  BY <1>1, <1>2

\* A pushed message leads back into the loop, or is the last of its run.
LEMMA PushesChild ==
  ASSUME run \in [Runs -> Frame], NEW k \in ChildRuns, PushChild(k)
  PROVE  Moves(k, {"loop", "done"})
<1> DEFINE f == [run[k] EXCEPT !.pc = "loop", !.pending = None]
<1>1. k \in Runs  BY RunKinds
<1>2. f \in Frame /\ f.pc = "loop" /\ f.child = run[k].child
  BY <1>1 DEF Frame, Pcs
<1>3. Left(run[k]) \in Frame /\ Left(run[k]).pc = "done" /\ Left(run[k]).child = run[k].child
  BY <1>1 DEF Left, Frame, Pcs
<1>4. run' = [run EXCEPT ![k] = f] \/ run' = [run EXCEPT ![k] = Left(run[k])]
  BY DEF PushChild
<1>5. QED  BY <1>1, <1>2, <1>3, <1>4, Reframes DEF Moves

\* A run whose process ends is done; the others stay where they are.
LEMMA Crashes ==
  ASSUME run \in [Runs -> Frame], NEW m \in Masters, Crash(m)
  PROVE  /\ run' \in [Runs -> Frame]
         /\ \A q \in Runs : run'[q].child = run[q].child /\ run'[q].pc \in {run[q].pc, "done"}
<1>1. \A f \in Frame : Left(f) \in Frame /\ Left(f).pc = "done" /\ Left(f).child = f.child
  BY DEF Left, Frame, Pcs
<1>2. QED  BY <1>1 DEF Crash

(* Every step keeps the types. *)

\* A run that moves to one of its places keeps to them.
LEMMA MovesPlaces ==
  ASSUME Typed, NEW r \in Runs, NEW pcs, Moves(r, pcs),
         r \in Masters => pcs \subseteq MasterPcs,
         r \in ChildRuns => /\ pcs \subseteq {"idle", "create", "done"} \cup ChildPcs
                            /\ Active(r) \/ pcs \subseteq {"idle", "done"}
  PROVE  Places'
<1>1. \A m \in Masters : run'[m].pc \in MasterPcs
  BY RunKinds DEF Typed, Places, Moves
<1>2. ASSUME NEW k \in ChildRuns
      PROVE  /\ run'[k].pc \in {"idle", "create", "done"} \cup ChildPcs
             /\ Active(k)' => run'[k].child \in Children
  BY RunKinds DEF Typed, Places, Moves, Active
<1>3. QED  BY <1>1, <1>2 DEF Places

\* The start of a run keeps the types.
LEMMA BeginTyped ==
  ASSUME Typed, NEW r \in Runs, Begin(r), torn' \in BOOLEAN
  PROVE  Typed'
<1> DEFINE x == Context(r)
<1>1. CASE ReadHistory(r)
  <2>1. Moves(r, {"prepare", "input"}) /\ Active(r) /\ UNCHANGED <<redis, del, ghosts>>
    BY <1>1, Reads DEF ReadHistory, At, Active
  <2>2. Places'
    BY <2>1, MovesPlaces, RunKinds DEF MasterPcs, ChildPcs
  <2>3. QED  BY <2>1, <2>2 DEF Typed, TypeOK, Moves, redis, ghosts
<1>2. CASE PushSummary(r) \/ MarkDirty(r) \/ Prepared(r)
  <2>1. Moves(r, {"dirty"}) \/ Moves(r, {"input"})
    BY <1>2, Goes DEF PushSummary, MarkDirty, Prepared, Typed, TypeOK, Pcs
  <2>2. Active(r) /\ x \in Contexts
    BY <1>2, ContextType DEF PushSummary, MarkDirty, Prepared, At, Active, Unmarked
  <2>3. Places'
    BY <2>1, <2>2, MovesPlaces, RunKinds DEF MasterPcs, ChildPcs
  <2>4. run' \in [Runs -> Frame]
    BY <2>1 DEF Moves
  <2>5. QED
    BY <1>2, <2>2, <2>3, <2>4, KeyTypes
    DEF PushSummary, MarkDirty, Prepared, Typed, TypeOK, Pushed, Messages, Write, redis, ghosts
<1>3. CASE Input(r)
  <2>1. Moves(r, {AfterInput(r)}) /\ AfterInput(r) \in {"create", "loop"}
    BY <1>3, Goes DEF Input, Typed, TypeOK, Pcs, AfterInput
  <2>2. Active(r) /\ x \in Contexts
    BY <1>3, ContextType DEF Input, At, Active
  <2>3. Places'
    BY <2>1, <2>2, MovesPlaces, RunKinds DEF MasterPcs, ChildPcs
  <2>4. run' \in [Runs -> Frame]
    BY <2>1 DEF Moves
  <2>5. QED
    BY <1>3, <2>2, <2>3, <2>4, KeyTypes
    DEF Input, Typed, TypeOK, Pushed, Messages, Write
<1>4. CASE CreateRecord(r)
  <2>1. Moves(r, {AfterCreate(r)}) /\ AfterCreate(r) \in {"loop", "read"}
    BY <1>4, Goes DEF CreateRecord, Typed, TypeOK, Pcs, AfterCreate
  <2>2. Places'
    BY <1>4, <2>1, MovesPlaces, RunKinds DEF MasterPcs, ChildPcs, CreateRecord, At, Active
  <2>3. run' \in [Runs -> Frame]
    BY <2>1 DEF Moves
  <2>4. QED
    BY <1>4, <2>2, <2>3, KeyTypes
    DEF CreateRecord, Typed, TypeOK, Write
<1>5. QED  BY <1>1, <1>2, <1>3, <1>4 DEF Begin

Records == [Runs -> [fields : {"none", "gone", "partial", "whole"}, ttl : BOOLEAN]]

\* The terminal fields: a record that is there stays what it is, one that is not
\* becomes a partial one.
LEMMA Updates ==
  ASSUME record \in Records, NEW r \in Runs, Updated(r)
  PROVE  /\ record' \in Records
         /\ \A q \in Runs : q # r => record'[q] = record[q]
         /\ Exists(r) => record'[r] = record[r]
         /\ ~Exists(r) => record'[r] = [record[r] EXCEPT !.fields = "partial"]
<1>1. CASE Exists(r)
  <2>1. record' = [record EXCEPT ![r].fields = record[r].fields]
    BY <1>1 DEF Updated
  <2>2. QED  BY <1>1, <2>1 DEF Records
<1>2. CASE ~Exists(r)
  <2>1. record' = [record EXCEPT ![r].fields = "partial"]
    BY <1>2 DEF Updated
  <2>2. QED  BY <1>2, <2>1 DEF Records
<1>3. QED  BY <1>1, <1>2

\* The steps of a master keep the types.
LEMMA MasterTyped ==
  ASSUME Typed, NEW m \in Masters, Master(m), torn' \in BOOLEAN
  PROVE  Typed'
<1> USE DEF Typed
<1> m \in Runs /\ m \notin ChildRuns  BY RunKinds
<1>0. run \in [Runs -> Frame] /\ record \in Records /\ "main" \in Contexts
  BY DEF TypeOK, Records, Contexts
<1>1. CASE Request(m) \/ Enter(m) \/ Unlock(m) \/ Abort(m)
  <2>1. Moves(m, {"checked", "done", "read", "unlock"})
    <3>1. \/ Goto(m, "checked") \/ Goto(m, "done") \/ Goto(m, "read") \/ Done(m)
          \/ Goto(m, "unlock")
      BY <1>1 DEF Request, Enter, Unlock, Abort
    <3>2. QED  BY <1>0, <3>1, Goes, Ends DEF Moves, Pcs
  <2>2. Places'
    BY <2>1, MovesPlaces DEF MasterPcs
  <2>3. QED
    BY <1>1, <2>1, <2>2 DEF Request, Enter, Unlock, Abort, TypeOK, Moves, redis, ghosts
<1>2. CASE Append(m)
  <2>1. Moves(m, {"loop"})
    BY <1>0, <1>2, Appends
  <2>2. Places'
    BY <2>1, MovesPlaces DEF MasterPcs
  <2>3. Told(m) \in Messages
    BY <1>0 DEF Told, Messages, Frame
  <2>4. messages' \in [Contexts -> SUBSET Messages]
    BY <1>0, <1>2, <2>3 DEF Append, Pushed, TypeOK
  <2>5. QED
    BY <1>0, <1>2, <2>1, <2>2, <2>4, KeyTypes DEF Append, TypeOK, Moves, Write
<1>3. CASE Terminal(m) \/ CancelledEarly(m)
  <2>1. Moves(m, {"unlock"}) /\ Updated(m)
    BY <1>0, <1>3, Goes DEF Terminal, CancelledEarly, Pcs
  <2>2. Places'
    BY <2>1, MovesPlaces DEF MasterPcs
  <2>3. record' \in Records
    BY <1>0, <2>1, Updates
  <2>4. messages' \in [Contexts -> SUBSET Messages]
    BY <1>0, <1>3 DEF Terminal, CancelledEarly, Pushed, Messages, TypeOK
  <2>5. late' \subseteq Keyspace /\ early' \subseteq Keyspace
    BY <1>0, <1>3, KeyTypes DEF Terminal, CancelledEarly, TypeOK, Write
  <2>6. QED
    BY <1>3, <2>1, <2>2, <2>3, <2>4, <2>5
    DEF Terminal, CancelledEarly, TypeOK, Moves, Records
<1>4. CASE Crash(m)
  <2>1. /\ run' \in [Runs -> Frame]
        /\ \A q \in Runs : run'[q].child = run[q].child /\ run'[q].pc \in {run[q].pc, "done"}
    BY <1>0, <1>4, Crashes
  <2>2. Places'
    BY <2>1, RunKinds DEF Places, MasterPcs, Active
  <2>3. QED
    BY <1>4, <2>1, <2>2 DEF Crash, TypeOK, redis, ghosts
<1>5. ASSUME NEW k \in ChildRuns, NEW c \in Children, Task(m, k, c)
      PROVE  Typed'
  <2>1. /\ run' \in [Runs -> Frame]
        /\ run'[k].pc = "create" /\ run'[k].child = c
        /\ \A q \in Runs : q # k => run'[q] = run[q]
    BY <1>0, <1>5, Calls
  <2>2. Places'
    BY <2>1, RunKinds DEF Places, Active
  <2>3. QED
    BY <1>5, <2>1, <2>2 DEF Task, TypeOK, redis, ghosts
<1>6. QED  BY <1>1, <1>2, <1>3, <1>4, <1>5 DEF Master

\* The steps of a child run keep the types.
LEMMA ChildRunTyped ==
  ASSUME Typed, NEW k \in ChildRuns, ChildRun(k), torn' \in BOOLEAN
  PROVE  Typed'
<1> USE DEF Typed
<1> k \in Runs /\ k \notin Masters  BY RunKinds
<1>0. run \in [Runs -> Frame] /\ record \in Records
  BY DEF TypeOK, Records
<1>1. Active(k) /\ run[k].child \in Children
  BY DEF ChildRun, Register, PushChild, Finish, TellCancelled, CancelledChild, Leave,
         InChild, At, Active, Unmarked, Places
<1>2. run[k].child \in Contexts
  BY <1>1 DEF Contexts
<1>3. CASE Register(k)
  <2>1. Moves(k, {"summarize", "mark", "push", "tellPush"})
    BY <1>0, <1>3, Goes DEF Register, Pcs, Moves
  <2>2. Places'
    BY <1>1, <2>1, MovesPlaces DEF ChildPcs
  <2>3. children' \in [Children -> {"none", "placeholder", "summary"}]
    BY <1>3 DEF Register, TypeOK
  <2>4. QED
    BY <1>3, <2>1, <2>2, <2>3, KeyTypes DEF Register, TypeOK, Moves, Write
<1>4. CASE PushChild(k)
  <2>1. Moves(k, {"loop", "done"})
    BY <1>0, <1>4, PushesChild
  <2>2. Places'
    BY <1>1, <2>1, MovesPlaces DEF ChildPcs
  <2>3. Told(k) \in Messages
    BY <1>0 DEF Told, Messages, Frame
  <2>4. messages' \in [Contexts -> SUBSET Messages]
    BY <1>2, <1>4, <2>3 DEF PushChild, Pushed, TypeOK
  <2>5. QED
    BY <1>2, <1>4, <2>1, <2>2, <2>4, KeyTypes DEF PushChild, TypeOK, Moves, Write
<1>5. CASE Finish(k) \/ TellCancelled(k) \/ CancelledChild(k) \/ Leave(k)
  <2>1. Moves(k, {"tell"}) \/ Moves(k, {"done"})
    BY <1>0, <1>5, Goes, Ends DEF Finish, TellCancelled, CancelledChild, Leave, Pcs
  <2>2. Places'
    BY <1>1, <2>1, MovesPlaces DEF ChildPcs
  <2>3. record' \in Records
    BY <1>0, <1>5, Updates DEF Finish, TellCancelled, CancelledChild, Leave, redis
  <2>4. messages' \in [Contexts -> SUBSET Messages]
    BY <1>2, <1>5 DEF Finish, TellCancelled, CancelledChild, Leave, Pushed, Messages, TypeOK, redis
  <2>5. late' \subseteq Keyspace /\ early' \subseteq Keyspace
    BY <1>2, <1>5, KeyTypes
    DEF Finish, TellCancelled, CancelledChild, Leave, TypeOK, Write, ghosts
  <2>6. QED
    BY <1>5, <2>1, <2>2, <2>3, <2>4, <2>5
    DEF Finish, TellCancelled, CancelledChild, Leave, TypeOK, Moves, Records, redis, ghosts
<1>6. QED  BY <1>3, <1>4, <1>5 DEF ChildRun

\* Results, queries and TTLs keep the types.
LEMMA ToolsTyped ==
  ASSUME Typed, NEW r \in Runs, Tools(r), torn' \in BOOLEAN
  PROVE  Typed'
<1> USE DEF Typed
<1>0. run \in [Runs -> Frame]
  BY DEF TypeOK
<1>1. CASE Answer(r)
  <2>1. Moves(r, {"loop"}) /\ Active(r)
    BY <1>0, <1>1, Answers DEF Answer, At, Active
  <2>2. Places'
    BY <2>1, MovesPlaces DEF MasterPcs, ChildPcs
  <2>3. missing' \in BOOLEAN
    BY <1>1 DEF Answer
  <2>4. QED
    BY <1>1, <2>1, <2>2, <2>3 DEF Answer, TypeOK, Moves, redis
<1>2. CASE Lapse(r)
  <2>1. Places'
    BY <1>2 DEF Lapse, Places, Active
  <2>2. late' \subseteq Keyspace /\ early' \subseteq Keyspace
    BY <1>2 DEF Lapse, Deleted, TypeOK
  <2>3. QED
    BY <1>2, <2>1, <2>2 DEF Lapse, Gone, TypeOK
<1>3. ASSUME NEW t \in Results, PersistResult(r, t)
      PROVE  Typed'
  <2>1. Moves(r, {"loop"}) /\ Active(r)
    BY <1>0, <1>3, Persists DEF PersistResult, At, Active
  <2>2. Places'
    BY <2>1, MovesPlaces DEF MasterPcs, ChildPcs
  <2>3. QED
    BY <1>3, <2>1, <2>2, KeyTypes DEF PersistResult, TypeOK, Moves, Write
<1>4. ASSUME NEW t \in Results, Query(r, t)
      PROVE  Typed'
  <2>1. Moves(r, {"ask", "loop"}) /\ Active(r)
    BY <1>0, <1>4, Queries DEF Query, At, Active
  <2>2. Places'
    BY <2>1, MovesPlaces DEF MasterPcs, ChildPcs
  <2>3. missing' \in BOOLEAN
    BY <1>4 DEF Query, TypeOK
  <2>4. QED
    BY <1>4, <2>1, <2>2, <2>3 DEF Query, TypeOK, Moves, redis
<1>5. CASE CountTask(r)
  BY <1>5 DEF CountTask, TypeOK, Places, Active, ghosts
<1>6. QED  BY <1>1, <1>2, <1>3, <1>4, <1>5 DEF Tools

\* The steps of a deletion keep the types.
LEMMA DeleteTyped ==
  ASSUME Typed, Delete, torn' \in BOOLEAN
  PROVE  Typed'
<1> USE DEF Typed
<1>1. UNCHANGED run
  BY DEF Delete, ListRuns, ListChildren, DeleteChildContext, DeleteMainContext, DeleteContext,
         DeleteRuns, ListResults, DeleteBodies, DeleteResultIndex, DeleteMetadata, Interrupt
<1>2. Places'
  BY <1>1 DEF Places, Active
<1>3. del \in Deletion
  BY DEF TypeOK
<1>4. del' \in Deletion
  <2>1. CASE ListRuns
    <3>1. del.calls + 1 \in 0..MaxDeletions /\ runIndex \in SUBSET Runs
      BY <2>1, <1>3, BoundAssumption DEF ListRuns, TypeOK, Deletion
    <3>2. del' = [del EXCEPT !.pc = "children", !.calls = del.calls + 1, !.runs = runIndex]
      BY <2>1 DEF ListRuns
    <3>3. QED  BY <3>1, <3>2, <1>3 DEF Deletion, DelPcs
  <2>2. CASE ListChildren
    <3>1. {c \in Children : children[c] # "none"} \subseteq Children
      OBVIOUS
    <3>2. QED  BY <2>2, <3>1, <1>3 DEF ListChildren, Deletion, DelPcs
  <2>3. CASE DeleteMainContext \/ DeleteResultIndex
    BY <2>3, <1>3 DEF DeleteMainContext, DeleteResultIndex, Deletion, DelPcs
  <2>4. CASE DeleteRuns \/ DeleteBodies
    BY <2>4, <1>3 DEF DeleteRuns, DeleteBodies, Deletion, DelPcs
  <2>5. CASE ListResults
    BY <2>5, <1>3 DEF ListResults, TypeOK, Deletion, DelPcs
  <2>6. CASE DeleteMetadata \/ Interrupt
    <3>1. NoDeletion \in Deletion
      BY <1>3 DEF NoDeletion, Deletion, DelPcs
    <3>2. QED  BY <2>6, <3>1 DEF DeleteMetadata, Interrupt
  <2>7. CASE \E c \in Children : DeleteChildContext(c)
    BY <2>7, <1>3 DEF DeleteChildContext, Deletion
  <2>8. QED  BY <2>1, <2>2, <2>3, <2>4, <2>5, <2>6, <2>7 DEF Delete
<1>5. late' \subseteq Keyspace /\ early' \subseteq Keyspace
  BY DEF Delete, ListRuns, ListChildren, DeleteChildContext, DeleteMainContext, DeleteContext,
         DeleteRuns, ListResults, DeleteBodies, DeleteResultIndex, DeleteMetadata, Interrupt,
         Deleted, ghosts, TypeOK
<1>6. UNCHANGED missing
  BY DEF Delete, ListRuns, ListChildren, DeleteChildContext, DeleteMainContext, DeleteContext,
         DeleteRuns, ListResults, DeleteBodies, DeleteResultIndex, DeleteMetadata, Interrupt, ghosts
<1>7. CASE ListRuns \/ ListChildren \/ ListResults \/ Interrupt
  BY <1>1, <1>2, <1>4, <1>5, <1>6, <1>7
  DEF ListRuns, ListChildren, ListResults, Interrupt, redis, TypeOK
<1>8. ASSUME NEW x, DeleteContext(x)
      PROVE  Typed'
  BY <1>1, <1>2, <1>4, <1>5, <1>6, <1>8 DEF DeleteContext, TypeOK
<1>9. CASE DeleteRuns
  BY <1>1, <1>2, <1>4, <1>5, <1>6, <1>9 DEF DeleteRuns, Gone, TypeOK
<1>10. CASE DeleteBodies \/ DeleteResultIndex \/ DeleteMetadata
  BY <1>1, <1>2, <1>4, <1>5, <1>6, <1>10
  DEF DeleteBodies, DeleteResultIndex, DeleteMetadata, TypeOK
<1>11. QED
  BY <1>7, <1>8, <1>9, <1>10 DEF Delete, DeleteChildContext, DeleteMainContext

\* A session before its first step has the types.
LEMMA InitTyped == Init => Typed
<1> SUFFICES ASSUME Init PROVE Typed
  OBVIOUS
<1>1. run \in [Runs -> Frame] /\ \A r \in Runs : run[r].pc = "idle"
  BY DEF Init, Frame, Pcs
<1>2. Places
  BY <1>1, RunKinds DEF Places, MasterPcs, Active
<1>3. messages \in [Contexts -> SUBSET Messages]
  <2>1. PICK old \in SUBSET Children, hinted \in SUBSET Children, known \in SUBSET Results :
          messages = LeftBehind(old \cup hinted, known)
    BY DEF Init
  <2>2. {"text"} \cup known \in SUBSET Messages /\ {"text"} \in SUBSET Messages
    BY DEF Messages
  <2>3. QED  BY <2>1, <2>2 DEF LeftBehind
<1>4. del \in Deletion
  BY BoundAssumption DEF Init, Deletion, DelPcs
<1>5. /\ session \in {"none", "live", "deleted"} /\ marks \subseteq Contexts
      /\ runIndex \subseteq Runs /\ results \subseteq Results /\ resultIndex \subseteq Results
      /\ late \subseteq Keyspace /\ early \subseteq Keyspace /\ plan \in BOOLEAN
  <2>1. PICK hinted \in SUBSET Children :
          late = {} /\ early = {MessagesKey(c) : c \in hinted}
    BY DEF Init
  <2>2. late \subseteq Keyspace /\ early \subseteq Keyspace
    BY <2>1, KeyTypes DEF Contexts
  <2>3. QED  BY <2>2 DEF Init
<1>6. record \in [Runs -> [fields : {"none", "gone", "partial", "whole"}, ttl : BOOLEAN]]
  BY DEF Init, NoRecord
<1>7. children \in [Children -> {"none", "placeholder", "summary"}]
  BY DEF Init
<1>8. missing \in BOOLEAN /\ torn \in BOOLEAN
  BY DEF Init
<1>9. QED  BY <1>1, <1>2, <1>3, <1>4, <1>5, <1>6, <1>7, <1>8 DEF Typed, TypeOK

\* A step keeps the types: those of the runs are kept by the lemmas above.
LEMMA StepTyped ==
  ASSUME Typed, [Next]_vars
  PROVE  Typed'
<1>1. CASE UNCHANGED vars
  BY <1>1 DEF vars, redis, ghosts, Typed, TypeOK, Places, Active
<1>2. CASE Next
  <2>1. torn' \in BOOLEAN
    BY <1>2 DEF Next, Overlap, Typed, TypeOK
  <2>2. CASE CreateSession
    BY <2>1, <2>2 DEF CreateSession, Typed, TypeOK, Places, Active, ghosts
  <2>3. QED
    BY <1>2, <2>1, <2>2, BeginTyped, MasterTyped, ChildRunTyped, ToolsTyped, DeleteTyped
    DEF Next, Step
<1>3. QED  BY <1>1, <1>2

\* Every reachable state has the types: a run has a context where it uses one.
THEOREM Typing == Spec => []TypeOK
<1>1. Typed => TypeOK  BY DEF Typed
<1>2. QED  BY InitTyped, StepTyped, <1>1, PTL DEF Spec

-----------------------------------------------------------------------------
(* The inductive invariant.  While the session is not deleted, its indices   *)
(* never shrink but for the index of results, whose bodies go first; so a    *)
(* run under way stays listed, with its child, and what is not listed is     *)
(* from a run that was cancelled early.  At each stage a deletion has        *)
(* cleared all that it has passed, but for late and early keys.              *)

\* The keys that are accounted for.
Loose == late \cup early

DuringOr(stages) == session = "deleted" \/ del.pc \in stages

\* The places behind the creation of the record, and those of a child run
\* behind a registration of its child.
Recorded(r) == IF r \in Masters THEN run[r].pc \in {"loop", "ask"} ELSE run[r].pc \in ChildPcs
Opened(k) == run[k].pc \in {"summarize", "dirty", "mark", "loop", "ask", "push", "tell", "tellPush"}

ContextKeys(c) == {MessagesKey(c), MarksKey(c)}

\* A run that has a record is in the index, and its record was there once.
RunsListed ==
  \A r \in Runs : Recorded(r) => /\ session # "deleted" => r \in runIndex
                                 /\ record[r].fields # "none"

\* A child run behind a registration works on a child that is listed.
ChildListed ==
  \A k \in ChildRuns : Opened(k) /\ session # "deleted" => children[run[k].child] # "none"

\* A context that is not listed holds the hint of a child cancelled early, and
\* no more.
OrphanContexts ==
  \A c \in Children : session # "deleted" =>
    /\ messages[c] # {} => children[c] # "none" \/ MessagesKey(c) \in early
    /\ c \in marks => children[c] # "none"

OrphanRecords ==
  \A r \in Runs : session # "deleted" /\ Exists(r) => r \in runIndex \/ RecordKey(r) \in early

OrphanResults == \A t \in results : t \in resultIndex \/ ResultKey(t) \in Loose

(* How far a deletion has come: what it has read, and what it has cleared.   *)

DeletesListed == \A c \in del.children : session # "deleted" => children[c] # "none"

ContextLoose(x) == /\ messages[x] # {} => MessagesKey(x) \in Loose
                   /\ x \in marks => MarksKey(x) \in Loose

ContextsCleared ==
  /\ del.pc = "contexts" => \A c \in Children \ del.children : ContextLoose(c)
  /\ DuringOr({"records", "list", "bodies", "index", "metadata"}) =>
       \A x \in Contexts : ContextLoose(x)

RecordsCleared ==
  /\ del.pc \in {"children", "contexts", "records"} =>
       \A r \in Runs \ del.runs : Exists(r) => RecordKey(r) \in Loose
  /\ DuringOr({"list", "bodies", "index", "metadata"}) =>
       \A r \in Runs : Exists(r) => RecordKey(r) \in Loose

ResultsCleared ==
  /\ del.pc = "bodies" => \A t \in results \ del.results : ResultKey(t) \in Loose
  /\ DuringOr({"index", "metadata"}) => \A t \in results : ResultKey(t) \in Loose
  /\ DuringOr({"metadata"}) /\ resultIndex # {} => IndexKey("results") \in Loose

IndicesCleared ==
  session = "deleted" =>
    /\ runIndex # {} => IndexKey("runs") \in Loose
    /\ (\E c \in Children : children[c] # "none") => IndexKey("children") \in Loose

RunInv == RunsListed /\ ChildListed
OrphanInv == OrphanContexts /\ OrphanRecords /\ OrphanResults
DeletionInv == DeletesListed /\ ContextsCleared /\ RecordsCleared /\ ResultsCleared /\ IndicesCleared

IInv == Typed /\ RunInv /\ OrphanInv /\ DeletionInv

(* A step of a run writes the keys it names, and only adds to the indices.   *)

Grows(keys) ==
  /\ Write(keys) /\ UNCHANGED <<session, del>> /\ early \subseteq early'
  /\ runIndex \subseteq runIndex' /\ resultIndex \subseteq resultIndex'
  /\ \A c \in Children : children[c] # "none" => children'[c] # "none"
  /\ \A x \in Contexts : /\ messages'[x] # {} => messages[x] # {} \/ MessagesKey(x) \in keys
                         /\ x \in marks' => x \in marks \/ MarksKey(x) \in keys
  /\ \A r \in Runs : /\ Exists(r)' => Exists(r) \/ RecordKey(r) \in keys
                     /\ record[r].fields # "none" => record'[r].fields # "none"
  /\ \A t \in results' : t \in results \/ ResultKey(t) \in keys
  /\ runIndex' = runIndex \/ IndexKey("runs") \in keys
  /\ resultIndex' = resultIndex \/ IndexKey("results") \in keys
  /\ children' = children \/ IndexKey("children") \in keys

\* A step of a run excuses no key less, and each key it writes in a deletion.
LEMMA GrowsLoose ==
  ASSUME NEW keys, Grows(keys)
  PROVE  /\ Loose \subseteq Loose' /\ (Deleting \/ session # "live" => keys \subseteq Loose')
         /\ \A stages : DuringOr(stages)' = DuringOr(stages)
BY DEF Grows, Write, Loose, DuringOr

\* So it keeps what a deletion has cleared: what it adds is late.
LEMMA DeletionKept ==
  ASSUME Typed, DeletionInv, NEW keys, Grows(keys)
  PROVE  DeletionInv'
<1>1. /\ Loose \subseteq Loose'
      /\ Deleting \/ session # "live" => keys \subseteq Loose'
      /\ UNCHANGED <<session, del>>
  BY GrowsLoose DEF Grows
<1>2. ASSUME NEW x \in Contexts, ContextLoose(x), Deleting \/ session # "live"
      PROVE  ContextLoose(x)'
  BY <1>1, <1>2 DEF Grows, ContextLoose
<1>3. ASSUME NEW r \in Runs, Exists(r) => RecordKey(r) \in Loose, Deleting \/ session # "live"
      PROVE  Exists(r)' => RecordKey(r) \in Loose'
  BY <1>1, <1>3 DEF Grows
<1>4. ASSUME NEW t \in results', t \in results => ResultKey(t) \in Loose,
             Deleting \/ session # "live"
      PROVE  ResultKey(t) \in Loose'
  BY <1>1, <1>4 DEF Grows
<1>5. DeletesListed'
  BY <1>1 DEF DeletionInv, DeletesListed, Typed, TypeOK, Deletion, Grows
<1>6. ContextsCleared'
  BY <1>1, <1>2 DEF DeletionInv, ContextsCleared, DuringOr, Deleting, Contexts
<1>7. RecordsCleared'
  BY <1>1, <1>3 DEF DeletionInv, RecordsCleared, DuringOr, Deleting
<1>8. ResultsCleared'
  <2>1. resultIndex' # {} /\ DuringOr({"metadata"}) => IndexKey("results") \in Loose'
    BY <1>1 DEF DeletionInv, ResultsCleared, DuringOr, Deleting, Grows
  <2>2. QED
    BY <1>1, <1>4, <2>1 DEF DeletionInv, ResultsCleared, DuringOr, Deleting
<1>9. IndicesCleared'
  BY <1>1 DEF DeletionInv, IndicesCleared, Grows
<1>10. QED  BY <1>5, <1>6, <1>7, <1>8, <1>9 DEF DeletionInv

\* A key without an entry is excused when the step writes it, or was before.
LEMMA OrphansKept ==
  ASSUME OrphanInv, NEW keys, Grows(keys),
         \A c \in Children :
           /\ MessagesKey(c) \in keys =>
                session = "deleted" \/ children'[c] # "none" \/ MessagesKey(c) \in early'
           /\ MarksKey(c) \in keys => session = "deleted" \/ children'[c] # "none",
         \A r \in Runs : RecordKey(r) \in keys =>
           session = "deleted" \/ r \in runIndex' \/ RecordKey(r) \in early',
         \A t \in results' : t \in results \/ t \in resultIndex'
  PROVE  OrphanInv'
<1>1. /\ Loose \subseteq Loose' /\ early \subseteq early' /\ session' = session
      /\ runIndex \subseteq runIndex' /\ resultIndex \subseteq resultIndex'
  BY GrowsLoose DEF Grows
<1>2. OrphanContexts'
  BY <1>1 DEF OrphanInv, OrphanContexts, Grows, Contexts
<1>3. OrphanRecords'
  BY <1>1 DEF OrphanInv, OrphanRecords, Grows
<1>4. OrphanResults'
  BY <1>1 DEF OrphanInv, OrphanResults
<1>5. QED  BY <1>2, <1>3, <1>4 DEF OrphanInv

\* What holds of the runs that do not move goes on to hold of them.
LEMMA RunsKept ==
  ASSUME RunInv, NEW keys, Grows(keys), NEW r \in Runs, NEW pcs, Moves(r, pcs),
         Recorded(r)' => /\ session # "deleted" => r \in runIndex'
                         /\ record'[r].fields # "none",
         r \in ChildRuns /\ session # "deleted" /\ Opened(r)' => children'[run[r].child] # "none",
         \A k \in ChildRuns : run[k].pc \notin {"idle", "done"} => run[k].child \in Children
  PROVE  RunInv'
<1>1. RunsListed'
  <2>1. ASSUME NEW q \in Runs, q # r, Recorded(q)'
        PROVE  Recorded(q)
    BY <2>1 DEF Moves, Recorded
  <2>2. QED  BY <2>1 DEF RunInv, RunsListed, Grows
<1>2. ASSUME NEW k \in ChildRuns, k # r
      PROVE  run'[k] = run[k]
  BY <1>2, RunKinds DEF Moves
<1>3. run'[r].child = run[r].child
  BY DEF Moves
<1>4. ChildListed'
  BY <1>2, <1>3 DEF RunInv, ChildListed, Grows, Opened
<1>5. QED  BY <1>1, <1>4 DEF RunInv

\* A child run under way has a child.
LEMMA HasChild ==
  ASSUME Typed, NEW k \in ChildRuns, run[k].pc \notin {"idle", "done"}
  PROVE  run[k].child \in Children
BY DEF Typed, Places, Active

\* A step that changes no key.
LEMMA Still ==
  ASSUME UNCHANGED <<redis, del, late, early>>
  PROVE  Grows({})
BY DEF redis, Grows, Write, Exists

\* What a step of one run has to show.
LEMMA RunStep ==
  ASSUME IInv, Typed', NEW keys, Grows(keys), NEW r \in Runs, NEW pcs, Moves(r, pcs),
         Recorded(r)' => /\ session # "deleted" => r \in runIndex'
                         /\ record'[r].fields # "none",
         r \in ChildRuns /\ session # "deleted" /\ Opened(r)' => children'[run[r].child] # "none",
         \A c \in Children :
           /\ MessagesKey(c) \in keys =>
                session = "deleted" \/ children'[c] # "none" \/ MessagesKey(c) \in early'
           /\ MarksKey(c) \in keys => session = "deleted" \/ children'[c] # "none",
         \A q \in Runs : RecordKey(q) \in keys =>
           session = "deleted" \/ q \in runIndex' \/ RecordKey(q) \in early',
         \A t \in results' : t \in results \/ t \in resultIndex'
  PROVE  IInv'
<1>1. RunInv'
  BY RunsKept, HasChild DEF IInv
<1>2. OrphanInv'
  BY OrphansKept DEF IInv
<1>3. DeletionInv'
  BY DeletionKept DEF IInv
<1>4. QED  BY <1>1, <1>2, <1>3 DEF IInv

\* A step that changes no key and stays on the same side of record and registration.
LEMMA StillStep ==
  ASSUME IInv, Typed', UNCHANGED <<redis, del, late, early>>, NEW r \in Runs, NEW pcs,
         Moves(r, pcs), Recorded(r)' => Recorded(r),
         r \in ChildRuns => (Opened(r)' => Opened(r))
  PROVE  IInv'
<1>1. Grows({})
  BY Still
<1>2. UNCHANGED <<session, runIndex, record, children, results, resultIndex, early>>
  BY DEF redis
<1>3. Recorded(r)' => /\ session # "deleted" => r \in runIndex'
                      /\ record'[r].fields # "none"
  BY <1>2 DEF IInv, RunInv, RunsListed
<1>4. r \in ChildRuns /\ session # "deleted" /\ Opened(r)' => children'[run[r].child] # "none"
  BY <1>2 DEF IInv, RunInv, ChildListed
<1>5. QED  BY <1>1, <1>2, <1>3, <1>4, RunStep

\* The start of a run: what it writes into the context of a child is listed.
LEMMA BeginKeeps ==
  ASSUME IInv, NEW r \in Runs, Begin(r), torn' \in BOOLEAN
  PROVE  IInv'
<1>1. Typed /\ Typed'
  BY BeginTyped DEF IInv
<1>2. /\ run \in [Runs -> Frame] /\ record \in Records
      /\ r \in Masters <=> r \notin ChildRuns
  BY <1>1, RunKinds DEF Typed, TypeOK, Records
<1>3. Active(r)
  BY DEF Begin, ReadHistory, PushSummary, MarkDirty, Prepared, Input, CreateRecord, At, Active, Unmarked
<1>4. Context(r) \in Contexts /\ (r \in ChildRuns => run[r].child \in Children)
  BY <1>1, <1>3, ContextType, HasChild DEF Active
<1>5. CASE ReadHistory(r)
  <2>1. Moves(r, {"prepare", "input"}) /\ (messages[Context(r)] = {} => run'[r].pc = "input")
    BY <1>1, <1>5, Reads
  <2>2. Grows({}) /\ UNCHANGED <<session, children, runIndex, record, results, early>>
    BY <1>5, Still DEF ReadHistory, ghosts, redis
  <2>3. Recorded(r)' => Recorded(r)
    BY <1>2, <1>5, <2>1 DEF ReadHistory, At, Recorded, ChildPcs, Moves
  <2>4. Recorded(r)' => /\ session # "deleted" => r \in runIndex'
                        /\ record'[r].fields # "none"
    BY <2>2, <2>3 DEF IInv, RunInv, RunsListed
  <2>5. ~Opened(r)'
    BY <2>1 DEF Opened, Moves
  <2>6. QED  BY <1>1, <2>1, <2>2, <2>4, <2>5, RunStep
<1>6. CASE PushSummary(r) \/ MarkDirty(r) \/ Prepared(r)
  <2>1. /\ Moves(r, {"dirty", "input"})
        /\ run[r].pc \in {"prepare", "summarize", "dirty", "mark"}
    BY <1>2, <1>6, Goes
    DEF PushSummary, MarkDirty, Prepared, Pcs, Moves, At, Unmarked
  <2>2. UNCHANGED <<session, del, record, runIndex, children, results, resultIndex, early>>
    BY <1>6 DEF PushSummary, MarkDirty, Prepared, ghosts, redis
  <2>3. PICK keys : /\ Grows(keys) /\ keys \subseteq ContextKeys(Context(r))
                    /\ Prepared(r) => keys = {}
    <3>1. CASE PushSummary(r)
      <4>1. Write(ContextKeys(Context(r)))
        BY <3>1 DEF PushSummary, ContextKeys
      <4>2. /\ \A x \in Contexts : messages'[x] # {} => messages[x] # {} \/ x = Context(r)
            /\ marks' = marks \cup {Context(r)}
        BY <1>1, <3>1 DEF PushSummary, Pushed, Typed, TypeOK
      <4>3. Grows(ContextKeys(Context(r)))
        BY <2>2, <4>1, <4>2 DEF Grows, ContextKeys, Exists
      <4>4. ~Prepared(r)
        BY <2>1, <3>1, <1>2 DEF PushSummary, Prepared, Goto, Frame
      <4>5. QED  BY <4>3, <4>4
    <3>2. CASE MarkDirty(r) /\ ~Prepared(r)
      <4>1. /\ Write({MarksKey(Context(r))}) /\ UNCHANGED messages
            /\ marks' = marks \cup {Context(r)}
        BY <3>2 DEF MarkDirty
      <4>2. Grows({MarksKey(Context(r))})
        BY <2>2, <4>1 DEF Grows, Exists
      <4>3. {MarksKey(Context(r))} \subseteq ContextKeys(Context(r))
        BY DEF ContextKeys
      <4>4. QED  BY <3>2, <4>2, <4>3
    <3>3. CASE Prepared(r)
      BY <3>3, Still DEF Prepared, ghosts
    <3>4. QED  BY <1>6, <3>1, <3>2, <3>3
  <2>4. Recorded(r)' => Recorded(r)
    BY <1>2, <2>1 DEF Recorded, ChildPcs, Moves
  <2>5. r \in ChildRuns /\ session # "deleted" /\ ~Prepared(r) => children'[run[r].child] # "none"
    <3>1. r \in ChildRuns /\ ~Prepared(r) => Opened(r)
      BY <1>2, <1>6 DEF PushSummary, MarkDirty, At, Opened
    <3>2. QED  BY <2>2, <3>1 DEF IInv, RunInv, ChildListed
  <2>6. \A c \in Children : MessagesKey(c) \in keys \/ MarksKey(c) \in keys =>
          r \in ChildRuns /\ c = run[r].child
    BY <1>2, <2>3, KeysDiffer, NamesAssumption DEF ContextKeys, Context
  <2>7. \A q \in Runs : RecordKey(q) \notin keys
    BY <2>3, KeysDiffer DEF ContextKeys
  <2>8. r \in ChildRuns /\ session # "deleted" /\ Opened(r)' => children'[run[r].child] # "none"
    <3>1. Prepared(r) => ~Opened(r)'
      BY <1>2, Goes DEF Prepared, Opened, Moves, Pcs
    <3>2. QED  BY <2>5, <3>1
  <2>9. Recorded(r)' => /\ session # "deleted" => r \in runIndex'
                        /\ record'[r].fields # "none"
    BY <2>2, <2>4 DEF IInv, RunInv, RunsListed
  <2>10. QED  BY <1>1, <2>1, <2>2, <2>3, <2>5, <2>6, <2>7, <2>8, <2>9, RunStep
<1>7. CASE Input(r)
  <2> DEFINE keys == {MessagesKey(Context(r))} \cup
                     IF r \in Masters THEN {} ELSE {IndexKey("children")}
  <2>1. Moves(r, {"create", "loop"}) /\ (r \in Masters => Moves(r, {"create"}))
    BY <1>2, <1>7, Goes DEF Input, AfterInput, Pcs, Moves
  <2>2. UNCHANGED <<session, del, marks, record, runIndex, results, resultIndex, early>>
    BY <1>7 DEF Input
  <2>3. /\ Write(keys)
        /\ \A x \in Contexts : messages'[x] # {} => messages[x] # {} \/ x = Context(r)
        /\ \A c \in Children : IF c = Context(r) THEN children'[c] = "summary"
                                                 ELSE children'[c] = children[c]
    BY <1>1, <1>7 DEF Input, Pushed, Typed, TypeOK
  <2>4. r \in Masters => children' = children
    BY <1>1, <1>7, NamesAssumption DEF Input, Context, Typed, TypeOK
  <2>5. Grows(keys)
    BY <2>2, <2>3, <2>4 DEF Grows, Exists
  <2>6. Recorded(r)' => Recorded(r)
    BY <1>2, <1>7, <2>1 DEF Input, At, Recorded, ChildPcs, Moves
  <2>7. Recorded(r)' => /\ session # "deleted" => r \in runIndex'
                        /\ record'[r].fields # "none"
    BY <2>2, <2>6 DEF IInv, RunInv, RunsListed
  <2>8. r \in ChildRuns => children'[run[r].child] # "none"
    BY <1>2, <1>4, <2>3 DEF Context
  <2>9. \A c \in Children : MessagesKey(c) \in keys \/ MarksKey(c) \in keys =>
          children'[c] # "none"
    BY <1>2, <2>3, KeysDiffer, NamesAssumption DEF Context
  <2>10. \A q \in Runs : RecordKey(q) \notin keys
    BY KeysDiffer
  <2>11. QED
    <3> HIDE DEF keys
    <3>1. QED  BY <1>1, <2>1, <2>2, <2>5, <2>7, <2>8, <2>9, <2>10, RunStep
<1>8. CASE CreateRecord(r)
  <2> DEFINE keys == {RecordKey(r), IndexKey("runs")}
  <2>1. Moves(r, {"loop", "read"}) /\ (r \in ChildRuns => Moves(r, {"read"}))
    BY <1>2, <1>8, Goes DEF CreateRecord, AfterCreate, Pcs, Moves
  <2>2. UNCHANGED <<session, del, messages, marks, children, results, resultIndex, early>>
    BY <1>8 DEF CreateRecord
  <2>3. /\ Write(keys) /\ runIndex' = runIndex \cup {r} /\ record'[r].fields = "whole"
        /\ \A q \in Runs : q # r => record'[q] = record[q]
    BY <1>2, <1>8 DEF CreateRecord, Records
  <2>4. Grows(keys)
    BY <2>2, <2>3 DEF Grows, Exists
  <2>5. r \in ChildRuns => ~Opened(r)'
    BY <2>1 DEF Opened, Moves
  <2>6. /\ \A c \in Children : MessagesKey(c) \notin keys /\ MarksKey(c) \notin keys
        /\ \A q \in Runs : RecordKey(q) \in keys => q \in runIndex'
    BY <2>3, KeysDiffer
  <2>7. QED
    <3> HIDE DEF keys
    <3>1. QED  BY <1>1, <2>1, <2>2, <2>3, <2>4, <2>5, <2>6, RunStep
<1>9. QED  BY <1>5, <1>6, <1>7, <1>8 DEF Begin

\* The steps of a master, whose record is listed once it is in the loop.
LEMMA MasterKeeps ==
  ASSUME IInv, NEW m \in Masters, Master(m), torn' \in BOOLEAN
  PROVE  IInv'
<1> m \in Runs /\ m \notin ChildRuns  BY RunKinds
<1>1. Typed /\ Typed'
  BY MasterTyped DEF IInv
<1>2. run \in [Runs -> Frame] /\ record \in Records
  BY <1>1 DEF Typed, TypeOK, Records
<1>3. CASE Request(m) \/ Enter(m) \/ Unlock(m) \/ Abort(m)
  <2>1. Moves(m, {"checked", "done", "read", "unlock"})
    <3>1. \/ Goto(m, "checked") \/ Goto(m, "done") \/ Goto(m, "read") \/ Done(m)
          \/ Goto(m, "unlock")
      BY <1>3 DEF Request, Enter, Unlock, Abort
    <3>2. QED  BY <1>2, <3>1, Goes, Ends DEF Moves, Pcs
  <2>2. ~Recorded(m)'
    BY <2>1 DEF Recorded, Moves
  <2>3. UNCHANGED <<redis, del, late, early>>
    BY <1>3 DEF Request, Enter, Unlock, Abort, ghosts
  <2>4. QED  BY <1>1, <2>1, <2>2, <2>3, StillStep
<1>4. CASE Append(m)
  <2>1. Moves(m, {"loop"}) /\ Recorded(m)
    BY <1>2, <1>4, Appends DEF Append, At, Recorded
  <2>2. UNCHANGED <<session, del, marks, record, runIndex, children, results, resultIndex, early>>
    BY <1>4 DEF Append
  <2>3. Write({MessagesKey("main")}) /\ \A c \in Children : messages'[c] = messages[c]
    BY <1>1, <1>4, NamesAssumption DEF Append, Pushed, Typed, TypeOK, Contexts
  <2>4. Grows({MessagesKey("main")})
    BY <2>2, <2>3 DEF Grows, Exists, Contexts
  <2>5. /\ \A c \in Children : {MessagesKey(c), MarksKey(c)} \cap {MessagesKey("main")} = {}
        /\ \A q \in Runs : RecordKey(q) # MessagesKey("main")
    BY KeysDiffer, NamesAssumption
  <2>6. QED
    BY <1>1, <2>1, <2>2, <2>4, <2>5, RunStep DEF IInv, RunInv, RunsListed
<1>5. CASE Terminal(m) \/ CancelledEarly(m)
  <2>1. Moves(m, {"unlock"}) /\ Updated(m)
    BY <1>2, <1>5, Goes DEF Terminal, CancelledEarly, Pcs
  <2>2. UNCHANGED <<session, del, marks, runIndex, children, results, resultIndex>>
    BY <1>5 DEF Terminal, CancelledEarly
  <2>3. PICK keys \in {{RecordKey(m)}, {RecordKey(m), MessagesKey("main")}} :
          /\ Write(keys)
          /\ messages' # messages => MessagesKey("main") \in keys
    BY <1>5 DEF Terminal, CancelledEarly
  <2>4. \A c \in Children : messages'[c] = messages[c]
    BY <1>1, <1>5, NamesAssumption
    DEF Terminal, CancelledEarly, Pushed, Typed, TypeOK, Contexts
  <2>5. \A q \in Runs : /\ Exists(q)' => Exists(q) \/ q = m
                        /\ record[q].fields # "none" => record'[q].fields # "none"
    BY <1>2, <2>1, Updates DEF Exists, Records
  <2>6. early \subseteq early' /\ (session # "deleted" => m \in runIndex \/ RecordKey(m) \in early')
    <3>1. CASE Terminal(m)
      BY <3>1 DEF Terminal, At, Recorded, IInv, RunInv, RunsListed
    <3>2. CASE CancelledEarly(m)
      BY <3>2 DEF CancelledEarly
    <3>3. QED  BY <1>5, <3>1, <3>2
  <2>7. Grows(keys)
    BY <2>2, <2>3, <2>4, <2>5, <2>6 DEF Grows, Contexts
  <2>8. /\ \A c \in Children : MessagesKey(c) \notin keys /\ MarksKey(c) \notin keys
        /\ \A q \in Runs : RecordKey(q) \in keys => q = m
    BY <2>3, KeysDiffer, NamesAssumption
  <2>9. ~Recorded(m)'
    BY <2>1 DEF Recorded, Moves
  <2>10. QED  BY <1>1, <2>1, <2>2, <2>6, <2>7, <2>8, <2>9, RunStep
<1>6. CASE Crash(m)
  <2>1. \A q \in Runs : run'[q].child = run[q].child /\ run'[q].pc \in {run[q].pc, "done"}
    BY <1>2, <1>6, Crashes
  <2>2. /\ \A q \in Runs : Recorded(q)' => Recorded(q)
        /\ \A k \in ChildRuns : Opened(k)' => Opened(k)
    BY <2>1, RunKinds DEF Recorded, Opened, ChildPcs
  <2>3. /\ UNCHANGED <<session, runIndex, record, children, results, resultIndex, early, late>>
        /\ Grows({})
    BY <1>6, Still DEF Crash, redis, ghosts
  <2>4. \A k \in ChildRuns : run'[k].child = run[k].child
    BY <2>1, RunKinds
  <2>5. RunsListed'
    BY <2>2, <2>3 DEF IInv, RunInv, RunsListed
  <2>6. ChildListed'
    BY <2>2, <2>3, <2>4 DEF IInv, RunInv, ChildListed
  <2>7. OrphanInv' /\ DeletionInv'
    BY <1>1, <2>3, OrphansKept, DeletionKept DEF IInv
  <2>8. QED  BY <1>1, <2>5, <2>6, <2>7 DEF IInv, RunInv
<1>7. ASSUME NEW k \in ChildRuns, NEW c \in Children, Task(m, k, c)
      PROVE  IInv'
  <2>1. /\ run'[k].pc = "create" /\ \A q \in Runs : q # k => run'[q] = run[q]
    BY <1>2, <1>7, Calls
  <2>2. /\ \A q \in Runs : Recorded(q)' => Recorded(q)
        /\ \A j \in ChildRuns : Opened(j)' => Opened(j) /\ run'[j].child = run[j].child
    BY <2>1, RunKinds DEF Recorded, Opened, ChildPcs
  <2>3. /\ UNCHANGED <<session, runIndex, record, children, results, resultIndex, early, late>>
        /\ Grows({})
    BY <1>7, Still DEF Task, redis, ghosts
  <2>4. RunsListed'
    BY <2>2, <2>3 DEF IInv, RunInv, RunsListed
  <2>5. ChildListed'
    BY <2>2, <2>3 DEF IInv, RunInv, ChildListed
  <2>6. OrphanInv' /\ DeletionInv'
    BY <1>1, <2>3, OrphansKept, DeletionKept DEF IInv
  <2>7. QED  BY <1>1, <2>4, <2>5, <2>6 DEF IInv, RunInv
<1>8. QED  BY <1>3, <1>4, <1>5, <1>6, <1>7 DEF Master

\* The steps of a child run, whose child is listed once it has been registered.
LEMMA ChildRunKeeps ==
  ASSUME IInv, NEW k \in ChildRuns, ChildRun(k), torn' \in BOOLEAN
  PROVE  IInv'
<1> k \in Runs /\ k \notin Masters  BY RunKinds
<1> DEFINE c == run[k].child
<1>1. Typed /\ Typed'
  BY ChildRunTyped DEF IInv
<1>2. run \in [Runs -> Frame] /\ record \in Records
  BY <1>1 DEF Typed, TypeOK, Records
<1>3. Active(k) /\ c \in Children /\ c \in Contexts
  BY <1>1, HasChild
  DEF ChildRun, Register, PushChild, Finish, TellCancelled, CancelledChild, Leave,
      InChild, At, Active, Unmarked, Contexts
<1>4. CASE Register(k)
  <2>1. Moves(k, {"summarize", "mark", "push", "tellPush"}) /\ Recorded(k)
    BY <1>2, <1>4, Goes DEF Register, At, Unmarked, Recorded, ChildPcs, Pcs, Moves
  <2>2. /\ UNCHANGED <<session, del, messages, marks, record, runIndex, results, resultIndex, early>>
        /\ Write({IndexKey("children")})
    BY <1>4 DEF Register
  <2>3. /\ \A d \in Children : d # c => children'[d] = children[d]
        /\ children'[c] # "none"
    BY <1>1, <1>3, <1>4 DEF Register, Typed, TypeOK
  <2>4. Grows({IndexKey("children")})
    BY <2>2, <2>3 DEF Grows, Exists
  <2>5. /\ \A d \in Children : {MessagesKey(d), MarksKey(d)} \cap {IndexKey("children")} = {}
        /\ \A q \in Runs : RecordKey(q) # IndexKey("children")
    BY KeysDiffer
  <2>6. QED
    BY <1>1, <2>1, <2>2, <2>3, <2>4, <2>5, RunStep DEF IInv, RunInv, RunsListed
<1>5. CASE PushChild(k)
  <2>1. Moves(k, {"loop", "done"}) /\ Recorded(k) /\ Opened(k)
    BY <1>2, <1>5, PushesChild DEF PushChild, At, Recorded, Opened, ChildPcs
  <2>2. /\ UNCHANGED <<session, del, marks, record, runIndex, children, results, resultIndex, early>>
        /\ Write({MessagesKey(c)})
        /\ \A x \in Contexts : x # c => messages'[x] = messages[x]
    BY <1>1, <1>5 DEF PushChild, Pushed, Typed, TypeOK
  <2>3. Grows({MessagesKey(c)})
    BY <2>2 DEF Grows, Exists
  <2>4. session # "deleted" => children'[c] # "none"
    BY <2>1, <2>2 DEF IInv, RunInv, ChildListed
  <2>5. /\ \A d \in Children : {MessagesKey(d), MarksKey(d)} \cap {MessagesKey(c)} # {} => d = c
        /\ \A q \in Runs : RecordKey(q) # MessagesKey(c)
    BY KeysDiffer
  <2>6. QED
    BY <1>1, <2>1, <2>2, <2>3, <2>4, <2>5, RunStep DEF IInv, RunInv, RunsListed
<1>6. CASE Finish(k) \/ TellCancelled(k) \/ CancelledChild(k)
  <2>1. Moves(k, {"tell", "done"}) /\ Updated(k)
    BY <1>2, <1>6, Goes, Ends DEF Finish, TellCancelled, CancelledChild, Pcs, Moves
  <2>2. Recorded(k)
    BY <1>1, <1>6 DEF Finish, TellCancelled, CancelledChild, InChild, At, Active, Recorded,
                      Typed, Places, ChildPcs
  <2>3. UNCHANGED <<session, del, marks, runIndex, children, results, resultIndex>>
    BY <1>6 DEF Finish, TellCancelled, CancelledChild
  <2>4. PICK keys \in {{RecordKey(k)}, {RecordKey(k), MessagesKey(c)}} :
          /\ Write(keys)
          /\ \/ CancelledChild(k) /\ MessagesKey(c) \in keys
             \/ MessagesKey(c) \notin keys /\ UNCHANGED <<messages, early>>
    <3>1. RecordKey(k) # MessagesKey(c)
      BY KeysDiffer
    <3>2. QED  BY <1>6, <3>1 DEF Finish, TellCancelled, CancelledChild
  <2>5. \A x \in Contexts : x # c => messages'[x] = messages[x]
    BY <1>1, <1>6 DEF Finish, TellCancelled, CancelledChild, Pushed, Typed, TypeOK
  <2>6. \A q \in Runs : /\ Exists(q)' => Exists(q) \/ q = k
                        /\ record[q].fields # "none" => record'[q].fields # "none"
    BY <1>2, <2>1, Updates DEF Exists, Records
  <2>7. record'[k].fields # "none"
    BY <2>2, <2>6 DEF IInv, RunInv, RunsListed
  <2>8. early \subseteq early'
    BY <1>6 DEF Finish, TellCancelled, CancelledChild
  <2>9. MessagesKey(c) \in keys => MessagesKey(c) \in keys /\ CancelledChild(k)
    BY <2>4
  <2>10. Grows(keys)
    BY <2>3, <2>4, <2>5, <2>6, <2>8 DEF Grows
  <2>11. MessagesKey(c) \in keys =>
           session = "deleted" \/ children'[c] # "none" \/ MessagesKey(c) \in early'
    <3>1. CASE Opened(k)
      BY <2>3, <3>1 DEF IInv, RunInv, ChildListed
    <3>2. CASE run[k].pc \in {"read", "prepare", "input"}
      BY <2>3, <2>9, <3>2 DEF CancelledChild
    <3>3. QED  BY <2>2, <3>1, <3>2 DEF Recorded, Opened, ChildPcs
  <2>12. Opened(k)' /\ session # "deleted" => children'[c] # "none"
    <3>1. Opened(k)' => TellCancelled(k)
      BY <1>2, <1>6, Ends DEF Finish, CancelledChild, Opened, Moves
    <3>2. TellCancelled(k) => Opened(k)
      BY DEF TellCancelled, At, Opened
    <3>3. QED  BY <2>3, <3>1, <3>2 DEF IInv, RunInv, ChildListed
  <2>13. /\ \A d \in Children : /\ MessagesKey(d) \in keys => d = c
                                /\ MarksKey(d) \notin keys
         /\ \A q \in Runs : RecordKey(q) \in keys => q = k
    BY <2>4, KeysDiffer
  <2>14. session # "deleted" => k \in runIndex'
    BY <2>2, <2>3 DEF IInv, RunInv, RunsListed
  <2>15. QED
    BY <1>1, <2>1, <2>3, <2>7, <2>10, <2>11, <2>12, <2>13, <2>14, RunStep
<1>7. CASE Leave(k)
  <2>1. Moves(k, {"done"}) /\ UNCHANGED <<redis, del, late, early>>
    BY <1>2, <1>7, Ends DEF Leave, ghosts
  <2>2. ~Recorded(k)' /\ ~Opened(k)'
    BY <2>1 DEF Recorded, Opened, ChildPcs, Moves
  <2>3. QED  BY <1>1, <2>1, <2>2, StillStep
<1>8. QED  BY <1>4, <1>5, <1>6, <1>7 DEF ChildRun

\* A record that lapses takes its key with it, and nothing else.
LEMMA LapseKeeps ==
  ASSUME IInv, Typed', NEW r \in Runs, Lapse(r)
  PROVE  IInv'
<1>1. /\ UNCHANGED <<session, messages, marks, runIndex, children, results, resultIndex, run, del>>
      /\ late' = late \ {RecordKey(r)} /\ early' = early \ {RecordKey(r)}
      /\ ~Exists(r)' /\ record'[r].fields = "gone"
      /\ \A q \in Runs : q # r => record'[q] = record[q]
  BY DEF Lapse, Deleted, Gone, Exists, IInv, Typed, TypeOK
<1>2. /\ \A x \in Contexts : /\ MessagesKey(x) \in Loose => MessagesKey(x) \in Loose'
                             /\ MarksKey(x) \in Loose => MarksKey(x) \in Loose'
                             /\ MessagesKey(x) \in early => MessagesKey(x) \in early'
      /\ \A q \in Runs : q # r /\ RecordKey(q) \in Loose => RecordKey(q) \in Loose'
      /\ \A q \in Runs : q # r /\ RecordKey(q) \in early => RecordKey(q) \in early'
      /\ \A t \in Results : ResultKey(t) \in Loose => ResultKey(t) \in Loose'
      /\ \A i : IndexKey(i) \in Loose => IndexKey(i) \in Loose'
  BY <1>1, KeysDiffer DEF Loose
<1>3. \A q \in Runs : Exists(q)' => q # r /\ Exists(q)
  BY <1>1 DEF Exists
<1>4. RunInv'
  <2>1. RunsListed'
    BY <1>1 DEF IInv, RunInv, RunsListed, Recorded
  <2>2. ChildListed'
    BY <1>1 DEF IInv, RunInv, ChildListed, Opened
  <2>3. QED  BY <2>1, <2>2 DEF RunInv
<1>5. OrphanInv'
  <2>1. OrphanContexts'
    BY <1>1, <1>2 DEF IInv, OrphanInv, OrphanContexts, Contexts
  <2>2. OrphanRecords'
    BY <1>1, <1>2, <1>3 DEF IInv, OrphanInv, OrphanRecords
  <2>3. OrphanResults'
    BY <1>1, <1>2 DEF IInv, OrphanInv, OrphanResults, Typed, TypeOK
  <2>4. QED  BY <2>1, <2>2, <2>3 DEF OrphanInv
<1>6. DeletionInv'
  <2>1. DeletesListed'
    BY <1>1 DEF IInv, DeletionInv, DeletesListed
  <2>2. ContextsCleared'
    BY <1>1, <1>2 DEF IInv, DeletionInv, ContextsCleared, ContextLoose, DuringOr, Contexts
  <2>3. RecordsCleared'
    BY <1>1, <1>2, <1>3 DEF IInv, DeletionInv, RecordsCleared, DuringOr
  <2>4. ResultsCleared'
    BY <1>1, <1>2 DEF IInv, DeletionInv, ResultsCleared, DuringOr, Typed, TypeOK
  <2>5. IndicesCleared'
    BY <1>1, <1>2 DEF IInv, DeletionInv, IndicesCleared
  <2>6. QED  BY <2>1, <2>2, <2>3, <2>4, <2>5 DEF DeletionInv
<1>7. QED  BY <1>4, <1>5, <1>6 DEF IInv

\* A step that moves no run and no key but those of the plan.
LEMMA UnmovedKeeps ==
  ASSUME IInv, Typed', session' = "deleted" <=> session = "deleted",
         UNCHANGED <<messages, marks, record, runIndex, children, results, resultIndex,
                     run, del, late, early>>
  PROVE  IInv'
<1>1. Loose' = Loose /\ \A r \in Runs : Exists(r)' = Exists(r)
  BY DEF Loose, Exists
<1>2. RunInv'
  BY DEF IInv, RunInv, RunsListed, ChildListed, Recorded, Opened
<1>3. OrphanInv'
  BY <1>1 DEF IInv, OrphanInv, OrphanContexts, OrphanRecords, OrphanResults
<1>4. DeletesListed' /\ ContextsCleared'
  BY <1>1 DEF IInv, DeletionInv, DeletesListed, ContextsCleared, ContextLoose, DuringOr
<1>5. RecordsCleared' /\ ResultsCleared' /\ IndicesCleared'
  BY <1>1 DEF IInv, DeletionInv, RecordsCleared, ResultsCleared, IndicesCleared, DuringOr
<1>6. QED  BY <1>2, <1>3, <1>4, <1>5 DEF IInv, DeletionInv

\* A result is stored with its entry; queries change no key.
LEMMA ToolsKeeps ==
  ASSUME IInv, NEW r \in Runs, Tools(r), torn' \in BOOLEAN
  PROVE  IInv'
<1>1. Typed /\ Typed'
  BY ToolsTyped DEF IInv
<1>2. run \in [Runs -> Frame]
  BY <1>1 DEF Typed, TypeOK
<1>3. CASE Answer(r)
  <2>1. Moves(r, {"loop"}) /\ UNCHANGED <<redis, del, late, early>>
    BY <1>2, <1>3, Answers DEF Answer
  <2>2. Recorded(r) /\ Opened(r)
    BY <1>3, <2>1 DEF Answer, At, Recorded, Opened, ChildPcs, Moves
  <2>3. QED  BY <1>1, <2>1, <2>2, StillStep
<1>4. ASSUME NEW t \in Results, Query(r, t)
      PROVE  IInv'
  <2>1. Moves(r, {"ask", "loop"}) /\ UNCHANGED <<redis, del, late, early>>
    BY <1>2, <1>4, Queries DEF Query
  <2>2. Recorded(r) /\ Opened(r)
    BY <1>4, <2>1 DEF Query, At, Recorded, Opened, ChildPcs, Moves
  <2>3. QED  BY <1>1, <2>1, <2>2, StillStep
<1>5. ASSUME NEW t \in Results, PersistResult(r, t)
      PROVE  IInv'
  <2> DEFINE keys == {ResultKey(t), IndexKey("results")}
  <2>1. Moves(r, {"loop"}) /\ Recorded(r) /\ Opened(r)
    BY <1>2, <1>5, Persists DEF PersistResult, At, Recorded, Opened, ChildPcs
  <2>2. /\ UNCHANGED <<session, del, messages, marks, record, runIndex, children, early>>
        /\ Write(keys) /\ results' = results \cup {t} /\ resultIndex' = resultIndex \cup {t}
    BY <1>5 DEF PersistResult
  <2>3. Grows(keys)
    BY <2>2 DEF Grows, Exists
  <2>4. /\ \A d \in Children : MessagesKey(d) \notin keys /\ MarksKey(d) \notin keys
        /\ \A q \in Runs : RecordKey(q) \notin keys
    BY KeysDiffer
  <2>5. QED
    <3> HIDE DEF keys
    <3>1. Recorded(r)' => /\ session # "deleted" => r \in runIndex'
                          /\ record'[r].fields # "none"
      BY <2>1, <2>2 DEF IInv, RunInv, RunsListed
    <3>2. r \in ChildRuns /\ session # "deleted" => children'[run[r].child] # "none"
      BY <2>1, <2>2 DEF IInv, RunInv, ChildListed
    <3>3. QED  BY <1>1, <2>1, <2>2, <2>3, <2>4, <3>1, <3>2, RunStep
<1>6. CASE CountTask(r)
  BY <1>1, <1>6, UnmovedKeeps DEF CountTask, ghosts
<1>7. QED  BY <1>1, <1>3, <1>4, <1>5, <1>6, LapseKeeps DEF Tools

\* What the stages read leaves the keys and the runs alone.
LEMMA ReadsKeep ==
  ASSUME IInv, Typed', UNCHANGED <<redis, run, ghosts>>, DeletionInv'
  PROVE  IInv'
<1>1. /\ UNCHANGED <<session, messages, marks, record, runIndex, children, results, resultIndex>>
      /\ UNCHANGED <<run, late, early>>
  BY DEF redis, ghosts
<1>2. RunInv'
  BY <1>1 DEF IInv, RunInv, RunsListed, ChildListed, Recorded, Opened
<1>3. OrphanInv'
  BY <1>1 DEF IInv, OrphanInv, OrphanContexts, OrphanRecords, OrphanResults, Loose, Exists
<1>4. QED  BY <1>2, <1>3 DEF IInv

\* The keys of contexts, records, results and indices do not meet.
LEMMA Spared ==
  ASSUME NEW keys, Deleted(keys), NEW key, key \notin keys
  PROVE  (key \in Loose => key \in Loose') /\ (key \in early => key \in early')
BY DEF Deleted, Loose

\* DEL of a context that is listed, or the main one.
LEMMA ContextKeeps ==
  ASSUME IInv, Typed', NEW x \in Contexts, DeleteContext(x),
         x \in Children /\ session # "deleted" => children[x] # "none",
         \/ del' = [del EXCEPT !.children = del.children \ {x}] /\ del.pc = "contexts"
         \/ x = "main" /\ del.children = {} /\ del.pc = "contexts"
            /\ del' = [del EXCEPT !.pc = "records"]
  PROVE  IInv'
<1>1. /\ UNCHANGED <<session, record, runIndex, children, results, resultIndex, run>>
      /\ messages'[x] = {} /\ x \notin marks' /\ marks' \subseteq marks
      /\ \A y \in Contexts : y # x => messages'[y] = messages[y]
      /\ Deleted({MessagesKey(x), MarksKey(x)})
  BY DEF DeleteContext, IInv, Typed, TypeOK
<1>2. /\ \A y \in Contexts : y # x =>
           /\ MessagesKey(y) \in Loose => MessagesKey(y) \in Loose'
           /\ MarksKey(y) \in Loose => MarksKey(y) \in Loose'
           /\ MessagesKey(y) \in early => MessagesKey(y) \in early'
      /\ \A q : RecordKey(q) \in Loose => RecordKey(q) \in Loose'
      /\ \A q : RecordKey(q) \in early => RecordKey(q) \in early'
      /\ \A t : ResultKey(t) \in Loose => ResultKey(t) \in Loose'
      /\ \A i : IndexKey(i) \in Loose => IndexKey(i) \in Loose'
  BY <1>1, KeysDiffer DEF Deleted, Loose
<1>3. ASSUME NEW y \in Contexts, y = x \/ ContextLoose(y)
      PROVE  ContextLoose(y)'
  BY <1>1, <1>2, <1>3 DEF ContextLoose
<1>4. del \in Deletion /\ del' \in Deletion
  BY DEF IInv, Typed, TypeOK
<1>5. RunInv'
  <2>1. RunsListed'
    BY <1>1 DEF IInv, RunInv, RunsListed, Recorded
  <2>2. ChildListed'
    BY <1>1 DEF IInv, RunInv, ChildListed, Opened
  <2>3. QED  BY <2>1, <2>2 DEF RunInv
<1>6. OrphanInv'
  <2>1. OrphanContexts'
    BY <1>1, <1>2 DEF IInv, OrphanInv, OrphanContexts, Contexts
  <2>2. OrphanRecords'
    BY <1>1, <1>2 DEF IInv, OrphanInv, OrphanRecords, Exists
  <2>3. OrphanResults'
    BY <1>1, <1>2 DEF IInv, OrphanInv, OrphanResults
  <2>4. QED  BY <2>1, <2>2, <2>3 DEF OrphanInv
<1>7. DeletionInv'
  <2>1. DeletesListed'
    BY <1>1, <1>4 DEF IInv, DeletionInv, DeletesListed, Deletion
  <2>2. ASSUME session = "deleted"
        PROVE  \A y \in Contexts : ContextLoose(y)'
    BY <2>2, <1>3 DEF IInv, DeletionInv, ContextsCleared, DuringOr
  <2>3. ASSUME del' = [del EXCEPT !.children = del.children \ {x}], del.pc = "contexts"
        PROVE  ContextsCleared'
    <3>1. del'.pc = "contexts" /\ del'.children = del.children \ {x}
      BY <1>4, <2>3 DEF Deletion
    <3>2. \A c \in Children \ del'.children : ContextLoose(c)'
      BY <2>3, <3>1, <1>3 DEF IInv, DeletionInv, ContextsCleared, Contexts
    <3>3. QED  BY <1>1, <2>2, <3>1, <3>2 DEF ContextsCleared, ContextLoose, DuringOr
  <2>4. ASSUME x = "main", del.children = {}, del.pc = "contexts",
               del' = [del EXCEPT !.pc = "records"]
        PROVE  ContextsCleared'
    <3>1. \A y \in Contexts : ContextLoose(y)'
      BY <2>4, <1>3 DEF IInv, DeletionInv, ContextsCleared, Contexts
    <3>2. del'.pc = "records"
      BY <1>4, <2>4 DEF Deletion
    <3>3. QED  BY <3>1, <3>2 DEF ContextsCleared, ContextLoose
  <2>5. ContextsCleared'
    BY <2>3, <2>4
  <2>6. del'.pc \in {"contexts", "records"} /\ del'.runs = del.runs /\ del.pc = "contexts"
    BY <1>4 DEF Deletion
  <2>7. RecordsCleared'
    BY <1>1, <1>2, <2>6 DEF IInv, DeletionInv, RecordsCleared, DuringOr, Exists
  <2>8. ResultsCleared'
    BY <1>1, <1>2, <2>6 DEF IInv, DeletionInv, ResultsCleared, DuringOr
  <2>9. IndicesCleared'
    BY <1>1, <1>2 DEF IInv, DeletionInv, IndicesCleared
  <2>10. QED  BY <2>1, <2>5, <2>7, <2>8, <2>9 DEF DeletionInv
<1>8. QED  BY <1>5, <1>6, <1>7 DEF IInv

\* What a deletion reads is all that is listed; the rest is excused.
LEMMA ListsKeep ==
  ASSUME IInv, Typed', ListRuns \/ ListChildren \/ ListResults \/ Interrupt
  PROVE  IInv'
<1>1. UNCHANGED <<redis, run, ghosts>>
  BY DEF ListRuns, ListChildren, ListResults, Interrupt
<1>2. /\ UNCHANGED <<session, messages, marks, record, runIndex, children, results, resultIndex>>
      /\ Loose' = Loose
  BY <1>1 DEF redis, ghosts, Loose
<1>3. del \in Deletion
  BY DEF IInv, Typed, TypeOK
<1>4. DeletionInv'
  <2>1. IndicesCleared'
    BY <1>2 DEF IInv, DeletionInv, IndicesCleared
  <2>2. CASE ListRuns
    <3>1. del'.pc = "children" /\ del'.runs = runIndex /\ del'.children = del.children
      BY <2>2, <1>3 DEF ListRuns, Deletion
    <3>2. \A r \in Runs \ runIndex : Exists(r) => RecordKey(r) \in Loose
      BY DEF IInv, DeletionInv, RecordsCleared, DuringOr, OrphanInv, OrphanRecords, Loose
    <3>3. DeletesListed' /\ ContextsCleared'
      BY <1>2, <3>1
      DEF IInv, DeletionInv, DeletesListed, ContextsCleared, ContextLoose, DuringOr
    <3>4. RecordsCleared'
      BY <1>2, <3>1, <3>2 DEF IInv, DeletionInv, RecordsCleared, DuringOr, Exists
    <3>5. ResultsCleared'
      BY <1>2, <3>1 DEF IInv, DeletionInv, ResultsCleared, DuringOr
    <3>6. QED  BY <2>1, <3>3, <3>4, <3>5 DEF DeletionInv
  <2>3. CASE ListChildren
    <3>1. /\ del.pc = "children" /\ del'.pc = "contexts" /\ del'.runs = del.runs
          /\ del'.children = {c \in Children : children[c] # "none"}
      BY <2>3, <1>3 DEF ListChildren, Deletion
    <3>2. \A c \in Children : children[c] = "none" => ContextLoose(c)
      BY DEF IInv, DeletionInv, ContextsCleared, DuringOr, OrphanInv, OrphanContexts,
             ContextLoose, Loose, Contexts
    <3>3. DeletesListed'
      BY <1>2, <3>1 DEF DeletesListed
    <3>4. ContextsCleared'
      BY <1>2, <3>1, <3>2 DEF IInv, DeletionInv, ContextsCleared, ContextLoose, DuringOr
    <3>5. RecordsCleared'
      BY <1>2, <3>1 DEF IInv, DeletionInv, RecordsCleared, DuringOr, Exists
    <3>6. ResultsCleared'
      BY <1>2, <3>1 DEF IInv, DeletionInv, ResultsCleared, DuringOr
    <3>7. QED  BY <2>1, <3>3, <3>4, <3>5, <3>6 DEF DeletionInv
  <2>4. CASE ListResults
    <3>1. /\ del.pc = "list" /\ del'.pc = "bodies" /\ del'.runs = del.runs
          /\ del'.children = del.children /\ del'.results = resultIndex
      BY <2>4, <1>3 DEF ListResults, Deletion
    <3>2. \A t \in results \ resultIndex : ResultKey(t) \in Loose
      BY DEF IInv, OrphanInv, OrphanResults
    <3>3. DeletesListed' /\ ContextsCleared'
      BY <1>2, <3>1
      DEF IInv, DeletionInv, DeletesListed, ContextsCleared, ContextLoose, DuringOr
    <3>4. RecordsCleared'
      BY <1>2, <3>1 DEF IInv, DeletionInv, RecordsCleared, DuringOr, Exists
    <3>5. ResultsCleared'
      BY <1>2, <3>1, <3>2 DEF IInv, DeletionInv, ResultsCleared, DuringOr
    <3>6. QED  BY <2>1, <3>3, <3>4, <3>5 DEF DeletionInv
  <2>5. CASE Interrupt
    <3>1. del'.pc = "idle" /\ del'.children = {}
      BY <2>5, <1>3 DEF Interrupt, NoDeletion, Deletion
    <3>2. DeletesListed' /\ ContextsCleared'
      BY <1>2, <3>1
      DEF IInv, DeletionInv, DeletesListed, ContextsCleared, ContextLoose, DuringOr
    <3>3. RecordsCleared'
      BY <1>2, <3>1 DEF IInv, DeletionInv, RecordsCleared, DuringOr, Exists
    <3>4. ResultsCleared'
      BY <1>2, <3>1 DEF IInv, DeletionInv, ResultsCleared, DuringOr
    <3>5. QED  BY <2>1, <3>2, <3>3, <3>4 DEF DeletionInv
  <2>6. QED  BY <2>2, <2>3, <2>4, <2>5
<1>5. QED  BY <1>1, <1>4, ReadsKeep

\* DEL of the records that were read leaves those that are excused.
LEMMA RecordsKeep ==
  ASSUME IInv, Typed', DeleteRuns
  PROVE  IInv'
<1> DEFINE keys == {RecordKey(r) : r \in del.runs}
<1>1. /\ UNCHANGED <<session, messages, marks, runIndex, children, results, resultIndex, run>>
      /\ del.pc = "records" /\ del' = [del EXCEPT !.pc = "list", !.runs = {}]
      /\ Deleted(keys) /\ del \in Deletion
  BY DEF DeleteRuns, IInv, Typed, TypeOK
<1>2. /\ \A r \in Runs : Exists(r)' => r \notin del.runs /\ Exists(r)
      /\ \A r \in Runs : record[r].fields # "none" => record'[r].fields # "none"
  BY DEF DeleteRuns, Exists, Gone, IInv, Typed, TypeOK
<1>3. /\ \A y : MessagesKey(y) \notin keys /\ MarksKey(y) \notin keys
                /\ ResultKey(y) \notin keys /\ IndexKey(y) \notin keys
      /\ \A r : r \notin del.runs => RecordKey(r) \notin keys
  BY KeysDiffer
<1> HIDE DEF keys
<1>4. /\ \A y : /\ MessagesKey(y) \in Loose => MessagesKey(y) \in Loose'
                /\ MarksKey(y) \in Loose => MarksKey(y) \in Loose'
                /\ ResultKey(y) \in Loose => ResultKey(y) \in Loose'
                /\ IndexKey(y) \in Loose => IndexKey(y) \in Loose'
                /\ MessagesKey(y) \in early => MessagesKey(y) \in early'
      /\ \A r : r \notin del.runs => /\ RecordKey(r) \in Loose => RecordKey(r) \in Loose'
                                     /\ RecordKey(r) \in early => RecordKey(r) \in early'
  BY <1>1, <1>3, Spared
<1>5. del'.pc = "list" /\ del'.children = del.children /\ del.pc = "records"
  BY <1>1 DEF Deletion
<1>6. RunInv'
  <2>1. RunsListed'
    BY <1>1, <1>2 DEF IInv, RunInv, RunsListed, Recorded
  <2>2. ChildListed'
    BY <1>1 DEF IInv, RunInv, ChildListed, Opened
  <2>3. QED  BY <2>1, <2>2 DEF RunInv
<1>7. OrphanInv'
  <2>1. OrphanContexts'
    BY <1>1, <1>4 DEF IInv, OrphanInv, OrphanContexts
  <2>2. OrphanRecords'
    BY <1>1, <1>2, <1>4 DEF IInv, OrphanInv, OrphanRecords
  <2>3. OrphanResults'
    BY <1>1, <1>4 DEF IInv, OrphanInv, OrphanResults
  <2>4. QED  BY <2>1, <2>2, <2>3 DEF OrphanInv
<1>8. DeletionInv'
  <2>1. DeletesListed'
    BY <1>1, <1>5 DEF IInv, DeletionInv, DeletesListed
  <2>2. ContextsCleared'
    BY <1>1, <1>4, <1>5 DEF IInv, DeletionInv, ContextsCleared, ContextLoose, DuringOr
  <2>3. RecordsCleared'
    <3>1. \A r \in Runs \ del.runs : Exists(r) => RecordKey(r) \in Loose
      BY <1>5 DEF IInv, DeletionInv, RecordsCleared
    <3>2. \A r \in Runs : Exists(r)' => RecordKey(r) \in Loose'
      BY <1>2, <1>4, <3>1
    <3>3. QED  BY <1>5, <3>2 DEF RecordsCleared
  <2>4. ResultsCleared'
    BY <1>1, <1>4, <1>5 DEF IInv, DeletionInv, ResultsCleared, DuringOr
  <2>5. IndicesCleared'
    BY <1>1, <1>4 DEF IInv, DeletionInv, IndicesCleared
  <2>6. QED  BY <2>1, <2>2, <2>3, <2>4, <2>5 DEF DeletionInv
<1>9. QED  BY <1>6, <1>7, <1>8 DEF IInv

\* The end of a deletion: bodies and index of the results, then what the service
\* knows the session by.
LEMMA EndsKeep ==
  ASSUME IInv, Typed', DeleteBodies \/ DeleteResultIndex \/ DeleteMetadata
  PROVE  IInv'
<1>1. PICK keys :
        /\ Deleted(keys)
        /\ \A y : MessagesKey(y) \notin keys /\ MarksKey(y) \notin keys /\ RecordKey(y) \notin keys
        /\ \A t \in results' : ResultKey(t) \notin keys
        /\ resultIndex' # {} => IndexKey("results") \notin keys
  <2>1. CASE DeleteBodies
    <3> DEFINE keys == {ResultKey(t) : t \in del.results}
    <3>1. Deleted(keys) /\ results' = results \ del.results
      BY <2>1 DEF DeleteBodies
    <3>2. /\ \A y : /\ MessagesKey(y) \notin keys /\ MarksKey(y) \notin keys
                    /\ RecordKey(y) \notin keys /\ IndexKey(y) \notin keys
          /\ \A t : t \notin del.results => ResultKey(t) \notin keys
      BY KeysDiffer
    <3> HIDE DEF keys
    <3>3. QED  BY <3>1, <3>2
  <2>2. CASE DeleteResultIndex
    BY <2>2, KeysDiffer DEF DeleteResultIndex
  <2>3. CASE DeleteMetadata
    BY <2>3, KeysDiffer DEF DeleteMetadata
  <2>4. QED  BY <2>1, <2>2, <2>3
<1>2. /\ \A y : /\ MessagesKey(y) \in Loose => MessagesKey(y) \in Loose'
                /\ MarksKey(y) \in Loose => MarksKey(y) \in Loose'
                /\ RecordKey(y) \in Loose => RecordKey(y) \in Loose'
                /\ RecordKey(y) \in early => RecordKey(y) \in early'
                /\ MessagesKey(y) \in early => MessagesKey(y) \in early'
      /\ \A t \in results' : ResultKey(t) \in Loose => ResultKey(t) \in Loose'
      /\ resultIndex' # {} => (IndexKey("results") \in Loose => IndexKey("results") \in Loose')
  BY <1>1, Spared
<1>3. /\ UNCHANGED <<messages, marks, record, run>> /\ del \in Deletion
      /\ \A r \in Runs : Exists(r)' = Exists(r)
  BY DEF DeleteBodies, DeleteResultIndex, DeleteMetadata, Exists, IInv, Typed, TypeOK
<1>4. \/ session' = session /\ runIndex' = runIndex /\ children' = children
      \/ session' = "deleted" /\ runIndex' = {} /\ \A c \in Children : children'[c] = "none"
  BY DEF DeleteBodies, DeleteResultIndex, DeleteMetadata
<1>5. RunInv'
  <2>1. RunsListed'
    BY <1>3, <1>4 DEF IInv, RunInv, RunsListed, Recorded
  <2>2. ChildListed'
    BY <1>3, <1>4 DEF IInv, RunInv, ChildListed, Opened
  <2>3. QED  BY <2>1, <2>2 DEF RunInv
<1>6. /\ del.pc \in {"bodies", "index", "metadata"}
      /\ del'.pc \in {"index", "metadata", "idle"}
      /\ del'.pc = "idle" => session' = "deleted"
      /\ \A c \in del'.children : c \in del.children \/ session' = "deleted"
  BY <1>3 DEF DeleteBodies, DeleteResultIndex, DeleteMetadata, NoDeletion, Deletion
<1>7. \A t \in results' : ResultKey(t) \in Loose'
  <2>1. CASE DeleteBodies
    BY <1>2, <2>1 DEF DeleteBodies, IInv, DeletionInv, ResultsCleared
  <2>2. CASE DeleteResultIndex \/ DeleteMetadata
    BY <1>2, <2>2
    DEF DeleteResultIndex, DeleteMetadata, IInv, DeletionInv, ResultsCleared, DuringOr
  <2>3. QED  BY <2>1, <2>2
<1>8. OrphanInv'
  <2>1. OrphanContexts'
    BY <1>2, <1>3, <1>4 DEF IInv, OrphanInv, OrphanContexts
  <2>2. OrphanRecords'
    BY <1>2, <1>3, <1>4 DEF IInv, OrphanInv, OrphanRecords
  <2>3. OrphanResults'
    BY <1>7 DEF OrphanResults
  <2>4. QED  BY <2>1, <2>2, <2>3 DEF OrphanInv
<1>9. DeletionInv'
  <2>1. DeletesListed'
    BY <1>4, <1>6 DEF IInv, DeletionInv, DeletesListed
  <2>2. ContextsCleared'
    BY <1>2, <1>3, <1>6 DEF IInv, DeletionInv, ContextsCleared, ContextLoose, DuringOr
  <2>3. RecordsCleared'
    BY <1>2, <1>3, <1>6 DEF IInv, DeletionInv, RecordsCleared, DuringOr
  <2>4. DuringOr({"metadata"})' /\ resultIndex' # {} => IndexKey("results") \in Loose'
    <3>1. CASE DeleteBodies
      BY <1>2, <1>3, <3>1 DEF DeleteBodies, IInv, DeletionInv, ResultsCleared, DuringOr, Deletion
    <3>2. CASE DeleteResultIndex
      BY <3>2 DEF DeleteResultIndex
    <3>3. CASE DeleteMetadata
      BY <1>2, <3>3 DEF DeleteMetadata, IInv, DeletionInv, ResultsCleared, DuringOr
    <3>4. QED  BY <3>1, <3>2, <3>3
  <2>5. ResultsCleared'
    BY <1>6, <1>7, <2>4 DEF ResultsCleared
  <2>6. IndicesCleared'
    <3>1. CASE session' = session /\ runIndex' = runIndex /\ children' = children
      <4>1. session = "deleted" =>
              /\ IndexKey("runs") \in Loose => runIndex' = {} \/ IndexKey("runs") \in Loose'
              /\ IndexKey("children") \in Loose =>
                   \/ \A c \in Children : children'[c] = "none"
                   \/ IndexKey("children") \in Loose'
        <5>1. CASE DeleteBodies \/ DeleteResultIndex
          BY <5>1, KeysDiffer DEF DeleteBodies, DeleteResultIndex, Deleted, Loose
        <5>2. CASE DeleteMetadata
          BY <5>2 DEF DeleteMetadata
        <5>3. QED  BY <5>1, <5>2
      <4>2. QED  BY <3>1, <4>1 DEF IInv, DeletionInv, IndicesCleared
    <3>2. CASE session' = "deleted" /\ runIndex' = {} /\ \A c \in Children : children'[c] = "none"
      BY <3>2 DEF IndicesCleared
    <3>3. QED  BY <1>4, <3>1, <3>2
  <2>7. QED  BY <2>1, <2>2, <2>3, <2>5, <2>6 DEF DeletionInv
<1>10. QED  BY <1>5, <1>8, <1>9 DEF IInv

\* Every step of a deletion keeps the invariant.
LEMMA DeleteKeeps ==
  ASSUME IInv, Delete, torn' \in BOOLEAN
  PROVE  IInv'
<1>1. Typed'
  BY DeleteTyped DEF IInv
<1>2. CASE \/ ListRuns \/ ListChildren \/ ListResults \/ Interrupt
           \/ DeleteRuns \/ DeleteBodies \/ DeleteResultIndex \/ DeleteMetadata
  BY <1>1, <1>2, ListsKeep, RecordsKeep, EndsKeep
<1>3. ASSUME NEW c \in Children, DeleteChildContext(c)
      PROVE  IInv'
  <2>1. c \in Contexts /\ (session # "deleted" => children[c] # "none")
    BY <1>3 DEF DeleteChildContext, Contexts, IInv, DeletionInv, DeletesListed
  <2>2. QED  BY <1>1, <1>3, <2>1, ContextKeeps DEF DeleteChildContext
<1>4. CASE DeleteMainContext
  BY <1>1, <1>4, ContextKeeps, NamesAssumption DEF DeleteMainContext, Contexts
<1>5. QED  BY <1>2, <1>3, <1>4 DEF Delete

\* No run, no deletion: the invariant holds of the sessions to begin with.
LEMMA InitKeeps == Init => IInv
<1> SUFFICES ASSUME Init PROVE IInv
  OBVIOUS
<1>1. /\ \A r \in Runs : run[r].pc = "idle" /\ ~Exists(r)
      /\ del.pc = "idle" /\ del.children = {} /\ results = resultIndex
      /\ session # "deleted" /\ marks = {}
      /\ \A c \in Children : messages[c] # {} => children[c] # "none" \/ MessagesKey(c) \in early
  <2>1. PICK old \in SUBSET Children, hinted \in SUBSET Children, known \in SUBSET Results :
          /\ messages = LeftBehind(old \cup hinted, known)
          /\ children = [c \in Children |-> IF c \in old THEN "summary" ELSE "none"]
          /\ early = {MessagesKey(c) : c \in hinted}
    BY DEF Init
  <2>2. \A c \in Children : messages[c] # {} => children[c] # "none" \/ MessagesKey(c) \in early
    BY <2>1, NamesAssumption DEF LeftBehind, Contexts
  <2>3. \A r \in Runs : run[r].pc = "idle" /\ ~Exists(r)
    BY DEF Init, Exists, NoRecord
  <2>4. del.pc = "idle" /\ del.children = {}
    BY DEF Init
  <2>5. results = resultIndex /\ session # "deleted" /\ marks = {}
    BY DEF Init
  <2>6. QED  BY <2>2, <2>3, <2>4, <2>5
<1>2. RunInv
  BY <1>1, RunKinds
  DEF RunInv, RunsListed, ChildListed, Recorded, Opened, ChildPcs
<1>3. OrphanInv
  BY <1>1 DEF OrphanInv, OrphanContexts, OrphanRecords, OrphanResults
<1>4. DeletionInv
  BY <1>1
  DEF DeletionInv, DeletesListed, ContextsCleared, RecordsCleared, ResultsCleared,
      IndicesCleared, DuringOr
<1>5. QED  BY <1>2, <1>3, <1>4, InitTyped DEF IInv

\* Every step keeps the invariant.
LEMMA StepKeeps ==
  ASSUME IInv, [Next]_vars
  PROVE  IInv'
<1>1. Typed'
  BY StepTyped DEF IInv
<1>2. CASE UNCHANGED vars \/ CreateSession
  <2>1. UNCHANGED <<messages, marks, record, runIndex, children, results, resultIndex,
                    run, del, late, early>>
    BY <1>2 DEF vars, redis, ghosts, CreateSession
  <2>2. session' = "deleted" <=> session = "deleted"
    BY <1>2 DEF vars, redis, CreateSession
  <2>3. QED  BY <1>1, <2>1, <2>2, UnmovedKeeps
<1>3. CASE Next
  <2>1. torn' \in BOOLEAN
    BY <1>1 DEF Typed, TypeOK
  <2>2. QED
    BY <1>2, <1>3, <2>1, BeginKeeps, MasterKeeps, ChildRunKeeps, ToolsKeeps, DeleteKeeps
    DEF Next, Step
<1>4. QED  BY <1>2, <1>3

\* Every reachable state satisfies the invariant, for all constants.
THEOREM Invariance == Spec => []IInv
BY InitKeeps, StepKeeps, PTL DEF Spec

-----------------------------------------------------------------------------
(* What follows of it.                                                       *)

\* Whatever the runs, children and results, and however the deletions and the
\* ends of processes fall: a key that no index leads to was written while a
\* deletion went on or after it, or by a run cancelled before its entry.
THEOREM OnlyLateOrphans == Spec => []OrphansAreLate
<1>1. ASSUME IInv
      PROVE  OrphansAreLate
  <2> SUFFICES ASSUME NEW key \in Keys \cap Unlisted
               PROVE  key \in Loose
    BY DEF OrphansAreLate, Loose
  <2>1. CASE \E r \in Runs \ runIndex : key = RecordKey(r)
    <3>1. PICK r \in Runs \ runIndex : key = RecordKey(r)
      BY <2>1
    <3>2. Exists(r)
      BY <3>1, KeysDiffer DEF Keys
    <3>3. QED
      BY <1>1, <3>1, <3>2
      DEF IInv, OrphanInv, OrphanRecords, DeletionInv, RecordsCleared, DuringOr, Loose
  <2>2. CASE \E t \in Results \ resultIndex : key = ResultKey(t)
    <3>1. PICK t \in Results \ resultIndex : key = ResultKey(t)
      BY <2>2
    <3>2. t \in results
      BY <3>1, KeysDiffer DEF Keys
    <3>3. QED  BY <1>1, <3>1, <3>2 DEF IInv, OrphanInv, OrphanResults
  <2>3. CASE \E c \in Children : children[c] = "none" /\ key \in {MessagesKey(c), MarksKey(c)}
    <3>1. PICK c \in Children : children[c] = "none" /\ key \in {MessagesKey(c), MarksKey(c)}
      BY <2>3
    <3>2. \/ key = MessagesKey(c) /\ messages[c] # {}
          \/ key = MarksKey(c) /\ c \in marks
      BY <3>1, KeysDiffer DEF Keys
    <3>3. c \in Contexts
      BY DEF Contexts
    <3>4. QED
      BY <1>1, <3>1, <3>2, <3>3
      DEF IInv, OrphanInv, OrphanContexts, DeletionInv, ContextsCleared,
          ContextLoose, DuringOr, Loose
  <2>4. QED  BY <2>1, <2>2, <2>3 DEF Unlisted
<1>2. QED  BY Invariance, <1>1, PTL

\* However many runs, children and results there were, and wherever deletions were
\* interrupted: when the hash of a session is gone, it holds what came late or
\* early, and its plan.
THEOREM NothingIsLeft == Spec => []NothingOutlivesSession
<1>1. ASSUME IInv, session = "deleted"
      PROVE  Keys \subseteq Loose \cup PlanKeys
  <2>1. \A x \in Contexts : ContextLoose(x)
    BY <1>1 DEF IInv, DeletionInv, ContextsCleared, DuringOr
  <2>2. \A r \in Runs : Exists(r) => RecordKey(r) \in Loose
    BY <1>1 DEF IInv, DeletionInv, RecordsCleared, DuringOr
  <2>3. /\ \A t \in results : ResultKey(t) \in Loose
        /\ resultIndex # {} => IndexKey("results") \in Loose
    BY <1>1 DEF IInv, DeletionInv, ResultsCleared, DuringOr
  <2>4. /\ runIndex # {} => IndexKey("runs") \in Loose
        /\ ~(\A c \in Children : children[c] = "none") => IndexKey("children") \in Loose
    BY <1>1 DEF IInv, DeletionInv, IndicesCleared
  <2>5. marks \subseteq Contexts
    BY <1>1 DEF IInv, Typed, TypeOK
  <2>6. QED  BY <2>1, <2>2, <2>3, <2>4, <2>5 DEF Keys, ContextLoose
<1>2. IInv => NothingOutlivesSession
  BY <1>1 DEF NothingOutlivesSession, Loose
<1>3. QED  BY Invariance, <1>2, PTL

\* A record without a TTL has only the terminal fields.
Lasting == \A r \in Runs : Exists(r) /\ ~record[r].ttl => record[r].fields = "partial"

\* A run that ends adds its fields to a record that is or was there, or is early.
LEMMA EndsRecord ==
  ASSUME IInv, NEW r \in Runs,
         \/ r \in Masters /\ (Terminal(r) \/ CancelledEarly(r))
         \/ r \in ChildRuns /\ (Finish(r) \/ TellCancelled(r) \/ CancelledChild(r))
  PROVE  /\ \A q \in Runs : q # r => record'[q] = record[q]
         /\ \/ record'[r] = record[r]
            \/ record'[r].fields = "partial" /\ record[r].fields = "gone"
            \/ record'[r].fields = "partial" /\ RecordKey(r) \in early'
<1>1. record \in Records /\ Updated(r)
  BY DEF Terminal, CancelledEarly, Finish, TellCancelled, CancelledChild,
         IInv, Typed, TypeOK, Records
<1>2. CancelledEarly(r) \/ Recorded(r)
  BY RunKinds
  DEF Terminal, Finish, TellCancelled, CancelledChild, InChild, At, Active, Recorded,
      IInv, Typed, Places, ChildPcs
<1>3. record[r].fields # "none" \/ RecordKey(r) \in early'
  BY <1>2 DEF CancelledEarly, IInv, RunInv, RunsListed
<1>4. CASE Exists(r)
  BY <1>1, <1>4, Updates
<1>5. CASE ~Exists(r)
  <2>1. record'[r].fields = "partial" /\ record[r].fields \in {"none", "gone"}
    BY <1>1, <1>5, Updates DEF Records, Exists
  <2>2. QED  BY <1>1, <1>3, <2>1, Updates
<1>6. QED  BY <1>4, <1>5

\* The records that lapse or are deleted are no others than those of RecordsLapse.
LEMMA LapseStep ==
  ASSUME IInv, Lasting, Next
  PROVE  RecordsLapse
<1> SUFFICES ASSUME NEW r \in Runs, Exists(r)', ~record'[r].ttl
             PROVE  /\ record'[r].fields = "partial"
                    /\ record'[r] = record[r] \/ record[r].fields = "gone" \/ RecordKey(r) \in early'
  BY DEF RecordsLapse
<1>1. CASE record'[r] = record[r]
  BY <1>1 DEF Lasting, Exists
<1>2. ASSUME NEW q \in Runs,
             \/ q \in Masters /\ (Terminal(q) \/ CancelledEarly(q))
             \/ q \in ChildRuns /\ (Finish(q) \/ TellCancelled(q) \/ CancelledChild(q)),
             record'[r] # record[r]
      PROVE  /\ record'[r].fields = "partial"
             /\ record[r].fields = "gone" \/ RecordKey(r) \in early'
  BY <1>2, EndsRecord
<1>3. ASSUME NEW q \in Runs, CreateRecord(q) \/ Lapse(q)
      PROVE  record'[r] = record[r]
  BY <1>3 DEF CreateRecord, Lapse, Gone, Exists, IInv, Typed, TypeOK
<1>4. ASSUME DeleteRuns
      PROVE  record'[r] = record[r]
  BY <1>4 DEF DeleteRuns, Gone, Exists
<1>5. ASSUME record' # record
      PROVE  \/ \E q \in Masters : Terminal(q) \/ CancelledEarly(q)
             \/ \E q \in ChildRuns : Finish(q) \/ TellCancelled(q) \/ CancelledChild(q)
             \/ \E q \in Runs : CreateRecord(q) \/ Lapse(q)
             \/ DeleteRuns
  <2>1. CASE CreateSession
    BY <1>5, <2>1 DEF CreateSession
  <2>2. CASE Delete
    BY <1>5, <2>2
    DEF Delete, ListRuns, ListChildren, DeleteChildContext, DeleteMainContext, DeleteContext,
        ListResults, DeleteBodies, DeleteResultIndex, DeleteMetadata, Interrupt, redis
  <2>3. ASSUME NEW m \in Masters, Master(m)
        PROVE  Terminal(m) \/ CancelledEarly(m)
    BY <1>5, <2>3 DEF Master, Request, Enter, Append, Abort, Unlock, Crash, Task, redis
  <2>4. ASSUME NEW k \in ChildRuns, ChildRun(k)
        PROVE  Finish(k) \/ TellCancelled(k) \/ CancelledChild(k)
    BY <1>5, <2>4 DEF ChildRun, Register, PushChild, Leave, redis
  <2>5. ASSUME NEW q \in Runs, Begin(q) \/ Tools(q)
        PROVE  CreateRecord(q) \/ Lapse(q)
    BY <1>5, <2>5
    DEF Begin, ReadHistory, PushSummary, MarkDirty, Prepared, Input, Tools, Answer, CountTask,
        PersistResult, Query, redis
  <2>6. QED  BY <2>1, <2>2, <2>3, <2>4, <2>5 DEF Next, Step
<1>6. CASE record'[r] # record[r]
  <2>1. record' # record
    BY <1>6
  <2>2. \E q \in Runs : \/ q \in Masters /\ (Terminal(q) \/ CancelledEarly(q))
                        \/ q \in ChildRuns /\ (Finish(q) \/ TellCancelled(q) \/ CancelledChild(q))
    BY <1>3, <1>4, <1>5, <1>6, <2>1, RunKinds
  <2>3. QED  BY <1>2, <1>6, <2>2
<1>7. QED  BY <1>1, <1>6

\* Every record that does not lapse is what a run wrote behind a record that had
\* lapsed or been deleted, or before it had one.
THEOREM RecordsAreBounded == Spec => LastingRecordsAreRemains
<1>1. Init => Lasting
  BY DEF Init, NoRecord, Lasting, Exists
<1>2. IInv /\ Lasting /\ [Next]_vars => Lasting'
  <2>1. ASSUME RecordsLapse
        PROVE  Lasting'
    BY <2>1 DEF RecordsLapse, Lasting
  <2>2. Lasting /\ UNCHANGED vars => Lasting'
    BY DEF Lasting, vars, redis, Exists
  <2>3. QED  BY <2>1, <2>2, LapseStep
<1>3. IInv /\ Lasting /\ [Next]_vars => [RecordsLapse]_vars
  BY LapseStep
<1>4. QED  BY <1>1, <1>2, <1>3, Invariance, PTL DEF Spec, LastingRecordsAreRemains

-----------------------------------------------------------------------------
(* References.  While no deletion has met a run, what messages and runs name *)
(* is stored and listed: runs only add results, and a deletion removes the   *)
(* messages of every context that names one before the results.              *)

Held == results \cap resultIndex
Named(f) == f.seen \cup ({f.pending, f.asked} \ {None})

\* A run that is not at work names nothing; one that asks asks for something.
Frames ==
  \A r \in Runs : /\ run[r].pc \in {"idle", "checked", "done"} => Named(run[r]) = {}
                  /\ run[r].pc = "ask" => run[r].asked \in Results

Resolved ==
  /\ \A x \in Contexts : messages[x] \ {"text"} \subseteq Held
  /\ \A r \in Runs : Named(run[r]) \subseteq Held
  /\ \A c \in Children : children[c] = "none" => messages[c] \subseteq {"text"}

\* What a deletion has passed names nothing.
TextOnly ==
  /\ del.pc = "contexts" => \A c \in Children \ del.children : messages[c] \subseteq {"text"}
  /\ DuringOr({"records", "list", "bodies", "index", "metadata"}) =>
       \A x \in Contexts : messages[x] \subseteq {"text"}

Alone == Deleting \/ session = "deleted" => \A r \in Runs : ~Active(r)

PInv == ~missing /\ Frames /\ (~torn => Resolved /\ TextOnly /\ Alone)

\* A step of r that leaves the other runs alone.
Renames(r, more) ==
  /\ \A q \in Runs : q # r => run'[q] = run[q]
  /\ Named(run'[r]) \subseteq Named(run[r]) \cup more
  /\ run'[r].pc \in {"idle", "checked", "done"} => Named(run'[r]) = {}
  /\ run'[r].pc = "ask" => run'[r].asked \in Results

\* A run that renames keeps what holds of the frames.
LEMMA RenamesFrames ==
  ASSUME Frames, NEW r \in Runs, NEW more, Renames(r, more)
  PROVE  Frames'
BY DEF Frames, Renames

\* Goto names nothing new.
LEMMA GoesNames ==
  ASSUME run \in [Runs -> Frame], NEW r \in Runs, NEW pc \in Pcs, Goto(r, pc),
         pc \notin {"idle", "ask"}, pc \in {"checked", "done"} => Named(run[r]) = {}
  PROVE  Renames(r, {})
<1>1. /\ \A q \in Runs : q # r => run'[q] = run[q]
      /\ run'[r].pc = pc /\ run'[r].seen = run[r].seen
      /\ run'[r].pending = run[r].pending /\ run'[r].asked = run[r].asked
  BY DEF Goto, Frame
<1>2. Named(run'[r]) = Named(run[r])
  BY <1>1 DEF Named
<1>3. QED  BY <1>1, <1>2 DEF Renames

\* A frame that is left names nothing.
LEMMA LeftNames ==
  ASSUME NEW f \in Frame
  PROVE  Left(f) \in Frame /\ Left(f).pc = "done" /\ Named(Left(f)) = {}
BY DEF Left, Frame, Pcs, Named

\* A run that ends names nothing.
LEMMA EndsNames ==
  ASSUME run \in [Runs -> Frame], NEW r \in Runs, Done(r)
  PROVE  Renames(r, {})
<1>1. /\ \A q \in Runs : q # r => run'[q] = run[q]
      /\ run'[r] = Left(run[r])
  BY DEF Done
<1>2. QED  BY <1>1, LeftNames DEF Renames

\* A new frame names what its run named, and what is added.
LEMMA ReframesNames ==
  ASSUME run \in [Runs -> Frame], NEW r \in Runs, NEW f \in Frame, NEW more,
         run' = [run EXCEPT ![r] = f], Named(f) \subseteq Named(run[r]) \cup more,
         f.pc \notin {"idle", "checked", "done"}, f.pc = "ask" => f.asked \in Results
  PROVE  Renames(r, more)
BY DEF Renames

\* A step that adds only what is held keeps the references resolved.
LEMMA StepRefers ==
  ASSUME Resolved, NEW r \in Runs, NEW more \in SUBSET Held', Renames(r, more),
         results \subseteq results', resultIndex \subseteq resultIndex',
         \A c \in Children : children'[c] = "none" => children[c] = "none",
         \A x \in Contexts : messages'[x] \ {"text"} \subseteq messages[x] \cup Held,
         \A c \in Children : children'[c] = "none" => messages'[c] \subseteq messages[c] \cup {"text"}
  PROVE  Resolved'
<1>1. Held \subseteq Held'
  BY DEF Held
<1>2. \A x \in Contexts : messages'[x] \ {"text"} \subseteq Held'
  BY <1>1 DEF Resolved
<1>3. \A q \in Runs : Named(run'[q]) \subseteq Held'
  BY <1>1 DEF Resolved, Renames
<1>4. \A c \in Children : children'[c] = "none" => messages'[c] \subseteq {"text"}
  BY DEF Resolved
<1>5. QED  BY <1>2, <1>3, <1>4 DEF Resolved

\* A history names what its context names, and that is held.
LEMMA BeginRefers ==
  ASSUME Typed, Frames, NEW r \in Runs, Begin(r)
  PROVE  Frames' /\ (Resolved => Resolved') /\ UNCHANGED missing
<1>1. run \in [Runs -> Frame] /\ Active(r) /\ Context(r) \in Contexts
  BY ContextType
  DEF Typed, TypeOK, Begin, ReadHistory, PushSummary, MarkDirty, Prepared, Input, CreateRecord,
      At, Active, Unmarked
<1>2. CASE ReadHistory(r)
  <2> DEFINE named == messages[Context(r)] \ {"text"}
  <2>1. named \in SUBSET Results
    BY <1>1 DEF Messages, Typed, TypeOK
  <2>2. PICK pc \in {"input", "prepare"} :
          run' = [run EXCEPT ![r] = [@ EXCEPT !.pc = pc, !.seen = named]]
    BY <1>2 DEF ReadHistory
  <2> DEFINE f == [run[r] EXCEPT !.pc = pc, !.seen = named]
  <2>3. f \in Frame /\ f.pc = pc /\ Named(f) \subseteq Named(run[r]) \cup named
    <3> HIDE DEF named
    <3>1. run[r] \in Frame
      BY <1>1
    <3>2. pc \in Pcs
      BY DEF Pcs
    <3>3. f \in Frame
      BY <2>1, <3>1, <3>2 DEF Frame
    <3>4. /\ f.pc = pc /\ f.seen = named
          /\ f.pending = run[r].pending /\ f.asked = run[r].asked
      BY <3>1 DEF Frame
    <3>5. QED  BY <3>3, <3>4 DEF Named
  <2>4. Renames(r, named)
    BY <1>1, <2>2, <2>3, ReframesNames
  <2>5. UNCHANGED <<messages, children, results, resultIndex, missing>>
    BY <1>2 DEF ReadHistory, redis, ghosts
  <2>6. Resolved => named \subseteq Held'
    BY <1>1, <2>5 DEF Resolved, Held
  <2>7. QED
    <3> HIDE DEF named
    <3>1. QED  BY <2>4, <2>5, <2>6, RenamesFrames, StepRefers
<1>3. CASE PushSummary(r) \/ MarkDirty(r) \/ Prepared(r) \/ Input(r) \/ CreateRecord(r)
  <2>1. \E pc \in {"dirty", "input", "create", "loop", "read"} : Goto(r, pc)
    BY <1>3 DEF PushSummary, MarkDirty, Prepared, Input, CreateRecord, AfterInput, AfterCreate
  <2>2. Renames(r, {})
    BY <1>1, <2>1, GoesNames DEF Pcs
  <2>3. /\ UNCHANGED <<results, resultIndex, missing>>
        /\ \A x \in Contexts : messages'[x] \subseteq messages[x] \cup {"text"}
    BY <1>3
    DEF PushSummary, MarkDirty, Prepared, Input, CreateRecord, Pushed, redis, ghosts, Typed, TypeOK
  <2>4. \A c \in Children : children'[c] = "none" => children[c] = "none"
    BY <1>3
    DEF PushSummary, MarkDirty, Prepared, Input, CreateRecord, redis, Typed, TypeOK
  <2>5. QED  BY <2>2, <2>3, <2>4, RenamesFrames, StepRefers DEF Contexts
<1>4. QED  BY <1>2, <1>3 DEF Begin

\* A message of the master names what its run was given.
LEMMA MasterRefers ==
  ASSUME Typed, Frames, NEW m \in Masters, Master(m)
  PROVE  Frames' /\ (Resolved => Resolved') /\ UNCHANGED missing
<1> m \in Runs  BY RunKinds
<1>1. run \in [Runs -> Frame]
  BY DEF Typed, TypeOK
<1>2. CASE Request(m) \/ Enter(m) \/ Unlock(m) \/ Abort(m)
  <2>1. Renames(m, {})
    <3>1. CASE Request(m) \/ Enter(m)
      <4>1. Named(run[m]) = {} /\ \E pc \in {"checked", "done", "read"} : Goto(m, pc)
        BY <3>1 DEF Request, Enter, At, Frames
      <4>2. QED  BY <1>1, <4>1, GoesNames DEF Pcs
    <3>2. CASE Unlock(m)
      BY <1>1, <3>2, EndsNames DEF Unlock
    <3>3. CASE Abort(m)
      BY <1>1, <3>3, GoesNames DEF Abort, Pcs
    <3>4. QED  BY <1>2, <3>1, <3>2, <3>3
  <2>2. UNCHANGED <<messages, children, results, resultIndex, missing>>
    BY <1>2 DEF Request, Enter, Unlock, Abort, redis, ghosts
  <2>3. QED  BY <2>1, <2>2, RenamesFrames, StepRefers
<1>3. CASE Append(m)
  <2> DEFINE f == [run[m] EXCEPT !.pending = None]
  <2>1. run' = [run EXCEPT ![m] = f] /\ run[m].pc = "loop"
    BY <1>3 DEF Append, At
  <2>2. f \in Frame /\ f.pc = "loop" /\ Named(f) \subseteq Named(run[m])
    BY <1>1, <2>1 DEF Frame, Named
  <2>3. Renames(m, {})
    BY <1>1, <2>1, <2>2, ReframesNames
  <2>4. Told(m) \in {"text"} \cup Named(run[m])
    BY DEF Told, Named
  <2>5. /\ UNCHANGED <<children, results, resultIndex, missing>>
        /\ messages' = [messages EXCEPT !["main"] = @ \cup {Told(m)}]
    BY <1>3 DEF Append, Pushed
  <2>6. /\ \A x \in Contexts : messages'[x] \subseteq messages[x] \cup {Told(m)}
        /\ \A c \in Children : messages'[c] = messages[c]
    BY <2>5, NamesAssumption DEF Contexts, Typed, TypeOK
  <2>7. Resolved => Told(m) \in {"text"} \cup Held
    BY <2>4 DEF Resolved
  <2>8. QED  BY <2>3, <2>5, <2>6, <2>7, RenamesFrames, StepRefers
<1>4. CASE Terminal(m) \/ CancelledEarly(m)
  <2>1. Renames(m, {})
    BY <1>1, <1>4, GoesNames DEF Terminal, CancelledEarly, Pcs
  <2>2. /\ UNCHANGED <<children, results, resultIndex, missing>>
        /\ \A x \in Contexts : messages'[x] \subseteq messages[x] \cup {"text"}
    BY <1>4 DEF Terminal, CancelledEarly, Pushed, Typed, TypeOK
  <2>3. QED  BY <2>1, <2>2, RenamesFrames, StepRefers DEF Contexts
<1>5. CASE Crash(m)
  <2>1. \A q \in Runs : run'[q] = run[q] \/ (run'[q].pc = "done" /\ Named(run'[q]) = {})
    BY <1>1, <1>5, LeftNames DEF Crash
  <2>2. UNCHANGED <<messages, children, results, resultIndex, missing>>
    BY <1>5 DEF Crash, redis, ghosts
  <2>3. Frames'
    BY <2>1 DEF Frames
  <2>4. QED  BY <2>1, <2>2, <2>3 DEF Resolved, Held
<1>6. ASSUME NEW k \in ChildRuns, NEW c \in Children, Task(m, k, c)
      PROVE  Frames' /\ (Resolved => Resolved') /\ UNCHANGED missing
  <2> k \in Runs  BY RunKinds
  <2> DEFINE f == [run[k] EXCEPT !.pc = "create", !.child = c, !.parent = m]
  <2>1. run' = [run EXCEPT ![k] = f]
    BY <1>6 DEF Task
  <2>2. f \in Frame /\ f.pc = "create" /\ Named(f) = Named(run[k])
    BY <1>1 DEF Frame, Pcs, Named
  <2>3. Renames(k, {})
    BY <1>1, <2>1, <2>2, ReframesNames
  <2>4. UNCHANGED <<messages, children, results, resultIndex, missing>>
    BY <1>6 DEF Task, redis, ghosts
  <2>5. QED  BY <2>3, <2>4, RenamesFrames, StepRefers
<1>7. QED  BY <1>2, <1>3, <1>4, <1>5, <1>6 DEF Master

\* So does that of a child, which is listed when it names a result.
LEMMA ChildRunRefers ==
  ASSUME IInv, Frames, NEW k \in ChildRuns, ChildRun(k)
  PROVE  Frames' /\ (Resolved /\ session # "deleted" => Resolved') /\ UNCHANGED missing
<1> k \in Runs  BY RunKinds
<1>1. run \in [Runs -> Frame] /\ Typed
  BY DEF IInv, Typed, TypeOK
<1>2. CASE Register(k)
  <2>1. Renames(k, {})
    BY <1>1, <1>2, GoesNames DEF Register, Pcs
  <2>2. /\ UNCHANGED <<messages, results, resultIndex, missing>>
        /\ \A c \in Children : children'[c] = "none" => children[c] = "none"
    BY <1>1, <1>2 DEF Register, Typed, TypeOK
  <2>3. QED  BY <2>1, <2>2, RenamesFrames, StepRefers
<1>3. CASE PushChild(k)
  <2> DEFINE f == [run[k] EXCEPT !.pc = "loop", !.pending = None]
  <2>1. f \in Frame /\ f.pc = "loop" /\ Named(f) \subseteq Named(run[k])
    BY <1>1 DEF Frame, Pcs, Named
  <2>2. Renames(k, {})
    <3>1. CASE At(k, "push")
      <4>1. run' = [run EXCEPT ![k] = f]
        BY <1>3, <3>1 DEF PushChild
      <4>2. QED  BY <1>1, <2>1, <4>1, ReframesNames
    <3>2. CASE ~At(k, "push")
      BY <1>1, <1>3, <3>2, EndsNames DEF PushChild, Done
    <3>3. QED  BY <3>1, <3>2
  <2>3. Told(k) \in {"text"} \cup Named(run[k])
    BY DEF Told, Named
  <2>4. /\ UNCHANGED <<children, results, resultIndex, missing>>
        /\ \A x \in Contexts : /\ messages'[x] \subseteq messages[x] \cup {Told(k)}
                               /\ x # run[k].child => messages'[x] = messages[x]
    BY <1>1, <1>3 DEF PushChild, Pushed, Typed, TypeOK
  <2>5. session # "deleted" => children[run[k].child] # "none"
    BY <1>3 DEF PushChild, At, Opened, IInv, RunInv, ChildListed
  <2>6. Resolved => Told(k) \in {"text"} \cup Held
    BY <2>3 DEF Resolved
  <2>7. QED  BY <2>2, <2>4, <2>5, <2>6, RenamesFrames, StepRefers DEF Contexts
<1>4. CASE Finish(k) \/ TellCancelled(k) \/ CancelledChild(k) \/ Leave(k)
  <2>1. Renames(k, {})
    BY <1>1, <1>4, GoesNames, EndsNames DEF Finish, TellCancelled, CancelledChild, Leave, Pcs
  <2>2. /\ UNCHANGED <<children, results, resultIndex, missing>>
        /\ \A x \in Contexts : messages'[x] \subseteq messages[x] \cup {"text"}
    BY <1>1, <1>4
    DEF Finish, TellCancelled, CancelledChild, Leave, Pushed, redis, ghosts, Typed, TypeOK
  <2>3. QED  BY <2>1, <2>2, RenamesFrames, StepRefers DEF Contexts
<1>5. QED  BY <1>2, <1>3, <1>4 DEF ChildRun

\* A query misses only where a deletion has met a run.
LEMMA ToolsRefers ==
  ASSUME Typed, Frames, ~missing, torn \/ Resolved, NEW r \in Runs, Tools(r)
  PROVE  Frames' /\ (Resolved => Resolved') /\ ~missing'
<1>1. run \in [Runs -> Frame]
  BY DEF Typed, TypeOK
<1>2. CASE Answer(r)
  <2> DEFINE f == [run[r] EXCEPT !.pc = "loop", !.asked = None]
  <2>1. run' = [run EXCEPT ![r] = f] /\ run[r].pc = "ask"
    BY <1>2 DEF Answer, At
  <2>2. f \in Frame /\ f.pc = "loop" /\ Named(f) \subseteq Named(run[r])
    BY <1>1 DEF Frame, Pcs, Named
  <2>3. Renames(r, {})
    BY <1>1, <2>1, <2>2, ReframesNames
  <2>4. UNCHANGED <<messages, children, results, resultIndex>>
    BY <1>2 DEF Answer, redis
  <2>5. Resolved => run[r].asked \in results
    BY <2>1, NamesAssumption DEF Frames, Named, Resolved, Held
  <2>6. ~missing'
    BY <1>2, <2>5 DEF Answer
  <2>7. QED  BY <2>3, <2>4, <2>6, RenamesFrames, StepRefers
<1>3. CASE Lapse(r)
  BY <1>3 DEF Lapse, Frames, Resolved, Held
<1>4. ASSUME NEW t \in Results, PersistResult(r, t)
      PROVE  Frames' /\ (Resolved => Resolved') /\ ~missing'
  <2> DEFINE f == [run[r] EXCEPT !.pending = t, !.seen = run[r].seen \cup {t}]
  <2>1. run' = [run EXCEPT ![r] = f] /\ run[r].pc = "loop"
    BY <1>4 DEF PersistResult, At
  <2>2. f \in Frame /\ f.pc = "loop" /\ Named(f) \subseteq Named(run[r]) \cup {t}
    BY <1>1, <2>1 DEF Frame, Named
  <2>3. Renames(r, {t})
    BY <1>1, <2>1, <2>2, ReframesNames
  <2>4. /\ UNCHANGED <<messages, children, missing>>
        /\ results' = results \cup {t} /\ resultIndex' = resultIndex \cup {t}
    BY <1>4 DEF PersistResult
  <2>5. {t} \subseteq Held'
    BY <2>4 DEF Held
  <2>6. QED  BY <2>3, <2>4, <2>5, RenamesFrames, StepRefers
<1>5. ASSUME NEW t \in Results, Query(r, t)
      PROVE  Frames' /\ (Resolved => Resolved') /\ ~missing'
  <2>1. UNCHANGED <<messages, children, results, resultIndex>>
    BY <1>5 DEF Query, redis
  <2>2. t \in Named(run[r])
    BY <1>5 DEF Query, Named
  <2>3. CASE t \in resultIndex
    <3> DEFINE f == [run[r] EXCEPT !.pc = "ask", !.asked = t]
    <3>1. run' = [run EXCEPT ![r] = f] /\ UNCHANGED missing
      BY <1>5, <2>3 DEF Query
    <3>2. f \in Frame /\ f.pc = "ask" /\ f.asked = t /\ Named(f) \subseteq Named(run[r])
      BY <1>1, <2>2 DEF Frame, Pcs, Named
    <3>3. Renames(r, {})
      BY <1>1, <3>1, <3>2, ReframesNames
    <3>4. QED  BY <2>1, <3>1, <3>3, RenamesFrames, StepRefers
  <2>4. CASE t \notin resultIndex
    <3>1. UNCHANGED run /\ missing' = (missing \/ ~torn)
      BY <1>5, <2>4 DEF Query
    <3>2. torn
      BY <2>2, <2>4 DEF Resolved, Held
    <3>3. QED  BY <2>1, <3>1, <3>2 DEF Frames, Resolved, Held
  <2>5. QED  BY <2>3, <2>4
<1>6. CASE CountTask(r)
  BY <1>6 DEF CountTask, ghosts, Frames, Resolved, Held
<1>7. QED  BY <1>2, <1>3, <1>4, <1>5, <1>6 DEF Tools

\* A step of a run that is under way, when no deletion is.
Works ==
  \/ \E r \in Runs : Begin(r) \/ (Tools(r) /\ ~Lapse(r))
  \/ \E m \in Masters : Master(m) /\ ~Request(m)
  \/ \E k \in ChildRuns : ChildRun(k)

\* Such a step has a run that is active, and is no step of a deletion.
LEMMA WorksActive ==
  ASSUME Works
  PROVE  (\E r \in Runs : Active(r)) /\ UNCHANGED <<session, del>>
<1>1. ASSUME NEW r \in Runs, Begin(r)
      PROVE  Active(r) /\ UNCHANGED <<session, del>>
  BY <1>1
  DEF Begin, ReadHistory, PushSummary, MarkDirty, Prepared, Input, CreateRecord,
      At, Active, Unmarked, redis
<1>2. ASSUME NEW r \in Runs, Tools(r), ~Lapse(r)
      PROVE  Active(r) /\ UNCHANGED <<session, del>>
  BY <1>2 DEF Tools, Answer, CountTask, PersistResult, Query, At, Active, redis
<1>3. ASSUME NEW m \in Masters, Master(m), ~Request(m)
      PROVE  Active(m) /\ UNCHANGED <<session, del>>
  BY <1>3
  DEF Master, Enter, Append, Terminal, Abort, CancelledEarly, Unlock, Crash, Task,
      BeforeRecord, At, Active, redis
<1>4. ASSUME NEW k \in ChildRuns, ChildRun(k)
      PROVE  Active(k) /\ UNCHANGED <<session, del>>
  BY <1>4
  DEF ChildRun, Register, PushChild, Finish, TellCancelled, CancelledChild, Leave,
      InChild, At, Active, Unmarked, redis
<1>5. QED  BY <1>1, <1>2, <1>3, <1>4, RunKinds DEF Works

\* A deletion that meets no run takes results from no one.
LEMMA DeleteRefers ==
  ASSUME IInv, Frames, Resolved, TextOnly, Alone, Delete, ~Overlap'
  PROVE  Resolved' /\ TextOnly' /\ Alone'
<1>1. UNCHANGED run /\ del \in Deletion
  BY DEF Delete, ListRuns, ListChildren, DeleteChildContext, DeleteMainContext, DeleteContext,
         DeleteRuns, ListResults, DeleteBodies, DeleteResultIndex, DeleteMetadata, Interrupt,
         IInv, Typed, TypeOK
<1>2. Deleting => \A r \in Runs : ~Active(r) /\ Named(run[r]) = {}
  BY DEF Alone, Frames, Active
<1>3. CASE ListRuns \/ ListChildren \/ DeleteRuns \/ ListResults \/ Interrupt
  <2>1. UNCHANGED <<session, messages, children, results, resultIndex>>
    BY <1>3 DEF ListRuns, ListChildren, DeleteRuns, ListResults, Interrupt, redis
  <2>2. Resolved'
    BY <1>1, <2>1 DEF Resolved, Held
  <2>3. \/ del'.pc \in {"children", "idle"}
        \/ del.pc = "children" /\ del'.pc = "contexts"
           /\ del'.children = {c \in Children : children[c] # "none"}
        \/ del.pc \in {"records", "list"} /\ del'.pc \in {"list", "bodies"}
    BY <1>1, <1>3
    DEF ListRuns, ListChildren, DeleteRuns, ListResults, Interrupt, NoDeletion, Deletion
  <2>4. TextOnly'
    BY <2>1, <2>3 DEF TextOnly, DuringOr, Resolved
  <2>5. Alone'
    BY <1>1, <2>1 DEF Alone, Overlap, Active
  <2>6. QED  BY <2>2, <2>4, <2>5
<1>4. ASSUME NEW x \in Contexts, DeleteContext(x), del.pc = "contexts",
             \/ del' = [del EXCEPT !.children = del.children \ {x}]
             \/ x = "main" /\ del.children = {} /\ del' = [del EXCEPT !.pc = "records"]
      PROVE  Resolved' /\ TextOnly' /\ Alone'
  <2>1. /\ UNCHANGED <<session, children, results, resultIndex>>
        /\ messages'[x] = {} /\ \A y \in Contexts : y # x => messages'[y] = messages[y]
    BY <1>4 DEF DeleteContext, IInv, Typed, TypeOK
  <2>2. Resolved'
    BY <1>1, <2>1 DEF Resolved, Held, Contexts
  <2>3. \/ del'.pc = "contexts" /\ del'.children = del.children \ {x}
        \/ x = "main" /\ del.children = {} /\ del'.pc = "records"
    BY <1>1, <1>4 DEF Deletion
  <2>4. TextOnly'
    BY <1>4, <2>1, <2>3 DEF TextOnly, DuringOr, Contexts
  <2>5. Alone'
    BY <1>1, <2>1 DEF Alone, Overlap, Active
  <2>6. QED  BY <2>2, <2>4, <2>5
<1>5. CASE DeleteBodies \/ DeleteResultIndex \/ DeleteMetadata
  <2>1. UNCHANGED messages /\ Deleting /\ \A x \in Contexts : messages[x] \subseteq {"text"}
    BY <1>5 DEF DeleteBodies, DeleteResultIndex, DeleteMetadata, Deleting, TextOnly, DuringOr
  <2>2. Resolved'
    BY <1>1, <1>2, <2>1 DEF Resolved, Contexts
  <2>3. TextOnly'
    BY <2>1 DEF TextOnly, Contexts
  <2>4. Alone'
    BY <1>1, <1>2, <2>1 DEF Alone, Active
  <2>5. QED  BY <2>2, <2>3, <2>4
<1>6. CASE DeleteMainContext
  BY <1>4, <1>6, NamesAssumption DEF DeleteMainContext, Contexts
<1>7. ASSUME NEW c \in Children, DeleteChildContext(c)
      PROVE  Resolved' /\ TextOnly' /\ Alone'
  BY <1>4, <1>7 DEF DeleteChildContext, Contexts
<1>8. QED  BY <1>3, <1>5, <1>6, <1>7 DEF Delete

\* Every step keeps the references.
LEMMA ReferencesKept ==
  ASSUME IInv, PInv, Next
  PROVE  PInv'
<1>1. Typed /\ Frames /\ ~missing /\ (torn \/ Resolved)
  BY DEF IInv, PInv
<1>2. CASE Works
  <2>1. Frames' /\ ~missing' /\ (Resolved /\ session # "deleted" => Resolved')
    BY <1>1, <1>2, BeginRefers, MasterRefers, ChildRunRefers, ToolsRefers DEF Works
  <2>2. (\E r \in Runs : Active(r)) /\ UNCHANGED <<session, del>>
    BY <1>2, WorksActive
  <2>3. ASSUME ~torn'
        PROVE  Resolved' /\ TextOnly' /\ Alone'
    <3>1. ~torn /\ ~Deleting
      BY <2>2, <2>3 DEF Next, Overlap
    <3>2. session # "deleted"
      BY <2>2, <3>1 DEF PInv, Alone
    <3>3. QED  BY <2>1, <2>2, <3>1, <3>2 DEF PInv, TextOnly, DuringOr, Alone, Deleting
  <2>4. QED  BY <2>1, <2>3 DEF PInv
<1>3. CASE \E m \in Masters : Request(m)
  <2> PICK m \in Masters : Request(m)
    BY <1>3
  <2>1. Frames' /\ (Resolved => Resolved') /\ ~missing'
    BY <1>1, MasterRefers DEF Master
  <2>2. UNCHANGED <<session, messages, del>>
    BY DEF Request, redis
  <2>3. TextOnly => TextOnly'
    BY <2>2 DEF TextOnly, DuringOr
  <2>4. ASSUME ~torn'
        PROVE  Alone'
    <3>1. CASE Deleting
      BY <2>2, <2>4, <3>1 DEF Next, Overlap, Alone, Deleting
    <3>2. CASE ~Deleting /\ session = "deleted"
      <4>1. Goto(m, "done") /\ \A r \in Runs : ~Active(r)
        BY <2>4, <3>2 DEF Request, PInv, Alone, Next
      <4>2. \A r \in Runs : ~Active(r)'
        BY <1>1, <4>1, Goes DEF Active, Typed, TypeOK, Moves, Goto, Pcs
      <4>3. QED  BY <4>2 DEF Alone
    <3>3. QED  BY <2>2, <3>1, <3>2 DEF Alone, Deleting
  <2>5. QED  BY <2>1, <2>3, <2>4 DEF PInv, Next
<1>4. CASE CreateSession \/ \E r \in Runs : Lapse(r)
  <2>1. /\ UNCHANGED <<messages, children, results, resultIndex, run, del, missing>>
        /\ session' = "deleted" <=> session = "deleted"
    BY <1>4 DEF CreateSession, Lapse, ghosts
  <2>2. Frames' /\ (Resolved => Resolved') /\ ~missing'
    BY <1>1, <2>1 DEF Frames, Resolved, Held
  <2>3. (TextOnly => TextOnly') /\ (Alone => Alone')
    BY <2>1 DEF TextOnly, DuringOr, Alone, Deleting, Active
  <2>4. QED  BY <2>2, <2>3 DEF PInv, Next
<1>5. CASE Delete
  <2>1. UNCHANGED <<run, missing>>
    BY <1>5
    DEF Delete, ListRuns, ListChildren, DeleteChildContext, DeleteMainContext, DeleteContext,
        DeleteRuns, ListResults, DeleteBodies, DeleteResultIndex, DeleteMetadata, Interrupt, ghosts
  <2>2. Frames' /\ ~missing'
    BY <1>1, <2>1 DEF Frames
  <2>3. ~torn' => ~torn /\ ~Overlap'
    BY DEF Next
  <2>4. QED  BY <1>5, <2>2, <2>3, DeleteRefers DEF PInv
<1>6. QED  BY <1>2, <1>3, <1>4, <1>5 DEF Next, Step, Works

\* Until a deletion meets a run, every preview that a message holds names a
\* result that is stored and listed, and every query is answered.
THEOREM PreviewsAreKept == Spec => []PreviewsResolve
<1>1. Init => PInv
  <2> SUFFICES ASSUME Init PROVE PInv
    OBVIOUS
  <2>1. /\ \E had, known : messages = LeftBehind(had, known) /\ results = known
        /\ resultIndex = results
    BY DEF Init
  <2>2. /\ \A x \in Contexts : messages[x] \ {"text"} \subseteq Held
        /\ \A c \in Children : messages[c] \subseteq {"text"}
    <3>1. PICK had, known : messages = LeftBehind(had, known) /\ results = known /\ resultIndex = known
      BY <2>1
    <3>2. \A c \in Children : c \in Contexts /\ c # "main"
      BY NamesAssumption DEF Contexts
    <3>3. \A x \in Contexts : messages[x] \subseteq {"text"} \cup known
      BY <3>1 DEF LeftBehind
    <3>4. \A c \in Children : messages[c] \subseteq {"text"}
      BY <3>1, <3>2 DEF LeftBehind
    <3>5. QED  BY <3>1, <3>3, <3>4 DEF Held
  <2>3. \A r \in Runs : run[r].pc = "idle" /\ Named(run[r]) = {}
    BY DEF Init, Named
  <2>4. ~missing /\ del.pc = "idle" /\ session # "deleted"
    BY DEF Init
  <2>5. Frames /\ Resolved
    BY <2>2, <2>3 DEF Frames, Resolved
  <2>6. TextOnly /\ Alone
    BY <2>4 DEF TextOnly, DuringOr, Alone, Deleting
  <2>7. QED  BY <2>4, <2>5, <2>6 DEF PInv
<1>2. IInv /\ PInv /\ [Next]_vars => PInv'
  <2>1. PInv /\ UNCHANGED vars => PInv'
    BY DEF PInv, Frames, Resolved, Held, TextOnly, DuringOr, Alone, Deleting, Active,
           vars, redis, ghosts
  <2>2. QED  BY <2>1, ReferencesKept
<1>3. PInv => PreviewsResolve
  BY DEF PInv, Resolved, Held, PreviewsResolve
<1>4. QED  BY <1>1, <1>2, <1>3, Invariance, PTL DEF Spec
=============================================================================
