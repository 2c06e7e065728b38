------------------------------ MODULE TaskBoard ------------------------------
(***************************************************************************)
(* The plan of a session: TaskService (src/app/services/task_service.py)   *)
(* over RedisTaskStore, as the plan_* tools call it.  The tool calls of    *)
(* one turn run in parallel, each a sequence of Redis commands on the hash *)
(* of the session's tasks with the tasks it has read in local variables.   *)
(*                                                                         *)
(* Of a task only the dependency lists are modelled: the other fields are  *)
(* overwritten by a save like the lists are, and decide nothing.           *)
(***************************************************************************)
EXTENDS Naturals, FiniteSets, SequencesExt

CONSTANTS Callers,   \* plan tool calls that may be in progress together
          MaxTasks,  \* bound on the tasks ever created
          MaxEdges   \* bound on the dependencies one call may add

Mishaps == {"overlap",  \* a call starts while another is in progress
            "refused",  \* a call names a task that is missing, or its own
            "repeat"}   \* a call names the same dependency twice

ASSUME BoundsAssumption == MaxTasks \in Nat /\ MaxEdges \in Nat

Ids == 1..MaxTasks

\* A dependency to add: the list of the task it goes to, and the other task.
Edges == {"blocks", "blockedBy"} \X Ids

Other(list) == IF list = "blocks" THEN "blockedBy" ELSE "blocks"

VARIABLES counter,  \* the task counter of the session
          tasks,    \* the hash: the task of each field it has
          call,     \* the tool call each caller is in
          seen      \* the mishaps so far, for the properties to refer to

vars == <<counter, tasks, call, seen>>

Task == [blocks : Seq(Ids), blockedBy : Seq(Ids)]

NewTask == [blocks |-> <<>>, blockedBy |-> <<>>]

Idle == [pc |-> "idle", id |-> 0, todo |-> <<>>, task |-> NewTask, target |-> NewTask,
         sweep |-> <<>>]

Init == /\ counter = 0
        /\ tasks = <<>>
        /\ call = [c \in Callers |-> Idle]
        /\ seen = {}

At(c, pc) == call[c].pc = pc

Exists(i) == i \in DOMAIN tasks

Refs(task, i) == Contains(task.blocks, i) \/ Contains(task.blockedBy, i)

\* HSET and HDEL.
Save(i, task) ==
  tasks' = [j \in DOMAIN tasks \union {i} |-> IF j = i THEN task ELSE tasks[j]]

Drop(i) == tasks' = Restrict(tasks, DOMAIN tasks \ {i})

\* The call of c goes on with the frame f.
Becomes(c, f) == call' = [call EXCEPT ![c] = f]

Return(c) == Becomes(c, Idle)

Quiet == \A c \in Callers : At(c, "idle")

\* A call starts, alone or not.
Start(mishaps) == seen' = seen \union mishaps \union (IF Quiet THEN {} ELSE {"overlap"})

-----------------------------------------------------------------------------
(* create_task: INCR, then HSET.                                           *)

TakeIdByCount(c) ==  \* mutant: the next id is the number of tasks plus one
  /\ At(c, "idle")
  /\ counter < MaxTasks
  /\ counter' = counter + 1
  /\ Becomes(c, [Idle EXCEPT !.pc = "create", !.id = Cardinality(DOMAIN tasks) + 1])
  /\ Start({})
  /\ UNCHANGED tasks

TakeId(c) ==
  /\ At(c, "idle")
  /\ counter < MaxTasks
  /\ counter' = counter + 1
  /\ Becomes(c, [Idle EXCEPT !.pc = "create", !.id = counter + 1])
  /\ Start({})
  /\ UNCHANGED tasks

Create(c) ==
  /\ At(c, "create")
  /\ Save(call[c].id, NewTask)
  /\ Return(c)
  /\ UNCHANGED <<counter, seen>>

-----------------------------------------------------------------------------
(* update_task: what it was asked for, the task, then edge after edge.     *)

\* The dependencies a call can name: what it blocks, then what blocks it.
Requests == {todo \in UNION {[1..n -> Edges] : n \in 0..MaxEdges} :
               \A k, l \in DOMAIN todo :
                 k < l /\ todo[l][1] = "blocks" => todo[k][1] = "blocks"}

\* What the task lists already is dropped, and makes no difference.
IsNew(task, todo) == \A k \in DOMAIN todo : ~Contains(task[todo[k][1]], todo[k][2])

Repeats(todo) == IF IsInjective(todo) THEN {} ELSE {"repeat"}

\* get_task: a task that is not there ends the call.
Read(c) ==
  /\ At(c, "idle")
  /\ \E i \in DOMAIN tasks : \E todo \in Requests :
       /\ IsNew(tasks[i], todo)
       /\ Start(Repeats(todo))
       /\ Becomes(c, [Idle EXCEPT !.pc = "edges", !.id = i, !.task = tasks[i], !.todo = todo])
  /\ UNCHANGED <<counter, tasks>>

\* A task that blocks itself or does not exist: ValueError, nothing undone.
EdgeRefused(c) ==
  /\ At(c, "edges")
  /\ call[c].todo # <<>>
  /\ LET j == Head(call[c].todo)[2] IN j = call[c].id \/ ~Exists(j)
  /\ seen' = seen \union {"refused"}
  /\ Return(c)
  /\ UNCHANGED <<counter, tasks>>

\* The lists of a task with one more entry.
Listing(task, list, j) == [task EXCEPT ![list] = Append(@, j)]

EdgeOneSided(c) ==  \* mutant: the other side is left to the other task
  /\ At(c, "edges")
  /\ call[c].todo # <<>>
  /\ LET list == Head(call[c].todo)[1]
         j == Head(call[c].todo)[2]
     IN /\ j # call[c].id
        /\ Exists(j)
        /\ Becomes(c, [call[c] EXCEPT !.task = Listing(call[c].task, list, j),
                                      !.todo = Tail(call[c].todo)])
  /\ UNCHANGED <<counter, tasks, seen>>

\* The other task is read, and saved next if it has to list this one.
Edge(c) ==
  /\ At(c, "edges")
  /\ call[c].todo # <<>>
  /\ LET list == Head(call[c].todo)[1]
         j == Head(call[c].todo)[2]
         extended == [call[c] EXCEPT !.task = Listing(call[c].task, list, j)]
     IN /\ j # call[c].id
        /\ Exists(j)
        /\ IF Contains(tasks[j][Other(list)], call[c].id)
           THEN Becomes(c, [extended EXCEPT !.todo = Tail(call[c].todo)])
           ELSE Becomes(c, [extended EXCEPT !.pc = "target",
                              !.target = Listing(tasks[j], Other(list), call[c].id)])
  /\ UNCHANGED <<counter, tasks, seen>>

SaveTarget(c) ==
  /\ At(c, "target")
  /\ Save(Head(call[c].todo)[2], call[c].target)
  /\ Becomes(c, [call[c] EXCEPT !.pc = "edges", !.todo = Tail(call[c].todo), !.target = NewTask])
  /\ UNCHANGED <<counter, seen>>

SaveTask(c) ==
  /\ At(c, "edges")
  /\ call[c].todo = <<>>
  /\ Save(call[c].id, call[c].task)
  /\ Return(c)
  /\ UNCHANGED <<counter, seen>>

-----------------------------------------------------------------------------
(* update_task with status "deleted".                                      *)

ReadToDelete(c) ==
  /\ At(c, "idle")
  /\ \E i \in DOMAIN tasks : Becomes(c, [Idle EXCEPT !.pc = "delete", !.id = i])
  /\ Start({})
  /\ UNCHANGED <<counter, tasks>>

Delete(c) ==
  /\ At(c, "delete")
  /\ Drop(call[c].id)
  /\ Becomes(c, [call[c] EXCEPT !.pc = "list"])
  /\ UNCHANGED <<counter, seen>>

Forget(task, i) == [blocks |-> RemoveFirst(task.blocks, i),
                    blockedBy |-> RemoveFirst(task.blockedBy, i)]

\* HGETALL: the tasks that name the deleted one, each without it.
List(c) ==
  /\ At(c, "list")
  /\ LET i == call[c].id
         naming == {j \in DOMAIN tasks : Refs(tasks[j], i)}
     IN Becomes(c, [call[c] EXCEPT !.pc = "sweep",
                      !.sweep = [j \in naming |-> Forget(tasks[j], i)]])
  /\ UNCHANGED <<counter, tasks, seen>>

\* They are saved in the order that HGETALL gave them, which is any.
Sweep(c) ==
  /\ At(c, "sweep")
  /\ LET sweep == call[c].sweep IN
     \E j \in DOMAIN sweep :
       /\ Save(j, sweep[j])
       /\ Becomes(c, [call[c] EXCEPT !.sweep = Restrict(sweep, DOMAIN sweep \ {j})])
  /\ UNCHANGED <<counter, seen>>

Deleted(c) ==
  /\ At(c, "sweep")
  /\ DOMAIN call[c].sweep = {}
  /\ Return(c)
  /\ UNCHANGED <<counter, tasks, seen>>

-----------------------------------------------------------------------------
Step(c) == \/ Create(c) \/ EdgeRefused(c) \/ Edge(c) \/ SaveTarget(c) \/ SaveTask(c)
           \/ Delete(c) \/ List(c) \/ Sweep(c) \/ Deleted(c)

Next == \E c \in Callers : TakeId(c) \/ Read(c) \/ ReadToDelete(c) \/ Step(c)

Spec == Init /\ [][Next]_vars

-----------------------------------------------------------------------------
(* Properties.                                                             *)

\* A hash of tasks: what a session stores, and what a deletion has read of it.
Hash == UNION {[ids -> Task] : ids \in SUBSET Ids}

Calls == [pc : {"idle", "create", "edges", "target", "delete", "list", "sweep"},
          id : Ids \union {0}, todo : Seq(Edges), task : Task, target : Task, sweep : Hash]

TypeOK ==
  /\ counter \in 0..MaxTasks
  /\ tasks \in Hash
  /\ call \in [Callers -> Calls]
  /\ seen \subseteq Mishaps

\* i lists j on one side and j lists i on the other.
Lists(i, list, j) == Exists(i) /\ Contains(tasks[i][list], j)

OneSided(i, j) == \E list \in {"blocks", "blockedBy"} :
                    Lists(i, list, j) /\ ~Lists(j, Other(list), i)

\* Calls that come one at a time, repeat nothing and are never refused keep the
\* two lists of a dependency in agreement, over their several saves, and leave
\* no list that names a task that is gone: while such a call is in progress
\* only its own task may disagree with others, and nothing does at rest.
AsymmetryIsLocal ==
  \A i, j \in Ids :
    seen = {} /\ OneSided(i, j) => \E c \in Callers : ~At(c, "idle") /\ call[c].id \in {i, j}

\* Only create_task makes a task exist.
OnlyCreateAdds ==
  \A i \in DOMAIN tasks' \ DOMAIN tasks : \E c \in Callers : At(c, "create") /\ call[c].id = i

\* "deleted" deletes for good (plan_update_tool.py:39): no later save of a copy
\* read before the deletion brings the task back.
DeletedStaysDeleted == [][OnlyCreateAdds]_vars

\* create_task never writes over a task, nor two of them to one id, however
\* calls and deletions interleave.
IdsAreFresh ==
  \A c \in Callers : At(c, "create") =>
    /\ ~Exists(call[c].id)
    /\ \A d \in Callers \ {c} : ~(At(d, "create") /\ call[d].id = call[c].id)
=============================================================================
