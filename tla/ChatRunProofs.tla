---------------------------- MODULE ChatRunProofs ----------------------------
(***************************************************************************)
(* What is proved of ChatRun for every number of runs, sessions and        *)
(* messages.                                                               *)
(***************************************************************************)
EXTENDS ChatRun, SequenceTheorems, FiniteSetTheorems, TLAPS

\* The lock keeps its promise: the heartbeat loses no lock that nobody has
\* taken, and no TTL runs out under a run.  Store calls may fail, and the
\* server may cancel the task of a request.
Steady == Faults \cap {"beat", "lapse"} = {}

LEMMA SessionOfType == \A r \in Runs : SessionOf[r] \in Sessions
BY RunsAssumption

\* A frame that a run can have: the chain has no more to store than the loop
\* has produced, and a terminal status is written for a terminal event.
Sound(f) == /\ f \in Frame
            /\ f.queue <= f.steps
            /\ f.pc \in {"persist", "persistFailed", "lateCancel", "persistLost"} => f.term # "none"
            /\ f.applied => f.pc \in StorePcs
            /\ f.pc = "flush" => f.exc = "cancelled" \/ f.loopTerm # "none"

Typed == TypeOK /\ \A r \in Runs : Sound(run[r])

-----------------------------------------------------------------------------
(* The inductive invariant, as far as the lock is concerned. *)

\* Where the body of the lock scope and its heartbeat run.
InsidePcs == {"prepare", "user", "create", "loop", "yield", "flush", "persist",
              "persistFailed", "finally", "window", "lateFlush", "lateCancel", "stop"}

\* The lock of a session is held by a run of that session that asked for it.
LockInv == /\ \A s \in Sessions : holder[s] # NoRun => SessionOf[holder[s]] = s
           /\ \A r \in Runs : holder[SessionOf[r]] = r => phase[r] # "out"

\* How far a run is and how far its lock scope is.
PhaseInv(r) ==
  /\ run[r].pc = "idle" => phase[r] = "out"
  /\ run[r].pc \in InsidePcs => phase[r] = "in"
  /\ run[r].pc \in {"release", "exit"} => phase[r] = "leaving"
  /\ run[r].pc = "persistLost" => phase[r] = "gone"
  /\ run[r].pc = "done" => phase[r] \in {"out", "gone"}

\* With a lock that keeps its promise a run inside holds it, and nobody but the
\* server cancels its task; behind the release it is given back, unless Redis
\* failed or the request was cut while it asked for the lock.
HoldInv(r) ==
  /\ run[r].pc \in InsidePcs => holder[SessionOf[r]] = r
  /\ run[r].pc = "exit" => holder[SessionOf[r]] # r \/ run[r].failed
  /\ run[r].pc = "done" => holder[SessionOf[r]] # r \/ run[r].failed \/ emitted[r] = "none"
  /\ run[r].pc # "persistLost" /\ ~run[r].beatLost
  /\ run[r].cancelReq \/ run[r].cleanCut => run[r].killed

-----------------------------------------------------------------------------
(* The inductive invariant, run by run. *)

\* On the way out, with no terminal event stored.
Bare(r) == \/ run[r].pc \in {"window", "lateFlush"}
           \/ run[r].pc = "lateCancel" /\ ~run[r].applied
           \/ run[r].pc = "finally" /\ run[r].term = "none"

\* Before the record is there, and while it says that the run is running.
Unrecorded(r) == \/ run[r].pc \in {"idle", "prepare", "user"}
                 \/ run[r].pc = "create" /\ ~run[r].applied

Underway(r) == \/ run[r].pc \in {"loop", "yield", "flush"}
               \/ run[r].pc \in {"persist", "persistFailed"} /\ ~run[r].applied

\* The record follows the frame of its run.
RecordInv(r) ==
  /\ run[r].pc \in {"idle", "prepare", "user", "create"} => ~run[r].created
  /\ Unrecorded(r) => stored[r] = "absent"
  /\ run[r].pc = "create" /\ run[r].applied => stored[r] = "running"
  /\ Underway(r) => stored[r] = "running" /\ run[r].created
  /\ Bare(r) => stored[r] \in {"absent", "running"}
  /\ run[r].pc \in {"persist", "persistFailed", "lateCancel"} => run[r].term # "none"
  /\ run[r].pc = "lateCancel" => run[r].term = "cancelled"
  /\ run[r].pc \in {"persist", "persistFailed", "lateCancel"} /\ run[r].applied
    => stored[r] = Status(run[r].term)
  /\ run[r].pc = "finally" /\ run[r].term # "none" /\ ~run[r].failed /\ run[r].exc # "cancelled"
    => stored[r] = Status(run[r].term)
  /\ run[r].pc \in {"stop", "release", "exit"} /\ ~run[r].failed /\ run[r].exc # "cancelled" =>
       IF run[r].term = "none"
       THEN (~run[r].created \/ run[r].killed) /\ stored[r] \in {"absent", "running"}
       ELSE stored[r] = Status(run[r].term)
  /\ run[r].pc = "done" /\ run[r].created /\ ~run[r].failed /\ ~run[r].killed
    => stored[r] \in Terminal

\* What is on its way out of a run says how it got there.
ExitInv(r) ==
  /\ run[r].exc = "cancelled" => run[r].killed
  /\ run[r].pc \in {"idle", "prepare", "user", "create", "loop", "yield", "persist"}
       => run[r].exc = "none"
  /\ run[r].pc = "flush" => \/ run[r].exc = "cancelled"
                            \/ run[r].exc = "none" /\ run[r].loopTerm # "none"
  /\ run[r].pc \in {"idle", "prepare", "user", "create", "loop", "yield", "flush",
                   "window", "lateFlush"} => run[r].term = "none"
  /\ run[r].pc = "persistFailed" => run[r].term = "failed" /\ run[r].exc = "error"
  /\ run[r].exc = "none" => /\ run[r].pc \notin {"window", "lateFlush", "lateCancel"}
                            /\ run[r].pc \in {"finally", "stop", "release", "exit"}
                                 => run[r].term # "none"
  /\ run[r].exc = "error" => ~run[r].created \/ run[r].failed
  /\ run[r].exc = "closed" => /\ run[r].asked \/ run[r].killed
                              /\ run[r].closing /\ ~run[r].cancelReq
                              /\ run[r].term \in {"none", "cancelled"}
  /\ run[r].pc = "window" => ~run[r].created \/ run[r].failed \/ run[r].killed
  /\ run[r].term \in {"completed", "empty"} /\ ~run[r].failed
       => run[r].exc \in {"none", "cancelled"}

\* The write chain is empty but for a run in its loop or behind a close, which
\* does not wait for it if the server brought it about and nobody asked.
ChainInv(r) ==
  /\ run[r].bufErr => run[r].failed /\ run[r].queue = 0
  /\ ~run[r].created => run[r].queue = 0
  /\ run[r].queue > 0 => \/ run[r].pc \in {"loop", "yield", "flush", "lateFlush"}
                         \/ run[r].pc = "finally" /\ run[r].term = "none" /\ run[r].exc = "closed"
                         \/ /\ run[r].pc \in {"window", "stop", "release", "exit"}
                            /\ run[r].killed /\ run[r].exc = "closed"
                         \/ run[r].pc = "done" /\ run[r].killed
  /\ run[r].pc \in {"idle", "prepare", "user", "create", "persist"} => ~run[r].failed
  /\ run[r].pc \in {"loop", "yield", "flush"} /\ run[r].failed => run[r].bufErr

\* What was emitted is stored.
EmitInv(r) ==
  /\ emitted[r] # "none" => run[r].pc = "done"
  /\ run[r].pc = "done" /\ ~run[r].failed =>
       /\ emitted[r] \in Terminal => stored[r] = emitted[r]
       /\ stored[r] = "completed" /\ ~run[r].killed => emitted[r] = "completed"

-----------------------------------------------------------------------------
(* The inductive invariant, as far as the history is concerned. *)

Log(r) == log[SessionOf[r]]

\* The history has nothing of the run, or messages of it that no answer or hint
\* has closed and that only strays of other runs interrupt.
Unseen(r) == \A i \in 1..Len(Log(r)) : Log(r)[i][1] # r

Open(r) ==
  /\ ~Unseen(r)
  /\ \A i \in 1..Len(Log(r)) : Log(r)[i][1] = r =>
       /\ Log(r)[i][2] \in {"user", "step"}
       /\ \A k \in i..Len(Log(r)) : Log(r)[k][1] = r \/ Stray(Log(r)[k])

\* Before its user message, and while messages of the run may follow.
Silent(r) == \/ run[r].pc \in {"idle", "prepare"}
             \/ run[r].pc = "user" /\ ~run[r].applied

Talking(r) == \/ run[r].pc = "user" /\ run[r].applied
              \/ run[r].pc = "create"
              \/ Underway(r)
              \/ run[r].queue > 0 /\ run[r].pc \in InsidePcs

LogInv(r) ==
  /\ Silent(r) => Unseen(r)
  /\ Talking(r) => Open(r)
  /\ Bare(r) => Unseen(r) \/ Open(r)

SteadyInv ==
  /\ LockInv
  /\ \A r \in Runs : /\ PhaseInv(r) /\ HoldInv(r) /\ RecordInv(r) /\ ExitInv(r)
                     /\ ChainInv(r) /\ EmitInv(r) /\ LogInv(r)

IInv == Typed /\ SteadyInv

\* How many messages of its loop the history has of a run.
Stored(r) == Count(log[SessionOf[r]], <<r, "step">>)

\* For every choice of faults: the messages of a run are stored, queued, or lost
\* with an error or a cancellation that keeps the run from completing.
StepsInv(r) ==
  /\ run[r].pc \in {"idle", "prepare", "user", "create"} =>
       run[r].steps = 0 /\ run[r].queue = 0 /\ Stored(r) = 0 /\ ~run[r].bufErr
  /\ run[r].pc \in {"loop", "yield", "flush"} /\ ~run[r].bufErr =>
       Stored(r) + run[r].queue = run[r].steps
  /\ run[r].pc = "persist" => Stored(r) = run[r].steps
  /\ run[r].bufErr \/ run[r].pc \in {"persist", "persistFailed"} => run[r].queue = 0
  /\ Unrecorded(r) \/ Underway(r) \/ Bare(r) => stored[r] # "completed"
  /\ run[r].pc = "create" => stored[r] # "completed"
  /\ run[r].term \in {"completed", "empty"} /\ run[r].pc \in StorePcs => run[r].pc = "persist"
  /\ run[r].pc \in {"idle", "prepare"} => run[r].term = "none"
  /\ stored[r] = "completed" => Stored(r) = run[r].steps /\ run[r].queue = 0

WholeInv == Typed /\ \A r \in Runs : StepsInv(r)

-----------------------------------------------------------------------------
(* Types. *)

LEMMA FrameOf == ASSUME Typed, NEW r \in Runs PROVE Sound(run[r])
BY DEF Typed

\* What the fields of a sound frame can be.
LEMMA Fields ==
  ASSUME NEW f, Sound(f)
  PROVE  /\ f.pc \in Pcs /\ f.exc \in {"none", "error", "cancelled", "closed"}
         /\ f.term \in Outcomes \union {"none"} /\ f.loopTerm \in Outcomes \union {"none"}
         /\ {f.applied, f.created, f.asked, f.gone, f.closing, f.cancelReq, f.beatLost,
             f.cleanCut, f.bufErr, f.failed, f.killed} \subseteq BOOLEAN
         /\ f.steps \in 0..MaxSteps /\ f.queue \in 0..MaxSteps /\ f.queue <= f.steps
BY DEF Sound, Frame

\* The places of the generator, one by one.
LEMMA Places ==
  /\ {"idle", "prepare", "user", "create", "loop", "yield"} \subseteq Pcs
  /\ {"flush", "persist", "persistFailed", "finally", "window", "lateFlush"} \subseteq Pcs
  /\ {"lateCancel", "stop", "release", "exit", "persistLost", "done"} \subseteq Pcs
BY DEF Pcs

\* A step makes another frame of the frame of its run, and of no other.
LEMMA Reframe ==
  ASSUME Typed, NEW r \in Runs, NEW f, Sound(f), Becomes(r, f)
  PROVE  /\ run' \in [Runs -> Frame] /\ run'[r] = f
         /\ \A q \in Runs \ {r} : run'[q] = run[q]
         /\ \A q \in Runs : Sound(run'[q])
<1>1. run \in [Runs -> Frame] /\ f \in Frame /\ run' = [run EXCEPT ![r] = f]
  BY DEF Typed, TypeOK, Sound, Becomes
<1>2. run' \in [Runs -> Frame] /\ run'[r] = f /\ \A q \in Runs \ {r} : run'[q] = run[q]
  BY <1>1
<1>3. QED  BY <1>2 DEF Typed

\* A step that leaves everything but the frame alone keeps the types.
LEMMA PureType ==
  ASSUME Typed, NEW r \in Runs, NEW f, Sound(f), Becomes(r, f),
         UNCHANGED <<leaseVars, storeVars, emitted>>
  PROVE  Typed'
BY Reframe DEF leaseVars, storeVars, Typed, TypeOK

\* The places that ask nothing of the frame that goes there.
Plain == Pcs \ {"persist", "persistFailed", "lateCancel", "persistLost", "flush"}

LEMMA GotoSound ==
  ASSUME Typed, NEW r \in Runs, NEW p \in Plain, NEW e \in {"none", "error", "cancelled", "closed"}
  PROVE  Sound([run[r] EXCEPT !.pc = p, !.applied = FALSE, !.exc = e])
BY FrameOf DEF Sound, Frame, Plain

LEMMA GotoType ==
  ASSUME Typed, NEW r \in Runs, NEW p \in Plain, NEW e \in {"none", "error", "cancelled", "closed"},
         Goto(r, p, e)
  PROVE  run' \in [Runs -> Frame] /\ \A q \in Runs : Sound(run'[q])
BY GotoSound, Reframe DEF Goto

LEMMA OverSound ==
  ASSUME Typed, NEW r \in Runs, NEW b \in BOOLEAN
  PROVE  Sound([Fresh EXCEPT
            !.pc = "done", !.created = run[r].created, !.asked = run[r].asked,
            !.gone = run[r].gone, !.steps = run[r].steps, !.queue = run[r].queue,
            !.failed = b, !.killed = run[r].killed])
<1>1. Fresh \in Frame /\ ~Fresh.applied
  BY StepsAssumption DEF Fresh, Frame, Pcs
<1>2. /\ {run[r].created, run[r].asked, run[r].gone, run[r].killed} \subseteq BOOLEAN
      /\ {run[r].steps, run[r].queue} \subseteq 0..MaxSteps /\ run[r].queue <= run[r].steps
  BY FrameOf, Fields
<1>3. "done" \in Pcs
  BY DEF Pcs
<1> DEFINE f == [Fresh EXCEPT
            !.pc = "done", !.created = run[r].created, !.asked = run[r].asked,
            !.gone = run[r].gone, !.steps = run[r].steps, !.queue = run[r].queue,
            !.failed = b, !.killed = run[r].killed]
<1>4. f \in Frame
  BY <1>1, <1>2, <1>3 DEF Frame
<1>5. f.pc = "done" /\ ~f.applied /\ f.queue <= f.steps
  BY <1>1, <1>2 DEF Frame
<1>6. QED  BY <1>4, <1>5 DEF Sound

LEMMA OverType ==
  ASSUME Typed, NEW r \in Runs, NEW b \in BOOLEAN, Over(r, b)
  PROVE  run' \in [Runs -> Frame] /\ \A q \in Runs : Sound(run'[q])
BY OverSound, Reframe DEF Over

Events == Terminal \union {"none", "request_failed"}

LEMMA FinishType ==
  ASSUME Typed, NEW r \in Runs, NEW event \in Events, Finish(r, event)
  PROVE  /\ run' \in [Runs -> Frame] /\ \A q \in Runs : Sound(run'[q])
         /\ emitted' \in [Runs -> Events]
<1>1. run[r].failed \in BOOLEAN
  BY FrameOf, Fields
<1>2. run' \in [Runs -> Frame] /\ \A q \in Runs : Sound(run'[q])
  BY <1>1, OverType DEF Finish
<1>3. QED  BY <1>2 DEF Finish, Typed, TypeOK, Events

\* The frames that steps make are frames.
LEMMA EntryType ==
  ASSUME Typed, NEW r \in Runs,
         \/ Reject(r) \/ AcquireLock(r) \/ Conflict(r) \/ AcquireFails(r)
         \/ Prepare(r) \/ PrepareRaises(r)
  PROVE  Typed'
<1> USE SessionOfType DEF At, leaseVars, storeVars
<1>1. CASE Reject(r)
  BY <1>1, FinishType DEF Reject, Events, Typed, TypeOK
<1>2. CASE AcquireLock(r)
  <2>1. run' \in [Runs -> Frame] /\ \A q \in Runs : Sound(run'[q])
    BY <1>2, GotoType DEF AcquireLock, Plain, Pcs
  <2>2. QED  BY <1>2, <2>1 DEF AcquireLock, Lease!Grant, Lease!Move, Typed, TypeOK
<1>3. CASE Conflict(r)
  <2>1. /\ run' \in [Runs -> Frame] /\ \A q \in Runs : Sound(run'[q])
        /\ emitted' \in [Runs -> Events]
    BY <1>3, FinishType DEF Conflict, Events
  <2>2. QED  BY <1>3, <2>1 DEF Conflict, Lease!Deny, Lease!Move, Events, Typed, TypeOK
<1>4. CASE Prepare(r)
  BY <1>4, GotoType DEF Prepare, Typed, TypeOK, Plain, Pcs
<1>5. CASE PrepareRaises(r)
  BY <1>5, GotoType DEF PrepareRaises, Typed, TypeOK, Plain, Pcs
<1>6. CASE AcquireFails(r)
  <2>1. /\ UNCHANGED <<age, storeVars>>
        /\ phase' \in [Runs -> {"out", "in", "leaving", "gone"}]
        /\ holder' \in [Sessions -> Runs \union {NoRun}]
    BY <1>6 DEF AcquireFails, Lease!Move, Typed, TypeOK
  <2>2. CASE Over(r, TRUE) /\ emitted' = [emitted EXCEPT ![r] = "request_failed"]
    <3>1. run' \in [Runs -> Frame] /\ \A q \in Runs : Sound(run'[q])
      BY <2>2, OverType
    <3>2. QED  BY <2>1, <2>2, <3>1 DEF Typed, TypeOK
  <2> DEFINE f == [run[r] EXCEPT !.pc = "done", !.killed = TRUE]
  <2>3. CASE Becomes(r, f) /\ UNCHANGED emitted
    <3>1. run[r] \in Frame /\ "done" \in Pcs /\ ~run[r].applied /\ run[r].queue <= run[r].steps
      BY <1>6, FrameOf, Places DEF Sound, AcquireFails, StorePcs
    <3>2. f \in Frame
      BY <3>1 DEF Frame
    <3>3. f.pc = "done" /\ ~f.applied /\ f.queue <= f.steps
      BY <3>1 DEF Frame
    <3>4. Sound(f)
      BY <3>2, <3>3 DEF Sound
    <3>5. QED  BY <2>1, <2>3, <3>4, Reframe DEF Typed, TypeOK
  <2>4. QED  BY <1>6, <2>2, <2>3 DEF AcquireFails
<1>7. QED  BY <1>1, <1>2, <1>3, <1>4, <1>5, <1>6

Kinds == {"user", "step", "answer", "hint"}

LEMMA WriteType ==
  ASSUME Typed, NEW r \in Runs, NEW kind \in Kinds, Write(r, kind)
  PROVE  log' \in [Sessions -> Seq(Runs \X Kinds)]
BY SessionOfType DEF Write, Typed, TypeOK, Kinds

LEMMA StatusType ==
  ASSUME NEW term \in Outcomes
  PROVE  Status(term) \in Terminal
BY DEF Status, Outcomes, Terminal

LEMMA AppliedType ==
  ASSUME Typed, NEW r \in Runs, CallApplied(r)
  PROVE  Typed'
<1>1. run' \in [Runs -> Frame] /\ \A q \in Runs : Sound(run'[q])
  <2>1. Sound([run[r] EXCEPT !.applied = TRUE])
    BY FrameOf DEF Sound, Frame, CallApplied
  <2>2. QED  BY <2>1, Reframe DEF CallApplied
<1>2. CASE At(r, "user")
  <2>1. AppendUserMessage(r) /\ UNCHANGED <<leaseVars, emitted>>
    BY <1>2 DEF CallApplied, At
  <2>2. QED  BY <1>1, <2>1, WriteType DEF AppendUserMessage, Kinds, leaseVars, Typed, TypeOK
<1>3. CASE At(r, "create")
  BY <1>1, <1>3 DEF CallApplied, CreateRecord, At, leaseVars, Typed, TypeOK
<1>4. CASE run[r].pc \in {"persist", "persistFailed", "lateCancel", "persistLost"}
  <2>1. TerminalWrite(r) /\ UNCHANGED <<leaseVars, emitted>>
    BY <1>4 DEF CallApplied, At
  <2>2. Status(run[r].term) \in Terminal
    <3>1. run[r].term \in Outcomes
      BY <1>4, FrameOf, Fields DEF Sound
    <3>2. QED  BY <3>1, StatusType
  <2>3. /\ stored' = [stored EXCEPT ![r] = Status(run[r].term)]
        /\ output' = [output EXCEPT ![r] = @ \/ Status(run[r].term) = "completed"]
        /\ Write(r, "answer") \/ Write(r, "hint") \/ UNCHANGED log
    BY <2>1 DEF TerminalWrite
  <2>4. log' \in [Sessions -> Seq(Runs \X Kinds)]
    BY <2>3, WriteType DEF Typed, TypeOK, Kinds
  <2>5. stored' \in [Runs -> Terminal \union {"absent", "running"}] /\ output' \in [Runs -> BOOLEAN]
    BY <2>2, <2>3 DEF Typed, TypeOK
  <2>6. QED  BY <1>1, <2>1, <2>4, <2>5 DEF leaseVars, Typed, TypeOK, Kinds
<1>5. QED  BY <1>2, <1>3, <1>4 DEF CallApplied, StorePcs, At

LEMMA ReturnType ==
  ASSUME Typed, NEW r \in Runs, CallReturns(r)
  PROVE  Typed'
<1>1. CASE Finish(r, "failed")
  BY <1>1, FinishType DEF CallReturns, Events, Terminal, leaseVars, storeVars, Typed, TypeOK
<1>2. CASE UNCHANGED emitted
  <2>1. \/ Goto(r, "create", "none") \/ Goto(r, "finally", "none")
        \/ Goto(r, "finally", "error") \/ Goto(r, "stop", run[r].exc)
        \/ Becomes(r, [run[r] EXCEPT !.pc = "yield", !.applied = FALSE, !.created = TRUE])
        \/ Finish(r, "failed")
    <3>1. run[r].pc \in StorePcs
      BY FrameOf DEF Sound, CallReturns
    <3>2. QED  BY <3>1 DEF CallReturns, StorePcs, At
  <2>2. Sound([run[r] EXCEPT !.pc = "yield", !.applied = FALSE, !.created = TRUE])
    <3> DEFINE f == [run[r] EXCEPT !.pc = "yield", !.applied = FALSE, !.created = TRUE]
    <3>1. f \in Frame
      <4>1. run[r] \in Frame /\ "yield" \in Pcs
        BY FrameOf, Places DEF Sound
      <4>2. QED  BY <4>1 DEF Frame
    <3>2. f.pc = "yield" /\ ~f.applied /\ f.queue <= f.steps
      BY FrameOf DEF Sound, Frame
    <3>3. QED  BY <3>1, <3>2 DEF Sound
  <2>3. run[r].exc \in {"none", "error", "cancelled", "closed"}
    BY FrameOf, Fields
  <2>4. CASE \/ Goto(r, "create", "none") \/ Goto(r, "finally", "none")
             \/ Goto(r, "finally", "error") \/ Goto(r, "stop", run[r].exc)
    <3>1. run' \in [Runs -> Frame] /\ \A q \in Runs : Sound(run'[q])
      BY <2>3, <2>4, GotoType DEF Plain, Pcs
    <3>2. QED  BY <1>2, <3>1 DEF CallReturns, leaseVars, storeVars, Typed, TypeOK
  <2>5. QED  BY <1>1, <1>2, <2>1, <2>2, <2>4, PureType DEF CallReturns
<1>3. QED
  <2>1. run[r].pc \in StorePcs
    BY FrameOf DEF Sound, CallReturns
  <2>2. QED  BY <1>1, <1>2, <2>1 DEF CallReturns, StorePcs, At

LEMMA RaiseType ==
  ASSUME Typed, NEW r \in Runs, CallRaises(r)
  PROVE  Typed'
<1>1. CASE At(r, "persistLost")
  <2>1. run' \in [Runs -> Frame] /\ \A q \in Runs : Sound(run'[q])
    BY <1>1, OverType DEF CallRaises
  <2>2. QED  BY <2>1 DEF CallRaises, leaseVars, storeVars, Typed, TypeOK
<1>2. CASE ~At(r, "persistLost")
  <2> DEFINE f == [run[r] EXCEPT !.pc = IF At(r, "lateCancel") THEN "stop" ELSE "finally",
                        !.applied = FALSE, !.exc = "error", !.failed = TRUE]
  <2>1. f \in Frame
    <3>1. run[r] \in Frame /\ "stop" \in Pcs /\ "finally" \in Pcs
      BY FrameOf, Places DEF Sound, Outcomes, Terminal
    <3>2. QED  BY <3>1 DEF Frame
  <2>2. f.pc \in Plain /\ ~f.applied /\ f.queue <= f.steps
    BY FrameOf DEF Sound, Frame, Plain, Pcs
  <2>3. Sound(f)
    BY <2>1, <2>2 DEF Sound, Plain
  <2>4. Becomes(r, f) /\ UNCHANGED <<leaseVars, storeVars, emitted>>
    BY <1>2 DEF CallRaises
  <2>5. QED  BY <2>3, <2>4, PureType
<1>3. QED  BY <1>1, <1>2

\* StartFlush goes to flush or, when the chain has failed, behind it.
LEMMA FlushSound ==
  ASSUME Typed, NEW r \in Runs, ~run[r].applied,
         NEW exc \in {"none", "error", "cancelled"}, NEW end \in Outcomes \union {"none"},
         run[r].bufErr \/ exc = "cancelled" \/ end # "none",
         StartFlush(r, exc, end)
  PROVE  \E f : Sound(f) /\ Becomes(r, f)
<1>1. CASE run[r].bufErr
  <2> DEFINE f == [run[r] EXCEPT !.cancelReq = FALSE, !.pc = "persistFailed", !.exc = "error",
                                 !.term = "failed", !.loopTerm = "none"]
  <2>1. f \in Frame
    <3>1. run[r] \in Frame /\ "persistFailed" \in Pcs /\ "failed" \in Outcomes
      BY FrameOf, Places DEF Sound, Outcomes, Terminal
    <3>2. QED  BY <3>1 DEF Frame
  <2>2. f.pc = "persistFailed" /\ f.term = "failed" /\ ~f.applied /\ f.queue <= f.steps
    BY FrameOf DEF Sound, Frame
  <2>3. Sound(f)
    BY <2>1, <2>2 DEF Sound
  <2>4. QED  BY <1>1, <2>3 DEF StartFlush
<1>2. CASE ~run[r].bufErr
  <2> DEFINE f == [run[r] EXCEPT !.cancelReq = FALSE, !.pc = "flush", !.exc = exc,
                                 !.term = "none", !.loopTerm = end]
  <2>1. f \in Frame
    <3>1. run[r] \in Frame /\ "flush" \in Pcs
      BY FrameOf, Places DEF Sound, Outcomes, Terminal
    <3>2. QED  BY <3>1 DEF Frame
  <2>2. f.pc = "flush" /\ f.exc = exc /\ f.loopTerm = end /\ ~f.applied /\ f.queue <= f.steps
    BY FrameOf DEF Sound, Frame
  <2>3. Sound(f)
    BY <1>2, <2>1, <2>2 DEF Sound
  <2>4. QED  BY <1>2, <2>3 DEF StartFlush
<1>3. QED  BY <1>1, <1>2

LEMMA LoopType ==
  ASSUME Typed, NEW r \in Runs,
         LoopStep(r) \/ EnqueueRaises(r) \/ LoopEnds(r) \/ ClientReads(r) \/ CloseStream(r)
  PROVE  Typed'
<1>1. SUFFICES \E f : Sound(f) /\ Becomes(r, f)
  BY PureType DEF LoopStep, EnqueueRaises, LoopEnds, ClientReads, CloseStream
<1>2. ASSUME At(r, "loop") \/ At(r, "yield") PROVE ~run[r].applied
  BY <1>2, FrameOf DEF Sound, At, StorePcs
<1>3. CASE LoopStep(r)
  <2>1. PICK next \in {"loop", "yield"} :
          Becomes(r, [run[r] EXCEPT !.pc = next, !.steps = @ + 1, !.queue = @ + 1])
    BY <1>3 DEF LoopStep
  <2> DEFINE f == [run[r] EXCEPT !.pc = next, !.steps = @ + 1, !.queue = @ + 1]
  <2>2. run[r].steps + 1 \in 0..MaxSteps /\ run[r].queue + 1 \in 0..MaxSteps
    BY <1>3, FrameOf, Fields, StepsAssumption DEF LoopStep
  <2>3. f \in Frame
    <3>1. run[r] \in Frame /\ next \in Pcs
      BY FrameOf, Places DEF Sound, Outcomes, Terminal
    <3>2. QED  BY <2>2, <3>1 DEF Frame
  <2>4. f.pc = next /\ ~f.applied /\ f.queue <= f.steps
    BY <1>2, <1>3, FrameOf DEF LoopStep, Sound, Frame
  <2>5. Sound(f)
    BY <2>3, <2>4 DEF Sound
  <2>6. QED  BY <2>1, <2>5
<1>4. CASE EnqueueRaises(r)
  BY <1>2, <1>4, FlushSound DEF EnqueueRaises
<1>5. CASE LoopEnds(r)
  <2>1. "none" \notin Outcomes
    BY DEF Outcomes, Terminal
  <2>2. QED  BY <1>2, <1>5, <2>1, FlushSound DEF LoopEnds
<1>6. CASE ClientReads(r)
  <2> DEFINE f == [run[r] EXCEPT !.pc = "loop"]
  <2>1. f \in Frame /\ f.pc = "loop" /\ ~f.applied /\ f.queue <= f.steps
    BY <1>2, <1>6, FrameOf DEF ClientReads, Sound, Frame, Pcs
  <2>2. Sound(f)
    BY <2>1 DEF Sound
  <2>3. QED  BY <1>6, <2>2 DEF ClientReads
<1>7. CASE CloseStream(r)
  <2> DEFINE f == [run[r] EXCEPT !.pc = "finally", !.exc = "closed", !.closing = TRUE,
                                  !.cancelReq = FALSE, !.asked = @ \/ run[r].gone]
  <2>1. f \in Frame
    <3>1. run[r] \in Frame /\ "finally" \in Pcs /\ run[r].asked \in BOOLEAN /\ run[r].gone \in BOOLEAN
      BY FrameOf, Fields, Places DEF Sound, Outcomes, Terminal
    <3>2. QED  BY <3>1 DEF Frame
  <2>2. f.pc = "finally" /\ ~f.applied /\ f.queue <= f.steps
    BY <1>2, <1>7, FrameOf DEF CloseStream, Sound, Frame
  <2>3. Sound(f)
    BY <2>1, <2>2 DEF Sound
  <2>4. QED  BY <1>7, <2>3 DEF CloseStream
<1>8. QED  BY <1>3, <1>4, <1>5, <1>6, <1>7

LEMMA ChainType ==
  ASSUME Typed, NEW r \in Runs, ChainStep(r)
  PROVE  Typed'
<1>1. run[r].queue \in Nat /\ run[r].queue > 0 /\ run[r].queue - 1 \in 0..MaxSteps
  BY FrameOf, Fields, StepsAssumption DEF ChainStep, ChainWrites, ChainFails
<1>2. log' \in [Sessions -> Seq(Runs \X Kinds)]
  BY WriteType DEF ChainStep, ChainWrites, ChainFails, Kinds, Typed, TypeOK
<1>3. SUFFICES \E f : Sound(f) /\ Becomes(r, f)
  BY <1>2, Reframe
  DEF ChainStep, ChainWrites, ChainFails, leaseVars, Kinds, Typed, TypeOK
<1>4. CASE ChainWrites(r)
  <2> DEFINE f == [run[r] EXCEPT !.queue = @ - 1]
  <2>1. f \in Frame
    BY <1>1, FrameOf DEF Sound, Frame
  <2>2. f.queue <= f.steps /\ f = [run[r] EXCEPT !.queue = f.queue]
    BY <1>1, FrameOf DEF Sound, Frame
  <2>3. Sound(f)
    BY <2>1, <2>2, FrameOf DEF Sound, Frame
  <2>4. QED  BY <1>4, <2>3 DEF ChainWrites
<1>5. CASE ChainFails(r)
  <2> DEFINE f == [run[r] EXCEPT !.queue = 0, !.bufErr = TRUE, !.failed = TRUE]
  <2>1. f \in Frame
    <3>1. run[r] \in Frame /\ 0 \in 0..MaxSteps
      BY FrameOf, StepsAssumption DEF Sound, Outcomes, Terminal
    <3>2. QED  BY <3>1 DEF Frame
  <2>2. Sound(f)
    BY <2>1, FrameOf DEF Sound, Frame
  <2>3. QED  BY <1>5, <2>2 DEF ChainFails
<1>6. QED  BY <1>4, <1>5 DEF ChainStep

LEMMA FlushType ==
  ASSUME Typed, NEW r \in Runs,
         FlushReturns(r) \/ FlushRaises(r) \/ LateFlushReturns(r) \/ LateFlushRaises(r)
  PROVE  Typed'
<1>1. SUFFICES \E f : Sound(f) /\ Becomes(r, f)
  BY PureType DEF FlushReturns, FlushRaises, LateFlushReturns, LateFlushRaises
<1>2. run[r] \in Frame /\ run[r].queue <= run[r].steps /\ ~run[r].applied
  BY FrameOf
  DEF FlushReturns, FlushRaises, LateFlushReturns, LateFlushRaises, Sound, At, StorePcs
<1>3. CASE Goto(r, "finally", "cancelled") \/ Goto(r, "stop", "error")
  BY <1>3, GotoSound DEF Goto, Plain, Pcs
<1>4. CASE /\ FlushReturns(r)
           /\ Becomes(r, [run[r] EXCEPT !.pc = "persist", !.term = run[r].loopTerm])
           /\ run[r].exc # "cancelled"
  <2> DEFINE f == [run[r] EXCEPT !.pc = "persist", !.term = run[r].loopTerm]
  <2>1. run[r].loopTerm \in Outcomes /\ "persist" \in Pcs
    BY <1>4, FrameOf, Fields, Places DEF Sound, FlushReturns, At
  <2>2. f \in Frame /\ f.term = run[r].loopTerm
    BY <1>2, <2>1 DEF Frame
  <2>3. f.pc = "persist" /\ ~f.applied /\ f.queue <= f.steps
    BY <1>2 DEF Frame
  <2>4. Sound(f)
    BY <2>1, <2>2, <2>3 DEF Sound, Outcomes, Terminal
  <2>5. QED  BY <1>4, <2>4
<1>5. CASE FlushRaises(r)
  <2> DEFINE f == [run[r] EXCEPT !.pc = "persistFailed", !.exc = "error", !.term = "failed"]
  <2>1. "persistFailed" \in Pcs /\ "failed" \in Outcomes
    BY Places DEF Outcomes, Terminal
  <2>2. f \in Frame /\ f.term = "failed"
    BY <1>2, <2>1 DEF Frame
  <2>3. f.pc = "persistFailed" /\ ~f.applied /\ f.queue <= f.steps
    BY <1>2 DEF Frame
  <2>4. Sound(f)
    BY <2>2, <2>3 DEF Sound
  <2>5. QED  BY <1>5, <2>4 DEF FlushRaises
<1>6. CASE LateFlushReturns(r)
  <2> DEFINE f == [run[r] EXCEPT !.pc = "lateCancel", !.term = "cancelled"]
  <2>1. "lateCancel" \in Pcs /\ "cancelled" \in Outcomes
    BY Places DEF Outcomes, Terminal
  <2>2. f \in Frame /\ f.term = "cancelled"
    BY <1>2, <2>1 DEF Frame
  <2>3. f.pc = "lateCancel" /\ ~f.applied /\ f.queue <= f.steps
    BY <1>2 DEF Frame
  <2>4. Sound(f)
    BY <2>2, <2>3 DEF Sound
  <2>5. QED  BY <1>6, <2>4 DEF LateFlushReturns
<1>7. QED  BY <1>3, <1>4, <1>5, <1>6 DEF FlushReturns, LateFlushRaises

LEMMA CancelType ==
  ASSUME Typed, NEW r \in Runs, CancelDelivered(r)
  PROVE  Typed'
<1>1. SUFFICES \E f : Sound(f) /\ Becomes(r, f)
  BY PureType DEF CancelDelivered
<1>2. /\ run[r] \in Frame /\ run[r].queue <= run[r].steps /\ run[r].queue \in 0..MaxSteps
      /\ run[r].applied => run[r].pc \in StorePcs
      /\ 0 \in 0..MaxSteps
  BY FrameOf, Fields, StepsAssumption DEF Sound
<1>3. CASE CancelBody(r)
  <2> DEFINE f == [run[r] EXCEPT !.pc = "finally", !.exc = "cancelled",
                                !.applied = FALSE, !.cancelReq = FALSE]
  <2>1. "finally" \in Pcs
    BY Places
  <2>2. f \in Frame
    BY <1>2, <2>1 DEF Frame
  <2>3. f.pc = "finally" /\ ~f.applied /\ f.queue <= f.steps
    BY <1>2 DEF Frame
  <2>4. Sound(f)
    BY <2>2, <2>3 DEF Sound
  <2>5. QED  BY <1>3, <2>4 DEF CancelBody
<1>4. CASE CancelLoop(r)
  <2>1. ~run[r].applied /\ "cancelled" \in Outcomes
    BY <1>2, <1>4 DEF CancelLoop, At, StorePcs, Outcomes, Terminal
  <2>2. QED  BY <1>4, <2>1, FlushSound DEF CancelLoop
<1>5. CASE CancelFlush(r)
  <2> DEFINE f == [run[r] EXCEPT !.pc = IF At(r, "flush") THEN "finally" ELSE "stop",
                                !.exc = "cancelled", !.cancelReq = FALSE, !.queue = 0]
  <2>1. "finally" \in Pcs /\ "stop" \in Pcs /\ run[r].steps \in Nat
    BY <1>2, Places DEF Frame
  <2>2. f \in Frame
    BY <1>2, <2>1 DEF Frame
  <2>3. f.pc \in {"finally", "stop"} /\ f.queue = 0 /\ f.steps = run[r].steps
    BY <1>2 DEF Frame
  <2>4. ~f.applied
    BY <1>2, <1>5 DEF CancelFlush, Frame, StorePcs
  <2>5. Sound(f)
    BY <2>1, <2>2, <2>3, <2>4 DEF Sound
  <2>6. QED  BY <1>5, <2>5 DEF CancelFlush
<1>6. CASE CancelFinally(r)
  <2> DEFINE f == [run[r] EXCEPT !.pc = "stop", !.exc = "cancelled",
                                !.applied = FALSE, !.cancelReq = FALSE]
  <2>1. "stop" \in Pcs
    BY Places
  <2>2. f \in Frame
    BY <1>2, <2>1 DEF Frame
  <2>3. f.pc = "stop" /\ ~f.applied /\ f.queue <= f.steps
    BY <1>2 DEF Frame
  <2>4. Sound(f)
    BY <2>2, <2>3 DEF Sound
  <2>5. QED  BY <1>6, <2>4 DEF CancelFinally
<1>7. CASE CancelCleanup(r)
  <2> DEFINE f == [run[r] EXCEPT !.cleanCut = TRUE, !.cancelReq = FALSE]
  <2>1. f \in Frame
    BY <1>2 DEF Frame
  <2>2. f.pc \in {"stop", "release"} /\ ~f.applied /\ f.queue <= f.steps
    BY <1>2, <1>7 DEF CancelCleanup, Frame, StorePcs
  <2>3. Sound(f)
    BY <2>1, <2>2 DEF Sound
  <2>4. QED  BY <1>7, <2>3 DEF CancelCleanup
<1>8. CASE CancelLost(r)
  <2>1. run[r].failed \in BOOLEAN
    BY FrameOf, Fields
  <2>2. QED  BY <1>8, <2>1, OverSound DEF CancelLost, Over
<1>9. QED  BY <1>3, <1>4, <1>5, <1>6, <1>7, <1>8 DEF CancelDelivered

LEMMA WayOutType ==
  ASSUME Typed, NEW r \in Runs, EnterFinally(r) \/ WindowOver(r) \/ HeartbeatStops(r)
  PROVE  Typed'
<1>1. run[r].exc \in {"none", "error", "cancelled", "closed"}
  BY FrameOf, Fields
<1>2. \E p \in Plain, e \in {"none", "error", "cancelled", "closed"} : Goto(r, p, e)
  <2>1. {"stop", "window", "lateFlush", "release"} \subseteq Plain
    BY DEF Plain, Pcs
  <2>2. CASE EnterFinally(r)
    <3>1. Goto(r, "stop", run[r].exc) \/ StartLateFlush(r) \/ Goto(r, "window", run[r].exc)
      BY <2>2 DEF EnterFinally
    <3>2. QED  BY <1>1, <2>1, <3>1 DEF StartLateFlush
  <2>3. CASE WindowOver(r)
    BY <1>1, <2>1, <2>3 DEF WindowOver, StartLateFlush
  <2>4. CASE HeartbeatStops(r)
    BY <1>1, <2>1, <2>4 DEF HeartbeatStops
  <2>5. QED  BY <2>2, <2>3, <2>4
<1>3. run' \in [Runs -> Frame] /\ \A q \in Runs : Sound(run'[q])
  BY <1>2, GotoType
<1>4. /\ UNCHANGED <<holder, age, storeVars, emitted>>
      /\ UNCHANGED phase \/ phase' = [phase EXCEPT ![r] = "leaving"]
  BY DEF EnterFinally, WindowOver, HeartbeatStops, leaseVars, Lease!StartLeaving, Lease!Move
<1>5. QED  BY <1>3, <1>4 DEF storeVars, Typed, TypeOK

LEMMA ReleasedType ==
  ASSUME Typed, NEW r \in Runs, LockReleased(r)
  PROVE  Typed'
<1>1. /\ run[r] \in Frame /\ run[r].queue <= run[r].steps /\ ~run[r].applied
      /\ run[r].exc \in {"none", "error", "cancelled", "closed"}
  BY FrameOf, Fields DEF Sound, LockReleased, At, StorePcs
<1>2. \E f : Sound(f) /\ Becomes(r, f)
  <2>1. CASE Goto(r, "exit", run[r].exc)
    BY <1>1, <2>1, GotoSound DEF Goto, Plain, Pcs
  <2> DEFINE f == [run[r] EXCEPT !.pc = "exit", !.failed = TRUE]
  <2>2. CASE Becomes(r, f)
    <3>1. "exit" \in Pcs
      BY Places
    <3>2. f \in Frame
      BY <1>1, <3>1 DEF Frame
    <3>3. f.pc = "exit" /\ ~f.applied /\ f.queue <= f.steps
      BY <1>1 DEF Frame
    <3>4. Sound(f)
      BY <3>2, <3>3 DEF Sound
    <3>5. QED  BY <2>2, <3>4
  <2>3. QED  BY <2>1, <2>2 DEF LockReleased
<1>3. run' \in [Runs -> Frame] /\ \A q \in Runs : Sound(run'[q])
  BY <1>2, Reframe
<1>4. /\ UNCHANGED <<phase, storeVars, emitted>>
      /\ UNCHANGED age \/ age' = [age EXCEPT ![SessionOf[r]] = 0]
      /\ UNCHANGED holder \/ holder' = [holder EXCEPT ![SessionOf[r]] = NoRun]
  BY DEF LockReleased, leaseVars, Lease!Release
<1>5. QED  BY <1>3, <1>4 DEF storeVars, Typed, TypeOK

\* What an exit says: at most one event, and one that closes the stream.
LEMMA ExitForms ==
  ASSUME Typed, NEW r \in Runs, Exit(r)
  PROVE  \/ \E event \in Events : Finish(r, event)
         \/ /\ Becomes(r, [run[r] EXCEPT !.pc = "persistLost", !.term = "failed"])
            /\ UNCHANGED emitted
<1>1. Status(run[r].term) \in Events
  BY FrameOf, Fields DEF Status, Outcomes, Terminal, Events
<1>2. {"none", "failed", "request_failed"} \subseteq Events
  BY DEF Events, Terminal
<1>3. CASE LostExit(r)
  BY <1>2, <1>3 DEF LostExit
<1>4. CASE CancelledExit(r)
  BY <1>2, <1>4 DEF CancelledExit
<1>5. CASE ErrorExit(r)
  <2> DEFINE event == CASE run[r].closing -> "none"
                        [] ~run[r].closing /\ run[r].created -> "failed"
                        [] OTHER -> "request_failed"
  <2>1. event \in Events
    BY <1>2
  <2>2. Finish(r, event)
    BY <1>5 DEF ErrorExit
  <2>3. QED  BY <2>1, <2>2
<1>6. CASE NormalExit(r)
  BY <1>1, <1>6 DEF NormalExit
<1>7. QED  BY <1>3, <1>4, <1>5, <1>6 DEF Exit

LEMMA ExitType ==
  ASSUME Typed, NEW r \in Runs, Exit(r)
  PROVE  Typed'
<1>1. /\ UNCHANGED <<holder, age, storeVars>>
      /\ phase' = [phase EXCEPT ![r] = "gone"]
  BY DEF Exit, Lease!Abandon, Lease!Move
<1>2. /\ run' \in [Runs -> Frame] /\ \A q \in Runs : Sound(run'[q])
      /\ emitted' \in [Runs -> Events]
  <2>1. CASE \E event \in Events : Finish(r, event)
    BY <2>1, FinishType
  <2> DEFINE f == [run[r] EXCEPT !.pc = "persistLost", !.term = "failed"]
  <2>2. CASE Becomes(r, f) /\ UNCHANGED emitted
    <3>1. run[r] \in Frame /\ run[r].queue <= run[r].steps /\ ~run[r].applied
      BY FrameOf DEF Sound, Exit, At, StorePcs
    <3>2. "persistLost" \in Pcs /\ "failed" \in Outcomes
      BY Places DEF Outcomes, Terminal
    <3>3. f \in Frame
      BY <3>1, <3>2 DEF Frame
    <3>4. f.pc = "persistLost" /\ f.term = "failed" /\ ~f.applied /\ f.queue <= f.steps
      BY <3>1 DEF Frame
    <3>5. Sound(f)
      BY <3>3, <3>4 DEF Sound
    <3>6. QED  BY <2>2, <3>5, Reframe DEF Typed, TypeOK, Events
  <2>3. QED  BY <2>1, <2>2, ExitForms
<1>3. QED  BY <1>1, <1>2 DEF storeVars, Typed, TypeOK, Events

LEMMA OthersType ==
  ASSUME Typed, NEW r \in Runs,
         CancelRun(r) \/ Disconnect(r) \/ MonitorSees(r) \/ BeatFails(r) \/ TaskCancelled(r)
  PROVE  Typed'
<1>1. SUFFICES \E f : Sound(f) /\ Becomes(r, f)
  BY PureType DEF CancelRun, Disconnect, MonitorSees, BeatFails, TaskCancelled
<1>2. Sound(run[r]) /\ run[r] \in Frame
  BY FrameOf DEF Sound
<1>3. CASE Becomes(r, [run[r] EXCEPT !.asked = TRUE])
  <2>1. Sound([run[r] EXCEPT !.asked = TRUE])
    BY <1>2 DEF Sound, Frame
  <2>2. QED  BY <1>3, <2>1
<1>4. CASE Becomes(r, [run[r] EXCEPT !.gone = TRUE])
  <2>1. Sound([run[r] EXCEPT !.gone = TRUE])
    BY <1>2 DEF Sound, Frame
  <2>2. QED  BY <1>4, <2>1
<1>5. CASE Becomes(r, [run[r] EXCEPT !.beatLost = TRUE, !.cancelReq = ~run[r].closing])
  <2>1. Sound([run[r] EXCEPT !.beatLost = TRUE, !.cancelReq = ~run[r].closing])
    BY <1>2 DEF Sound, Frame
  <2>2. QED  BY <1>5, <2>1
<1>6. CASE Becomes(r, [run[r] EXCEPT !.killed = TRUE, !.cancelReq = TRUE])
  <2>1. Sound([run[r] EXCEPT !.killed = TRUE, !.cancelReq = TRUE])
    BY <1>2 DEF Sound, Frame
  <2>2. QED  BY <1>6, <2>1
<1>7. QED
  BY <1>3, <1>4, <1>5, <1>6 DEF CancelRun, Disconnect, MonitorSees, BeatFails, TaskCancelled

LEMMA LapseType ==
  ASSUME Typed, LockLapses \/ \E s \in Sessions : LeftLockLapses(s)
  PROVE  Typed'
<1>1. /\ UNCHANGED <<phase, run, storeVars, emitted>>
      /\ holder' \in [Sessions -> Runs \union {NoRun}] /\ age' \in [Sessions -> {0}]
  BY DEF LockLapses, LeftLockLapses, Lease!Elapse, Lease!Lapses, Typed, TypeOK
<1>2. QED  BY <1>1 DEF storeVars, Typed, TypeOK

LEMMA InitTyped == Init => Typed
<1>1. SUFFICES ASSUME Init PROVE Typed
  OBVIOUS
<1>2. Sound(Fresh)
  BY StepsAssumption DEF Fresh, Sound, Frame, Pcs
<1>3. \A r \in Runs : run[r] = Fresh
  BY <1>1 DEF Init
<1>4. run \in [Runs -> Frame] /\ \A r \in Runs : Sound(run[r])
  BY <1>1, <1>2, <1>3 DEF Init, Sound
<1>5. log \in [Sessions -> Seq(Runs \X Kinds)]
  BY <1>1 DEF Init
<1>6. QED  BY <1>1, <1>4, <1>5 DEF Init, Lease!Init, Typed, TypeOK, Kinds, Terminal

LEMMA NextTyped == Typed /\ [Next]_vars => Typed'
<1>1. SUFFICES ASSUME Typed, [Next]_vars PROVE Typed'
  OBVIOUS
<1>2. CASE UNCHANGED vars
  BY <1>1, <1>2 DEF vars, Typed, TypeOK
<1>3. CASE \E r \in Runs : \/ RunStep(r) \/ ChainStep(r) \/ CancelRun(r) \/ Disconnect(r)
                           \/ MonitorSees(r) \/ BeatFails(r) \/ TaskCancelled(r)
  BY <1>1, <1>3, EntryType, AppliedType, ReturnType, RaiseType, LoopType, ChainType, FlushType,
     CancelType, WayOutType, ReleasedType, ExitType, OthersType
  DEF RunStep
<1>4. CASE LockLapses \/ \E s \in Sessions : LeftLockLapses(s)
  BY <1>1, <1>4, LapseType
<1>5. QED  BY <1>1, <1>2, <1>3, <1>4 DEF Next

\* Whatever fails, every variable keeps its type, and a run that writes a
\* terminal status has a terminal event to write.
THEOREM Typing == Spec => []Typed
<1>1. QED  BY InitTyped, NextTyped, PTL DEF Spec

-----------------------------------------------------------------------------
(* What a step makes of the fields of its run. *)

LEMMA NewFrame ==
  ASSUME Typed, NEW r \in Runs, NEW f, Becomes(r, f)
  PROVE  run'[r] = f /\ run[r] \in Frame /\ \A q \in Runs \ {r} : run'[q] = run[q]
BY DEF Becomes, Typed, TypeOK

KeepsBeat(r) == /\ run'[r].cancelReq = run[r].cancelReq
                /\ run'[r].beatLost = run[r].beatLost
                /\ run'[r].cleanCut = run[r].cleanCut
                /\ run'[r].killed = run[r].killed

KeepsChain(r) == /\ run'[r].queue = run[r].queue
                 /\ run'[r].bufErr = run[r].bufErr
                 /\ run'[r].failed = run[r].failed

KeepsRest(r) == /\ run'[r].created = run[r].created
                /\ run'[r].closing = run[r].closing
                /\ run'[r].asked = run[r].asked
                /\ run'[r].loopTerm = run[r].loopTerm

KeepsSteps(r) == /\ run'[r].steps = run[r].steps
                 /\ run'[r].queue = run[r].queue
                 /\ run'[r].bufErr = run[r].bufErr

LEMMA GotoFields ==
  ASSUME Typed, NEW r \in Runs, NEW p, NEW e, Goto(r, p, e)
  PROVE  /\ run'[r].pc = p /\ ~run'[r].applied /\ run'[r].exc = e
         /\ run'[r].term = run[r].term
         /\ KeepsBeat(r) /\ KeepsChain(r) /\ KeepsRest(r) /\ KeepsSteps(r)
<1>1. /\ run'[r] = [run[r] EXCEPT !.pc = p, !.applied = FALSE, !.exc = e] /\ run[r] \in Frame
  BY NewFrame DEF Goto
<1>2. QED  BY <1>1 DEF Frame, KeepsBeat, KeepsChain, KeepsRest, KeepsSteps

LEMMA OverFields ==
  ASSUME Typed, NEW r \in Runs, NEW b, Over(r, b)
  PROVE  /\ run'[r].pc = "done" /\ ~run'[r].applied /\ run'[r].exc = "none"
         /\ run'[r].term = "none" /\ run'[r].failed = b /\ run'[r].created = run[r].created
         /\ run'[r].queue = run[r].queue /\ ~run'[r].bufErr
         /\ ~run'[r].cancelReq /\ ~run'[r].beatLost /\ ~run'[r].cleanCut
         /\ run'[r].steps = run[r].steps /\ run'[r].killed = run[r].killed
<1>1. run'[r] = [Fresh EXCEPT
            !.pc = "done", !.created = run[r].created, !.asked = run[r].asked,
            !.gone = run[r].gone, !.steps = run[r].steps, !.queue = run[r].queue,
            !.failed = b, !.killed = run[r].killed]
  BY NewFrame DEF Over
<1>2. QED  BY <1>1 DEF Fresh

LEMMA StartFlushFields ==
  ASSUME Typed, NEW r \in Runs, NEW e, NEW end, StartFlush(r, e, end)
  PROVE  /\ run'[r].applied = run[r].applied /\ ~run'[r].cancelReq
         /\ run'[r].beatLost = run[r].beatLost /\ run'[r].cleanCut = run[r].cleanCut
         /\ run'[r].created = run[r].created /\ run'[r].asked = run[r].asked
         /\ run'[r].killed = run[r].killed
         /\ KeepsChain(r) /\ KeepsSteps(r)
         /\ run[r].bufErr => /\ run'[r].pc = "persistFailed" /\ run'[r].exc = "error"
                             /\ run'[r].term = "failed"
         /\ ~run[r].bufErr => /\ run'[r].pc = "flush" /\ run'[r].exc = e
                              /\ run'[r].term = "none" /\ run'[r].loopTerm = end
<1>1. CASE run[r].bufErr
  <2>1. /\ run'[r] = [run[r] EXCEPT !.cancelReq = FALSE, !.pc = "persistFailed",
                                    !.exc = "error", !.term = "failed", !.loopTerm = "none"]
        /\ run[r] \in Frame
    BY <1>1, NewFrame DEF StartFlush
  <2>2. QED  BY <1>1, <2>1 DEF Frame, KeepsChain, KeepsSteps
<1>2. CASE ~run[r].bufErr
  <2>1. /\ run'[r] = [run[r] EXCEPT !.cancelReq = FALSE, !.pc = "flush", !.exc = e,
                                    !.term = "none", !.loopTerm = end]
        /\ run[r] \in Frame
    BY <1>2, NewFrame DEF StartFlush
  <2>2. QED  BY <1>2, <2>1 DEF Frame, KeepsChain, KeepsSteps
<1>3. QED  BY <1>1, <1>2

-----------------------------------------------------------------------------
(* A step keeps the invariant of its run, with a lock that keeps its promise. *)

OwnInv(r) == /\ PhaseInv(r) /\ HoldInv(r) /\ RecordInv(r)
             /\ ExitInv(r) /\ ChainInv(r) /\ EmitInv(r)

\* A step that writes no message says nothing new of the run's messages.
Course(r) == /\ Silent(r)' => Silent(r)
             /\ Talking(r)' => Talking(r)
             /\ Bare(r)' => Silent(r) \/ Talking(r) \/ Bare(r)

LEMMA OwnEntry ==
  ASSUME Typed, NEW r \in Runs, LockInv, OwnInv(r),
         \/ Reject(r) \/ AcquireLock(r) \/ Conflict(r) \/ AcquireFails(r)
         \/ Prepare(r) \/ PrepareRaises(r)
  PROVE  OwnInv(r)' /\ Course(r)
<1> USE DEF OwnInv, PhaseInv, HoldInv, RecordInv, ExitInv, ChainInv, EmitInv, InsidePcs,
            Unrecorded, Underway, Bare, Course, Silent, Talking, At, KeepsBeat, KeepsChain, KeepsRest
<1>1. CASE Reject(r)
  <2>1. Over(r, run[r].failed) /\ emitted'[r] = "request_failed" /\ UNCHANGED <<leaseVars, storeVars>>
    BY <1>1 DEF Reject, Finish, Typed, TypeOK
  <2>2. QED  BY <1>1, <2>1, OverFields DEF Reject, LockInv, Terminal, leaseVars, storeVars
<1>2. CASE AcquireLock(r)
  <2>1. phase'[r] = "in" /\ holder'[SessionOf[r]] = r
    BY <1>2, SessionOfType DEF AcquireLock, Lease!Grant, Lease!Move, Typed, TypeOK
  <2>2. QED  BY <1>2, <2>1, GotoFields DEF AcquireLock, storeVars
<1>3. CASE Conflict(r)
  <2>1. Over(r, run[r].failed) /\ emitted'[r] = "request_failed"
    BY <1>3 DEF Conflict, Finish, Typed, TypeOK
  <2>2. phase'[r] = "gone" /\ UNCHANGED <<holder, storeVars>>
    BY <1>3 DEF Conflict, Lease!Deny, Lease!Move, Typed, TypeOK
  <2>3. QED  BY <1>3, <2>1, <2>2, OverFields DEF Conflict, LockInv, Terminal, storeVars
<1>4. CASE Prepare(r)
  BY <1>4, GotoFields DEF Prepare, leaseVars, storeVars
<1>5. CASE PrepareRaises(r)
  BY <1>5, GotoFields DEF PrepareRaises, leaseVars, storeVars
<1>6. CASE AcquireFails(r)
  <2>1. /\ phase'[r] = "gone" /\ UNCHANGED storeVars
        /\ emitted'[r] \in {"none", "request_failed"}
        /\ emitted'[r] = "request_failed" => Over(r, TRUE)
        /\ Over(r, TRUE) \/ (emitted'[r] = "none"
             /\ Becomes(r, [run[r] EXCEPT !.pc = "done", !.killed = TRUE]))
    <3>1. emitted[r] = "none"
      BY <1>6 DEF AcquireFails
    <3>2. QED  BY <1>6, <3>1 DEF AcquireFails, Lease!Move, Typed, TypeOK
  <2>2. CASE Over(r, TRUE)
    BY <1>6, <2>1, <2>2, OverFields DEF AcquireFails, Terminal, storeVars
  <2>3. CASE emitted'[r] = "none" /\ Becomes(r, [run[r] EXCEPT !.pc = "done", !.killed = TRUE])
    <3>1. /\ run'[r].pc = "done" /\ run'[r].applied = run[r].applied
          /\ run'[r].exc = run[r].exc /\ run'[r].term = run[r].term /\ run'[r].killed
          /\ run'[r].cancelReq = run[r].cancelReq /\ run'[r].beatLost = run[r].beatLost
          /\ run'[r].cleanCut = run[r].cleanCut /\ KeepsChain(r) /\ KeepsRest(r)
      <4> HIDE DEF OwnInv
      <4>1. /\ run'[r] = [run[r] EXCEPT !.pc = "done", !.killed = TRUE] /\ run[r] \in Frame
        BY <2>3, NewFrame
      <4>2. QED  BY <4>1 DEF Frame
    <3>2. QED  BY <1>6, <2>1, <2>3, <3>1 DEF AcquireFails, Terminal, storeVars
  <2>4. QED  BY <2>1, <2>2, <2>3
<1>7. QED  BY <1>1, <1>2, <1>3, <1>4, <1>5, <1>6

LEMMA OwnApplied ==
  ASSUME Typed, NEW r \in Runs, OwnInv(r), CallApplied(r)
  PROVE  OwnInv(r)' /\ (Course(r) \/ run[r].pc = "user")
<1>1. /\ run'[r].pc = run[r].pc /\ run'[r].applied /\ run'[r].exc = run[r].exc
      /\ run'[r].term = run[r].term
      /\ KeepsBeat(r) /\ KeepsChain(r) /\ KeepsRest(r)
  <2>1. run'[r] = [run[r] EXCEPT !.applied = TRUE] /\ run[r] \in Frame
    BY NewFrame DEF CallApplied
  <2>2. QED  BY <2>1 DEF Frame, KeepsBeat, KeepsChain, KeepsRest
<1>2. /\ run[r].pc \in StorePcs /\ ~run[r].applied /\ UNCHANGED <<leaseVars, emitted>>
      /\ run[r].pc = "user" => stored'[r] = stored[r]
      /\ run[r].pc = "create" => stored'[r] = "running"
      /\ run[r].pc \notin {"user", "create"} => stored'[r] = Status(run[r].term)
  BY DEF CallApplied, AppendUserMessage, CreateRecord, TerminalWrite, At, Typed, TypeOK
<1>3. QED
  BY <1>1, <1>2
  DEF OwnInv, PhaseInv, HoldInv, RecordInv, ExitInv, ChainInv, EmitInv, InsidePcs,
      Unrecorded, Underway, Bare, Course, Silent, Talking, KeepsBeat, KeepsChain, KeepsRest, StorePcs, leaseVars

LEMMA OwnReturns ==
  ASSUME Typed, NEW r \in Runs, OwnInv(r), CallReturns(r) \/ CallRaises(r)
  PROVE  OwnInv(r)' /\ Course(r)
<1>1. run[r].pc \in StorePcs \ {"persistLost"} /\ UNCHANGED <<leaseVars, storeVars, emitted>>
  <2>1. run[r].pc \in StorePcs
    BY FrameOf DEF Sound, CallReturns, CallRaises
  <2>2. run[r].pc # "persistLost"
    BY DEF OwnInv, HoldInv
  <2>3. QED  BY <2>1, <2>2 DEF CallReturns, CallRaises, StorePcs, At
<1> USE DEF OwnInv, PhaseInv, HoldInv, RecordInv, ExitInv, ChainInv, EmitInv, InsidePcs,
            Unrecorded, Underway, Bare, Course, Silent, Talking, KeepsBeat, KeepsChain, KeepsRest, StorePcs,
            leaseVars, storeVars, At
<1>2. CASE CallReturns(r)
  <2>1. CASE At(r, "create")
    <3>1. /\ run'[r].pc = "yield" /\ ~run'[r].applied /\ run'[r].created
          /\ run'[r].exc = run[r].exc /\ run'[r].term = run[r].term
          /\ KeepsBeat(r) /\ KeepsChain(r)
      <4> HIDE DEF OwnInv
      <4>1. /\ run'[r] = [run[r] EXCEPT !.pc = "yield", !.applied = FALSE, !.created = TRUE]
            /\ run[r] \in Frame
        BY <1>2, <2>1, NewFrame DEF CallReturns
      <4>2. QED  BY <4>1 DEF Frame
    <3>2. QED  BY <1>1, <1>2, <2>1, <3>1 DEF CallReturns
  <2>2. CASE At(r, "user")
    BY <1>1, <1>2, <2>2, GotoFields DEF CallReturns
  <2>3. CASE At(r, "persist")
    BY <1>1, <1>2, <2>3, GotoFields DEF CallReturns
  <2>4. CASE At(r, "persistFailed")
    BY <1>1, <1>2, <2>4, GotoFields DEF CallReturns
  <2>5. CASE At(r, "lateCancel")
    BY <1>1, <1>2, <2>5, GotoFields DEF CallReturns
  <2>6. QED  BY <1>1, <2>1, <2>2, <2>3, <2>4, <2>5
<1>3. CASE CallRaises(r)
  <2>1. /\ run'[r].pc = (IF run[r].pc = "lateCancel" THEN "stop" ELSE "finally")
        /\ ~run'[r].applied /\ run'[r].exc = "error" /\ run'[r].failed
        /\ run'[r].term = run[r].term /\ KeepsBeat(r) /\ KeepsRest(r)
        /\ run'[r].queue = run[r].queue /\ run'[r].bufErr = run[r].bufErr
    <3> HIDE DEF OwnInv
    <3>1. /\ run'[r] = [run[r] EXCEPT !.pc = IF At(r, "lateCancel") THEN "stop" ELSE "finally",
                        !.applied = FALSE, !.exc = "error", !.failed = TRUE]
          /\ run[r] \in Frame
      BY <1>1, <1>3, NewFrame DEF CallRaises
    <3>2. QED  BY <3>1 DEF Frame
  <2>2. QED  BY <1>1, <2>1
<1>4. QED  BY <1>2, <1>3

LEMMA OwnLoop ==
  ASSUME Typed, NEW r \in Runs, OwnInv(r),
         LoopStep(r) \/ EnqueueRaises(r) \/ LoopEnds(r) \/ ClientReads(r) \/ CloseStream(r)
  PROVE  OwnInv(r)' /\ Course(r)
<1>1. ASSUME LoopStep(r)
      PROVE  /\ run'[r].pc \in {"loop", "yield"} /\ run'[r].applied = run[r].applied
             /\ run'[r].exc = run[r].exc /\ run'[r].term = run[r].term
             /\ run'[r].bufErr = run[r].bufErr /\ run'[r].failed = run[r].failed
             /\ KeepsBeat(r) /\ KeepsRest(r)
  <2>1. PICK next \in {"loop", "yield"} :
          Becomes(r, [run[r] EXCEPT !.pc = next, !.steps = @ + 1, !.queue = @ + 1])
    BY <1>1 DEF LoopStep
  <2>2. /\ run'[r] = [run[r] EXCEPT !.pc = next, !.steps = @ + 1, !.queue = @ + 1]
        /\ run[r] \in Frame
    BY <2>1, NewFrame
  <2>3. QED  BY <2>2 DEF Frame, KeepsBeat, KeepsRest
<1>2. ASSUME ClientReads(r)
      PROVE  /\ run'[r].pc = "loop" /\ run'[r].applied = run[r].applied
             /\ run'[r].exc = run[r].exc /\ run'[r].term = run[r].term
             /\ KeepsBeat(r) /\ KeepsChain(r) /\ KeepsRest(r)
  <2>1. run'[r] = [run[r] EXCEPT !.pc = "loop"] /\ run[r] \in Frame
    BY <1>2, NewFrame DEF ClientReads
  <2>2. QED  BY <2>1 DEF Frame, KeepsBeat, KeepsChain, KeepsRest
<1>3. ASSUME CloseStream(r)
      PROVE  /\ run'[r].pc = "finally" /\ run'[r].applied = run[r].applied
             /\ run'[r].exc = "closed" /\ run'[r].term = run[r].term
             /\ ~run'[r].cancelReq /\ run'[r].beatLost = run[r].beatLost
             /\ run'[r].cleanCut = run[r].cleanCut /\ run'[r].killed = run[r].killed
             /\ run'[r].asked = (run[r].asked \/ run[r].gone) /\ run'[r].closing
             /\ run'[r].created = run[r].created /\ run'[r].loopTerm = run[r].loopTerm
             /\ KeepsChain(r)
  <2>1. /\ run'[r] = [run[r] EXCEPT !.pc = "finally", !.exc = "closed", !.closing = TRUE,
                                    !.cancelReq = FALSE, !.asked = @ \/ run[r].gone]
        /\ run[r] \in Frame
    BY <1>3, NewFrame DEF CloseStream
  <2>2. QED  BY <2>1 DEF Frame, KeepsChain
<1>4. UNCHANGED <<leaseVars, storeVars, emitted>> /\ ~run[r].applied
  BY FrameOf
  DEF LoopStep, EnqueueRaises, LoopEnds, ClientReads, CloseStream, Sound, At, StorePcs
<1> USE <1>4 DEF OwnInv, PhaseInv, HoldInv, RecordInv, ExitInv, ChainInv, EmitInv, InsidePcs,
            Unrecorded, Underway, Bare, Course, Silent, Talking, KeepsBeat, KeepsChain, KeepsRest, leaseVars, storeVars, At
<1>5. CASE LoopStep(r)
  BY <1>1, <1>5 DEF LoopStep
<1>6. CASE EnqueueRaises(r)
  <2>1. StartFlush(r, "error", "none") /\ At(r, "loop") /\ run[r].bufErr
    BY <1>6 DEF EnqueueRaises
  <2>2. /\ run'[r].pc = "persistFailed" /\ run'[r].exc = "error" /\ run'[r].term = "failed"
        /\ run'[r].applied = run[r].applied /\ ~run'[r].cancelReq
        /\ run'[r].beatLost = run[r].beatLost /\ run'[r].cleanCut = run[r].cleanCut
        /\ run'[r].created = run[r].created /\ run'[r].killed = run[r].killed /\ KeepsChain(r)
    BY <2>1, StartFlushFields
  <2>3. QED  BY <2>1, <2>2
<1>7. CASE LoopEnds(r)
  <2>1. PICK end \in Outcomes : StartFlush(r, "none", end)
    BY <1>7 DEF LoopEnds
  <2>2. end # "none"
    BY DEF Outcomes, Terminal
  <2>3. /\ run'[r].applied = run[r].applied /\ ~run'[r].cancelReq
        /\ run'[r].beatLost = run[r].beatLost /\ run'[r].cleanCut = run[r].cleanCut
        /\ run'[r].created = run[r].created /\ run'[r].killed = run[r].killed /\ KeepsChain(r)
        /\ run[r].bufErr => /\ run'[r].pc = "persistFailed" /\ run'[r].exc = "error"
                            /\ run'[r].term = "failed"
        /\ ~run[r].bufErr => /\ run'[r].pc = "flush" /\ run'[r].exc = "none"
                             /\ run'[r].term = "none" /\ run'[r].loopTerm = end
    BY <2>1, StartFlushFields
  <2>4. CASE run[r].bufErr
    BY <1>7, <2>3, <2>4 DEF LoopEnds
  <2>5. CASE ~run[r].bufErr
    BY <1>7, <2>2, <2>3, <2>5 DEF LoopEnds
  <2>6. QED  BY <2>4, <2>5
<1>8. CASE ClientReads(r)
  BY <1>2, <1>8 DEF ClientReads
<1>9. CASE CloseStream(r)
  BY <1>3, <1>9 DEF CloseStream
<1>10. QED  BY <1>5, <1>6, <1>7, <1>8, <1>9

LEMMA OwnChain ==
  ASSUME Typed, NEW r \in Runs, OwnInv(r), ChainStep(r)
  PROVE  OwnInv(r)' /\ Course(r)
<1>1. /\ run'[r].pc = run[r].pc /\ run'[r].applied = run[r].applied
      /\ run'[r].exc = run[r].exc /\ run'[r].term = run[r].term
      /\ KeepsBeat(r) /\ KeepsRest(r)
      /\ \/ /\ run'[r].queue = run[r].queue - 1
            /\ run'[r].bufErr = run[r].bufErr /\ run'[r].failed = run[r].failed
         \/ run'[r].queue = 0 /\ run'[r].bufErr /\ run'[r].failed
  <2>1. run[r] \in Frame /\ \A f : Becomes(r, f) => run'[r] = f
    BY NewFrame DEF Typed, TypeOK
  <2>2. CASE ChainWrites(r)
    <3>1. run'[r] = [run[r] EXCEPT !.queue = @ - 1]
      BY <2>1, <2>2 DEF ChainWrites
    <3>2. QED  BY <2>1, <3>1 DEF Frame, KeepsBeat, KeepsRest
  <2>3. CASE ChainFails(r)
    <3>1. run'[r] = [run[r] EXCEPT !.queue = 0, !.bufErr = TRUE, !.failed = TRUE]
      BY <2>1, <2>3 DEF ChainFails
    <3>2. QED  BY <2>1, <3>1 DEF Frame, KeepsBeat, KeepsRest
  <2>4. QED  BY <2>2, <2>3 DEF ChainStep
<1>2. /\ run[r].queue \in Nat /\ run[r].queue > 0
      /\ UNCHANGED <<leaseVars, stored, output, emitted>>
  BY FrameOf, Fields DEF ChainStep, ChainWrites, ChainFails
<1>3. QED
  BY <1>1, <1>2
  DEF OwnInv, PhaseInv, HoldInv, RecordInv, ExitInv, ChainInv, EmitInv, InsidePcs,
      Unrecorded, Underway, Bare, Course, Silent, Talking, KeepsBeat, KeepsRest, leaseVars

LEMMA OwnFlush ==
  ASSUME Typed, NEW r \in Runs, OwnInv(r),
         FlushReturns(r) \/ FlushRaises(r) \/ LateFlushReturns(r) \/ LateFlushRaises(r)
  PROVE  OwnInv(r)' /\ Course(r)
<1>1. run[r] \in Frame /\ \A f : Becomes(r, f) => run'[r] = f
  BY NewFrame DEF Typed, TypeOK
<1>2. UNCHANGED <<leaseVars, storeVars, emitted>>
  BY DEF FlushReturns, FlushRaises, LateFlushReturns, LateFlushRaises
<1>3. ASSUME FlushReturns(r), run[r].exc # "cancelled"
      PROVE  /\ run'[r].pc = "persist" /\ run'[r].applied = run[r].applied
             /\ run'[r].exc = run[r].exc /\ run'[r].term = run[r].loopTerm
             /\ KeepsBeat(r) /\ KeepsChain(r) /\ KeepsRest(r)
  <2>1. run'[r] = [run[r] EXCEPT !.pc = "persist", !.term = run[r].loopTerm]
    BY <1>1, <1>3 DEF FlushReturns
  <2>2. QED  BY <1>1, <2>1 DEF Frame, KeepsBeat, KeepsChain, KeepsRest
<1>4. ASSUME FlushRaises(r)
      PROVE  /\ run'[r].pc = "persistFailed" /\ run'[r].applied = run[r].applied
             /\ run'[r].exc = "error" /\ run'[r].term = "failed"
             /\ KeepsBeat(r) /\ KeepsChain(r) /\ KeepsRest(r)
  <2>1. run'[r] = [run[r] EXCEPT !.pc = "persistFailed", !.exc = "error", !.term = "failed"]
    BY <1>1, <1>4 DEF FlushRaises
  <2>2. QED  BY <1>1, <2>1 DEF Frame, KeepsBeat, KeepsChain, KeepsRest
<1>5. ASSUME LateFlushReturns(r)
      PROVE  /\ run'[r].pc = "lateCancel" /\ run'[r].applied = run[r].applied
             /\ run'[r].exc = run[r].exc /\ run'[r].term = "cancelled"
             /\ KeepsBeat(r) /\ KeepsChain(r) /\ KeepsRest(r)
  <2>1. run'[r] = [run[r] EXCEPT !.pc = "lateCancel", !.term = "cancelled"]
    BY <1>1, <1>5 DEF LateFlushReturns
  <2>2. QED  BY <1>1, <2>1 DEF Frame, KeepsBeat, KeepsChain, KeepsRest
<1>6. ~run[r].applied
  BY FrameOf
  DEF FlushReturns, FlushRaises, LateFlushReturns, LateFlushRaises, Sound, At, StorePcs
<1> USE <1>2, <1>6 DEF OwnInv, PhaseInv, HoldInv, RecordInv, ExitInv, ChainInv, EmitInv, InsidePcs,
            Unrecorded, Underway, Bare, Course, Silent, Talking, KeepsBeat, KeepsChain, KeepsRest, leaseVars, storeVars, At
<1>7. CASE FlushReturns(r)
  <2>1. CASE run[r].exc = "cancelled"
    BY <1>7, <2>1, GotoFields DEF FlushReturns, Flushed
  <2>2. CASE run[r].exc # "cancelled"
    BY <1>3, <1>7, <2>2 DEF FlushReturns, Flushed
  <2>3. QED  BY <2>1, <2>2
<1>8. CASE FlushRaises(r)
  BY <1>4, <1>8 DEF FlushRaises
<1>9. CASE LateFlushReturns(r)
  BY <1>5, <1>9 DEF LateFlushReturns, Flushed
<1>10. CASE LateFlushRaises(r)
  BY <1>10, GotoFields DEF LateFlushRaises
<1>11. QED  BY <1>7, <1>8, <1>9, <1>10

LEMMA OwnWayOut ==
  ASSUME Typed, NEW r \in Runs, OwnInv(r), EnterFinally(r) \/ WindowOver(r) \/ HeartbeatStops(r)
  PROVE  OwnInv(r)' /\ Course(r)
<1> USE DEF OwnInv, PhaseInv, HoldInv, RecordInv, ExitInv, ChainInv, EmitInv, InsidePcs,
            Unrecorded, Underway, Bare, Course, Silent, Talking, KeepsBeat, KeepsChain, KeepsRest, At
<1>1. CASE EnterFinally(r)
  <2>1. CASE run[r].term # "none"
    BY <1>1, <2>1, GotoFields DEF EnterFinally, leaseVars, storeVars
  <2>2. CASE run[r].term = "none" /\ run[r].asked
    BY <1>1, <2>2, GotoFields DEF EnterFinally, StartLateFlush, leaseVars, storeVars
  <2>3. CASE run[r].term = "none" /\ ~run[r].asked
    <3>1. run[r].exc \in {"none", "error", "cancelled", "closed"}
      BY FrameOf, Fields
    <3>2. Goto(r, "window", run[r].exc) /\ UNCHANGED <<leaseVars, storeVars, emitted>>
      BY <1>1, <2>3 DEF EnterFinally
    <3>3. /\ run'[r].pc = "window" /\ ~run'[r].applied /\ run'[r].exc = run[r].exc
          /\ run'[r].term = run[r].term
          /\ KeepsBeat(r) /\ KeepsChain(r) /\ KeepsRest(r)
      BY <3>2, GotoFields
    <3>4. QED  BY <1>1, <2>3, <3>1, <3>2, <3>3 DEF EnterFinally, leaseVars, storeVars
  <2>4. QED  BY <2>1, <2>2, <2>3
<1>2. CASE WindowOver(r)
  <2>1. CASE run[r].asked
    BY <1>2, <2>1, GotoFields DEF WindowOver, StartLateFlush, leaseVars, storeVars
  <2>2. CASE ~run[r].asked
    BY <1>2, <2>2, GotoFields DEF WindowOver, leaseVars, storeVars
  <2>3. QED  BY <2>1, <2>2
<1>3. CASE HeartbeatStops(r)
  <2>1. phase'[r] = "leaving" /\ UNCHANGED <<holder, storeVars, emitted>>
    BY <1>3 DEF HeartbeatStops, Lease!StartLeaving, Lease!Move, Typed, TypeOK
  <2>2. QED  BY <1>3, <2>1, GotoFields DEF HeartbeatStops, storeVars
<1>4. QED  BY <1>1, <1>2, <1>3

LEMMA OwnReleased ==
  ASSUME Typed, NEW r \in Runs, OwnInv(r), LockReleased(r)
  PROVE  OwnInv(r)' /\ Course(r)
<1>1. /\ \/ holder'[SessionOf[r]] # r /\ Goto(r, "exit", run[r].exc)
         \/ Becomes(r, [run[r] EXCEPT !.pc = "exit", !.failed = TRUE])
      /\ UNCHANGED <<phase, storeVars, emitted>>
  BY SessionOfType, RunsAssumption DEF LockReleased, leaseVars, Lease!Release, Typed, TypeOK
<1>2. CASE Becomes(r, [run[r] EXCEPT !.pc = "exit", !.failed = TRUE])
  <2>1. /\ run'[r].pc = "exit" /\ run'[r].failed /\ run'[r].applied = run[r].applied
        /\ run'[r].exc = run[r].exc /\ run'[r].term = run[r].term
        /\ run'[r].queue = run[r].queue /\ run'[r].bufErr = run[r].bufErr
        /\ KeepsBeat(r) /\ KeepsRest(r)
    <3>1. run'[r] = [run[r] EXCEPT !.pc = "exit", !.failed = TRUE] /\ run[r] \in Frame
      BY <1>2, NewFrame
    <3>2. QED  BY <3>1 DEF Frame, KeepsBeat, KeepsRest
  <2>2. QED
    BY <1>1, <2>1
    DEF OwnInv, PhaseInv, HoldInv, RecordInv, ExitInv, ChainInv, EmitInv, InsidePcs,
        Unrecorded, Underway, Bare, Course, Silent, Talking, KeepsBeat, KeepsRest, LockReleased, storeVars, At
<1>3. CASE holder'[SessionOf[r]] # r /\ Goto(r, "exit", run[r].exc)
  BY <1>1, <1>3, GotoFields
  DEF OwnInv, PhaseInv, HoldInv, RecordInv, ExitInv, ChainInv, EmitInv, InsidePcs,
      Unrecorded, Underway, Bare, Course, Silent, Talking, KeepsBeat, KeepsChain, KeepsRest, LockReleased, storeVars, At
<1>4. QED  BY <1>1, <1>2, <1>3

LEMMA OwnExit ==
  ASSUME Typed, NEW r \in Runs, OwnInv(r), Exit(r)
  PROVE  OwnInv(r)' /\ Course(r)
<1>1. /\ phase'[r] = "gone" /\ UNCHANGED <<holder, storeVars>> /\ At(r, "exit")
      /\ ~run[r].beatLost /\ (run[r].queue > 0 => run[r].killed)
      /\ run[r].queue \in Nat /\ (run[r].cleanCut => run[r].killed)
  BY FrameOf, Fields
  DEF Exit, Lease!Abandon, Lease!Move, OwnInv, HoldInv, ChainInv, At, Typed, TypeOK
<1>2. PICK event \in Events :
        /\ Finish(r, event)
        /\ event # "none" => run[r].exc \in {"none", "error"}
        /\ run[r].exc = "none" => event = Status(run[r].term) \/ (event = "none" /\ run[r].killed)
        /\ run[r].exc = "error" => event \in {"none", "failed", "request_failed"}
        /\ run[r].exc = "error" /\ event = "failed" => run[r].created
  <2>1. ~LostExit(r)
    BY <1>1 DEF LostExit, HeartbeatLost
  <2>2. CASE CancelledExit(r)
    BY <1>1, <2>2 DEF CancelledExit, Events
  <2>3. CASE ErrorExit(r)
    <3> DEFINE event == CASE run[r].closing -> "none"
                          [] ~run[r].closing /\ run[r].created -> "failed"
                          [] OTHER -> "request_failed"
    <3>1. event \in {"none", "failed", "request_failed"} /\ (event = "failed" => run[r].created)
      OBVIOUS
    <3>2. Finish(r, event)
      BY <2>3 DEF ErrorExit
    <3>3. QED  BY <2>3, <3>1, <3>2 DEF ErrorExit, Events, Terminal
  <2>4. CASE NormalExit(r)
    <3>1. Status(run[r].term) \in Events
      BY FrameOf, Fields DEF Status, Outcomes, Terminal, Events
    <3>2. QED  BY <2>4, <3>1 DEF NormalExit
  <2>5. QED  BY <2>1, <2>2, <2>3, <2>4 DEF Exit
<1>3. Over(r, run[r].failed) /\ emitted'[r] = event
  BY <1>2 DEF Finish, Typed, TypeOK
<1>4. /\ run'[r].pc = "done" /\ ~run'[r].applied /\ run'[r].exc = "none"
      /\ run'[r].term = "none" /\ run'[r].failed = run[r].failed
      /\ run'[r].created = run[r].created /\ run'[r].queue = run[r].queue /\ ~run'[r].bufErr
      /\ ~run'[r].cancelReq /\ ~run'[r].beatLost /\ ~run'[r].cleanCut
      /\ run'[r].killed = run[r].killed
  BY <1>3, OverFields
<1>5. /\ run[r].term # "none" => Status(run[r].term) \in Terminal
      /\ run[r].exc \in {"none", "error", "cancelled", "closed"}
  BY FrameOf, Fields, StatusType
<1>6. EmitInv(r)'
  BY <1>1, <1>2, <1>3, <1>4, <1>5
  DEF OwnInv, RecordInv, ExitInv, EmitInv, Status, Events, Terminal, storeVars, At
<1>7. PhaseInv(r)' /\ HoldInv(r)' /\ ChainInv(r)' /\ ExitInv(r)' /\ Course(r)
  BY <1>1, <1>4
  DEF OwnInv, PhaseInv, HoldInv, RecordInv, ExitInv, ChainInv, InsidePcs,
      Underway, Bare, Course, Silent, Talking, At
<1>8. RecordInv(r)'
  BY <1>1, <1>4, <1>5
  DEF OwnInv, RecordInv, ExitInv, Unrecorded, Underway, Bare, Terminal, storeVars, At
<1>9. QED  BY <1>6, <1>7, <1>8 DEF OwnInv

\* A cancel of the server, delivered at the await it finds.
LEMMA OwnCancel ==
  ASSUME Typed, NEW r \in Runs, OwnInv(r), CancelDelivered(r) \/ TaskCancelled(r)
  PROVE  OwnInv(r)' /\ Course(r)
<1>1. /\ UNCHANGED <<leaseVars, storeVars, emitted>>
      /\ run[r] \in Frame /\ (\A f : Becomes(r, f) => run'[r] = f) /\ Sound(run[r])
  BY NewFrame, FrameOf DEF CancelDelivered, TaskCancelled, Typed, TypeOK
<1>2. ASSUME TaskCancelled(r)
      PROVE  /\ run'[r].pc = run[r].pc /\ run'[r].applied = run[r].applied
             /\ run'[r].exc = run[r].exc /\ run'[r].term = run[r].term
             /\ run'[r].killed /\ run'[r].beatLost = run[r].beatLost
             /\ KeepsChain(r) /\ KeepsRest(r)
  <2>1. run'[r] = [run[r] EXCEPT !.killed = TRUE, !.cancelReq = TRUE]
    BY <1>1, <1>2 DEF TaskCancelled
  <2>2. QED  BY <1>1, <2>1 DEF Frame, KeepsChain, KeepsRest
<1>3. ASSUME CancelBody(r)
      PROVE  /\ run'[r].pc = "finally" /\ ~run'[r].applied /\ run'[r].exc = "cancelled"
             /\ run'[r].term = run[r].term /\ run'[r].killed = run[r].killed
             /\ ~run'[r].cancelReq /\ run'[r].beatLost = run[r].beatLost
             /\ run'[r].cleanCut = run[r].cleanCut /\ KeepsChain(r) /\ KeepsRest(r)
  <2>1. run'[r] = [run[r] EXCEPT !.pc = "finally", !.exc = "cancelled",
                                 !.applied = FALSE, !.cancelReq = FALSE]
    BY <1>1, <1>3 DEF CancelBody
  <2>2. QED  BY <1>1, <2>1 DEF Frame, KeepsChain, KeepsRest
<1>4. ASSUME CancelFlush(r)
      PROVE  /\ run'[r].pc = (IF run[r].pc = "flush" THEN "finally" ELSE "stop")
             /\ run'[r].applied = run[r].applied /\ run'[r].exc = "cancelled"
             /\ run'[r].term = run[r].term /\ run'[r].killed = run[r].killed
             /\ ~run'[r].cancelReq /\ run'[r].beatLost = run[r].beatLost
             /\ run'[r].cleanCut = run[r].cleanCut /\ KeepsRest(r)
             /\ run'[r].queue = 0 /\ run'[r].bufErr = run[r].bufErr
             /\ run'[r].failed = run[r].failed
  <2>1. run'[r] = [run[r] EXCEPT !.pc = IF At(r, "flush") THEN "finally" ELSE "stop",
                                !.exc = "cancelled", !.cancelReq = FALSE, !.queue = 0]
    BY <1>1, <1>4 DEF CancelFlush
  <2>2. QED  BY <1>1, <2>1 DEF Frame, KeepsRest, At
<1>5. ASSUME CancelFinally(r)
      PROVE  /\ run'[r].pc = "stop" /\ ~run'[r].applied /\ run'[r].exc = "cancelled"
             /\ run'[r].term = run[r].term /\ run'[r].killed = run[r].killed
             /\ ~run'[r].cancelReq /\ run'[r].beatLost = run[r].beatLost
             /\ run'[r].cleanCut = run[r].cleanCut /\ KeepsChain(r) /\ KeepsRest(r)
  <2>1. run'[r] = [run[r] EXCEPT !.pc = "stop", !.exc = "cancelled",
                                 !.applied = FALSE, !.cancelReq = FALSE]
    BY <1>1, <1>5 DEF CancelFinally
  <2>2. QED  BY <1>1, <2>1 DEF Frame, KeepsChain, KeepsRest
<1>6. ASSUME CancelCleanup(r)
      PROVE  /\ run'[r].pc = run[r].pc /\ run'[r].applied = run[r].applied
             /\ run'[r].exc = run[r].exc /\ run'[r].term = run[r].term
             /\ run'[r].killed = run[r].killed /\ run'[r].beatLost = run[r].beatLost
             /\ ~run'[r].cancelReq /\ KeepsChain(r) /\ KeepsRest(r)
  <2>1. run'[r] = [run[r] EXCEPT !.cleanCut = TRUE, !.cancelReq = FALSE]
    BY <1>1, <1>6 DEF CancelCleanup
  <2>2. QED  BY <1>1, <2>1 DEF Frame, KeepsChain, KeepsRest
<1>7. UNCHANGED <<leaseVars, storeVars, emitted>>
  BY <1>1
<1> USE <1>7 DEF OwnInv, PhaseInv, HoldInv, RecordInv, ExitInv, ChainInv, EmitInv, InsidePcs,
            Unrecorded, Underway, Bare, Course, Silent, Talking, KeepsChain, KeepsRest,
            leaseVars, storeVars, At
<1>8. CASE TaskCancelled(r)
  BY <1>2, <1>8 DEF TaskCancelled
<1>9. CASE CancelDelivered(r)
  <2>1. run[r].killed /\ run[r].cancelReq
    BY <1>9 DEF CancelDelivered
  <2>2. CASE CancelBody(r)
    BY <1>3, <2>1, <2>2 DEF CancelBody
  <2>3. CASE CancelLoop(r)
    <3>1. ~run[r].applied
      BY <1>1, <2>3 DEF CancelLoop, Sound, StorePcs
    <3>2. CASE run[r].asked
      <4>1. StartFlush(r, "none", "cancelled") /\ run[r].pc = "loop"
        BY <2>3, <3>2 DEF CancelLoop
      <4>2. QED  BY <2>1, <3>1, <4>1, StartFlushFields
    <3>3. CASE ~run[r].asked
      <4>1. StartFlush(r, "cancelled", "none") /\ run[r].pc = "loop"
        BY <2>3, <3>3 DEF CancelLoop
      <4>2. QED  BY <2>1, <3>1, <4>1, StartFlushFields
    <3>4. QED  BY <3>2, <3>3
  <2>4. CASE CancelFlush(r)
    <3>1. run[r].pc \in {"flush", "lateFlush"}
      BY <2>4 DEF CancelFlush
    <3>2. PhaseInv(r)' /\ HoldInv(r)' /\ EmitInv(r)'
      BY <1>4, <2>1, <2>4, <3>1
    <3>3. RecordInv(r)'
      BY <1>4, <2>1, <2>4, <3>1
    <3>4. ExitInv(r)'
      BY <1>4, <2>1, <2>4, <3>1
    <3>5. ChainInv(r)' /\ Course(r)
      BY <1>4, <2>1, <2>4, <3>1
    <3>6. QED  BY <3>2, <3>3, <3>4, <3>5
  <2>5. CASE CancelFinally(r)
    BY <1>5, <2>1, <2>5 DEF CancelFinally
  <2>6. CASE CancelCleanup(r)
    <3>1. run[r].pc \in {"stop", "release"}
      BY <2>6 DEF CancelCleanup
    <3>2. CASE run[r].pc = "stop"
      BY <1>6, <2>1, <2>6, <3>2
    <3>3. CASE run[r].pc = "release"
      BY <1>6, <2>1, <2>6, <3>3
    <3>4. QED  BY <3>1, <3>2, <3>3
  <2>7. QED  BY <1>9, <2>2, <2>3, <2>4, <2>5, <2>6 DEF CancelDelivered, CancelLost
<1>10. QED  BY <1>8, <1>9

LEMMA OwnOthers ==
  ASSUME Typed, NEW r \in Runs, OwnInv(r), Steady,
         CancelRun(r) \/ Disconnect(r) \/ MonitorSees(r) \/ BeatFails(r)
  PROVE  OwnInv(r)' /\ Course(r)
<1>1. ~BeatFails(r)
  <2>1. SUFFICES ASSUME BeatFails(r) PROVE FALSE
    OBVIOUS
  <2>2. phase[r] = "in" /\ holder[SessionOf[r]] # r
    BY <2>1 DEF BeatFails, Steady
  <2>3. run[r].pc \in InsidePcs
    BY <2>2, FrameOf, Fields DEF OwnInv, PhaseInv, HoldInv, Pcs, InsidePcs
  <2>4. QED  BY <2>2, <2>3 DEF OwnInv, HoldInv
<1>2. /\ run'[r].pc = run[r].pc /\ run'[r].applied = run[r].applied
      /\ run'[r].exc = run[r].exc /\ run'[r].term = run[r].term
      /\ run'[r].created = run[r].created /\ run'[r].loopTerm = run[r].loopTerm
      /\ run'[r].closing = run[r].closing
      /\ run'[r].asked \/ run'[r].asked = run[r].asked
      /\ KeepsBeat(r) /\ KeepsChain(r)
  <2>1. \/ run'[r] = [run[r] EXCEPT !.asked = TRUE]
        \/ run'[r] = [run[r] EXCEPT !.gone = TRUE]
    BY <1>1, NewFrame DEF CancelRun, Disconnect, MonitorSees
  <2>2. run[r] \in Frame
    BY DEF Typed, TypeOK
  <2>3. QED  BY <2>1, <2>2 DEF Frame, KeepsBeat, KeepsChain
<1>3. UNCHANGED <<leaseVars, storeVars, emitted>>
  BY <1>1 DEF CancelRun, Disconnect, MonitorSees
<1>4. QED
  BY <1>2, <1>3
  DEF OwnInv, PhaseInv, HoldInv, RecordInv, ExitInv, ChainInv, EmitInv, InsidePcs,
      Unrecorded, Underway, Bare, Course, Silent, Talking, KeepsBeat, KeepsChain, leaseVars, storeVars

-----------------------------------------------------------------------------
(* A step of a run and the other runs. *)

\* Every step of a run: another frame for it, and at most one message of it.
RunMove(r) == \/ RunStep(r) \/ ChainStep(r) \/ CancelRun(r)
              \/ Disconnect(r) \/ MonitorSees(r) \/ BeatFails(r) \/ TaskCancelled(r)

Reframed(r) == \E f : Becomes(r, f)

LEMMA ReframedBy ==
  ASSUME NEW r \in Runs
  PROVE  /\ \A p, e : Goto(r, p, e) => Reframed(r)
         /\ \A b : Over(r, b) => Reframed(r)
         /\ \A e : Finish(r, e) => Reframed(r)
         /\ \A e, end : StartFlush(r, e, end) => Reframed(r)
         /\ \A f : Becomes(r, f) => Reframed(r)
BY DEF Reframed, Goto, Over, Finish, StartFlush

LEMMA EveryMove ==
  ASSUME Typed, NEW r \in Runs, RunMove(r)
  PROVE  Reframed(r)
<1> USE ReframedBy
<1>1. CASE \/ Reject(r) \/ AcquireLock(r) \/ Conflict(r) \/ AcquireFails(r)
           \/ Prepare(r) \/ PrepareRaises(r)
  BY <1>1 DEF Reject, AcquireLock, Conflict, AcquireFails, Prepare, PrepareRaises
<1>2. CASE CallApplied(r) \/ CallRaises(r)
  BY <1>2 DEF CallApplied, CallRaises
<1>3. CASE CallReturns(r)
  <2>1. run[r].pc \in StorePcs
    BY <1>3, FrameOf DEF Sound, CallReturns
  <2>2. QED  BY <1>3, <2>1 DEF CallReturns, StorePcs, At
<1>4. CASE LoopStep(r) \/ EnqueueRaises(r) \/ LoopEnds(r) \/ ClientReads(r) \/ CloseStream(r)
  BY <1>4 DEF LoopStep, EnqueueRaises, LoopEnds, ClientReads, CloseStream
<1>5. CASE FlushReturns(r) \/ FlushRaises(r) \/ LateFlushReturns(r) \/ LateFlushRaises(r)
  BY <1>5 DEF FlushReturns, FlushRaises, LateFlushReturns, LateFlushRaises
<1>6. CASE CancelDelivered(r)
  BY <1>6
  DEF CancelDelivered, CancelBody, CancelLoop, CancelFlush, CancelFinally, CancelCleanup, CancelLost
<1>7. CASE EnterFinally(r) \/ WindowOver(r)
  BY <1>7 DEF EnterFinally, WindowOver, StartLateFlush
<1>8. CASE HeartbeatStops(r) \/ LockReleased(r)
  BY <1>8 DEF HeartbeatStops, LockReleased
<1>9. CASE Exit(r)
  BY <1>9, ExitForms
<1>10. CASE \/ ChainStep(r) \/ CancelRun(r) \/ Disconnect(r) \/ MonitorSees(r)
            \/ BeatFails(r) \/ TaskCancelled(r)
  BY <1>10 DEF ChainStep, ChainWrites, ChainFails, CancelRun, Disconnect, MonitorSees,
               BeatFails, TaskCancelled
<1>11. QED
  BY <1>1, <1>2, <1>3, <1>4, <1>5, <1>6, <1>7, <1>8, <1>9, <1>10 DEF RunMove, RunStep

\* The steps that do more than that.
LEMMA Others ==
  ASSUME Typed, NEW r \in Runs, RunMove(r)
  PROVE  /\ \A q \in Runs \ {r} : run'[q] = run[q] /\ phase'[q] = phase[q]
                                  /\ stored'[q] = stored[q] /\ emitted'[q] = emitted[q]
         /\ phase'[r] = "out" => phase[r] = "out"
         /\ UNCHANGED log \/ \E kind \in Kinds : Write(r, kind)
         /\ \/ UNCHANGED holder
            \/ holder[SessionOf[r]] = NoRun /\ holder' = [holder EXCEPT ![SessionOf[r]] = r]
               /\ phase'[r] # "out"
            \/ holder[SessionOf[r]] = r /\ holder' = [holder EXCEPT ![SessionOf[r]] = NoRun]
<1>1. \A q \in Runs \ {r} : run'[q] = run[q]
  BY EveryMove, NewFrame DEF Reframed
<1>2. /\ UNCHANGED stored \/ \E x : stored' = [stored EXCEPT ![r] = x]
      /\ UNCHANGED log \/ \E kind \in Kinds : Write(r, kind)
  <2>1. CASE CallApplied(r)
    BY <2>1 DEF CallApplied, AppendUserMessage, CreateRecord, TerminalWrite, Kinds
  <2>2. CASE ChainStep(r)
    BY <2>2 DEF ChainStep, ChainWrites, ChainFails, Kinds
  <2>3. CASE ~CallApplied(r) /\ ~ChainStep(r)
    <3>1. UNCHANGED storeVars
      BY <2>3
      DEF RunMove, RunStep, Reject, AcquireLock, Conflict, AcquireFails, Prepare, PrepareRaises,
          CallReturns, CallRaises, LoopStep, EnqueueRaises, LoopEnds, ClientReads, CloseStream,
          FlushReturns, FlushRaises, CancelDelivered, EnterFinally, WindowOver, LateFlushReturns,
          LateFlushRaises, HeartbeatStops, LockReleased, Exit, CancelRun, Disconnect,
          MonitorSees, BeatFails, TaskCancelled
    <3>2. QED  BY <3>1 DEF storeVars
  <2>4. QED  BY <2>1, <2>2, <2>3
<1>3. UNCHANGED emitted \/ \E x : emitted' = [emitted EXCEPT ![r] = x]
  <2>1. CASE Exit(r)
    BY <2>1, ExitForms DEF Finish
  <2>2. CASE CallReturns(r)
    <3>1. run[r].pc \in StorePcs
      BY <2>2, FrameOf DEF Sound, CallReturns
    <3>2. QED  BY <2>2, <3>1 DEF CallReturns, Finish, StorePcs, At
  <2>3. CASE Reject(r) \/ Conflict(r) \/ AcquireFails(r)
    BY <2>3 DEF Reject, Conflict, AcquireFails, Finish
  <2>4. CASE ~(Exit(r) \/ CallReturns(r) \/ Reject(r) \/ Conflict(r) \/ AcquireFails(r))
    BY <2>4
    DEF RunMove, RunStep, AcquireLock, Prepare, PrepareRaises, CallApplied, CallRaises,
        LoopStep, EnqueueRaises, LoopEnds, ClientReads, CloseStream, FlushReturns, FlushRaises,
        CancelDelivered, EnterFinally, WindowOver, LateFlushReturns, LateFlushRaises,
        HeartbeatStops, LockReleased, ChainStep, ChainWrites, ChainFails, CancelRun, Disconnect,
        MonitorSees, BeatFails, TaskCancelled
  <2>5. QED  BY <2>1, <2>2, <2>3, <2>4
<1>4. /\ UNCHANGED phase \/ \E x \in {"in", "leaving", "gone"} : phase' = [phase EXCEPT ![r] = x]
      /\ \/ UNCHANGED holder
         \/ holder[SessionOf[r]] = NoRun /\ holder' = [holder EXCEPT ![SessionOf[r]] = r]
               /\ \E x \in {"in", "gone"} : phase' = [phase EXCEPT ![r] = x]
         \/ holder[SessionOf[r]] = r /\ holder' = [holder EXCEPT ![SessionOf[r]] = NoRun]
  <2>1. CASE AcquireLock(r) \/ Conflict(r) \/ AcquireFails(r)
    BY <2>1 DEF AcquireLock, Conflict, AcquireFails, Lease!Grant, Lease!Deny, Lease!Move
  <2>2. CASE HeartbeatStops(r) \/ LockReleased(r) \/ Exit(r)
    BY <2>2 DEF HeartbeatStops, LockReleased, Exit, Lease!StartLeaving, Lease!Release,
                Lease!Abandon, Lease!Move, leaseVars
  <2>3. CASE ~(\/ AcquireLock(r) \/ Conflict(r) \/ AcquireFails(r)
              \/ HeartbeatStops(r) \/ LockReleased(r) \/ Exit(r))
    <3>1. UNCHANGED leaseVars
      BY <2>3
      DEF RunMove, RunStep, Reject, Prepare, PrepareRaises, CallApplied, CallReturns, CallRaises,
          LoopStep, EnqueueRaises, LoopEnds, ClientReads, CloseStream, FlushReturns, FlushRaises,
          CancelDelivered, EnterFinally, WindowOver, LateFlushReturns, LateFlushRaises,
          ChainStep, ChainWrites, ChainFails, CancelRun, Disconnect, MonitorSees, BeatFails,
          TaskCancelled
    <3>2. QED  BY <3>1 DEF leaseVars
  <2>4. QED  BY <2>1, <2>2, <2>3
<1>5. \A q \in Runs \ {r} : phase'[q] = phase[q] /\ stored'[q] = stored[q] /\ emitted'[q] = emitted[q]
  BY <1>2, <1>3, <1>4 DEF Typed, TypeOK
<1>6. phase'[r] = "out" => phase[r] = "out"
  BY <1>4 DEF Typed, TypeOK
<1>7. \A x \in {"in", "gone"} : phase' = [phase EXCEPT ![r] = x] => phase'[r] # "out"
  BY DEF Typed, TypeOK
<1>8. QED  BY <1>1, <1>2, <1>4, <1>5, <1>6, <1>7

\* What the server has cut stays cut.
KillsStay == \A q \in Runs : run[q].killed => run'[q].killed

LEMMA EveryKill ==
  ASSUME Typed, NEW r \in Runs, RunMove(r)
  PROVE  KillsStay
<1>1. run[r] \in Frame /\ \A f : Becomes(r, f) => run'[r] = f
  BY NewFrame DEF Typed, TypeOK
<1>2. SUFFICES run[r].killed => run'[r].killed
  BY Others DEF KillsStay
<1>3. ASSUME NEW p, NEW e, Goto(r, p, e) PROVE run'[r].killed = run[r].killed
  BY <1>3, GotoFields DEF KeepsBeat
<1>4. ASSUME NEW b, Over(r, b) PROVE run'[r].killed = run[r].killed
  BY <1>4, OverFields
<1>5. ASSUME NEW e, NEW end, StartFlush(r, e, end) PROVE run'[r].killed = run[r].killed
  BY <1>5, StartFlushFields
<1>6. CASE \/ Reject(r) \/ AcquireLock(r) \/ Conflict(r) \/ Prepare(r) \/ PrepareRaises(r)
           \/ EnterFinally(r) \/ WindowOver(r) \/ LateFlushRaises(r) \/ HeartbeatStops(r)
           \/ EnqueueRaises(r) \/ LoopEnds(r)
  BY <1>3, <1>4, <1>5, <1>6
  DEF Reject, AcquireLock, Conflict, Prepare, PrepareRaises, Finish, EnterFinally, WindowOver,
      StartLateFlush, LateFlushRaises, HeartbeatStops, EnqueueRaises, LoopEnds
<1>7. CASE AcquireFails(r) \/ CallApplied(r) \/ CallRaises(r)
  <2>1. CASE Over(r, TRUE)
    BY <1>4, <2>1
  <2>2. CASE ~Over(r, TRUE)
    <3>1. \/ run'[r] = [run[r] EXCEPT !.pc = "done", !.killed = TRUE]
          \/ run'[r] = [run[r] EXCEPT !.applied = TRUE]
          \/ run'[r] = [run[r] EXCEPT !.pc = IF At(r, "lateCancel") THEN "stop" ELSE "finally",
                                      !.applied = FALSE, !.exc = "error", !.failed = TRUE]
      BY <1>1, <1>7, <2>2 DEF AcquireFails, CallApplied, CallRaises
    <3>2. QED  BY <1>1, <3>1 DEF Frame
  <2>3. QED  BY <2>1, <2>2
<1>8. CASE CallReturns(r)
  <2>1. run[r].pc \in StorePcs
    BY <1>8, FrameOf DEF Sound, CallReturns
  <2>2. CASE At(r, "create")
    <3>1. run'[r] = [run[r] EXCEPT !.pc = "yield", !.applied = FALSE, !.created = TRUE]
      BY <1>1, <1>8, <2>2 DEF CallReturns, At
    <3>2. QED  BY <1>1, <3>1 DEF Frame
  <2>3. CASE ~At(r, "create")
    BY <1>3, <1>4, <1>8, <2>1, <2>3 DEF CallReturns, Finish, StorePcs, At
  <2>4. QED  BY <2>2, <2>3
<1>9. CASE LoopStep(r) \/ ClientReads(r) \/ CloseStream(r)
  <2>1. CASE LoopStep(r)
    <3>1. PICK next \in {"loop", "yield"} :
            run'[r] = [run[r] EXCEPT !.pc = next, !.steps = @ + 1, !.queue = @ + 1]
      BY <1>1, <2>1 DEF LoopStep
    <3>2. QED  BY <1>1, <3>1 DEF Frame
  <2>2. CASE ClientReads(r)
    <3>1. run'[r] = [run[r] EXCEPT !.pc = "loop"]
      BY <1>1, <2>2 DEF ClientReads
    <3>2. QED  BY <1>1, <3>1 DEF Frame
  <2>3. CASE CloseStream(r)
    <3>1. run'[r] = [run[r] EXCEPT !.pc = "finally", !.exc = "closed", !.closing = TRUE,
                                  !.cancelReq = FALSE, !.asked = @ \/ run[r].gone]
      BY <1>1, <2>3 DEF CloseStream
    <3>2. QED  BY <1>1, <3>1 DEF Frame
  <2>4. QED  BY <1>9, <2>1, <2>2, <2>3
<1>10. CASE ChainStep(r) \/ FlushReturns(r) \/ FlushRaises(r) \/ LateFlushReturns(r)
  <2>1. CASE Goto(r, "finally", "cancelled")
    BY <1>3, <2>1
  <2>2. CASE ~Goto(r, "finally", "cancelled")
    <3>1. \/ run'[r] = [run[r] EXCEPT !.queue = @ - 1]
          \/ run'[r] = [run[r] EXCEPT !.queue = 0, !.bufErr = TRUE, !.failed = TRUE]
          \/ run'[r] = [run[r] EXCEPT !.pc = "persist", !.term = run[r].loopTerm]
          \/ run'[r] = [run[r] EXCEPT !.pc = "persistFailed", !.exc = "error", !.term = "failed"]
          \/ run'[r] = [run[r] EXCEPT !.pc = "lateCancel", !.term = "cancelled"]
      BY <1>1, <1>10, <2>2
      DEF ChainStep, ChainWrites, ChainFails, FlushReturns, FlushRaises, LateFlushReturns
    <3>2. QED  BY <1>1, <3>1 DEF Frame
  <2>3. QED  BY <2>1, <2>2
<1>11. CASE CancelDelivered(r)
  <2>1. CASE CancelLoop(r) \/ CancelLost(r)
    BY <1>4, <1>5, <2>1 DEF CancelLoop, CancelLost
  <2>2. CASE ~CancelLoop(r) /\ ~CancelLost(r)
    <3>1. \/ run'[r] = [run[r] EXCEPT !.pc = "finally", !.exc = "cancelled",
                                      !.applied = FALSE, !.cancelReq = FALSE]
          \/ run'[r] = [run[r] EXCEPT !.pc = IF At(r, "flush") THEN "finally" ELSE "stop",
                                      !.exc = "cancelled", !.cancelReq = FALSE, !.queue = 0]
          \/ run'[r] = [run[r] EXCEPT !.pc = "stop", !.exc = "cancelled",
                                      !.applied = FALSE, !.cancelReq = FALSE]
          \/ run'[r] = [run[r] EXCEPT !.cleanCut = TRUE, !.cancelReq = FALSE]
      BY <1>1, <1>11, <2>2
      DEF CancelDelivered, CancelBody, CancelFlush, CancelFinally, CancelCleanup
    <3>2. QED  BY <1>1, <3>1 DEF Frame
  <2>3. QED  BY <2>1, <2>2
<1>12. CASE LockReleased(r) \/ Exit(r)
  <2>1. CASE \/ Goto(r, "exit", run[r].exc)
             \/ \E event : Finish(r, event)
    BY <1>3, <1>4, <2>1 DEF Finish
  <2>2. CASE ~(Goto(r, "exit", run[r].exc) \/ \E event : Finish(r, event))
    <3>1. \/ run'[r] = [run[r] EXCEPT !.pc = "exit", !.failed = TRUE]
          \/ run'[r] = [run[r] EXCEPT !.pc = "persistLost", !.term = "failed"]
      BY <1>1, <1>12, <2>2, ExitForms DEF LockReleased
    <3>2. QED  BY <1>1, <3>1 DEF Frame
  <2>3. QED  BY <2>1, <2>2
<1>13. CASE CancelRun(r) \/ Disconnect(r) \/ MonitorSees(r) \/ BeatFails(r) \/ TaskCancelled(r)
  <2>1. \/ run'[r] = [run[r] EXCEPT !.asked = TRUE]
        \/ run'[r] = [run[r] EXCEPT !.gone = TRUE]
        \/ run'[r] = [run[r] EXCEPT !.beatLost = TRUE, !.cancelReq = ~run[r].closing]
        \/ run'[r] = [run[r] EXCEPT !.killed = TRUE, !.cancelReq = TRUE]
    BY <1>1, <1>13 DEF CancelRun, Disconnect, MonitorSees, BeatFails, TaskCancelled
  <2>2. QED  BY <1>1, <2>1 DEF Frame
<1>14. QED
  BY <1>6, <1>7, <1>8, <1>9, <1>10, <1>11, <1>12, <1>13 DEF RunMove, RunStep

-----------------------------------------------------------------------------
(* The history. *)

\* A message goes behind those that are there.
LEMMA Wrote ==
  ASSUME Typed, NEW r \in Runs, NEW kind \in Kinds, Write(r, kind)
  PROVE  LET s == SessionOf[r] IN
         /\ \A t \in Sessions \ {s} : log'[t] = log[t]
         /\ Len(log[s]) \in Nat /\ Len(log'[s]) = Len(log[s]) + 1
         /\ log'[s][Len(log[s]) + 1] = <<r, kind>>
         /\ \A i \in 1..Len(log[s]) : log'[s][i] = log[s][i]
<1> DEFINE s == SessionOf[r]
<1>1. s \in Sessions /\ log[s] \in Seq(Runs \X Kinds) /\ log \in [Sessions -> Seq(Runs \X Kinds)]
  BY SessionOfType DEF Typed, TypeOK, Kinds
<1>2. /\ log'[s] = Append(log[s], <<r, kind>>)
      /\ \A t \in Sessions \ {s} : log'[t] = log[t]
  BY <1>1 DEF Write
<1>3. <<r, kind>> \in Runs \X Kinds
  OBVIOUS
<1> HIDE DEF s
<1>4. QED  BY <1>1, <1>2, <1>3 DEF s

\* A run writes inside its lock scope, its user message first, and nothing
\* behind its closing message; outside it only what the server cut goes on.
LEMMA WriteWhen ==
  ASSUME Typed, NEW r \in Runs, OwnInv(r), LogInv(r), RunMove(r), log' # log
  PROVE  \/ /\ run[r].pc \in InsidePcs
            /\ \/ /\ CallApplied(r) /\ run[r].pc = "user" /\ Write(r, "user") /\ Unseen(r)
               \/ /\ CallApplied(r) /\ run[r].pc \in {"persist", "persistFailed"}
                  /\ Open(r) /\ \E kind \in {"answer", "hint"} : Write(r, kind)
               \/ /\ CallApplied(r) /\ run[r].pc = "lateCancel"
                  /\ Unseen(r) \/ Open(r)
                  /\ Write(r, "hint")
               \/ ChainStep(r) /\ Open(r) /\ Write(r, "step")
         \/ run[r].pc \notin InsidePcs /\ run[r].killed /\ ChainStep(r) /\ Write(r, "step")
<1>1. CASE CallApplied(r)
  <2>1. run[r].pc \in StorePcs /\ ~run[r].applied /\ run[r].pc # "persistLost"
    BY <1>1 DEF CallApplied, OwnInv, HoldInv
  <2>2. CASE At(r, "user")
    BY <1>1, <2>1, <2>2 DEF CallApplied, AppendUserMessage, At, LogInv, Silent, InsidePcs
  <2>3. CASE At(r, "create")
    BY <1>1, <2>3 DEF CallApplied, CreateRecord, At
  <2>4. CASE run[r].pc \in {"persist", "persistFailed", "lateCancel"}
    <3>1. TerminalWrite(r)
      BY <1>1, <2>4 DEF CallApplied, At
    <3>2. Write(r, "answer") \/ Write(r, "hint")
      BY <3>1 DEF TerminalWrite
    <3>3. run[r].pc = "lateCancel" => Write(r, "hint")
      BY <3>1 DEF TerminalWrite, OwnInv, RecordInv
    <3>4. QED
      BY <1>1, <2>1, <2>4, <3>2, <3>3
      DEF LogInv, Talking, Underway, Bare, InsidePcs
  <2>5. QED  BY <2>1, <2>2, <2>3, <2>4 DEF StorePcs, At
<1>2. CASE ChainStep(r)
  <2>1. run[r].queue > 0 /\ Write(r, "step")
    BY <1>2 DEF ChainStep, ChainWrites, ChainFails
  <2>2. CASE run[r].pc \in InsidePcs
    <3>1. Open(r)
      BY <2>1, <2>2 DEF LogInv, Talking
    <3>2. QED  BY <1>2, <2>1, <2>2, <3>1
  <2>3. CASE run[r].pc \notin InsidePcs
    <3>1. run[r].killed
      BY <2>1, <2>3 DEF OwnInv, ChainInv, InsidePcs
    <3>2. QED  BY <1>2, <2>1, <2>3, <3>1
  <2>4. QED  BY <2>2, <2>3
<1>3. CASE ~CallApplied(r) /\ ~ChainStep(r)
  <2>1. UNCHANGED log
    BY <1>3
    DEF RunMove, RunStep, Reject, AcquireLock, Conflict, AcquireFails, Prepare, PrepareRaises,
        CallReturns, CallRaises, LoopStep, EnqueueRaises, LoopEnds, ClientReads, CloseStream,
        FlushReturns, FlushRaises, CancelDelivered, EnterFinally, WindowOver, LateFlushReturns,
        LateFlushRaises, HeartbeatStops, LockReleased, Exit, CancelRun, Disconnect,
        MonitorSees, BeatFails, TaskCancelled, storeVars
  <2>2. QED  BY <2>1
<1>4. QED  BY <1>1, <1>2, <1>3

\* The history of a run as a step without a message leaves it ...
LEMMA SameHistory ==
  ASSUME Typed, KillsStay, NEW r \in Runs, log'[SessionOf[r]] = log[SessionOf[r]]
  PROVE  (Unseen(r)' <=> Unseen(r)) /\ (Open(r) => Open(r)')
<1>1. Log(r)' = Log(r) /\ Log(r) \in Seq(Runs \X Kinds)
  BY SessionOfType DEF Log, Typed, TypeOK, Kinds
<1>2. Unseen(r)' <=> Unseen(r)
  BY <1>1 DEF Unseen
<1>3. ASSUME NEW k \in 1..Len(Log(r)), Stray(Log(r)[k]) PROVE Stray(Log(r)[k])'
  <2>1. Log(r)[k][1] \in Runs
    BY <1>1
  <2>2. QED  BY <1>1, <1>3, <2>1 DEF Stray, KillsStay
<1>4. \A i \in 1..Len(Log(r)) : i..Len(Log(r)) \subseteq 1..Len(Log(r))
  BY <1>1
<1>5. QED  BY <1>1, <1>2, <1>3, <1>4 DEF Open

\* ... and as a message leaves it.
LEMMA Grows ==
  ASSUME Typed, KillsStay, NEW r \in Runs, NEW q \in Runs, SessionOf[q] = SessionOf[r],
         NEW kind \in Kinds, Write(r, kind)
  PROVE  /\ q # r /\ Unseen(q) => Unseen(q)'
         /\ q # r /\ run[r].killed /\ kind = "step" /\ Open(q) => Open(q)'
         /\ q = r /\ kind \in {"user", "step"} /\ (Unseen(q) \/ Open(q)) => Open(q)'
<1> DEFINE l == Log(q)  n == Len(l)
<1>1. l \in Seq(Runs \X Kinds) /\ n \in Nat
  BY SessionOfType DEF Log, Typed, TypeOK, Kinds
<1>2. /\ Len(l') = n + 1 /\ l'[n + 1] = <<r, kind>>
      /\ \A i \in 1..n : l'[i] = l[i]
  <2> DEFINE s == SessionOf[r]
  <2>1. l = log[s] /\ l' = log'[s]
    BY DEF Log
  <2>2. /\ Len(log'[s]) = Len(log[s]) + 1
        /\ log'[s][Len(log[s]) + 1] = <<r, kind>>
        /\ \A i \in 1..Len(log[s]) : log'[s][i] = log[s][i]
    BY Wrote
  <2> HIDE DEF l, s
  <2>3. QED  BY <2>1, <2>2
<1>3. \A i \in 1..Len(l') : i \in 1..n \/ i = n + 1
  BY <1>1, <1>2
<1>4. ASSUME NEW k \in 1..n, Stray(l[k]) PROVE Stray(l[k])'
  <2>1. l[k][1] \in Runs /\ l'[k] = l[k]
    BY <1>1, <1>2
  <2>2. QED  BY <1>4, <2>1 DEF Stray, KillsStay
<1>5. ASSUME Open(q) \/ (Unseen(q) /\ q = r), Stray(<<r, kind>>)' \/ q = r,
             q = r => kind \in {"user", "step"}
      PROVE  Open(q)'
  <2>1. ~Unseen(q)'
    <3>1. CASE q = r
      <4>1. n + 1 \in 1..Len(l')
        BY <1>1, <1>2
      <4>2. l'[n + 1][1] = q
        BY <1>2, <3>1
      <4>3. QED  BY <4>1, <4>2 DEF Unseen
    <3>2. CASE q # r
      <4>1. PICK i \in 1..n : l[i][1] = q
        BY <1>5, <3>2 DEF Open, Unseen
      <4>2. i \in 1..Len(l') /\ l'[i][1] = q
        BY <1>1, <1>2, <4>1
      <4>3. QED  BY <4>2 DEF Unseen
    <3>3. QED  BY <3>1, <3>2
  <2>2. ASSUME NEW i \in 1..Len(l'), l'[i][1] = q
        PROVE  /\ l'[i][2] \in {"user", "step"}
               /\ \A k \in i..Len(l') : l'[k][1] = q \/ Stray(l[k])'
    <3>1. CASE i = n + 1
      <4>1. q = r
        BY <1>2, <2>2, <3>1
      <4>2. \A k \in i..Len(l') : k = n + 1
        BY <1>1, <1>2, <3>1
      <4>3. QED  BY <1>2, <1>5, <3>1, <4>1, <4>2
    <3>2. CASE i \in 1..n
      <4>1. l[i][1] = q /\ l'[i] = l[i]
        BY <1>2, <2>2, <3>2
      <4>2. ~Unseen(q)
        BY <3>2, <4>1 DEF Unseen
      <4>3. /\ l[i][2] \in {"user", "step"}
            /\ \A k \in i..n : l[k][1] = q \/ Stray(l[k])
        BY <1>5, <3>2, <4>1, <4>2 DEF Open
      <4>4. ASSUME NEW k \in i..Len(l') PROVE l'[k][1] = q \/ Stray(l[k])'
        <5>1. k = n + 1 \/ (k \in i..n /\ k \in 1..n)
          <6>1. k \in i..(n + 1) /\ n \in Nat /\ i \in 1..n
            BY <1>1, <1>2, <3>2, <4>4
          <6> HIDE DEF n
          <6>2. QED  BY <6>1
        <5>2. CASE k = n + 1
          BY <1>2, <1>5, <5>2
        <5>3. CASE k \in i..n /\ k \in 1..n
          BY <1>2, <1>4, <4>3, <5>3
        <5>4. QED  BY <5>1, <5>2, <5>3
      <4>5. QED  BY <4>1, <4>3, <4>4
    <3>3. QED  BY <1>3, <2>2, <3>1, <3>2
  <2>3. QED  BY <2>1, <2>2 DEF Open
<1>6. q # r /\ Unseen(q) => Unseen(q)'
  BY <1>2, <1>3 DEF Unseen
<1>7. run[r].killed /\ kind = "step" => Stray(<<r, kind>>)'
  BY DEF Stray, KillsStay
<1>8. QED  BY <1>5, <1>6, <1>7

\* Every step of a run keeps what its history says of it, ...
LEMMA OwnMove ==
  ASSUME Typed, NEW r \in Runs, Steady, LockInv, OwnInv(r), RunMove(r)
  PROVE  /\ OwnInv(r)'
         /\ Course(r) \/ (CallApplied(r) /\ run[r].pc = "user")
BY OwnEntry, OwnApplied, OwnReturns, OwnLoop, OwnChain, OwnFlush, OwnWayOut, OwnReleased,
   OwnExit, OwnCancel, OwnOthers
DEF RunMove, RunStep

LEMMA OwnLog ==
  ASSUME Typed, NEW r \in Runs, Steady, LockInv, OwnInv(r), LogInv(r), RunMove(r)
  PROVE  LogInv(r)'
<1>1. OwnInv(r)' /\ (Course(r) \/ (CallApplied(r) /\ run[r].pc = "user"))
  BY OwnMove
<1>2. SessionOf[r] \in Sessions /\ KillsStay
  BY SessionOfType, EveryKill
<1>3. CASE log' = log
  <2>1. (Unseen(r)' <=> Unseen(r)) /\ (Open(r) => Open(r)')
    BY <1>2, <1>3, SameHistory
  <2>2. ~(CallApplied(r) /\ run[r].pc = "user")
    <3>1. SUFFICES ASSUME CallApplied(r), run[r].pc = "user" PROVE FALSE
      OBVIOUS
    <3>2. Write(r, "user")
      BY <3>1 DEF CallApplied, AppendUserMessage, At
    <3>3. Len(log[SessionOf[r]]) \in Nat /\ Len(log'[SessionOf[r]]) = Len(log[SessionOf[r]]) + 1
      BY <3>2, Wrote DEF Kinds
    <3>4. QED  BY <1>3, <3>3
  <2>3. QED  BY <1>1, <2>1, <2>2 DEF Course, LogInv
<1>4. CASE log' # log
  <2>1. ASSUME NEW kind \in {"user", "step"}, Write(r, kind), Unseen(r) \/ Open(r)
        PROVE  Open(r)'
    BY <1>2, <2>1, Grows DEF Kinds
  <2>2. CASE CallApplied(r) /\ run[r].pc = "user"
    <3>1. Open(r)'
      <4>1. Write(r, "user") /\ Unseen(r)
        BY <2>2 DEF CallApplied, AppendUserMessage, At, LogInv, Silent
      <4>2. QED  BY <2>1, <4>1
    <3>2. run'[r].pc = "user" /\ run'[r].applied
      <4>1. run'[r] = [run[r] EXCEPT !.applied = TRUE] /\ run[r] \in Frame
        BY <2>2, NewFrame DEF CallApplied
      <4>2. QED  BY <2>2, <4>1 DEF Frame
    <3>3. QED  BY <3>1, <3>2 DEF LogInv, Silent, Bare
  <2>3. CASE CallApplied(r) /\ run[r].pc # "user"
    <3>1. run'[r].pc = run[r].pc /\ run'[r].applied /\ run'[r].queue = run[r].queue
      <4>1. run'[r] = [run[r] EXCEPT !.applied = TRUE] /\ run[r] \in Frame
        BY <2>3, NewFrame DEF CallApplied
      <4>2. QED  BY <4>1 DEF Frame
    <3>2. run[r].pc \in {"persist", "persistFailed", "lateCancel"}
      <4>1. run[r].pc \in StorePcs \ {"user", "persistLost"}
        BY <2>3 DEF CallApplied, OwnInv, HoldInv
      <4>2. run[r].pc # "create"
        BY <1>4, <2>3 DEF CallApplied, CreateRecord, At
      <4>3. QED  BY <4>1, <4>2 DEF StorePcs
    <3>3. ~(run[r].queue > 0)
      BY <3>2 DEF OwnInv, ChainInv
    <3>4. QED  BY <3>1, <3>2, <3>3 DEF LogInv, Silent, Talking, Underway, Bare
  <2>4. CASE ChainStep(r) /\ ~CallApplied(r)
    <3>1. run[r].queue > 0
      BY <2>4 DEF ChainStep, ChainWrites, ChainFails
    <3>2. ~Silent(r)
      BY <3>1 DEF OwnInv, ChainInv, Silent
    <3>3. CASE run[r].pc \in InsidePcs
      <4>1. Open(r) /\ Write(r, "step")
        BY <1>4, <2>4, <3>3, WriteWhen
      <4>2. Open(r)'
        BY <2>1, <4>1
      <4>3. QED  BY <1>1, <2>4, <3>2, <4>2 DEF Course, LogInv
    <3>4. CASE run[r].pc \notin InsidePcs
      <4>1. ~Talking(r) /\ ~Bare(r)
        BY <3>4 DEF Talking, Underway, Bare, InsidePcs
      <4>2. QED  BY <1>1, <2>4, <3>2, <4>1 DEF Course, LogInv
    <3>5. QED  BY <3>3, <3>4
  <2>5. CallApplied(r) \/ ChainStep(r)
    BY <1>4, WriteWhen
  <2>6. QED  BY <2>2, <2>3, <2>4, <2>5
<1>5. QED  BY <1>3, <1>4

\* ... and what is true of the other runs of its session.
LEMMA OtherRun ==
  ASSUME Typed, SteadyInv, Steady, NEW r \in Runs, RunMove(r), NEW q \in Runs \ {r}
  PROVE  OwnInv(q)' /\ LogInv(q)'
<1>1. /\ run'[q] = run[q] /\ phase'[q] = phase[q]
      /\ stored'[q] = stored[q] /\ emitted'[q] = emitted[q]
      /\ KillsStay
  BY Others, EveryKill
<1>2. holder'[SessionOf[q]] = q <=> holder[SessionOf[q]] = q
  <2>1. \/ UNCHANGED holder
        \/ holder[SessionOf[r]] = NoRun /\ holder' = [holder EXCEPT ![SessionOf[r]] = r]
        \/ holder[SessionOf[r]] = r /\ holder' = [holder EXCEPT ![SessionOf[r]] = NoRun]
    BY Others
  <2>2. /\ SessionOf[q] \in Sessions /\ SessionOf[r] \in Sessions /\ q # NoRun /\ q # r
        /\ holder \in [Sessions -> Runs \union {NoRun}]
    BY SessionOfType, RunsAssumption DEF Typed, TypeOK
  <2>3. QED  BY <2>1, <2>2
<1>3. OwnInv(q) /\ LogInv(q) /\ OwnInv(r) /\ LogInv(r)
  BY DEF SteadyInv, OwnInv
<1>4. OwnInv(q)'
  BY <1>1, <1>2, <1>3
  DEF OwnInv, PhaseInv, HoldInv, RecordInv, ExitInv, ChainInv, EmitInv, Unrecorded, Underway, Bare
<1>5. /\ Silent(q)' <=> Silent(q)
      /\ Talking(q)' <=> Talking(q)
      /\ Bare(q)' <=> Bare(q)
  BY <1>1 DEF Silent, Talking, Underway, Bare
<1>6. CASE log'[SessionOf[q]] = log[SessionOf[q]]
  <2>1. (Unseen(q)' <=> Unseen(q)) /\ (Open(q) => Open(q)')
    BY <1>1, <1>6, SameHistory
  <2>2. QED  BY <1>3, <1>4, <1>5, <2>1 DEF LogInv
<1>7. CASE log'[SessionOf[q]] # log[SessionOf[q]]
  <2>1. log' # log
    BY <1>7
  <2>2. PICK kind \in Kinds : /\ Write(r, kind)
                              /\ run[r].pc \in InsidePcs \/ (run[r].killed /\ kind = "step")
    <3>1. PICK k \in Kinds : Write(r, k)
      BY <2>1, Others
    <3>2. run[r].pc \in InsidePcs \/ (run[r].killed /\ Write(r, "step"))
      BY <1>3, <2>1, WriteWhen
    <3>3. "step" \in Kinds
      BY DEF Kinds
    <3>4. QED  BY <3>1, <3>2, <3>3
  <2>3. SessionOf[q] = SessionOf[r]
    BY <1>7, <2>2, Wrote, SessionOfType
  <2>4. Unseen(q) => Unseen(q)'
    BY <1>1, <2>2, <2>3, Grows
  <2>5. CASE run[r].pc \in InsidePcs
    <3>1. run[q].pc \notin InsidePcs
      BY <1>3, <2>3, <2>5 DEF OwnInv, HoldInv
    <3>2. ~Bare(q) /\ ~Talking(q)
      BY <3>1 DEF Bare, Talking, Underway, InsidePcs
    <3>3. QED  BY <1>3, <1>4, <1>5, <2>4, <3>2 DEF LogInv
  <2>6. CASE run[r].killed /\ kind = "step"
    <3>1. Open(q) => Open(q)'
      BY <1>1, <2>2, <2>3, <2>6, Grows
    <3>2. QED  BY <1>3, <1>4, <1>5, <2>4, <3>1 DEF LogInv
  <2>7. QED  BY <2>2, <2>5, <2>6
<1>8. QED  BY <1>4, <1>6, <1>7

LEMMA KeepsLock ==
  ASSUME Typed, LockInv, NEW r \in Runs, RunMove(r)
  PROVE  LockInv'
<1>1. \A q \in Runs : phase'[q] = "out" => phase[q] = "out"
  BY Others
<1>2. \/ UNCHANGED holder
      \/ /\ holder[SessionOf[r]] = NoRun /\ holder' = [holder EXCEPT ![SessionOf[r]] = r]
         /\ phase'[r] # "out"
      \/ holder[SessionOf[r]] = r /\ holder' = [holder EXCEPT ![SessionOf[r]] = NoRun]
  BY Others
<1>3. holder \in [Sessions -> Runs \union {NoRun}] /\ NoRun \notin Runs
  BY RunsAssumption DEF Typed, TypeOK
<1>4. \A s \in Sessions : holder'[s] # NoRun => SessionOf[holder'[s]] = s
  BY <1>2, <1>3, SessionOfType DEF LockInv
<1>5. ASSUME NEW q \in Runs, holder'[SessionOf[q]] = q PROVE phase'[q] # "out"
  <2>1. holder[SessionOf[q]] = q \/ (q = r /\ phase'[r] # "out")
    BY <1>2, <1>3, <1>5, SessionOfType
  <2>2. QED  BY <1>1, <2>1 DEF LockInv
<1>6. QED  BY <1>4, <1>5 DEF LockInv

LEMMA LeftLock ==
  ASSUME Typed, SteadyInv, NEW s \in Sessions, LeftLockLapses(s)
  PROVE  SteadyInv'
<1>1. UNCHANGED <<phase, run, storeVars, emitted>> /\ holder' = [holder EXCEPT ![s] = NoRun]
      /\ phase[holder[s]] = "gone"
  BY DEF LeftLockLapses
<1>2. LockInv'
  BY <1>1, RunsAssumption, SessionOfType DEF SteadyInv, LockInv, Typed, TypeOK
<1>3. ASSUME NEW q \in Runs PROVE OwnInv(q)' /\ LogInv(q)'
  <2>1. OwnInv(q) /\ LogInv(q)
    BY DEF SteadyInv, OwnInv
  <2>2. HoldInv(q)'
    BY <1>1, <2>1, RunsAssumption, SessionOfType
    DEF OwnInv, PhaseInv, HoldInv, Typed, TypeOK
  <2>3. OwnInv(q)'
    BY <1>1, <2>1, <2>2
    DEF OwnInv, PhaseInv, RecordInv, ExitInv, ChainInv, EmitInv, Unrecorded, Underway, Bare, storeVars
  <2>4. QED
    BY <1>1, <2>1, <2>3
    DEF LogInv, Silent, Talking, Underway, Bare, Unseen, Open, Stray, Log, storeVars
<1>4. QED  BY <1>2, <1>3 DEF SteadyInv, OwnInv

LEMMA InitSteady == Init => SteadyInv
<1>1. SUFFICES ASSUME Init PROVE SteadyInv
  OBVIOUS
<1>2. \A r \in Runs : /\ run[r] = Fresh /\ stored[r] = "absent" /\ emitted[r] = "none"
                      /\ holder[SessionOf[r]] # r /\ phase[r] = "out"
                      /\ Len(log[SessionOf[r]]) = 0
  BY <1>1, SessionOfType, RunsAssumption DEF Init, Lease!Init
<1>3. LockInv
  BY <1>1, SessionOfType, RunsAssumption DEF Init, Lease!Init, LockInv
<1>4. ASSUME NEW r \in Runs PROVE OwnInv(r) /\ LogInv(r)
  <2>1. Fresh.pc = "idle" /\ ~Fresh.applied /\ Fresh.exc = "none" /\ Fresh.term = "none"
        /\ ~Fresh.created /\ ~Fresh.cancelReq /\ ~Fresh.beatLost /\ ~Fresh.cleanCut
        /\ Fresh.queue = 0 /\ ~Fresh.bufErr /\ ~Fresh.failed
    BY DEF Fresh
  <2>2. OwnInv(r)
    BY <1>2, <2>1
    DEF OwnInv, PhaseInv, HoldInv, RecordInv, ExitInv, ChainInv, EmitInv, InsidePcs,
        Unrecorded, Underway, Bare
  <2>3. LogInv(r)
    BY <1>2, <2>1 DEF LogInv, Silent, Talking, Underway, Bare, Unseen, Log
  <2>4. QED  BY <2>2, <2>3
<1>5. QED  BY <1>3, <1>4 DEF SteadyInv, OwnInv

LEMMA NextSteady ==
  ASSUME Steady, Typed, SteadyInv, [Next]_vars
  PROVE  SteadyInv'
<1>1. CASE UNCHANGED vars
  <2>1. LockInv'
    BY <1>1 DEF SteadyInv, LockInv, vars
  <2>2. ASSUME NEW q \in Runs PROVE OwnInv(q)' /\ LogInv(q)'
    BY <1>1
    DEF SteadyInv, OwnInv, PhaseInv, HoldInv, RecordInv, ExitInv, ChainInv, EmitInv, LogInv,
        Silent, Talking, Unrecorded, Underway, Bare, Unseen, Open, Stray, Log, vars
  <2>3. QED  BY <2>1, <2>2 DEF SteadyInv, OwnInv
<1>2. CASE \E r \in Runs : RunMove(r)
  <2>1. PICK r \in Runs : RunMove(r)
    BY <1>2
  <2>2. OwnInv(r) /\ LogInv(r) /\ LockInv
    BY DEF SteadyInv, OwnInv
  <2>3. LockInv'
    BY <2>1, <2>2, KeepsLock
  <2>4. OwnInv(r)' /\ LogInv(r)'
    BY <2>1, <2>2, OwnMove, OwnLog
  <2>5. \A q \in Runs : OwnInv(q)' /\ LogInv(q)'
    BY <2>1, <2>4, OtherRun
  <2>6. QED  BY <2>3, <2>5 DEF SteadyInv, OwnInv
<1>3. CASE LockLapses
  BY <1>3 DEF LockLapses, Steady
<1>4. CASE \E s \in Sessions : LeftLockLapses(s)
  BY <1>4, LeftLock
<1>5. QED  BY <1>1, <1>2, <1>3, <1>4 DEF Next, RunMove

-----------------------------------------------------------------------------
(* The steps of a run, whatever fails. *)

LEMMA CountType ==
  ASSUME NEW S, NEW s \in Seq(S), NEW m
  PROVE  Count(s, m) \in Nat
<1>1. IsFiniteSet(1..Len(s))
  BY FS_Interval
<1>2. IsFiniteSet({i \in 1..Len(s) : s[i] = m})
  BY <1>1, FS_Subset
<1>3. QED  BY <1>2, FS_CardinalityType DEF Count

LEMMA CountAppend ==
  ASSUME NEW S, NEW s \in Seq(S), NEW e \in S, NEW m
  PROVE  Count(Append(s, e), m) = IF e = m THEN Count(s, m) + 1 ELSE Count(s, m)
<1> DEFINE n == Len(s)
           t == Append(s, e)
           A == {i \in 1..n : s[i] = m}
           B == {i \in 1..Len(t) : t[i] = m}
<1>1. n \in Nat /\ Len(t) = n + 1 /\ t[n + 1] = e /\ \A i \in 1..n : t[i] = s[i]
  OBVIOUS
<1>2. IsFiniteSet(A)
  <2>1. IsFiniteSet(1..n)
    BY <1>1, FS_Interval
  <2>2. QED  BY <2>1, FS_Subset
<1>3. CASE e = m
  <2>1. B = A \union {n + 1} /\ n + 1 \notin A
    BY <1>1, <1>3
  <2>2. Cardinality(B) = Cardinality(A) + 1
    BY <1>2, <2>1, FS_AddElement
  <2>3. QED  BY <1>3, <2>2 DEF Count
<1>4. CASE e # m
  <2>1. B = A
    BY <1>1, <1>4
  <2>2. QED  BY <1>4, <2>1 DEF Count
<1>5. QED  BY <1>3, <1>4

LEMMA StoredType == ASSUME Typed, NEW r \in Runs PROVE Stored(r) \in Nat
BY SessionOfType, CountType DEF Stored, Typed, TypeOK

\* Only a step that the write chain stores adds to it.
LEMMA StoredWrite ==
  ASSUME Typed, NEW r \in Runs, NEW q \in Runs, NEW kind \in Kinds, Write(r, kind)
  PROVE  Stored(q)' = IF q = r /\ kind = "step" THEN Stored(q) + 1 ELSE Stored(q)
<1>1. /\ SessionOf[q] \in Sessions /\ SessionOf[r] \in Sessions
      /\ log[SessionOf[q]] \in Seq(Runs \X Kinds) /\ log[SessionOf[r]] \in Seq(Runs \X Kinds)
  BY SessionOfType DEF Typed, TypeOK, Kinds
<1>2. <<r, kind>> \in Runs \X Kinds
  OBVIOUS
<1>3. CASE SessionOf[q] # SessionOf[r]
  <2>1. log'[SessionOf[q]] = log[SessionOf[q]]
    BY <1>1, <1>3 DEF Write, Typed, TypeOK
  <2>2. QED  BY <1>3, <2>1 DEF Stored
<1>4. CASE SessionOf[q] = SessionOf[r]
  <2>1. log'[SessionOf[q]] = Append(log[SessionOf[q]], <<r, kind>>)
    BY <1>1, <1>4 DEF Write, Typed, TypeOK
  <2>2. Stored(q)' = IF <<r, kind>> = <<q, "step">> THEN Stored(q) + 1 ELSE Stored(q)
    BY <1>1, <1>2, <2>1, CountAppend DEF Stored
  <2>3. QED  BY <2>2
<1>5. QED  BY <1>3, <1>4

LEMMA StoredSame ==
  ASSUME NEW r \in Runs, UNCHANGED log
  PROVE  Stored(r)' = Stored(r)
BY DEF Stored

LEMMA StepsEntry ==
  ASSUME Typed, NEW r \in Runs, StepsInv(r),
         \/ Reject(r) \/ AcquireLock(r) \/ Conflict(r) \/ AcquireFails(r)
         \/ Prepare(r) \/ PrepareRaises(r)
  PROVE  StepsInv(r)'
<1>1. UNCHANGED storeVars
  BY DEF Reject, AcquireLock, Conflict, AcquireFails, Prepare, PrepareRaises
<1>2. Stored(r)' = Stored(r)
  BY <1>1, StoredSame DEF storeVars
<1>3. ASSUME Becomes(r, [run[r] EXCEPT !.pc = "done", !.killed = TRUE])
      PROVE  /\ run'[r].pc = "done" /\ run'[r].applied = run[r].applied
             /\ run'[r].term = run[r].term /\ KeepsSteps(r)
  <2>1. run'[r] = [run[r] EXCEPT !.pc = "done", !.killed = TRUE] /\ run[r] \in Frame
    BY <1>3, NewFrame
  <2>2. QED  BY <2>1 DEF Frame, KeepsSteps
<1> USE <1>1, <1>2 DEF StepsInv, Unrecorded, Underway, Bare, KeepsSteps, StorePcs, storeVars, At
<1>4. CASE Reject(r) \/ Conflict(r)
  BY <1>4, OverFields DEF Reject, Conflict, Finish
<1>5. CASE AcquireLock(r) \/ Prepare(r) \/ PrepareRaises(r)
  BY <1>5, GotoFields DEF AcquireLock, Prepare, PrepareRaises
<1>6. CASE AcquireFails(r)
  BY <1>3, <1>6, OverFields DEF AcquireFails
<1>7. QED  BY <1>4, <1>5, <1>6

LEMMA StepsApplied ==
  ASSUME Typed, NEW r \in Runs, StepsInv(r), CallApplied(r)
  PROVE  StepsInv(r)'
<1>1. /\ run'[r].pc = run[r].pc /\ run'[r].applied /\ run'[r].term = run[r].term
      /\ KeepsSteps(r)
  <2>1. run'[r] = [run[r] EXCEPT !.applied = TRUE] /\ run[r] \in Frame
    BY NewFrame DEF CallApplied
  <2>2. QED  BY <2>1 DEF Frame, KeepsSteps
<1>2. /\ run[r].pc \in StorePcs /\ ~run[r].applied
      /\ run[r].pc = "user" => UNCHANGED stored /\ Write(r, "user")
      /\ run[r].pc = "create" => stored'[r] = "running" /\ UNCHANGED log
      /\ run[r].pc \notin {"user", "create"} =>
           /\ stored'[r] = Status(run[r].term)
           /\ Write(r, "answer") \/ Write(r, "hint") \/ UNCHANGED log
  BY DEF CallApplied, AppendUserMessage, CreateRecord, TerminalWrite, At, Typed, TypeOK
<1>3. Stored(r)' = Stored(r)
  BY <1>2, StoredWrite, StoredSame DEF Kinds
<1>4. QED
  BY <1>1, <1>2, <1>3
  DEF StepsInv, Unrecorded, Underway, Bare, KeepsSteps, StorePcs, Status

LEMMA StepsCall ==
  ASSUME Typed, NEW r \in Runs, StepsInv(r), CallReturns(r) \/ CallRaises(r)
  PROVE  StepsInv(r)'
<1>1. run[r].pc \in StorePcs /\ UNCHANGED storeVars /\ Sound(run[r])
  BY FrameOf DEF Sound, CallReturns, CallRaises
<1>2. Stored(r)' = Stored(r)
  BY <1>1, StoredSame DEF storeVars
<1>3. ASSUME At(r, "create"), CallReturns(r)
      PROVE  /\ run'[r].pc = "yield" /\ ~run'[r].applied /\ run'[r].term = run[r].term
             /\ KeepsSteps(r)
  <2>1. /\ run'[r] = [run[r] EXCEPT !.pc = "yield", !.applied = FALSE, !.created = TRUE]
        /\ run[r] \in Frame
    BY <1>3, NewFrame DEF CallReturns, At
  <2>2. QED  BY <2>1 DEF Frame, KeepsSteps
<1>4. ASSUME CallRaises(r), ~At(r, "persistLost")
      PROVE  /\ run'[r].pc = (IF run[r].pc = "lateCancel" THEN "stop" ELSE "finally")
             /\ ~run'[r].applied /\ run'[r].term = run[r].term /\ KeepsSteps(r)
  <2>1. /\ run'[r] = [run[r] EXCEPT !.pc = IF At(r, "lateCancel") THEN "stop" ELSE "finally",
                      !.applied = FALSE, !.exc = "error", !.failed = TRUE]
        /\ run[r] \in Frame
    BY <1>4, NewFrame DEF CallRaises
  <2>2. QED  BY <2>1 DEF Frame, KeepsSteps, At
<1> USE <1>1, <1>2 DEF StepsInv, Unrecorded, Underway, Bare, KeepsSteps, StorePcs,
                       Sound, storeVars, At
<1>5. CASE CallReturns(r) /\ At(r, "create")
  BY <1>3, <1>5
<1>6. CASE CallReturns(r) /\ At(r, "persistLost")
  BY <1>6, OverFields DEF CallReturns, Finish
<1>7. CASE CallReturns(r) /\ ~At(r, "create") /\ ~At(r, "persistLost")
  <2>1. CASE At(r, "user")
    BY <1>7, <2>1, GotoFields DEF CallReturns
  <2>2. CASE At(r, "persist")
    BY <1>7, <2>2, GotoFields DEF CallReturns
  <2>3. CASE At(r, "persistFailed")
    BY <1>7, <2>3, GotoFields DEF CallReturns
  <2>4. CASE At(r, "lateCancel")
    BY <1>7, <2>4, GotoFields DEF CallReturns
  <2>5. QED  BY <1>7, <2>1, <2>2, <2>3, <2>4
<1>8. CASE CallRaises(r) /\ At(r, "persistLost")
  BY <1>8, OverFields DEF CallRaises
<1>9. CASE CallRaises(r) /\ ~At(r, "persistLost")
  BY <1>4, <1>9
<1>10. QED  BY <1>5, <1>6, <1>7, <1>8, <1>9

LEMMA StepsLoop ==
  ASSUME Typed, NEW r \in Runs, StepsInv(r),
         LoopStep(r) \/ EnqueueRaises(r) \/ LoopEnds(r) \/ ClientReads(r) \/ CloseStream(r)
  PROVE  StepsInv(r)'
<1>1. UNCHANGED storeVars /\ ~run[r].applied /\ Stored(r) \in Nat
  BY FrameOf, StoredType
  DEF LoopStep, EnqueueRaises, LoopEnds, ClientReads, CloseStream, Sound, At, StorePcs
<1>2. Stored(r)' = Stored(r)
  BY <1>1, StoredSame DEF storeVars
<1>3. ASSUME LoopStep(r)
      PROVE  /\ run'[r].pc \in {"loop", "yield"} /\ run'[r].applied = run[r].applied
             /\ run'[r].term = run[r].term /\ run'[r].bufErr = run[r].bufErr
             /\ run'[r].steps = run[r].steps + 1 /\ run'[r].queue = run[r].queue + 1
  <2>1. PICK next \in {"loop", "yield"} :
          Becomes(r, [run[r] EXCEPT !.pc = next, !.steps = @ + 1, !.queue = @ + 1])
    BY <1>3 DEF LoopStep
  <2>2. /\ run'[r] = [run[r] EXCEPT !.pc = next, !.steps = @ + 1, !.queue = @ + 1]
        /\ run[r] \in Frame
    BY <2>1, NewFrame
  <2>3. QED  BY <2>2 DEF Frame
<1>4. ASSUME ClientReads(r)
      PROVE  /\ run'[r].pc = "loop" /\ run'[r].applied = run[r].applied
             /\ run'[r].term = run[r].term /\ KeepsSteps(r)
  <2>1. run'[r] = [run[r] EXCEPT !.pc = "loop"] /\ run[r] \in Frame
    BY <1>4, NewFrame DEF ClientReads
  <2>2. QED  BY <2>1 DEF Frame, KeepsSteps
<1>5. ASSUME CloseStream(r)
      PROVE  /\ run'[r].pc = "finally" /\ run'[r].applied = run[r].applied
             /\ run'[r].term = run[r].term /\ KeepsSteps(r)
  <2>1. /\ run'[r] = [run[r] EXCEPT !.pc = "finally", !.exc = "closed", !.closing = TRUE,
                                    !.cancelReq = FALSE, !.asked = @ \/ run[r].gone]
        /\ run[r] \in Frame
    BY <1>5, NewFrame DEF CloseStream
  <2>2. QED  BY <2>1 DEF Frame, KeepsSteps
<1>6. run[r].steps \in Nat /\ run[r].queue \in Nat
  BY FrameOf, Fields
<1> USE <1>1, <1>2, <1>6 DEF StepsInv, Unrecorded, Underway, Bare, KeepsSteps, StorePcs,
                       storeVars, At
<1>7. CASE LoopStep(r)
  <2>1. /\ Stored(r) + run[r].queue = run[r].steps /\ ~run[r].bufErr
        /\ stored[r] # "completed" /\ stored'[r] = stored[r]
    BY <1>7 DEF LoopStep
  <2>2. Stored(r)' + run'[r].queue = run'[r].steps
    BY <1>3, <1>7, <2>1
  <2>3. QED  BY <1>3, <1>7, <2>1, <2>2
<1>8. CASE EnqueueRaises(r) \/ LoopEnds(r)
  BY <1>8, StartFlushFields DEF EnqueueRaises, LoopEnds
<1>9. CASE ClientReads(r)
  BY <1>4, <1>9 DEF ClientReads
<1>10. CASE CloseStream(r)
  BY <1>5, <1>10 DEF CloseStream
<1>11. QED  BY <1>7, <1>8, <1>9, <1>10

LEMMA StepsChain ==
  ASSUME Typed, NEW r \in Runs, StepsInv(r), ChainStep(r)
  PROVE  StepsInv(r)'
<1>1. /\ run[r].queue \in Nat /\ run[r].queue > 0 /\ Stored(r) \in Nat
      /\ UNCHANGED stored
  BY FrameOf, Fields, StoredType DEF ChainStep, ChainWrites, ChainFails
<1>2. run[r] \in Frame /\ \A f : Becomes(r, f) => run'[r] = f
  BY NewFrame DEF Typed, TypeOK
<1>3. ASSUME ChainWrites(r)
      PROVE  /\ run'[r].pc = run[r].pc /\ run'[r].applied = run[r].applied
             /\ run'[r].term = run[r].term /\ run'[r].steps = run[r].steps
             /\ run'[r].queue = run[r].queue - 1 /\ run'[r].bufErr = run[r].bufErr
  <2>1. run'[r] = [run[r] EXCEPT !.queue = @ - 1]
    BY <1>2, <1>3 DEF ChainWrites
  <2>2. QED  BY <1>2, <2>1 DEF Frame
<1>4. ASSUME ChainFails(r)
      PROVE  /\ run'[r].pc = run[r].pc /\ run'[r].applied = run[r].applied
             /\ run'[r].term = run[r].term /\ run'[r].steps = run[r].steps
             /\ run'[r].queue = 0 /\ run'[r].bufErr
  <2>1. run'[r] = [run[r] EXCEPT !.queue = 0, !.bufErr = TRUE, !.failed = TRUE]
    BY <1>2, <1>4 DEF ChainFails
  <2>2. QED  BY <1>2, <2>1 DEF Frame
<1>5. CASE ChainWrites(r)
  <2>1. Stored(r)' = Stored(r) + 1
    BY <1>5, StoredWrite DEF ChainWrites, Kinds
  <2>2. QED
    BY <1>1, <1>3, <1>5, <2>1 DEF StepsInv, Unrecorded, Underway, Bare, StorePcs
<1>6. CASE ChainFails(r)
  BY <1>1, <1>4, <1>6 DEF StepsInv, Unrecorded, Underway, Bare, StorePcs
<1>7. QED  BY <1>5, <1>6 DEF ChainStep

LEMMA StepsFlushed ==
  ASSUME Typed, NEW r \in Runs, StepsInv(r),
         FlushReturns(r) \/ FlushRaises(r) \/ LateFlushReturns(r) \/ LateFlushRaises(r)
  PROVE  StepsInv(r)'
<1>1. UNCHANGED storeVars /\ Stored(r) \in Nat /\ ~run[r].applied
  BY FrameOf, StoredType
  DEF FlushReturns, FlushRaises, LateFlushReturns, LateFlushRaises, Sound, At, StorePcs
<1>2. Stored(r)' = Stored(r)
  BY <1>1, StoredSame DEF storeVars
<1>3. run[r] \in Frame /\ \A f : Becomes(r, f) => run'[r] = f
  BY NewFrame DEF Typed, TypeOK
<1>4. ASSUME LateFlushReturns(r)
      PROVE  /\ run'[r].pc = "lateCancel" /\ run'[r].applied = run[r].applied
             /\ run'[r].term = "cancelled" /\ KeepsSteps(r)
  <2>1. run'[r] = [run[r] EXCEPT !.pc = "lateCancel", !.term = "cancelled"]
    BY <1>3, <1>4 DEF LateFlushReturns
  <2>2. QED  BY <1>3, <2>1 DEF Frame, KeepsSteps
<1>5. ASSUME FlushRaises(r)
      PROVE  /\ run'[r].pc = "persistFailed" /\ run'[r].applied = run[r].applied
             /\ run'[r].term = "failed" /\ KeepsSteps(r)
  <2>1. run'[r] = [run[r] EXCEPT !.pc = "persistFailed", !.exc = "error", !.term = "failed"]
    BY <1>3, <1>5 DEF FlushRaises
  <2>2. QED  BY <1>3, <2>1 DEF Frame, KeepsSteps
<1> USE <1>1, <1>2 DEF StepsInv, Unrecorded, Underway, Bare, KeepsSteps, StorePcs,
                       storeVars, At
<1>6. CASE FlushReturns(r) /\ run[r].exc = "cancelled"
  BY <1>6, GotoFields DEF FlushReturns
<1>7. CASE FlushReturns(r) /\ run[r].exc # "cancelled"
  <2>1. /\ run'[r].pc = "persist" /\ run'[r].applied = run[r].applied /\ KeepsSteps(r)
    <3>1. run'[r] = [run[r] EXCEPT !.pc = "persist", !.term = run[r].loopTerm]
      BY <1>3, <1>7 DEF FlushReturns
    <3>2. QED  BY <1>3, <3>1 DEF Frame
  <2>2. QED  BY <1>7, <2>1 DEF FlushReturns, Flushed
<1>8. CASE FlushRaises(r)
  BY <1>5, <1>8 DEF FlushRaises
<1>9. CASE LateFlushReturns(r)
  BY <1>4, <1>9 DEF LateFlushReturns
<1>10. CASE LateFlushRaises(r)
  BY <1>10, GotoFields DEF LateFlushRaises
<1>11. QED  BY <1>6, <1>7, <1>8, <1>9, <1>10

LEMMA StepsCancelled ==
  ASSUME Typed, NEW r \in Runs, StepsInv(r), CancelDelivered(r)
  PROVE  StepsInv(r)'
<1>1. UNCHANGED storeVars
  BY DEF CancelDelivered
<1>2. Stored(r)' = Stored(r) /\ Stored(r) \in Nat
  BY <1>1, StoredSame, StoredType DEF storeVars
<1>3. run[r] \in Frame /\ (\A f : Becomes(r, f) => run'[r] = f) /\ Sound(run[r])
  BY NewFrame, FrameOf DEF Typed, TypeOK
<1>4. ASSUME CancelBody(r) \/ CancelFinally(r)
      PROVE  /\ run'[r].pc = IF CancelBody(r) THEN "finally" ELSE "stop"
             /\ ~run'[r].applied /\ run'[r].term = run[r].term /\ KeepsSteps(r)
  <2>1. CASE CancelBody(r)
    <3>1. run'[r] = [run[r] EXCEPT !.pc = "finally", !.exc = "cancelled",
                                   !.applied = FALSE, !.cancelReq = FALSE]
      BY <1>3, <2>1 DEF CancelBody
    <3>2. QED  BY <1>3, <2>1, <3>1 DEF Frame, KeepsSteps
  <2>2. CASE ~CancelBody(r)
    <3>1. run'[r] = [run[r] EXCEPT !.pc = "stop", !.exc = "cancelled",
                                   !.applied = FALSE, !.cancelReq = FALSE]
      BY <1>3, <1>4, <2>2 DEF CancelFinally
    <3>2. QED  BY <1>3, <2>2, <3>1 DEF Frame, KeepsSteps
  <2>3. QED  BY <2>1, <2>2
<1>5. ASSUME CancelFlush(r)
      PROVE  /\ run'[r].pc = (IF run[r].pc = "flush" THEN "finally" ELSE "stop")
             /\ run'[r].applied = run[r].applied /\ run'[r].term = run[r].term
             /\ run'[r].steps = run[r].steps /\ run'[r].queue = 0
  <2>1. run'[r] = [run[r] EXCEPT !.pc = IF At(r, "flush") THEN "finally" ELSE "stop",
                                !.exc = "cancelled", !.cancelReq = FALSE, !.queue = 0]
    BY <1>3, <1>5 DEF CancelFlush
  <2>2. QED  BY <1>3, <2>1 DEF Frame, At
<1>6. ASSUME CancelCleanup(r)
      PROVE  /\ run'[r].pc = run[r].pc /\ run'[r].applied = run[r].applied
             /\ run'[r].term = run[r].term /\ KeepsSteps(r)
  <2>1. run'[r] = [run[r] EXCEPT !.cleanCut = TRUE, !.cancelReq = FALSE]
    BY <1>3, <1>6 DEF CancelCleanup
  <2>2. QED  BY <1>3, <2>1 DEF Frame, KeepsSteps
<1> USE <1>1, <1>2, <1>3 DEF StepsInv, Unrecorded, Underway, Bare, KeepsSteps, StorePcs,
                       Sound, storeVars, At
<1>7. CASE CancelBody(r)
  BY <1>4, <1>7 DEF CancelBody
<1>8. CASE CancelLoop(r)
  BY <1>8, StartFlushFields DEF CancelLoop
<1>9. CASE CancelFlush(r)
  BY <1>5, <1>9 DEF CancelFlush
<1>10. CASE CancelFinally(r) /\ ~CancelBody(r)
  BY <1>4, <1>10 DEF CancelFinally
<1>11. CASE CancelCleanup(r)
  BY <1>6, <1>11 DEF CancelCleanup
<1>12. CASE CancelLost(r)
  BY <1>12, OverFields DEF CancelLost
<1>13. QED  BY <1>7, <1>8, <1>9, <1>10, <1>11, <1>12 DEF CancelDelivered

LEMMA StepsWayOut ==
  ASSUME Typed, NEW r \in Runs, StepsInv(r),
         EnterFinally(r) \/ WindowOver(r) \/ HeartbeatStops(r) \/ LockReleased(r) \/ Exit(r)
  PROVE  StepsInv(r)'
<1>1. UNCHANGED storeVars /\ Stored(r) \in Nat
  BY StoredType DEF EnterFinally, WindowOver, HeartbeatStops, LockReleased, Exit
<1>2. Stored(r)' = Stored(r)
  BY <1>1, StoredSame DEF storeVars
<1>3. run[r] \in Frame /\ \A f : Becomes(r, f) => run'[r] = f
  BY NewFrame DEF Typed, TypeOK
<1>4. ASSUME Becomes(r, [run[r] EXCEPT !.pc = "persistLost", !.term = "failed"])
      PROVE  /\ run'[r].pc = "persistLost" /\ run'[r].applied = run[r].applied
             /\ run'[r].term = "failed" /\ KeepsSteps(r)
  <2>1. run'[r] = [run[r] EXCEPT !.pc = "persistLost", !.term = "failed"]
    BY <1>3, <1>4
  <2>2. QED  BY <1>3, <2>1 DEF Frame, KeepsSteps
<1>5. ASSUME Becomes(r, [run[r] EXCEPT !.pc = "exit", !.failed = TRUE])
      PROVE  /\ run'[r].pc = "exit" /\ run'[r].applied = run[r].applied
             /\ run'[r].term = run[r].term /\ KeepsSteps(r)
  <2>1. run'[r] = [run[r] EXCEPT !.pc = "exit", !.failed = TRUE]
    BY <1>3, <1>5
  <2>2. QED  BY <1>3, <2>1 DEF Frame, KeepsSteps
<1>6. CASE Exit(r)
  <2>1. CASE \E event \in Events : Finish(r, event)
    BY <1>1, <1>2, <2>1, OverFields
    DEF Finish, StepsInv, Unrecorded, Underway, Bare, StorePcs, storeVars
  <2>2. CASE Becomes(r, [run[r] EXCEPT !.pc = "persistLost", !.term = "failed"])
    BY <1>1, <1>2, <1>4, <2>2
    DEF StepsInv, Unrecorded, Underway, Bare, KeepsSteps, StorePcs, storeVars
  <2>3. QED  BY <1>6, <2>1, <2>2, ExitForms
<1> USE <1>1, <1>2 DEF StepsInv, Unrecorded, Underway, Bare, KeepsSteps, StorePcs,
                       storeVars, At
<1>7. CASE EnterFinally(r)
  BY <1>7, GotoFields DEF EnterFinally, StartLateFlush
<1>8. CASE WindowOver(r)
  BY <1>8, GotoFields DEF WindowOver, StartLateFlush
<1>9. CASE HeartbeatStops(r)
  BY <1>9, GotoFields DEF HeartbeatStops
<1>10. CASE LockReleased(r)
  BY <1>5, <1>10, GotoFields DEF LockReleased
<1>11. QED  BY <1>6, <1>7, <1>8, <1>9, <1>10

LEMMA StepsAsked ==
  ASSUME Typed, NEW r \in Runs, StepsInv(r),
         CancelRun(r) \/ Disconnect(r) \/ MonitorSees(r) \/ BeatFails(r) \/ TaskCancelled(r)
  PROVE  StepsInv(r)'
<1>1. UNCHANGED storeVars
  BY DEF CancelRun, Disconnect, MonitorSees, BeatFails, TaskCancelled
<1>2. Stored(r)' = Stored(r)
  BY <1>1, StoredSame DEF storeVars
<1>3. /\ run'[r].pc = run[r].pc /\ run'[r].applied = run[r].applied
      /\ run'[r].term = run[r].term /\ KeepsSteps(r)
  <2>1. \/ run'[r] = [run[r] EXCEPT !.asked = TRUE]
        \/ run'[r] = [run[r] EXCEPT !.gone = TRUE]
        \/ run'[r] = [run[r] EXCEPT !.beatLost = TRUE, !.cancelReq = ~run[r].closing]
        \/ run'[r] = [run[r] EXCEPT !.killed = TRUE, !.cancelReq = TRUE]
    BY NewFrame DEF CancelRun, Disconnect, MonitorSees, BeatFails, TaskCancelled
  <2>2. run[r] \in Frame
    BY DEF Typed, TypeOK
  <2>3. QED  BY <2>1, <2>2 DEF Frame, KeepsSteps
<1>4. QED
  BY <1>1, <1>2, <1>3
  DEF StepsInv, Unrecorded, Underway, Bare, KeepsSteps, StorePcs, storeVars

LEMMA StepsOther ==
  ASSUME Typed, NEW r \in Runs, RunMove(r), NEW q \in Runs \ {r}, StepsInv(q)
  PROVE  StepsInv(q)'
<1>1. run'[q] = run[q] /\ stored'[q] = stored[q]
  BY Others
<1>2. Stored(q)' = Stored(q)
  <2>1. UNCHANGED log \/ \E kind \in Kinds : Write(r, kind)
    BY Others
  <2>2. QED  BY <2>1, StoredSame, StoredWrite
<1>3. QED  BY <1>1, <1>2 DEF StepsInv, Unrecorded, Underway, Bare

LEMMA InitSteps == Init => \A r \in Runs : StepsInv(r)
<1>1. SUFFICES ASSUME Init, NEW r \in Runs PROVE StepsInv(r)
  OBVIOUS
<1>2. run[r] = Fresh /\ stored[r] = "absent" /\ log[SessionOf[r]] = <<>>
  BY <1>1, SessionOfType DEF Init
<1>3. Stored(r) = 0
  <2>1. {i \in 1..Len(<<>>) : <<>>[i] = <<r, "step">>} = {}
    OBVIOUS
  <2>2. QED  BY <1>2, <2>1, FS_EmptySet DEF Stored, Count
<1>4. /\ Fresh.pc = "idle" /\ ~Fresh.applied /\ Fresh.term = "none" /\ Fresh.steps = 0
      /\ Fresh.queue = 0 /\ ~Fresh.bufErr
  BY DEF Fresh
<1>5. QED  BY <1>2, <1>3, <1>4 DEF StepsInv, Unrecorded, Underway, Bare, StorePcs

LEMMA NextSteps ==
  ASSUME Typed, \A r \in Runs : StepsInv(r), [Next]_vars
  PROVE  (\A r \in Runs : StepsInv(r))'
<1>1. SUFFICES ASSUME NEW q \in Runs PROVE StepsInv(q)'
  OBVIOUS
<1>2. CASE UNCHANGED <<run, storeVars>>
  BY <1>2, StoredSame DEF StepsInv, Unrecorded, Underway, Bare, storeVars
<1>3. CASE \E r \in Runs : RunMove(r)
  <2>1. PICK r \in Runs : RunMove(r)
    BY <1>3
  <2>2. CASE q # r
    BY <2>1, <2>2, StepsOther
  <2>3. CASE q = r
    BY <2>1, <2>3, StepsEntry, StepsApplied, StepsCall, StepsLoop, StepsChain, StepsFlushed,
       StepsCancelled, StepsWayOut, StepsAsked
    DEF RunMove, RunStep
  <2>4. QED  BY <2>2, <2>3
<1>4. CASE UNCHANGED vars \/ LockLapses \/ \E s \in Sessions : LeftLockLapses(s)
  BY <1>2, <1>4 DEF vars, storeVars, LockLapses, LeftLockLapses
<1>5. QED  BY <1>3, <1>4 DEF Next, RunMove

-----------------------------------------------------------------------------
(* What follows. *)

LEMMA SteadyInvariant == ASSUME Steady PROVE Spec => []IInv
<1>1. Init => IInv
  BY InitTyped, InitSteady DEF IInv
<1>2. IInv /\ [Next]_vars => IInv'
  BY NextTyped, NextSteady DEF IInv
<1>3. QED  BY <1>1, <1>2, PTL DEF Spec

\* A created run that is over has left a terminal status, whoever cancelled it
\* on request and however its client left: only a store call that raised or the
\* server's cancel of its task can prevent it.
THEOREM RunsEndTerminal == ASSUME Steady PROVE Spec => []DoneIsTerminal
<1>1. IInv => DoneIsTerminal
  BY DEF IInv, SteadyInv, RecordInv, DoneIsTerminal, Done, At
<1>2. QED  BY <1>1, SteadyInvariant, PTL

\* The event that closes a stream is backed by the record, and the lock of its
\* run is free.
THEOREM EventsAreSettled == ASSUME Steady PROVE Spec => []EmittedIsSettled
<1>1. IInv => EmittedIsSettled
  BY DEF IInv, SteadyInv, HoldInv, EmitInv, EmittedIsSettled, Done, At, Terminal
<1>2. QED  BY <1>1, SteadyInvariant, PTL

\* A terminal write finds a record that says running, or none.
LEMMA FinalWrite ==
  ASSUME IInv, NEW r \in Runs, stored[r] \in Terminal, CallApplied(r)
  PROVE  stored'[r] = stored[r]
<1>1. run[r].pc \in StorePcs \ {"persistLost"} /\ ~run[r].applied
  BY DEF CallApplied, IInv, SteadyInv, HoldInv
<1>2. stored[r] \notin {"absent", "running"}
  BY DEF Terminal
<1>3. run[r].pc = "user"
  BY <1>1, <1>2 DEF IInv, SteadyInv, RecordInv, Unrecorded, Underway, Bare, StorePcs
<1>4. QED  BY <1>3 DEF CallApplied, AppendUserMessage, At

\* No step rewrites a terminal record: the late persist behind the finally
\* never overtakes the one inside it.
THEOREM RecordsAreFinal == ASSUME Steady PROVE Spec => TerminalIsFinal
<1>1. ASSUME IInv, [Next]_vars PROVE RecordIsFinal
  <2>1. SUFFICES ASSUME NEW r \in Runs, stored[r] \in Terminal PROVE stored'[r] = stored[r]
    BY DEF RecordIsFinal
  <2>2. CASE UNCHANGED vars \/ LockLapses \/ \E s \in Sessions : LeftLockLapses(s)
    BY <2>2 DEF vars, storeVars, LockLapses, LeftLockLapses
  <2>3. CASE \E q \in Runs : RunMove(q)
    <3>1. PICK q \in Runs : RunMove(q)
      BY <2>3
    <3>2. CASE q # r
      BY <1>1, <3>1, <3>2, Others DEF IInv
    <3>3. CASE q = r /\ CallApplied(r)
      BY <1>1, <2>1, <3>3, FinalWrite
    <3>4. CASE q = r /\ ~CallApplied(r)
      BY <3>1, <3>4
      DEF RunMove, RunStep, Reject, AcquireLock, Conflict, AcquireFails, Prepare, PrepareRaises,
          CallReturns, CallRaises, LoopStep, EnqueueRaises, LoopEnds, ClientReads, CloseStream, FlushReturns,
          FlushRaises, CancelDelivered, EnterFinally, WindowOver, LateFlushReturns,
          LateFlushRaises, HeartbeatStops, LockReleased, Exit, CancelRun, Disconnect,
          MonitorSees, BeatFails, TaskCancelled, ChainStep, ChainWrites, ChainFails, storeVars
    <3>5. QED  BY <3>2, <3>3, <3>4
  <2>4. QED  BY <1>1, <2>2, <2>3 DEF Next, RunMove
<1>2. QED  BY <1>1, SteadyInvariant, PTL DEF Spec, TerminalIsFinal

\* Who writes: the run itself, inside its lock scope, or the write chain of one
\* that the server has cut.
LEMMA Writer ==
  ASSUME IInv, [Next]_vars, log' # log
  PROVE  \E r \in Runs, kind \in Kinds :
           /\ RunMove(r) /\ Write(r, kind)
           /\ \/ /\ run[r].pc \in InsidePcs
                 /\ (Unseen(r) /\ kind \in {"user", "hint"}) \/ (Open(r) /\ kind # "user")
              \/ run[r].killed /\ kind = "step"
<1>1. PICK r \in Runs : RunMove(r)
  BY DEF Next, RunMove, vars, storeVars, LockLapses, LeftLockLapses
<1>2. Typed /\ OwnInv(r) /\ LogInv(r)
  BY DEF IInv, SteadyInv, OwnInv
<1>3. QED  BY <1>1, <1>2, WriteWhen DEF Kinds

\* Only the holder of the session's lock writes to its history, the write
\* chain, the terminal writes and the late hint included; the exception is what
\* was queued when the server cut a run, whose close does not wait for it.
THEOREM WritersHoldTheLock == ASSUME Steady PROVE Spec => WritesUnderLease
<1>1. ASSUME IInv, [Next]_vars PROVE WritesAreLeased
  <2>1. SUFFICES ASSUME NEW s \in Sessions, log'[s] # log[s]
                 PROVE  LET m == log'[s][Len(log'[s])] IN holder[s] = m[1] \/ Stray(m)
    BY DEF WritesAreLeased
  <2>2. PICK r \in Runs, kind \in Kinds :
          /\ Write(r, kind)
          /\ run[r].pc \in InsidePcs \/ (run[r].killed /\ kind = "step")
    BY <1>1, <2>1, Writer
  <2>3. /\ s = SessionOf[r] /\ Len(log[s]) \in Nat /\ Len(log'[s]) = Len(log[s]) + 1
        /\ log'[s][Len(log[s]) + 1] = <<r, kind>>
    BY <1>1, <2>1, <2>2, Wrote DEF IInv
  <2>4. holder[s] = r \/ Stray(<<r, kind>>)
    BY <1>1, <2>2, <2>3 DEF IInv, SteadyInv, HoldInv, Stray
  <2>5. QED  BY <2>3, <2>4
<1>2. QED  BY <1>1, SteadyInvariant, PTL DEF Spec, WritesUnderLease

-----------------------------------------------------------------------------
(* The history is serial. *)

SerialAt(s, i) ==
  ~Stray(log[s][i]) =>
    LET r == log[s][i][1]
        kind == log[s][i][2]
        own == {j \in 1..(i - 1) : log[s][j][1] = r}
    IN /\ own = {} => kind \in {"user", "hint"}
       /\ \A j \in own : /\ kind # "user" /\ log[s][j][2] \in {"user", "step"}
                         /\ \A k \in j..(i - 1) : k \in own \/ Stray(log[s][k])

LEMMA KillsStayKilled ==
  ASSUME Typed, [Next]_vars
  PROVE  KillsStay
<1>1. CASE \E r \in Runs : RunMove(r)
  BY <1>1, EveryKill
<1>2. CASE UNCHANGED run
  BY <1>2 DEF KillsStay
<1>3. QED  BY <1>1, <1>2 DEF Next, RunMove, vars, LockLapses, LeftLockLapses

\* What a message says of those before it does not change.
LEMMA SerialBefore ==
  ASSUME Typed, KillsStay, NEW s \in Sessions, NEW i \in 1..Len(log[s]), SerialAt(s, i),
         \A j \in 1..Len(log[s]) : log'[s][j] = log[s][j]
  PROVE  SerialAt(s, i)'
<1> DEFINE r == log[s][i][1]
           own == {j \in 1..(i - 1) : log[s][j][1] = r}
<1>1. log[s] \in Seq(Runs \X Kinds) /\ Len(log[s]) \in Nat
  BY DEF Typed, TypeOK, Kinds
<1>2. i \in Nat /\ 1..(i - 1) \subseteq 1..Len(log[s])
  BY <1>1
<1>3. log'[s][i] = log[s][i] /\ \A j \in 1..(i - 1) : log'[s][j] = log[s][j]
  BY <1>2
<1>4. ASSUME NEW k \in 1..Len(log[s]), Stray(log[s][k]) PROVE Stray(log[s][k])'
  <2>1. log[s][k][1] \in Runs
    BY <1>1
  <2>2. QED  BY <1>4, <2>1 DEF Stray, KillsStay
<1>5. own' = own
  BY <1>3
<1>6. SUFFICES ASSUME ~Stray(log[s][i])'
               PROVE  /\ own = {} => log[s][i][2] \in {"user", "hint"}
                      /\ \A j \in own :
                           /\ log[s][i][2] # "user" /\ log[s][j][2] \in {"user", "step"}
                           /\ \A k \in j..(i - 1) : k \in own \/ Stray(log[s][k])'
  <2>1. own' = {j \in 1..(i - 1) : log'[s][j][1] = log'[s][i][1]}
    OBVIOUS
  <2> HIDE DEF own
  <2>2. \A j \in own : log'[s][j] = log[s][j]
    BY <1>3 DEF own
  <2>3. QED  BY <1>3, <1>5, <1>6, <2>1, <2>2 DEF SerialAt
<1>7. ~Stray(log[s][i])
  BY <1>4, <1>6
<1>8. /\ own = {} => log[s][i][2] \in {"user", "hint"}
      /\ \A j \in own : /\ log[s][i][2] # "user" /\ log[s][j][2] \in {"user", "step"}
                        /\ \A k \in j..(i - 1) : k \in own \/ Stray(log[s][k])
  BY <1>7 DEF SerialAt
<1>9. \A j \in own : j..(i - 1) \subseteq 1..Len(log[s])
  BY <1>2
<1>10. QED  BY <1>4, <1>8, <1>9

LEMMA SerialStep ==
  ASSUME IInv, LogSerial, [Next]_vars
  PROVE  LogSerial'
<1>1. Typed /\ KillsStay /\ \A s \in Sessions : \A i \in 1..Len(log[s]) : SerialAt(s, i)
  BY KillsStayKilled DEF IInv, LogSerial, SerialAt
<1>2. SUFFICES \A s \in Sessions : \A i \in 1..Len(log'[s]) : SerialAt(s, i)'
  BY DEF LogSerial, SerialAt
<1>3. CASE log' = log
  BY <1>1, <1>3, SerialBefore
<1>4. CASE log' # log
  <2>1. PICK r \in Runs, kind \in Kinds :
           /\ RunMove(r) /\ Write(r, kind)
           /\ \/ /\ run[r].pc \in InsidePcs
                 /\ (Unseen(r) /\ kind \in {"user", "hint"}) \/ (Open(r) /\ kind # "user")
              \/ run[r].killed /\ kind = "step"
    BY <1>4, Writer
  <2>2. TAKE s \in Sessions
  <2>3. TAKE i \in 1..Len(log'[s])
  <2>4. Len(log[s]) \in Nat /\ log[s] \in Seq(Runs \X Kinds)
    BY <1>1 DEF Typed, TypeOK, Kinds
  <2>5. \A j \in 1..Len(log[s]) : log'[s][j] = log[s][j]
    BY <1>1, <2>1, Wrote
  <2>6. CASE i \in 1..Len(log[s])
    BY <1>1, <2>5, <2>6, SerialBefore
  <2>7. CASE i \notin 1..Len(log[s])
    <3>1. s = SessionOf[r]
      BY <1>1, <2>1, <2>3, <2>7, Wrote
    <3>2. i = Len(log[s]) + 1 /\ log'[s][i] = <<r, kind>>
      <4>1. Len(log'[s]) = Len(log[s]) + 1 /\ log'[s][Len(log[s]) + 1] = <<r, kind>>
        BY <1>1, <2>1, <3>1, Wrote
      <4>2. i = Len(log[s]) + 1
        BY <2>3, <2>4, <2>7, <4>1
      <4>3. QED  BY <4>1, <4>2
    <3> DEFINE own == {j \in 1..(i - 1) : log'[s][j][1] = r}
    <3>3. i - 1 = Len(log[s]) /\ own = {j \in 1..Len(log[s]) : log[s][j][1] = r}
      BY <2>4, <2>5, <3>2
    <3>4. SUFFICES ASSUME ~Stray(<<r, kind>>)'
                   PROVE  /\ own = {} => kind \in {"user", "hint"}
                          /\ \A j \in own :
                               /\ kind # "user" /\ log'[s][j][2] \in {"user", "step"}
                               /\ \A k \in j..(i - 1) : k \in own \/ Stray(log[s][k])'
      BY <3>2 DEF SerialAt
    <3>5. ~(run[r].killed /\ kind = "step")
      BY <1>1, <3>4 DEF Stray, KillsStay
    <3>6. CASE Unseen(r) /\ kind \in {"user", "hint"}
      <4>1. own = {}
        BY <3>1, <3>3, <3>6 DEF Unseen, Log
      <4>2. QED  BY <3>6, <4>1
    <3>7. CASE Open(r) /\ kind # "user"
      <4>1. own # {}
        BY <3>1, <3>3, <3>7 DEF Open, Unseen, Log
      <4>2. ASSUME NEW j \in own
            PROVE  /\ log[s][j][2] \in {"user", "step"} /\ j \in 1..Len(log[s])
                   /\ \A k \in j..Len(log[s]) : log[s][k][1] = r \/ Stray(log[s][k])
        BY <3>1, <3>3, <3>7, <4>2 DEF Open, Log
      <4>3. ASSUME NEW k \in 1..Len(log[s]), Stray(log[s][k]) PROVE Stray(log[s][k])'
        <5>1. log[s][k][1] \in Runs /\ log'[s][k] = log[s][k]
          BY <2>4, <2>5
        <5>2. QED  BY <1>1, <4>3, <5>1 DEF Stray, KillsStay
      <4>4. ASSUME NEW j \in own, NEW k \in j..(i - 1) PROVE k \in own \/ Stray(log[s][k])'
        <5>1. k \in j..Len(log[s]) /\ k \in 1..Len(log[s])
          BY <2>4, <3>3, <4>2, <4>4
        <5>2. QED  BY <3>3, <4>2, <4>3, <4>4, <5>1
      <4>5. ASSUME NEW j \in own PROVE log'[s][j][2] \in {"user", "step"}
        BY <2>5, <4>2, <4>5
      <4>6. QED  BY <3>7, <4>1, <4>4, <4>5
    <3>8. QED  BY <2>1, <3>5, <3>6, <3>7
  <2>8. QED  BY <2>6, <2>7
<1>5. QED  BY <1>3, <1>4

\* The messages of a run stand together in the history, whatever else runs, but
\* for those that the server's cancel of its task has left to the write chain.
THEOREM HistoryIsSerial == ASSUME Steady PROVE Spec => []LogSerial
<1>1. Init => LogSerial
  <2>1. SUFFICES ASSUME Init, NEW s \in Sessions PROVE Len(log[s]) = 0
    BY DEF LogSerial
  <2>2. QED  BY <2>1 DEF Init
<1>2. IInv /\ LogSerial /\ [Next]_vars => LogSerial'
  BY SerialStep
<1>3. QED  BY <1>1, <1>2, SteadyInvariant, PTL DEF Spec

\* No fault, no lost lock and no cancellation makes a run completed whose
\* history lacks a message of its loop.
THEOREM CompletedAreWhole == Spec => []CompletedHasAllSteps
<1>1. Init => WholeInv
  BY InitTyped, InitSteps DEF WholeInv
<1>2. WholeInv /\ [Next]_vars => WholeInv'
  BY NextTyped, NextSteps DEF WholeInv
<1>3. WholeInv => CompletedHasAllSteps
  BY DEF WholeInv, StepsInv, Stored, CompletedHasAllSteps
<1>4. QED  BY <1>1, <1>2, <1>3, PTL DEF Spec
=============================================================================
