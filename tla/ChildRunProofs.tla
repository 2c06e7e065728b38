--------------------------- MODULE ChildRunProofs ---------------------------
(***************************************************************************)
(* What is proved of ChildRun for every set of calls and types, every      *)
(* number of steps and every number of store calls that raise.             *)
(***************************************************************************)
EXTENDS ChildRun, SequenceTheorems, FiniteSetTheorems, TLAPS

-----------------------------------------------------------------------------
(* Types.                                                                   *)

Results == {"none", "ok", "error", "stopped"}

Kinds == {"user", "step", "answer", "hint"}

Frames == [pc : Pcs, child : Children, type : Types \union {""}, resume : BOOLEAN,
           steps : 0..MaxSteps, result : Results]

Entries == [by : Calls \union {NoCall}, kind : Kinds, type : Types \union {""}]

Typed ==
  /\ call \in [Calls -> Frames] /\ \A c \in Calls : Child(c) \in {c, Old}
  /\ holder \in [Children -> Calls \union {NoCall}]
  /\ record \in [Calls -> [status : Statuses, output : BOOLEAN]]
  /\ context \in [Children -> Seq(Entries)]
  /\ summary \in [Children -> Types \union {""}]
  /\ seen \in [Calls -> SUBSET Mishaps]
  /\ killed \subseteq Calls /\ faults \in 0..MaxFaults

\* Where a call has the lock of its child.
Locked == Pcs \ {"idle", "lock", "done"}

LEMMA InitTyped == Init => Typed
<1> SUFFICES ASSUME Init PROVE Typed
  OBVIOUS
<1>1. Frame \in Frames /\ Frame.child = Old
  <2>1. MaxSteps \in Nat /\ 0 \in 0..MaxSteps
    BY BoundsAssumption
  <2>2. QED  BY <2>1 DEF Frame, Frames, Pcs, Children, Results
<1>2. NoRecord \in [status : Statuses, output : BOOLEAN]
  BY DEF NoRecord, Statuses
<1>3. /\ <<>> \in Seq(Entries)
      /\ <<[by |-> NoCall, kind |-> "user", type |-> OldType]>> \in Seq(Entries)
  <2> DEFINE e == [by |-> NoCall, kind |-> "user", type |-> OldType]
  <2>1. e \in Entries
    BY OldAssumption DEF Entries, Kinds
  <2> HIDE DEF e
  <2>2. <<>> \in Seq(Entries) /\ <<e>> \in Seq(Entries)
    BY <2>1
  <2>3. QED  BY <2>2 DEF e
<1>4. /\ call = [c \in Calls |-> Frame] /\ holder = [d \in Children |-> NoCall]
      /\ record = [c \in Calls |-> NoRecord]
      /\ context = [d \in Children |->
           IF d = Old THEN <<[by |-> NoCall, kind |-> "user", type |-> OldType]>> ELSE <<>>]
      /\ summary = [d \in Children |-> IF d = Old THEN OldType ELSE ""]
      /\ killed = {} /\ faults = 0 /\ seen = [c \in Calls |-> {}]
  BY DEF Init
<1>5. \A d \in Children : context[d] \in Seq(Entries)
  BY <1>3, <1>4
<1>6. \A d \in Children : summary[d] \in Types \union {""}
  BY <1>4, OldAssumption
<1>7. call \in [Calls -> Frames] /\ \A c \in Calls : Child(c) \in {c, Old}
  BY <1>1, <1>4 DEF Child
<1>8. /\ context \in [Children -> Seq(Entries)] /\ summary \in [Children -> Types \union {""}]
  BY <1>4, <1>5, <1>6
<1>9. record \in [Calls -> [status : Statuses, output : BOOLEAN]]
  BY <1>2, <1>4
<1>10. /\ holder \in [Children -> Calls \union {NoCall}] /\ seen \in [Calls -> SUBSET Mishaps]
       /\ killed \subseteq Calls /\ faults \in 0..MaxFaults
  <2>1. MaxFaults \in Nat
    BY BoundsAssumption
  <2>2. faults \in 0..MaxFaults
    <3>1. faults = 0
      BY DEF Init
    <3>2. QED  BY <2>1, <3>1
  <2>3. seen \in [Calls -> SUBSET Mishaps] /\ killed \subseteq Calls
    <3>1. seen = [c \in Calls |-> {}] /\ killed = {}
      BY <1>4
    <3>2. \A c \in Calls : seen[c] \subseteq Mishaps
      BY <3>1
    <3>3. seen \in [Calls -> SUBSET Mishaps]
      BY <3>1, <3>2
    <3>4. QED  BY <3>1, <3>3
  <2>4. holder \in [Children -> Calls \union {NoCall}]
    BY <1>4
  <2>5. QED  BY <2>2, <2>3, <2>4
<1>11. QED  BY <1>7, <1>8, <1>9, <1>10 DEF Typed

-----------------------------------------------------------------------------
(* What a step does to the frames and the locks.                            *)

\* The frame of c becomes f, and no other changes.
Becomes(c, f) == /\ f \in Frames /\ call'[c] = f
                 /\ \A d \in Calls \ {c} : call'[d] = call[d]
                 /\ call' \in [Calls -> Frames]

LEMMA GotoBecomes ==
  ASSUME Typed, NEW c \in Calls, NEW pc \in Pcs, Goto(c, pc)
  PROVE  Becomes(c, [call[c] EXCEPT !.pc = pc])
<1>1. PICK f \in Frames : f = call[c]
  BY DEF Typed
<1>2. [f EXCEPT !.pc = pc] \in Frames
  BY DEF Frames
<1>3. call' = [call EXCEPT ![c] = [f EXCEPT !.pc = pc]] /\ call \in [Calls -> Frames]
  BY <1>1 DEF Goto, Typed
<1> DEFINE g == [f EXCEPT !.pc = pc]
<1> HIDE DEF g
<1>4. Becomes(c, g)
  BY <1>2, <1>3 DEF Becomes, g
<1>5. QED  BY <1>1, <1>4 DEF g

\* c keeps its lock, and what it was called with.
Stays(c) == /\ call'[c].child = call[c].child /\ call'[c].type = call[c].type
            /\ call'[c].resume = call[c].resume /\ call'[c].result = call[c].result
            /\ holder' = holder

\* c gives its lock back.
Quits(c) == /\ call'[c].child = call[c].child /\ call'[c].type = call[c].type
            /\ call'[c].pc = "done"
            /\ holder' = [d \in Children |-> IF holder[d] = c THEN NoCall ELSE holder[d]]

Alone(c) == /\ \A d \in Calls \ {c} : call'[d] = call[d]
            /\ call' \in [Calls -> Frames]

LEMMA ProceedStays ==
  ASSUME Typed, NEW c \in Calls, NEW pc \in Pcs, Proceed(c, pc)
  PROVE  Stays(c) /\ call'[c].pc = pc /\ Alone(c)
<1>1. PICK f \in Frames : f = call[c]
  BY DEF Typed
<1>2. Becomes(c, [f EXCEPT !.pc = pc]) /\ UNCHANGED holder
  BY <1>1, GotoBecomes DEF Proceed
<1>3. QED  BY <1>1, <1>2 DEF Stays, Alone, Becomes, Frames

LEMMA LeaveQuits ==
  ASSUME Typed, NEW c \in Calls, NEW result \in Results, Leave(c, result)
  PROVE  Quits(c) /\ call'[c].result = result /\ Alone(c)
<1>1. PICK f \in Frames : f = call[c]
  BY DEF Typed
<1> DEFINE g == [f EXCEPT !.pc = "done", !.result = result]
<1>2. call' = [call EXCEPT ![c] = g] /\ call \in [Calls -> Frames]
  BY <1>1 DEF Leave, Typed
<1>3. /\ g \in Frames /\ g.child = f.child /\ g.type = f.type /\ g.pc = "done"
      /\ g.result = result
  BY DEF Frames, Pcs
<1> HIDE DEF g
<1>4. QED  BY <1>1, <1>2, <1>3 DEF Quits, Alone, Leave

\* A call of c has raised.
Caught(c) ==
  /\ Guarded(c) /\ Stays(c) /\ call'[c].pc \in {"onError", "onCancel"}
  /\ seen'[c] = seen[c] \union {"caught"}

Unguarded(c) ==
  /\ ~Guarded(c) /\ Quits(c) /\ call'[c].result \in {"error", "stopped"}
  /\ seen'[c] = seen[c] \union {"unguarded"}

LEMMA Raised ==
  ASSUME Typed, NEW c \in Calls, RedisError(c) \/ CancelledError(c)
  PROVE  /\ Caught(c) \/ Unguarded(c)
         /\ Alone(c) /\ \A d \in Calls \ {c} : seen'[d] = seen[d]
         /\ seen' \in [Calls -> SUBSET Mishaps] /\ killed' \subseteq Calls /\ faults' \in 0..MaxFaults
<1>1. /\ killed \subseteq Calls /\ faults \in 0..MaxFaults /\ seen \in [Calls -> SUBSET Mishaps]
      /\ MaxFaults \in Nat
  BY BoundsAssumption DEF Typed
<1>2. killed' \subseteq Calls /\ faults' \in 0..MaxFaults
  BY <1>1 DEF RedisError, CancelledError, outside
<1>3. ASSUME NEW m \in Mishaps, Saw(c, m)
      PROVE  /\ seen'[c] = seen[c] \union {m} /\ \A d \in Calls \ {c} : seen'[d] = seen[d]
             /\ seen' \in [Calls -> SUBSET Mishaps]
  BY <1>1, <1>3 DEF Saw
<1>4. PICK handler \in {"onError", "onCancel"}, result \in {"error", "stopped"} :
        \/ Guarded(c) /\ Proceed(c, handler) /\ Saw(c, "caught")
        \/ ~Guarded(c) /\ Leave(c, result) /\ Saw(c, "unguarded")
  BY DEF RedisError, CancelledError, Raise, Proceed
<1>5. CASE Guarded(c) /\ Proceed(c, handler) /\ Saw(c, "caught")
  <2>1. handler \in Pcs /\ "caught" \in Mishaps
    BY DEF Pcs, Mishaps
  <2>2. Stays(c) /\ call'[c].pc = handler /\ Alone(c)
    BY <1>5, <2>1, ProceedStays
  <2>3. QED  BY <1>2, <1>3, <1>5, <2>1, <2>2 DEF Caught
<1>6. CASE ~Guarded(c) /\ Leave(c, result) /\ Saw(c, "unguarded")
  <2>1. result \in Results /\ "unguarded" \in Mishaps
    BY DEF Results, Mishaps
  <2>2. Quits(c) /\ call'[c].result = result /\ Alone(c)
    BY <1>6, <2>1, LeaveQuits
  <2>3. QED  BY <1>2, <1>3, <1>6, <2>1, <2>2 DEF Unguarded
<1>7. QED  BY <1>4, <1>5, <1>6

\* What a step of c does to frames, locks and mishaps.
FrameShape(c) ==
  /\ Alone(c)
  /\ \/ /\ call[c].pc \in Locked /\ Stays(c) /\ call'[c].pc \in Locked \ {"resume"}
        /\ call[c].pc = "resume" => Fits(c)
     \/ /\ call[c].pc = "lock" /\ holder[Child(c)] = NoCall /\ call'[c].pc = "resume"
        /\ call'[c].child = call[c].child /\ call'[c].type = call[c].type
        /\ call'[c].resume = call[c].resume /\ call'[c].result = call[c].result
        /\ holder' = [holder EXCEPT ![Child(c)] = c]
     \/ call[c].pc \in Locked \union {"lock"} /\ Quits(c)
     \/ /\ call[c].pc = "idle" /\ holder' = holder
        /\ call'[c].pc \in {"lock", "done"} /\ call'[c].child \in {c, Old}
        /\ call'[c].type \in Types \union {""}
        /\ call'[c].child = c \/ call'[c].resume \/ call'[c].pc = "done"
  /\ \A d \in Calls \ {c} : seen'[d] = seen[d]
  /\ seen' \in [Calls -> SUBSET Mishaps] /\ killed' \subseteq Calls /\ faults' \in 0..MaxFaults

LEMMA RaisedShape ==
  ASSUME Typed, NEW c \in Calls, call[c].pc \in Locked \union {"lock"}, RedisError(c) \/ CancelledError(c)
  PROVE  FrameShape(c)
<1>1. /\ Caught(c) \/ Unguarded(c)
      /\ Alone(c) /\ \A d \in Calls \ {c} : seen'[d] = seen[d]
      /\ seen' \in [Calls -> SUBSET Mishaps] /\ killed' \subseteq Calls /\ faults' \in 0..MaxFaults
  BY Raised
<1>2. CASE Caught(c)
  <2>1. call[c].pc \in Locked \ {"resume"} /\ call'[c].pc \in Locked \ {"resume"} /\ Stays(c)
    BY <1>2 DEF Caught, Guarded, Locked, Pcs
  <2>2. QED  BY <1>1, <2>1 DEF FrameShape
<1>3. CASE Unguarded(c)
  BY <1>1, <1>3 DEF FrameShape, Unguarded
<1>4. QED  BY <1>1, <1>2, <1>3

\* Nothing raises.
Calmly == UNCHANGED <<outside, faults, seen>>

LEMMA CalmTypes ==
  ASSUME Typed, NEW c \in Calls, Calmly
  PROVE  /\ \A d \in Calls \ {c} : seen'[d] = seen[d]
         /\ seen' \in [Calls -> SUBSET Mishaps] /\ killed' \subseteq Calls /\ faults' \in 0..MaxFaults
BY DEF Typed, Calmly, outside

LEMMA ProceedShape ==
  ASSUME Typed, NEW c \in Calls, NEW pc \in Locked \ {"resume"}, Proceed(c, pc), Calmly,
         call[c].pc \in Locked, call[c].pc = "resume" => Fits(c)
  PROVE  FrameShape(c)
<1>1. pc \in Pcs
  BY DEF Locked
<1>2. Stays(c) /\ call'[c].pc = pc /\ Alone(c)
  BY <1>1, ProceedStays
<1>3. QED  BY <1>2, CalmTypes DEF FrameShape

LEMMA LeaveShape ==
  ASSUME Typed, NEW c \in Calls, NEW result \in Results, Leave(c, result), Calmly,
         call[c].pc \in Locked
  PROVE  FrameShape(c)
BY LeaveQuits, CalmTypes DEF FrameShape

LEMMA CalledShape == ASSUME Typed, NEW c \in Calls, TaskCalled(c) PROVE FrameShape(c)
<1>1. PICK f \in Frames : f = call[c]
  BY DEF Typed
<1>2. Calmly /\ f.pc = "idle" /\ UNCHANGED holder /\ call \in [Calls -> Frames]
  BY <1>1 DEF TaskCalled, Calmly, outside, At, Typed
<1>3. ASSUME NEW g \in Frames, call' = [call EXCEPT ![c] = g],
             g.pc \in {"lock", "done"}, g.child \in {c, Old}, g.type \in Types \union {""},
             g.child = c \/ g.resume \/ g.pc = "done"
      PROVE  FrameShape(c)
  <2>1. Alone(c) /\ call'[c] = g
    BY <1>2, <1>3 DEF Alone
  <2>2. QED  BY <1>1, <1>2, <1>3, <2>1, CalmTypes DEF FrameShape
<1>4. CASE call' = [call EXCEPT ![c] = [f EXCEPT !.pc = "done", !.result = "error"]]
  <2> DEFINE g == [f EXCEPT !.pc = "done", !.result = "error"]
  <2>1. g \in Frames /\ g.pc = "done" /\ g.child = f.child /\ g.type = f.type
    BY DEF Frames, Pcs, Results
  <2>2. f.child \in {c, Old} /\ f.type \in Types \union {""}
    BY <1>1 DEF Typed, Child, Frames
  <2> HIDE DEF g
  <2>3. QED  BY <1>3, <1>4, <2>1, <2>2 DEF g
<1>5. CASE \E t \in Types, resume \in BOOLEAN :
             call' = [call EXCEPT ![c] = [f EXCEPT !.pc = "lock", !.type = t, !.resume = resume,
                                            !.child = IF resume THEN Old ELSE c]]
  <2>1. PICK t \in Types, resume \in BOOLEAN :
          call' = [call EXCEPT ![c] = [f EXCEPT !.pc = "lock", !.type = t, !.resume = resume,
                                         !.child = IF resume THEN Old ELSE c]]
    BY <1>5
  <2> DEFINE g == [f EXCEPT !.pc = "lock", !.type = t, !.resume = resume,
                            !.child = IF resume THEN Old ELSE c]
  <2>2. g \in Frames /\ g.pc = "lock" /\ g.child = (IF resume THEN Old ELSE c)
        /\ g.type = t /\ g.resume = resume
    BY DEF Frames, Pcs, Children
  <2> HIDE DEF g
  <2>3. QED  BY <1>3, <2>1, <2>2 DEF g
<1>6. QED  BY <1>1, <1>4, <1>5 DEF TaskCalled

\* A call moves with its lock or gives it back, whatever raises.
LEMMA StepShape == ASSUME Typed, NEW c \in Calls, Step(c) PROVE FrameShape(c)
<1> USE DEF Store, At, Calmly, Locked, Pcs, Results
<1>1. CASE Lock(c)
  <2>1. "resume" \in Pcs /\ Goto(c, "resume") /\ call[c].pc = "lock" /\ holder[Child(c)] = NoCall
        /\ holder' = [holder EXCEPT ![Child(c)] = c] /\ Calmly
    BY <1>1 DEF Lock
  <2>2. PICK f \in Frames : f = call[c]
    BY DEF Typed
  <2>3. Becomes(c, [f EXCEPT !.pc = "resume"])
    BY <2>1, <2>2, GotoBecomes
  <2>4. Alone(c) /\ call'[c] = [f EXCEPT !.pc = "resume"]
    BY <2>3 DEF Becomes, Alone
  <2>5. QED  BY <2>1, <2>2, <2>4, CalmTypes DEF FrameShape, Frames
<1>2. CASE KilledInQueue(c)
  BY <1>2, RaisedShape DEF KilledInQueue
<1>3. CASE EnsureResume(c)
  BY <1>3, RaisedShape, ProceedShape, LeaveShape DEF EnsureResume
<1>4. CASE CreateRecord(c)
  BY <1>4, RaisedShape, ProceedShape DEF CreateRecord
<1>5. CASE BuildContext(c)
  BY <1>5, RaisedShape, ProceedShape DEF BuildContext
<1>6. CASE BuildRaisesValueError(c)
  <2>1. call[c].pc \in Locked /\ Leave(c, "error") /\ Saw(c, "value") /\ UNCHANGED <<outside, faults>>
    BY <1>6 DEF BuildRaisesValueError
  <2>2. Quits(c) /\ Alone(c)
    BY <2>1, LeaveQuits
  <2>3. /\ \A d \in Calls \ {c} : seen'[d] = seen[d]
        /\ seen' \in [Calls -> SUBSET Mishaps]
    BY <2>1 DEF Saw, Typed, Mishaps
  <2>4. QED  BY <2>1, <2>2, <2>3 DEF FrameShape, Typed, outside
<1>7. CASE WriteInput(c)
  BY <1>7, RaisedShape, ProceedShape DEF WriteInput
<1>8. CASE LoopStep(c)
  <2>1. CASE call' = [call EXCEPT ![c].steps = @ + 1] /\ UNCHANGED holder /\ Calmly
    <3>1. PICK f \in Frames : f = call[c]
      BY DEF Typed
    <3> DEFINE g == [f EXCEPT !.steps = f.steps + 1]
    <3>2. g \in Frames
      <4>1. MaxSteps \in Nat /\ f.steps \in 0..MaxSteps /\ f.steps < MaxSteps
        BY <1>8, <3>1, BoundsAssumption DEF LoopStep, Frames
      <4>2. f.steps + 1 \in 0..MaxSteps
        BY <4>1
      <4>3. QED  BY <4>2 DEF Frames
    <3>3. call' = [call EXCEPT ![c] = g] /\ call \in [Calls -> Frames]
      BY <2>1, <3>1 DEF Typed
    <3>4. /\ g.child = f.child /\ g.type = f.type /\ g.pc = f.pc /\ g.resume = f.resume
          /\ g.result = f.result
      BY DEF Frames
    <3> HIDE DEF g
    <3>5. Alone(c) /\ Stays(c) /\ call'[c].pc = "loop" /\ call[c].pc = "loop"
      BY <1>8, <2>1, <3>1, <3>2, <3>3, <3>4 DEF Alone, Stays, LoopStep
    <3>6. QED  BY <2>1, <3>5, CalmTypes DEF FrameShape
  <2>2. QED  BY <1>8, <2>1, RaisedShape DEF LoopStep
<1>9. CASE LoopEnds(c)
  BY <1>9, ProceedShape DEF LoopEnds
<1>10. CASE LoopKilled(c)
  <2>1. CASE cancelled
    <3>1. call[c].pc = "loop" /\ Proceed(c, "loopCancelled") /\ killed' = killed \ {c}
          /\ UNCHANGED <<faults, seen>>
      BY <1>10, <2>1 DEF LoopKilled
    <3>2. Stays(c) /\ call'[c].pc = "loopCancelled" /\ Alone(c)
      BY <3>1, ProceedStays
    <3>3. QED  BY <3>1, <3>2 DEF FrameShape, Typed
  <2>2. CASE ~cancelled
    BY <1>10, <2>2, RaisedShape DEF LoopKilled
  <2>3. QED  BY <2>1, <2>2
<1>11. CASE AppendAnswer(c)
  BY <1>11, RaisedShape, ProceedShape DEF AppendAnswer
<1>12. CASE Complete(c)
  BY <1>12, RaisedShape, LeaveShape DEF Complete
<1>13. CASE LoopFailed(c)
  BY <1>13, RaisedShape, LeaveShape DEF LoopFailed
<1>14. CASE LoopCancelled(c)
  BY <1>14, RaisedShape, ProceedShape DEF LoopCancelled
<1>15. CASE AppendHint(c)
  BY <1>15, RaisedShape, LeaveShape DEF AppendHint
<1>16. CASE OnCancel(c)
  BY <1>16, RaisedShape, LeaveShape DEF OnCancel
<1>17. CASE OnError(c)
  BY <1>17, RaisedShape, LeaveShape DEF OnError
<1>18. QED
  BY <1>1, <1>2, <1>3, <1>4, <1>5, <1>6, <1>7, <1>8, <1>9, <1>10, <1>11, <1>12, <1>13, <1>14,
     <1>15, <1>16, <1>17 DEF Step

-----------------------------------------------------------------------------
(* What a step does to the store.                                           *)

Own(c) == /\ record' \in [Calls -> [status : Statuses, output : BOOLEAN]]
          /\ \A d \in Calls \ {c} : record'[d] = record[d]

LEMMA WriteOwn ==
  ASSUME Typed, NEW c \in Calls, NEW status \in Statuses, NEW output \in BOOLEAN,
         Write(c, status, output)
  PROVE  Own(c) /\ record'[c].status = status
<1>1. record[c] \in [status : Statuses, output : BOOLEAN]
  BY DEF Typed
<1> DEFINE r == [status |-> status, output |-> record[c].output \/ output]
<1>2. r \in [status : Statuses, output : BOOLEAN] /\ r.status = status
  BY <1>1
<1>3. record' = [record EXCEPT ![c] = r] /\ record \in [Calls -> [status : Statuses, output : BOOLEAN]]
  BY DEF Write, Typed
<1> HIDE DEF r
<1>4. QED  BY <1>2, <1>3 DEF Own

\* What a step of c does to records, messages and summaries.
StoreShape(c) ==
  /\ Own(c)
  /\ context' = context \/ \E kind \in Kinds : Push(c, kind) /\ call[c].pc \in Locked \ {"resume"}
  /\ \/ summary' = summary
     \/ /\ summary' = [summary EXCEPT ![Child(c)] = call[c].type]
        /\ call[c].pc = "input" /\ Push(c, "user")

LEMMA StoreSame == ASSUME Typed, NEW c \in Calls, UNCHANGED store PROVE StoreShape(c)
BY DEF store, StoreShape, Own, Typed

LEMMA StoreWritten ==
  ASSUME Typed, NEW c \in Calls, NEW status \in Statuses, NEW output \in BOOLEAN,
         Write(c, status, output), UNCHANGED <<context, summary>>
  PROVE  StoreShape(c)
BY WriteOwn DEF StoreShape

LEMMA StorePushed ==
  ASSUME Typed, NEW c \in Calls, NEW kind \in Kinds, Push(c, kind), UNCHANGED <<record, summary>>,
         call[c].pc \in Locked \ {"resume"}
  PROVE  StoreShape(c)
BY DEF StoreShape, Own, Typed

LEMMA StepStores == ASSUME Typed, NEW c \in Calls, Step(c) PROVE StoreShape(c)
<1> USE DEF Store, At, Locked, Pcs, Kinds, Statuses
<1>1. CASE Lock(c)
  BY <1>1, StoreSame DEF Lock
<1>2. CASE KilledInQueue(c)
  BY <1>2, StoreSame DEF KilledInQueue
<1>3. CASE EnsureResume(c)
  BY <1>3, StoreSame DEF EnsureResume
<1>4. CASE CreateRecord(c)
  BY <1>4, StoreSame, StoreWritten DEF CreateRecord
<1>5. CASE BuildContext(c)
  BY <1>5, StoreSame DEF BuildContext
<1>6. CASE BuildRaisesValueError(c)
  BY <1>6, StoreSame DEF BuildRaisesValueError
<1>7. CASE WriteInput(c)
  <2>1. ASSUME Push(c, "user"), summary' = [summary EXCEPT ![Child(c)] = call[c].type], UNCHANGED record
        PROVE  StoreShape(c)
    BY <1>7, <2>1 DEF StoreShape, Own, Typed, WriteInput
  <2>2. QED  BY <1>7, <2>1, StoreSame DEF WriteInput
<1>8. CASE LoopStep(c)
  BY <1>8, StoreSame, StorePushed DEF LoopStep
<1>9. CASE LoopEnds(c)
  BY <1>9, StoreSame DEF LoopEnds
<1>10. CASE LoopKilled(c)
  BY <1>10, StoreSame DEF LoopKilled
<1>11. CASE AppendAnswer(c)
  BY <1>11, StoreSame, StorePushed DEF AppendAnswer
<1>12. CASE Complete(c)
  BY <1>12, StoreSame, StoreWritten DEF Complete
<1>13. CASE LoopFailed(c)
  BY <1>13, StoreSame, StoreWritten DEF LoopFailed
<1>14. CASE LoopCancelled(c)
  BY <1>14, StoreSame, StoreWritten DEF LoopCancelled
<1>15. CASE AppendHint(c)
  BY <1>15, StoreSame, StorePushed DEF AppendHint
<1>16. CASE OnCancel(c)
  <2>1. ASSUME Write(c, "cancelled", FALSE), Push(c, "hint"), UNCHANGED summary PROVE StoreShape(c)
    BY <1>16, <2>1, WriteOwn DEF StoreShape, OnCancel
  <2>2. QED  BY <1>16, <2>1, StoreSame DEF OnCancel
<1>17. CASE OnError(c)
  BY <1>17, StoreSame, StoreWritten DEF OnError
<1>18. QED
  BY <1>1, <1>2, <1>3, <1>4, <1>5, <1>6, <1>7, <1>8, <1>9, <1>10, <1>11, <1>12, <1>13, <1>14,
     <1>15, <1>16, <1>17 DEF Step

\* The message that c adds to its child.
Message(c, kind) == [by |-> c, kind |-> kind, type |-> call[c].type]

LEMMA PushProperties ==
  ASSUME Typed, NEW c \in Calls, NEW kind \in Kinds, Push(c, kind)
  PROVE  /\ context' \in [Children -> Seq(Entries)]
         /\ Child(c) \in Children /\ Len(context[Child(c)]) \in Nat
         /\ DOMAIN context[Child(c)] = 1..Len(context[Child(c)])
         /\ DOMAIN context'[Child(c)] = 1..(Len(context[Child(c)]) + 1)
         /\ \A i \in 1..Len(context[Child(c)]) : context'[Child(c)][i] = context[Child(c)][i]
         /\ context'[Child(c)][Len(context[Child(c)]) + 1] = Message(c, kind)
         /\ \A d \in Children \ {Child(c)} : context'[d] = context[d]
<1>0. Message(c, kind) \in Entries /\ Child(c) \in Children
  BY DEF Message, Entries, Typed, Frames, Children
<1>1. PICK d \in Children, m \in Entries : d = Child(c) /\ m = Message(c, kind)
  BY <1>0
<1>2. m \in Entries
  OBVIOUS
<1>3. context' = [context EXCEPT ![d] = Append(context[d], m)]
  BY <1>1 DEF Push, Message
<1>4. PICK s \in Seq(Entries) : s = context[d]
  BY DEF Typed
<1>5. /\ Append(s, m) \in Seq(Entries) /\ Len(s) \in Nat /\ DOMAIN s = 1..Len(s)
      /\ DOMAIN Append(s, m) = 1..(Len(s) + 1)
      /\ \A i \in 1..Len(s) : Append(s, m)[i] = s[i]
      /\ Append(s, m)[Len(s) + 1] = m
  BY <1>2, <1>4, AppendProperties, LenProperties
<1>6. PICK t \in Seq(Entries) : t = Append(s, m)
  BY <1>5
<1>7. /\ context' \in [Children -> Seq(Entries)] /\ context'[d] = t
      /\ \A e \in Children \ {d} : context'[e] = context[e]
  BY <1>3, <1>4, <1>6 DEF Typed
<1>8. QED  BY <1>1, <1>4, <1>5, <1>6, <1>7

LEMMA NextTyped == Typed /\ [Next]_vars => Typed'
<1>1. CASE UNCHANGED vars
  BY <1>1 DEF Typed, Child, vars, store, outside
<1>2. ASSUME Typed, NEW c \in Calls, FrameShape(c), StoreShape(c) PROVE Typed'
  <2>1. /\ call' \in [Calls -> Frames] /\ \A d \in Calls \ {c} : Child(d)' = Child(d)
        /\ Child(c)' = Child(c) \/ Child(c)' \in {c, Old}
    BY <1>2 DEF FrameShape, Alone, Child, Stays, Quits
  <2>2. \A d \in Calls : Child(d)' \in {d, Old}
    BY <1>2, <2>1 DEF Typed
  <2>3. holder' \in [Children -> Calls \union {NoCall}]
    BY <1>2 DEF FrameShape, Stays, Quits, Typed
  <2>4. context' \in [Children -> Seq(Entries)]
    BY <1>2, PushProperties DEF StoreShape, Typed
  <2>5. summary' \in [Children -> Types \union {""}]
    BY <1>2 DEF StoreShape, Typed, Frames
  <2>6. QED  BY <1>2, <2>1, <2>2, <2>3, <2>4, <2>5 DEF Typed, FrameShape, StoreShape, Own
<1>3. ASSUME Typed, Next PROVE Typed'
  <2>1. CASE \E c \in Calls : Step(c)
    BY <1>2, <1>3, <2>1, StepShape, StepStores
  <2>2. CASE \E c \in Calls : TaskCalled(c)
    BY <1>2, <1>3, <2>2, CalledShape, StoreSame DEF TaskCalled
  <2>3. CASE SetCancel
    BY <1>3, <2>3 DEF SetCancel, Typed, Child, store
  <2>4. CASE KillTask
    <3>1. killed' \subseteq Calls
      BY <2>4 DEF KillTask
    <3>2. QED  BY <1>3, <2>4, <3>1 DEF KillTask, Typed, Child, store
  <2>5. QED  BY <1>3, <2>1, <2>2, <2>3, <2>4 DEF Next
<1>4. QED  BY <1>1, <1>3

-----------------------------------------------------------------------------
(* The inductive invariant: locks and messages.                             *)

\* Who is behind the queue holds the lock of its child, and nobody else does.
LockInv ==
  /\ \A c \in Calls : call[c].pc \in Locked => holder[Child(c)] = c
  /\ \A d \in Children : holder[d] # NoCall => Child(holder[d]) = d /\ call[holder[d]].pc \in Locked

\* The messages of a call are in the context of its child only, and while it
\* has the lock nothing is behind them.
MessageInv ==
  \A c \in Calls :
    /\ \A d \in Children : \A i \in DOMAIN context[d] :
         context[d][i].by = c => d = Child(c) /\ call[c].pc \notin {"idle", "lock"}
    /\ call[c].pc \in Locked => \A i, j \in DOMAIN context[Child(c)] :
         i < j /\ context[Child(c)][i].by = c => context[Child(c)][j].by = c

\* All messages of a child are of one type, which is that of the call that has
\* its lock and has looked at them.
TypeInv ==
  /\ \A d \in Children : \A i, j \in DOMAIN context[d] : context[d][i].type = context[d][j].type
  /\ \A c \in Calls : call[c].pc \in Locked \ {"resume"} =>
       \A i \in DOMAIN context[Child(c)] : context[Child(c)][i].type = call[c].type

LEMMA InitLocks == Init => LockInv /\ MessageInv /\ TypeInv /\ ListedIsResumable /\ ChildSerial
<1> SUFFICES ASSUME Init PROVE LockInv /\ MessageInv /\ TypeInv /\ ListedIsResumable /\ ChildSerial
  OBVIOUS
<1>1. /\ \A c \in Calls : call[c].pc = "idle"
      /\ \A d \in Children : holder[d] = NoCall
  BY DEF Init, Frame
<1>2. /\ \A d \in Children : d # Old => summary[d] = ""
      /\ \A d \in Children : d # Old => context[d] = <<>>
      /\ summary[Old] = OldType
  BY DEF Init, Children
<1> DEFINE m == [by |-> NoCall, kind |-> "user", type |-> OldType]
<1>3. m.type = OldType /\ m.by = NoCall
  OBVIOUS
<1>4. context[Old] = <<m>>
  BY DEF Init, Children
<1> HIDE DEF m
<1>5. DOMAIN <<m>> = {1} /\ <<m>>[1] = m /\ <<m>> # <<>>
  OBVIOUS
<1>6. ASSUME NEW d \in Children, d # Old PROVE DOMAIN context[d] = {}
  <2>1. context[d] = <<>>
    BY <1>2, <1>6
  <2>2. DOMAIN <<>> = {}
    OBVIOUS
  <2>3. QED  BY <2>1, <2>2
<1>7. \A d \in Children : \A i \in DOMAIN context[d] :
        /\ d = Old /\ i = 1 /\ context[d][i].type = OldType /\ context[d][i].by = NoCall
        /\ summary[d] = OldType
  BY <1>2, <1>3, <1>4, <1>5, <1>6
<1>8. NoCall \notin Calls
  BY OldAssumption
<1>9. LockInv /\ MessageInv /\ TypeInv
  <2>1. \A c \in Calls : call[c].pc \notin Locked
    BY <1>1 DEF Locked
  <2>2. LockInv
    BY <1>1, <2>1 DEF LockInv
  <2>3. MessageInv
    BY <1>7, <1>8, <2>1 DEF MessageInv
  <2>4. TypeInv
    BY <1>7, <2>1 DEF TypeInv
  <2>5. QED  BY <2>2, <2>3, <2>4
<1>10. ListedIsResumable
  <2>1. context[Old] # <<>>
    BY <1>4, <1>5
  <2>2. \A d \in Children : summary[d] # "" => context[d] # <<>>
    BY <1>2, <2>1
  <2>3. QED  BY <1>7, <2>2 DEF ListedIsResumable
<1>11. ChildSerial
  BY <1>7 DEF ChildSerial
<1>12. QED  BY <1>9, <1>10, <1>11

LEMMA LockStep ==
  ASSUME Typed, LockInv, NEW c \in Calls, FrameShape(c) PROVE LockInv'
<1>1. /\ \A d \in Calls \ {c} : call'[d] = call[d] /\ Child(d)' = Child(d)
      /\ holder \in [Children -> Calls \union {NoCall}] /\ Child(c) \in Children
      /\ NoCall \notin Calls /\ \A d \in Calls : Child(d) \in Children
  BY OldAssumption DEF FrameShape, Alone, Child, Typed, Children
<1>2. CASE call[c].pc \in Locked /\ Stays(c) /\ call'[c].pc \in Locked
  <2>1. \A d \in Calls : Child(d)' = Child(d)
    BY <1>1, <1>2 DEF Stays, Child
  <2>2. QED  BY <1>1, <1>2, <2>1 DEF LockInv, Stays
<1>3. CASE /\ call[c].pc = "lock" /\ holder[Child(c)] = NoCall /\ call'[c].pc = "resume"
           /\ call'[c].child = call[c].child
           /\ holder' = [holder EXCEPT ![Child(c)] = c]
  <2>1. /\ \A d \in Calls : Child(d)' = Child(d)
        /\ holder'[Child(c)] = c /\ \A d \in Children \ {Child(c)} : holder'[d] = holder[d]
    BY <1>1, <1>3 DEF Child
  <2>2. call'[c].pc \in Locked
    BY <1>3 DEF Locked, Pcs
  <2>3. \A d \in Calls \ {c} : call[d].pc \in Locked => holder[Child(d)] = d /\ Child(d) # Child(c)
    BY <1>1, <1>3 DEF LockInv
  <2>4. QED  BY <1>1, <1>3, <2>1, <2>2, <2>3 DEF LockInv
<1>4. CASE call[c].pc \in Locked \union {"lock"} /\ Quits(c)
  <2>1. /\ \A d \in Calls : Child(d)' = Child(d)
        /\ call'[c].pc \notin Locked
        /\ \A d \in Children : holder'[d] = IF holder[d] = c THEN NoCall ELSE holder[d]
    BY <1>1, <1>4 DEF Quits, Child, Locked
  <2>2. QED  BY <1>1, <2>1 DEF LockInv
<1>5. CASE call[c].pc = "idle" /\ holder' = holder /\ call'[c].pc \in {"lock", "done"}
  <2>1. call[c].pc \notin Locked /\ call'[c].pc \notin Locked
    BY <1>5 DEF Locked
  <2>2. \A d \in Children : holder[d] # c
    BY <1>1, <2>1 DEF LockInv
  <2>3. QED  BY <1>1, <1>5, <2>1, <2>2 DEF LockInv
<1>6. QED  BY <1>2, <1>3, <1>4, <1>5 DEF FrameShape

\* A step of c lets every other call be where it was, on its child.
LEMMA StepFrame ==
  ASSUME Typed, NEW c \in Calls, FrameShape(c)
  PROVE  /\ \A d \in Calls \ {c} : call'[d] = call[d] /\ Child(d)' = Child(d)
         /\ call[c].pc # "idle" => Child(c)' = Child(c) /\ call'[c].type = call[c].type
         /\ call'[c].pc \in Locked => call[c].pc \in Locked \union {"lock"}
         /\ call[c].pc \notin {"idle", "lock"} => call'[c].pc \notin {"idle", "lock"}
         /\ call'[c].pc \in Locked \ {"resume"} =>
              call[c].pc \in Locked /\ (call[c].pc = "resume" => Fits(c))
         /\ call'[c].pc \in {"idle", "lock"} => call[c].pc = "idle"
BY DEF FrameShape, Alone, Child, Stays, Quits, Locked, Pcs

LEMMA MessageStep ==
  ASSUME Typed, LockInv, MessageInv, NEW c \in Calls, FrameShape(c), StoreShape(c)
  PROVE  MessageInv'
<1>1. /\ \A d \in Calls \ {c} : call'[d] = call[d] /\ Child(d)' = Child(d)
      /\ call[c].pc # "idle" => Child(c)' = Child(c)
      /\ call'[c].pc \in Locked => call[c].pc \in Locked \union {"lock"}
      /\ call[c].pc \notin {"idle", "lock"} => call'[c].pc \notin {"idle", "lock"}
  BY StepFrame
<1>2. CASE context' = context
  <2>1. ASSUME NEW d \in Calls, NEW e \in Children, NEW i \in DOMAIN context[e], context[e][i].by = d
        PROVE  e = Child(d)' /\ call'[d].pc \notin {"idle", "lock"}
    BY <1>1, <2>1 DEF MessageInv
  <2>2. ASSUME NEW d \in Calls, call'[d].pc \in Locked,
               NEW i \in DOMAIN context[Child(d)'], NEW j \in DOMAIN context[Child(d)'],
               i < j, context[Child(d)'][i].by = d
        PROVE  context[Child(d)'][j].by = d
    <3>1. Child(d)' \in Children
      BY <1>1, <2>2 DEF Typed, Children, Locked
    <3>2. Child(d)' = Child(d) /\ call[d].pc \notin {"idle", "lock"}
      BY <2>2, <3>1, <1>1 DEF MessageInv, Locked
    <3>3. call[d].pc \in Locked
      BY <1>1, <2>2, <3>2
    <3>4. QED  BY <2>2, <3>2, <3>3 DEF MessageInv
  <2>3. QED  BY <1>2, <2>1, <2>2 DEF MessageInv
<1>3. CASE \E kind \in Kinds : Push(c, kind) /\ call[c].pc \in Locked \ {"resume"}
  <2>1. PICK kind \in Kinds : Push(c, kind) /\ call[c].pc \in Locked
    BY <1>3
  <2>2. PICK d \in Children, n \in Nat :
          /\ d = Child(c) /\ DOMAIN context[d] = 1..n /\ DOMAIN context'[d] = 1..(n + 1)
          /\ \A i \in 1..n : context'[d][i] = context[d][i]
          /\ context'[d][n + 1].by = c
          /\ \A e \in Children \ {d} : context'[e] = context[e]
    <3>1. Message(c, kind).by = c
      BY DEF Message
    <3>2. QED  BY <2>1, <3>1, PushProperties
  <2>3. call[c].pc \notin {"idle", "lock"} /\ call'[c].pc \notin {"idle", "lock"} /\ Child(c)' = d
    BY <1>1, <2>1, <2>2 DEF Locked
  <2>4. \A e \in Calls \ {c} : call[e].pc \in Locked => Child(e) # d
    BY <2>1, <2>2 DEF LockInv
  <2>5. ASSUME NEW e \in Calls, NEW f \in Children, NEW i \in DOMAIN context'[f], context'[f][i].by = e
        PROVE  f = Child(e)' /\ call'[e].pc \notin {"idle", "lock"}
    <3>1. CASE f = d /\ i = n + 1
      BY <2>2, <2>3, <2>5, <3>1
    <3>2. CASE ~(f = d /\ i = n + 1)
      <4>1. i \in DOMAIN context[f] /\ context[f][i].by = e
        BY <2>2, <2>5, <3>2
      <4>2. f = Child(e) /\ call[e].pc \notin {"idle", "lock"}
        BY <4>1 DEF MessageInv
      <4>3. QED  BY <1>1, <2>2, <2>3, <4>2
    <3>3. QED  BY <3>1, <3>2
  <2>6. ASSUME NEW e \in Calls, call'[e].pc \in Locked,
               NEW i \in DOMAIN context'[Child(e)'], NEW j \in DOMAIN context'[Child(e)'],
               i < j, context'[Child(e)'][i].by = e
        PROVE  context'[Child(e)'][j].by = e
    <3>1. CASE e = c
      <4>1. i \in 1..(n + 1) /\ j \in 1..(n + 1) /\ context'[d][i].by = c
        BY <2>2, <2>3, <2>6, <3>1
      <4>2. CASE j = n + 1
        BY <2>2, <2>3, <3>1, <4>2
      <4>3. CASE j # n + 1
        <5>1. i \in 1..n /\ j \in 1..n /\ context[d][i].by = c
          BY <2>2, <2>6, <4>1, <4>3
        <5>2. context[d][j].by = c
          BY <2>1, <2>2, <2>6, <5>1 DEF MessageInv
        <5>3. QED  BY <2>2, <2>3, <3>1, <5>1, <5>2
      <4>4. QED  BY <4>2, <4>3
    <3>2. CASE e # c
      <4>1. call[e].pc \in Locked /\ Child(e)' = Child(e) /\ Child(e) # d /\ Child(e) \in Children
        BY <1>1, <2>4, <2>6, <3>2 DEF Typed, Children
      <4>2. context'[Child(e)'] = context[Child(e)]
        BY <2>2, <4>1
      <4>3. QED  BY <2>6, <4>1, <4>2 DEF MessageInv
    <3>3. QED  BY <3>1, <3>2
  <2>7. QED  BY <2>5, <2>6 DEF MessageInv
<1>4. QED  BY <1>2, <1>3 DEF StoreShape

LEMMA TypeStep ==
  ASSUME Typed, LockInv, TypeInv, ListedIsResumable, NEW c \in Calls, FrameShape(c), StoreShape(c)
  PROVE  TypeInv' /\ ListedIsResumable'
<1>1. /\ \A d \in Calls \ {c} : call'[d] = call[d] /\ Child(d)' = Child(d)
      /\ call[c].pc # "idle" => Child(c)' = Child(c) /\ call'[c].type = call[c].type
      /\ call'[c].pc \in Locked \ {"resume"} =>
           call[c].pc \in Locked /\ (call[c].pc = "resume" => Fits(c))
      /\ \A d \in Calls : Child(d) \in Children
  BY StepFrame DEF Typed, Children
\* The messages of a child are of the type of the call that has looked at them.
<1>2. ASSUME NEW d \in Calls, call[d].pc \in Locked, call[d].pc = "resume" => Fits(d)
      PROVE  \A i \in DOMAIN context[Child(d)] : context[Child(d)][i].type = call[d].type
  <2>1. CASE call[d].pc # "resume"
    BY <1>2, <2>1 DEF TypeInv
  <2>2. CASE call[d].pc = "resume"
    <3>1. SUFFICES ASSUME NEW i \in DOMAIN context[Child(d)]
                   PROVE  context[Child(d)][i].type = call[d].type
      OBVIOUS
    <3>2. context[Child(d)] \in Seq(Entries)
      BY <1>1 DEF Typed
    <3>3. context[Child(d)] # <<>> /\ Head(context[Child(d)]) = context[Child(d)][1]
          /\ 1 \in DOMAIN context[Child(d)]
      BY <3>1, <3>2
    <3>4. context[Child(d)][1].type = call[d].type
      BY <1>2, <2>2, <3>3 DEF Fits
    <3>5. QED  BY <1>1, <3>1, <3>3, <3>4 DEF TypeInv
  <2>3. QED  BY <2>1, <2>2
<1>3. ASSUME NEW d \in Calls, call'[d].pc \in Locked \ {"resume"}
      PROVE  /\ Child(d)' = Child(d) /\ call[d].pc \in Locked /\ call'[d].type = call[d].type
             /\ \A i \in DOMAIN context[Child(d)] : context[Child(d)][i].type = call[d].type
  <2>1. call[d].pc \in Locked /\ (call[d].pc = "resume" => Fits(d)) /\ call[d].pc # "idle"
    BY <1>1, <1>3 DEF Locked
  <2>2. QED  BY <1>1, <1>2, <2>1
<1>4. CASE context' = context /\ summary' = summary
  <2>1. TypeInv'
    <3>1. \A d \in Children : \A i, j \in DOMAIN context'[d] : context'[d][i].type = context'[d][j].type
      BY <1>4 DEF TypeInv
    <3>2. \A d \in Calls : call'[d].pc \in Locked \ {"resume"} =>
            \A i \in DOMAIN context'[Child(d)'] : context'[Child(d)'][i].type = call'[d].type
      BY <1>3, <1>4
    <3>3. QED  BY <3>1, <3>2 DEF TypeInv
  <2>2. QED  BY <1>4, <2>1 DEF ListedIsResumable
<1>5. CASE \E kind \in Kinds : Push(c, kind) /\ call[c].pc \in Locked \ {"resume"}
  <2>1. PICK kind \in Kinds : Push(c, kind) /\ call[c].pc \in Locked \ {"resume"}
    BY <1>5
  <2>0. PICK type : type = call[c].type
    OBVIOUS
  <2>2. PICK d \in Children, n \in Nat :
          /\ d = Child(c) /\ DOMAIN context[d] = 1..n /\ DOMAIN context'[d] = 1..(n + 1)
          /\ \A i \in 1..n : context'[d][i] = context[d][i]
          /\ context'[d][n + 1].type = type /\ type = call[c].type
          /\ \A e \in Children \ {d} : context'[e] = context[e]
          /\ context'[d] \in Seq(Entries)
    <3>1. Message(c, kind).type = call[c].type
      BY DEF Message
    <3>2. QED  BY <2>0, <2>1, <3>1, PushProperties
  <2>3. \A i \in DOMAIN context'[d] : context'[d][i].type = type
    <3>1. \A i \in 1..n : context[d][i].type = type
      BY <1>2, <2>1, <2>2
    <3>2. QED  BY <2>2, <3>1
  <2>4. \A e \in Children : \A i, j \in DOMAIN context'[e] : context'[e][i].type = context'[e][j].type
    <3>1. SUFFICES ASSUME NEW e \in Children
                   PROVE  \A i, j \in DOMAIN context'[e] : context'[e][i].type = context'[e][j].type
      OBVIOUS
    <3>2. CASE e = d
      BY <2>3, <3>2
    <3>3. CASE e # d
      <4>1. context'[e] = context[e]
        BY <2>2, <3>3
      <4>2. QED  BY <4>1 DEF TypeInv
    <3>4. QED  BY <3>2, <3>3
  <2>5. ASSUME NEW e \in Calls, call'[e].pc \in Locked \ {"resume"}
        PROVE  \A i \in DOMAIN context'[Child(e)'] : context'[Child(e)'][i].type = call'[e].type
    <3>1. CASE e = c
      BY <1>3, <2>2, <2>3, <2>5, <3>1
    <3>2. CASE e # c
      <4>1. Child(e)' = Child(e) /\ call[e].pc \in Locked /\ Child(e) \in Children
        BY <1>1, <1>3, <2>5
      <4>2. Child(e) # d
        BY <2>1, <2>2, <3>2, <4>1 DEF LockInv
      <4>3. QED  BY <1>3, <2>2, <2>5, <4>1, <4>2
    <3>3. QED  BY <3>1, <3>2
  <2>6. ASSUME NEW e \in Children, summary'[e] # ""
        PROVE  context'[e] # <<>> /\ \A i \in DOMAIN context'[e] : context'[e][i].type = summary'[e]
    <3>1. CASE e = d
      <4>1. 1 \in DOMAIN context'[d] /\ context'[d] # <<>>
        BY <2>2
      <4>2. summary'[d] = type
        <5>1. CASE summary' = summary
          <6>1. summary[d] # ""
            BY <2>6, <3>1, <5>1
          <6>2. context[d] # <<>> /\ context[d] \in Seq(Entries)
            BY <6>1 DEF ListedIsResumable, Typed
          <6>3. 1 \in DOMAIN context[d]
            BY <6>2
          <6>4. context[d][1].type = summary[d]
            BY <6>1, <6>3 DEF ListedIsResumable
          <6>5. context[d][1].type = type
            BY <1>2, <2>1, <2>2, <6>3
          <6>6. QED  BY <5>1, <6>4, <6>5
        <5>2. CASE summary' = [summary EXCEPT ![Child(c)] = call[c].type]
          BY <2>2, <5>2 DEF Typed
        <5>3. QED  BY <5>1, <5>2 DEF StoreShape
      <4>3. QED  BY <2>3, <3>1, <4>1, <4>2
    <3>2. CASE e # d
      <4>1. summary'[e] = summary[e]
        BY <2>2, <3>2 DEF StoreShape, Typed
      <4>2. QED  BY <2>2, <2>6, <3>2, <4>1 DEF ListedIsResumable
    <3>3. QED  BY <3>1, <3>2
  <2>7. TypeInv'
    BY <2>4, <2>5 DEF TypeInv
  <2>8. ListedIsResumable'
    BY <2>6 DEF ListedIsResumable
  <2>9. QED  BY <2>7, <2>8
<1>6. QED
  <2>1. (context' = context /\ summary' = summary)
        \/ \E kind \in Kinds : Push(c, kind) /\ call[c].pc \in Locked \ {"resume"}
    BY DEF StoreShape, Kinds, Locked, Pcs
  <2>2. QED  BY <1>4, <1>5, <2>1

LEMMA SerialStep ==
  ASSUME Typed, MessageInv, ChildSerial, NEW c \in Calls, StoreShape(c)
  PROVE  ChildSerial'
<1>1. CASE context' = context
  BY <1>1 DEF ChildSerial
<1>2. CASE \E kind \in Kinds : Push(c, kind) /\ call[c].pc \in Locked \ {"resume"}
  <2>1. PICK kind \in Kinds : Push(c, kind) /\ call[c].pc \in Locked
    BY <1>2
  <2>2. PICK d \in Children, n \in Nat :
          /\ d = Child(c) /\ DOMAIN context[d] = 1..n /\ DOMAIN context'[d] = 1..(n + 1)
          /\ \A i \in 1..n : context'[d][i] = context[d][i]
          /\ context'[d][n + 1].by = c
          /\ \A e \in Children \ {d} : context'[e] = context[e]
    <3>1. Message(c, kind).by = c
      BY DEF Message
    <3>2. QED  BY <2>1, <3>1, PushProperties
  <2>3. SUFFICES ASSUME NEW e \in Children,
                        NEW i \in DOMAIN context'[e], NEW j \in DOMAIN context'[e],
                        NEW k \in DOMAIN context'[e],
                        i < j, j < k, context'[e][i].by = context'[e][k].by
                 PROVE  context'[e][j].by = context'[e][i].by
    BY DEF ChildSerial
  <2>4. CASE e = d
    <3>1. i \in 1..n /\ j \in 1..n /\ k \in 1..(n + 1)
      BY <2>2, <2>3, <2>4
    <3>2. CASE k = n + 1
      <4>1. context[d][i].by = c
        BY <2>2, <2>3, <2>4, <3>1, <3>2
      <4>2. context[d][j].by = c
        BY <2>1, <2>2, <2>3, <3>1, <4>1 DEF MessageInv
      <4>3. QED  BY <2>2, <2>4, <3>1, <4>1, <4>2
    <3>3. CASE k # n + 1
      <4>1. k \in 1..n
        BY <3>1, <3>3
      <4>2. context[d][i].by = context[d][k].by
        BY <2>2, <2>3, <2>4, <3>1, <4>1
      <4>3. context[d][j].by = context[d][i].by
        BY <2>2, <2>3, <3>1, <4>1, <4>2 DEF ChildSerial
      <4>4. QED  BY <2>2, <2>4, <3>1, <4>3
    <3>4. QED  BY <3>2, <3>3
  <2>5. CASE e # d
    BY <2>2, <2>3, <2>5 DEF ChildSerial
  <2>6. QED  BY <2>4, <2>5
<1>3. QED  BY <1>1, <1>2 DEF StoreShape

-----------------------------------------------------------------------------
(* The inductive invariant: records.                                        *)

\* The last message of c is its answer.
Answered(c) == LET messages == context[Child(c)] IN
  \E i \in DOMAIN messages : /\ messages[i].by = c /\ messages[i].kind = "answer"
                             /\ \A j \in DOMAIN messages : j > i => messages[j].by # c

\* c has told its child that it was cancelled.
Hinted(c) == LET messages == context[Child(c)] IN
  \E i \in DOMAIN messages : messages[i].by = c /\ messages[i].kind = "hint"

RecordInv(c) == LET status == record[c].status IN
  /\ call[c].pc \in {"idle", "lock", "resume", "create"} => status = "none"
  /\ call[c].pc \in {"history", "input", "loop", "answer", "complete", "loopFailed",
                     "loopCancelled"} => status = "running"
  /\ call[c].pc = "hint" => status = "cancelled"
  /\ call[c].pc = "complete" => Answered(c)
  /\ call[c].pc # "done" => call[c].result = "none"
  /\ call[c].result = "ok" => status = "completed" /\ Answered(c)
  /\ call[c].pc = "done" /\ "unguarded" \notin seen[c] =>
       /\ status = "running" => "value" \in seen[c]
       /\ status = "cancelled" => Hinted(c)
       /\ call[c].result = "error" => status # "completed"

LEMMA InitRecords == Init => \A c \in Calls : RecordInv(c)
<1> SUFFICES ASSUME Init, NEW c \in Calls PROVE RecordInv(c)
  OBVIOUS
<1>1. call[c].pc = "idle" /\ call[c].result = "none" /\ record[c].status = "none"
  BY DEF Init, Frame, NoRecord
<1>2. QED  BY <1>1 DEF RecordInv

\* Messages of others do not come between.
LEMMA OthersKeep ==
  ASSUME Typed, NEW c \in Calls, StoreShape(c), NEW d \in Calls \ {c}, Child(d)' = Child(d)
  PROVE  /\ Answered(d) => Answered(d)'
         /\ Hinted(d) => Hinted(d)'
<1>1. Child(d) \in Children
  BY DEF Typed, Children
<1>2. CASE context'[Child(d)] = context[Child(d)]
  BY <1>2 DEF Answered, Hinted
<1>3. CASE \E kind \in Kinds : Push(c, kind) /\ Child(c) = Child(d)
  <2>1. PICK e \in Children, n \in Nat :
          /\ e = Child(d) /\ DOMAIN context[e] = 1..n /\ DOMAIN context'[e] = 1..(n + 1)
          /\ \A i \in 1..n : context'[e][i] = context[e][i]
          /\ context'[e][n + 1].by = c
    <3>1. \A kind \in Kinds : Message(c, kind).by = c
      BY DEF Message
    <3>2. QED  BY <1>1, <1>3, <3>1, PushProperties
  <2>2. ASSUME Answered(d) PROVE Answered(d)'
    <3>1. PICK i \in 1..n : /\ context[e][i].by = d /\ context[e][i].kind = "answer"
                            /\ \A j \in 1..n : j > i => context[e][j].by # d
      BY <2>1, <2>2 DEF Answered
    <3>2. \A j \in 1..(n + 1) : j > i => context'[e][j].by # d
      BY <2>1, <3>1
    <3>3. i \in DOMAIN context'[e] /\ context'[e][i].by = d /\ context'[e][i].kind = "answer"
      BY <2>1, <3>1
    <3>4. QED  BY <2>1, <3>2, <3>3 DEF Answered
  <2>3. ASSUME Hinted(d) PROVE Hinted(d)'
    <3>1. PICK i \in 1..n : context[e][i].by = d /\ context[e][i].kind = "hint"
      BY <2>1, <2>3 DEF Hinted
    <3>2. i \in DOMAIN context'[e] /\ context'[e][i].by = d /\ context'[e][i].kind = "hint"
      BY <2>1, <3>1
    <3>3. QED  BY <2>1, <3>2 DEF Hinted
  <2>4. QED  BY <2>2, <2>3
<1>4. QED  BY <1>1, <1>2, <1>3, PushProperties DEF StoreShape

LEMMA OthersRecords ==
  ASSUME Typed, NEW c \in Calls, FrameShape(c), StoreShape(c), NEW d \in Calls \ {c}, RecordInv(d)
  PROVE  RecordInv(d)'
<1>1. call'[d] = call[d] /\ Child(d)' = Child(d) /\ record'[d] = record[d] /\ seen'[d] = seen[d]
  BY StepFrame DEF FrameShape, StoreShape, Own
<1>2. (Answered(d) => Answered(d)') /\ (Hinted(d) => Hinted(d)')
  BY <1>1, OthersKeep
<1>3. QED  BY <1>1, <1>2 DEF RecordInv

\* What is pushed is the last message.
LEMMA PushTells ==
  ASSUME Typed, NEW c \in Calls, NEW kind \in Kinds, Push(c, kind), Child(c)' = Child(c)
  PROVE  (kind = "answer" => Answered(c)') /\ (kind = "hint" => Hinted(c)')
<1>1. PICK d \in Children, n \in Nat :
        /\ d = Child(c) /\ DOMAIN context'[d] = 1..(n + 1)
        /\ context'[d][n + 1].by = c /\ context'[d][n + 1].kind = kind
  <2>1. Message(c, kind).by = c /\ Message(c, kind).kind = kind
    BY DEF Message
  <2>2. QED  BY <2>1, PushProperties
<1>2. n + 1 \in DOMAIN context'[d] /\ \A j \in DOMAIN context'[d] : ~(j > n + 1)
  BY <1>1
<1>3. QED  BY <1>1, <1>2 DEF Answered, Hinted

\* However a call raises, its record may be in any state.
LEMMA RaisedRecords ==
  ASSUME Typed, NEW c \in Calls, RecordInv(c), call[c].pc \in Locked \union {"lock"},
         RedisError(c) \/ CancelledError(c)
  PROVE  RecordInv(c)'
<1>1. call[c].result = "none"
  BY DEF RecordInv, Locked
<1>2. CASE Caught(c)
  BY <1>1, <1>2 DEF Caught, Stays, RecordInv
<1>3. CASE Unguarded(c)
  BY <1>3 DEF Unguarded, Quits, RecordInv
<1>4. QED  BY <1>2, <1>3, Raised

LEMMA Proceeds ==
  ASSUME Typed, NEW c \in Calls, RecordInv(c), NEW pc \in Pcs, Goto(c, pc), call[c].pc # "done"
  PROVE  call'[c].pc = pc /\ call'[c].result = "none" /\ Child(c)' = Child(c)
<1>1. PICK f \in Frames : f = call[c]
  BY DEF Typed
<1>2. call'[c] = [f EXCEPT !.pc = pc]
  BY <1>1, GotoBecomes DEF Becomes
<1>3. f.result = "none"
  BY <1>1 DEF RecordInv
<1>4. QED  BY <1>1, <1>2, <1>3 DEF Frames, Child

LEMMA Leaves ==
  ASSUME Typed, NEW c \in Calls, NEW result \in Results, Leave(c, result)
  PROVE  call'[c].pc = "done" /\ call'[c].result = result /\ Child(c)' = Child(c)
BY LeaveQuits DEF Quits, Child

LEMMA StepRecords == ASSUME Typed, NEW c \in Calls, RecordInv(c), Step(c) PROVE RecordInv(c)'
<1> USE DEF Store, At, Locked, Pcs, Results, Statuses, Kinds
<1>1. CASE Lock(c)
  <2>1. Goto(c, "resume") /\ UNCHANGED <<store, seen>> /\ call[c].pc = "lock"
    BY <1>1 DEF Lock
  <2>2. call'[c].pc = "resume" /\ call'[c].result = "none"
    BY <2>1, Proceeds
  <2>3. QED  BY <2>1, <2>2 DEF RecordInv, store
<1>2. CASE KilledInQueue(c)
  BY <1>2, RaisedRecords DEF KilledInQueue
<1>3. CASE EnsureResume(c)
  <2>1. ASSUME call[c].pc = "resume", UNCHANGED <<store, seen>>, Proceed(c, "create") PROVE RecordInv(c)'
    <3>1. call'[c].pc = "create" /\ call'[c].result = "none"
      BY <2>1, Proceeds DEF Proceed
    <3>2. QED  BY <2>1, <3>1 DEF RecordInv, store
  <2>2. ASSUME call[c].pc = "resume", UNCHANGED <<store, seen>>, Leave(c, "error") PROVE RecordInv(c)'
    <3>1. call'[c].pc = "done" /\ call'[c].result = "error"
      BY <2>2, Leaves
    <3>2. QED  BY <2>2, <3>1 DEF RecordInv, store
  <2>3. QED  BY <1>3, <2>1, <2>2, RaisedRecords DEF EnsureResume
<1>4. CASE CreateRecord(c)
  <2>1. ASSUME Write(c, "running", FALSE), Proceed(c, "history") PROVE RecordInv(c)'
    <3>1. record'[c].status = "running"
      BY <2>1, WriteOwn
    <3>2. call'[c].pc = "history" /\ call'[c].result = "none"
      BY <1>4, <2>1, Proceeds DEF Proceed, CreateRecord
    <3>3. QED  BY <3>1, <3>2 DEF RecordInv
  <2>2. QED  BY <1>4, <2>1, RaisedRecords DEF CreateRecord
<1>5. CASE BuildContext(c)
  <2>1. ASSUME UNCHANGED store, Proceed(c, "input") PROVE RecordInv(c)'
    <3>1. call'[c].pc = "input" /\ call'[c].result = "none" /\ record'[c].status = "running"
      BY <1>5, <2>1, Proceeds DEF Proceed, BuildContext, RecordInv, store
    <3>2. QED  BY <3>1 DEF RecordInv
  <2>2. QED  BY <1>5, <2>1, RaisedRecords DEF BuildContext
<1>6. CASE BuildRaisesValueError(c)
  <2>1. call'[c].pc = "done" /\ call'[c].result = "error" /\ record'[c].status = "running"
    BY <1>6, Leaves DEF BuildRaisesValueError, RecordInv, store
  <2>2. "value" \in seen'[c]
    BY <1>6 DEF BuildRaisesValueError, Saw, Typed
  <2>3. QED  BY <2>1, <2>2 DEF RecordInv
<1>7. CASE WriteInput(c)
  <2>1. ASSUME UNCHANGED record, Proceed(c, "loop") PROVE RecordInv(c)'
    <3>1. call'[c].pc = "loop" /\ call'[c].result = "none" /\ record'[c].status = "running"
      BY <1>7, <2>1, Proceeds DEF Proceed, WriteInput, RecordInv
    <3>2. QED  BY <3>1 DEF RecordInv
  <2>2. QED  BY <1>7, <2>1, RaisedRecords DEF WriteInput
<1>8. CASE LoopStep(c)
  <2>1. ASSUME UNCHANGED record, call' = [call EXCEPT ![c].steps = @ + 1] PROVE RecordInv(c)'
    <3>1. PICK f \in Frames : f = call[c]
      BY DEF Typed
    <3>2. call'[c] = [f EXCEPT !.steps = f.steps + 1]
      BY <2>1, <3>1 DEF Typed
    <3>3. f.pc = "loop" /\ f.result = "none" /\ record'[c].status = "running"
      BY <1>8, <2>1, <3>1 DEF LoopStep, RecordInv
    <3>4. call'[c].pc = "loop" /\ call'[c].result = "none"
      BY <3>2, <3>3 DEF Frames
    <3>5. QED  BY <3>3, <3>4 DEF RecordInv
  <2>2. QED  BY <1>8, <2>1, RaisedRecords DEF LoopStep
<1>9. CASE LoopEnds(c)
  <2>1. PICK pc \in {"answer", "loopFailed", "loopCancelled"} : Proceed(c, pc) /\ UNCHANGED record
    BY <1>9 DEF LoopEnds, store
  <2>2. call'[c].pc = pc /\ call'[c].result = "none" /\ record'[c].status = "running"
    BY <1>9, <2>1, Proceeds DEF Proceed, LoopEnds, RecordInv
  <2>3. QED  BY <2>2 DEF RecordInv
<1>10. CASE LoopKilled(c)
  <2>1. CASE cancelled
    <3>1. call'[c].pc = "loopCancelled" /\ call'[c].result = "none" /\ record'[c].status = "running"
      BY <1>10, <2>1, Proceeds DEF Proceed, LoopKilled, RecordInv, store
    <3>2. QED  BY <3>1 DEF RecordInv
  <2>2. CASE ~cancelled
    BY <1>10, <2>2, RaisedRecords DEF LoopKilled
  <2>3. QED  BY <2>1, <2>2
<1>11. CASE AppendAnswer(c)
  <2>1. ASSUME Push(c, "answer"), UNCHANGED record, Proceed(c, "complete") PROVE RecordInv(c)'
    <3>1. /\ call'[c].pc = "complete" /\ call'[c].result = "none" /\ record'[c].status = "running"
          /\ Child(c)' = Child(c)
      BY <1>11, <2>1, Proceeds DEF Proceed, AppendAnswer, RecordInv
    <3>2. Answered(c)'
      BY <2>1, <3>1, PushTells
    <3>3. QED  BY <3>1, <3>2 DEF RecordInv
  <2>2. QED  BY <1>11, <2>1, RaisedRecords DEF AppendAnswer
<1>12. CASE Complete(c)
  <2>1. ASSUME Write(c, "completed", TRUE), UNCHANGED context, Leave(c, "ok") PROVE RecordInv(c)'
    <3>1. record'[c].status = "completed"
      BY <2>1, WriteOwn
    <3>2. call'[c].pc = "done" /\ call'[c].result = "ok" /\ Child(c)' = Child(c)
      BY <2>1, Leaves
    <3>3. Answered(c)'
      BY <1>12, <2>1, <3>2 DEF Complete, RecordInv, Answered
    <3>4. QED  BY <3>1, <3>2, <3>3 DEF RecordInv
  <2>2. QED  BY <1>12, <2>1, RaisedRecords DEF Complete
<1>13. CASE LoopFailed(c)
  <2>1. ASSUME Write(c, "failed", FALSE), Leave(c, "error") PROVE RecordInv(c)'
    <3>1. record'[c].status = "failed" /\ call'[c].pc = "done" /\ call'[c].result = "error"
      BY <2>1, WriteOwn, Leaves
    <3>2. QED  BY <3>1 DEF RecordInv
  <2>2. QED  BY <1>13, <2>1, RaisedRecords DEF LoopFailed
<1>14. CASE LoopCancelled(c)
  <2>1. ASSUME Write(c, "cancelled", FALSE), Proceed(c, "hint") PROVE RecordInv(c)'
    <3>1. record'[c].status = "cancelled"
      BY <2>1, WriteOwn
    <3>2. call'[c].pc = "hint" /\ call'[c].result = "none"
      BY <1>14, <2>1, Proceeds DEF Proceed, LoopCancelled
    <3>3. QED  BY <3>1, <3>2 DEF RecordInv
  <2>2. QED  BY <1>14, <2>1, RaisedRecords DEF LoopCancelled
<1>15. CASE AppendHint(c)
  <2>1. ASSUME Push(c, "hint"), UNCHANGED record, Leave(c, "error") PROVE RecordInv(c)'
    <3>1. /\ call'[c].pc = "done" /\ call'[c].result = "error" /\ record'[c].status = "cancelled"
          /\ Child(c)' = Child(c)
      BY <1>15, <2>1, Leaves DEF AppendHint, RecordInv
    <3>2. Hinted(c)'
      BY <2>1, <3>1, PushTells
    <3>3. QED  BY <3>1, <3>2 DEF RecordInv
  <2>2. QED  BY <1>15, <2>1, RaisedRecords DEF AppendHint
<1>16. CASE OnCancel(c)
  <2>1. ASSUME Write(c, "cancelled", FALSE), Push(c, "hint"), Leave(c, "error") PROVE RecordInv(c)'
    <3>1. /\ call'[c].pc = "done" /\ call'[c].result = "error" /\ Child(c)' = Child(c)
          /\ record'[c].status = "cancelled"
      BY <2>1, Leaves, WriteOwn
    <3>2. Hinted(c)'
      BY <2>1, <3>1, PushTells
    <3>3. QED  BY <3>1, <3>2 DEF RecordInv
  <2>2. QED  BY <1>16, <2>1, RaisedRecords DEF OnCancel
<1>17. CASE OnError(c)
  <2>1. ASSUME Write(c, "failed", FALSE), Leave(c, "error") PROVE RecordInv(c)'
    <3>1. record'[c].status = "failed" /\ call'[c].pc = "done" /\ call'[c].result = "error"
      BY <2>1, WriteOwn, Leaves
    <3>2. QED  BY <3>1 DEF RecordInv
  <2>2. QED  BY <1>17, <2>1, RaisedRecords DEF OnError
<1>18. QED
  BY <1>1, <1>2, <1>3, <1>4, <1>5, <1>6, <1>7, <1>8, <1>9, <1>10, <1>11, <1>12, <1>13, <1>14,
     <1>15, <1>16, <1>17 DEF Step

LEMMA CalledRecords == ASSUME Typed, NEW c \in Calls, RecordInv(c), TaskCalled(c) PROVE RecordInv(c)'
<1>1. PICK f \in Frames : f = call[c]
  BY DEF Typed
<1>2. f.pc = "idle" /\ f.result = "none" /\ record'[c].status = "none" /\ call \in [Calls -> Frames]
  BY <1>1 DEF TaskCalled, At, RecordInv, store, Typed
<1>3. CASE call' = [call EXCEPT ![c] = [f EXCEPT !.pc = "done", !.result = "error"]]
  <2>1. call'[c].pc = "done" /\ call'[c].result = "error"
    BY <1>2, <1>3 DEF Frames
  <2>2. QED  BY <1>2, <2>1 DEF RecordInv
<1>4. CASE \E t \in Types, resume \in BOOLEAN :
             call' = [call EXCEPT ![c] = [f EXCEPT !.pc = "lock", !.type = t, !.resume = resume,
                                            !.child = IF resume THEN Old ELSE c]]
  <2>1. PICK t \in Types, resume \in BOOLEAN :
          call' = [call EXCEPT ![c] = [f EXCEPT !.pc = "lock", !.type = t, !.resume = resume,
                                         !.child = IF resume THEN Old ELSE c]]
    BY <1>4
  <2>2. call'[c] = [f EXCEPT !.pc = "lock", !.type = t, !.resume = resume,
                             !.child = IF resume THEN Old ELSE c]
    BY <1>2, <2>1
  <2>3. call'[c].pc = "lock" /\ call'[c].result = "none"
    BY <1>2, <2>2 DEF Frames
  <2>4. QED  BY <1>2, <2>3 DEF RecordInv
<1>5. QED  BY <1>1, <1>3, <1>4 DEF TaskCalled

-----------------------------------------------------------------------------
(* The theorems.                                                            *)

IInv == /\ Typed /\ LockInv /\ MessageInv /\ TypeInv /\ ListedIsResumable /\ ChildSerial
        /\ \A c \in Calls : RecordInv(c)

LEMMA UnmovedInv ==
  ASSUME IInv, Typed', UNCHANGED <<call, holder, record, context, summary, seen>>
  PROVE  IInv'
<1>1. \A c \in Calls : Child(c)' = Child(c)
  BY DEF Child
<1>2. LockInv'
  BY <1>1 DEF IInv, LockInv, Typed
<1>3. MessageInv' /\ TypeInv'
  BY <1>1 DEF IInv, MessageInv, TypeInv
<1>4. ListedIsResumable' /\ ChildSerial'
  <2>1. context' = context /\ summary' = summary /\ ListedIsResumable /\ ChildSerial
    BY DEF IInv
  <2>2. ListedIsResumable'
    BY <2>1 DEF ListedIsResumable
  <2>3. ChildSerial'
    BY <2>1 DEF ChildSerial
  <2>4. QED  BY <2>2, <2>3
<1>5. \A c \in Calls : RecordInv(c)'
  <2>1. \A c \in Calls : (Answered(c) <=> Answered(c)') /\ (Hinted(c) <=> Hinted(c)')
    BY <1>1 DEF Answered, Hinted
  <2>2. QED  BY <2>1 DEF IInv, RecordInv
<1>6. QED  BY <1>2, <1>3, <1>4, <1>5 DEF IInv

LEMMA NextInv == IInv /\ [Next]_vars => IInv'
<1>1. CASE UNCHANGED vars
  <2>1. SUFFICES ASSUME IInv PROVE IInv'
    OBVIOUS
  <2>2. Typed'
    BY <1>1, <2>1, NextTyped DEF IInv
  <2>3. UNCHANGED <<call, holder, record, context, summary, seen>>
    BY <1>1 DEF vars, store, outside
  <2>4. QED  BY <2>1, <2>2, <2>3, UnmovedInv
<1>2. ASSUME IInv, NEW c \in Calls, FrameShape(c), StoreShape(c), RecordInv(c)', Next PROVE IInv'
  <2>1. Typed'
    BY <1>2, NextTyped DEF IInv
  <2>2. LockInv' /\ MessageInv'
    BY <1>2, LockStep, MessageStep DEF IInv
  <2>3. TypeInv' /\ ListedIsResumable' /\ ChildSerial'
    BY <1>2, TypeStep, SerialStep DEF IInv
  <2>4. \A d \in Calls : RecordInv(d)'
    BY <1>2, OthersRecords DEF IInv
  <2>5. QED  BY <2>1, <2>2, <2>3, <2>4 DEF IInv
<1>3. ASSUME IInv, Next PROVE IInv'
  <2>1. CASE \E c \in Calls : Step(c)
    <3>1. PICK c \in Calls : Step(c)
      BY <2>1
    <3>2. FrameShape(c) /\ StoreShape(c) /\ RecordInv(c)'
      BY <1>3, <3>1, StepShape, StepStores, StepRecords DEF IInv
    <3>3. QED  BY <1>2, <1>3, <3>2
  <2>2. CASE \E c \in Calls : TaskCalled(c)
    <3>1. PICK c \in Calls : TaskCalled(c)
      BY <2>2
    <3>2. FrameShape(c) /\ StoreShape(c) /\ RecordInv(c)'
      BY <1>3, <3>1, CalledShape, StoreSame, CalledRecords DEF IInv, TaskCalled
    <3>3. QED  BY <1>2, <1>3, <3>2
  <2>3. CASE SetCancel \/ KillTask
    <3>1. UNCHANGED <<call, holder, record, context, summary, seen>>
      BY <2>3 DEF SetCancel, KillTask, store
    <3>2. QED  BY <1>3, <3>1, NextTyped, UnmovedInv DEF IInv
  <2>4. QED  BY <1>3, <2>1, <2>2, <2>3 DEF Next
<1>4. QED  BY <1>1, <1>3

LEMMA Invariance == Spec => []IInv
<1>1. Init => IInv
  BY InitTyped, InitLocks, InitRecords DEF IInv
<1>2. QED  BY <1>1, NextInv, PTL DEF Spec

\* The state keeps its types, and a lock that is held is held by a call that
\* is under way on that child, whatever raises or is cancelled.
THEOREM Typing == Spec => []TypeOK
<1>1. IInv => TypeOK
  <2> SUFFICES ASSUME IInv PROVE TypeOK
    OBVIOUS
  <2>1. ASSUME NEW c \in Calls
        PROVE  /\ call[c].pc \in Pcs /\ call[c].child \in {c, Old} /\ call[c].steps \in 0..MaxSteps
               /\ call[c].result \in {"none", "ok", "error", "stopped"}
               /\ record[c].status \in Statuses /\ record[c].output \in BOOLEAN
               /\ seen[c] \subseteq Mishaps
    BY DEF IInv, Typed, Frames, Results, Child
  <2>2. ASSUME NEW d \in Children
        PROVE  /\ summary[d] \in Types \union {""}
               /\ holder[d] # NoCall => /\ Child(holder[d]) = d
                                        /\ call[holder[d]].pc \notin {"idle", "lock", "done"}
    BY DEF IInv, Typed, LockInv, Locked
  <2>3. QED  BY <2>1, <2>2 DEF TypeOK, IInv, Typed
<1>2. QED  BY <1>1, Invariance, PTL

\* Runs on one child follow one another: the in-process lock keeps the whole of
\* run_child, a cancelled or raising one included, from being interleaved.
THEOREM ChildrenAreSerial == Spec => []ChildSerial
<1>1. IInv => ChildSerial
  BY DEF IInv
<1>2. QED  BY <1>1, Invariance, PTL

\* What the session lists for resuming has a history, all of the listed type:
\* input and summary are written at once, behind the check of the type.
THEOREM ListedCanBeResumed == Spec => []ListedIsResumable
<1>1. IInv => ListedIsResumable
  BY DEF IInv
<1>2. QED  BY <1>1, Invariance, PTL

\* A success that the master is told of is stored, record and answer; an error
\* is not stored as a success unless a handler's own write failed.
THEOREM ResultsAreStored == Spec => []ResultIsStored
<1>1. IInv => ResultIsStored
  <2>1. SUFFICES ASSUME IInv, NEW c \in Calls
                 PROVE  /\ call[c].result = "ok" => record[c].status = "completed" /\ Answered(c)
                        /\ call[c].result = "error" /\ "unguarded" \notin seen[c] =>
                             record[c].status # "completed"
    BY DEF ResultIsStored, Answered
  <2>2. RecordInv(c)
    BY <2>1 DEF IInv
  <2>3. call[c].result = "error" => call[c].pc = "done"
    BY <2>2 DEF RecordInv
  <2>4. QED  BY <2>2, <2>3 DEF RecordInv
<1>2. QED  BY <1>1, Invariance, PTL

\* A call that is over has closed its record, and told its child of a cancel,
\* unless the exception went past the handlers.
THEOREM DoneAreClosed == Spec => []DoneIsClosed
<1>1. IInv => DoneIsClosed
  <2>1. SUFFICES ASSUME IInv, NEW c \in Calls, At(c, "done"), "unguarded" \notin seen[c]
                 PROVE  /\ "value" \notin seen[c] => record[c].status # "running"
                        /\ record[c].status = "cancelled" =>
                             \E m \in Range(context[Child(c)]) : m.by = c /\ m.kind = "hint"
    BY DEF DoneIsClosed
  <2>2. /\ record[c].status = "running" => "value" \in seen[c]
        /\ record[c].status = "cancelled" => Hinted(c)
    BY <2>1 DEF IInv, RecordInv, At
  <2>3. QED  BY <2>2 DEF Hinted, Range
<1>2. QED  BY <1>1, Invariance, PTL
=============================================================================
