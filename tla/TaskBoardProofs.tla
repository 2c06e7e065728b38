--------------------------- MODULE TaskBoardProofs ---------------------------
(***************************************************************************)
(* What is proved of TaskBoard for every set of callers, number of tasks   *)
(* and number of dependencies that a call may add.                         *)
(***************************************************************************)
EXTENDS TaskBoard, SequenceTheorems, FiniteSetTheorems, WellFoundedInduction, TLAPS

-----------------------------------------------------------------------------
(* Lists.                                                                   *)

\* A set of numbers that is not empty has a least one: the induction that the
\* proofs about lists need, from the well-foundedness of finite sets.
LEMMA LeastNat == ASSUME NEW T \in SUBSET Nat, T # {} PROVE \E n \in T : \A m \in T : n <= m
<1> DEFINE R == StrictSubsetOrdering(Nat)
           F == FiniteSubsetsOf(Nat)
           D == {1 .. n : n \in T}
<1>1. IsWellFoundedOn(R, F)
  BY FS_StrictSubsetOrderingWellFounded
<1>2. D \subseteq F
  <2>1. \A n \in T : IsFiniteSet(1 .. n)
    BY FS_Interval
  <2>2. QED BY <2>1 DEF FiniteSubsetsOf
<1>3. D # {}
  OBVIOUS
<1>4. PICK d \in D : \A e \in D : ~(<<e, d>> \in R)
  <2> HIDE DEF R, F, D
  <2> QED BY <1>1, <1>2, <1>3, WFMin
<1>5. PICK n \in T : d = 1 .. n
  OBVIOUS
<1>6. ASSUME NEW m \in T, m < n PROVE FALSE
  <2>1. 1 .. m \in D
    OBVIOUS
  <2>2. 1 .. m \subseteq 1 .. n /\ 1 .. m # 1 .. n
    BY <1>6, n \in 1 .. n
  <2>3. <<1 .. m, 1 .. n>> \in R
    BY <2>2 DEF StrictSubsetOrdering
  <2> QED BY <1>4, <1>5, <2>1, <2>3
<1>7. QED
  BY <1>6

\* What RemoveFirst takes out of a list without repetitions.
LEMMA RemoveFirstProperties ==
  ASSUME NEW S, NEW s \in Seq(S), NEW e
  PROVE  /\ RemoveFirst(s, e) \in Seq(S)
         /\ IsInjective(s) =>
              /\ IsInjective(RemoveFirst(s, e))
              /\ \A x : Contains(RemoveFirst(s, e), x) <=> Contains(s, x) /\ x # e
<1>1. CASE ~\E i \in 1..Len(s) : s[i] = e
  <2>1. RemoveFirst(s, e) = s
    BY <1>1 DEF RemoveFirst
  <2>2. QED  BY <1>1, <2>1 DEF Contains
<1>2. CASE \E i \in 1..Len(s) : s[i] = e
  <2> DEFINE I == {i \in 1..Len(s) : s[i] = e}
             n == Min(I)
             a == SubSeq(s, 1, n - 1)
             b == SubSeq(s, n + 1, Len(s))
  <2>1. n \in I
    <3>1. I \in SUBSET Nat /\ I # {}
      BY <1>2
    <3>2. \E m \in I : \A k \in I : m <= k
      <4> HIDE DEF I
      <4> QED BY <3>1, LeastNat
    <3>3. QED  BY <3>2 DEF Min
  <2>2. RemoveFirst(s, e) = a \o b
    BY <1>2 DEF RemoveFirst, RemoveAt, SelectInSeq
  <2>3. n \in 1..Len(s) /\ s[n] = e
    BY <2>1
  <2> HIDE DEF n
  <2>4. a \in Seq(S) /\ Len(a) = n - 1 /\ \A i \in 1..(n - 1) : a[i] = s[i]
    BY <2>3, SubSeqProperties, LenProperties, ElementOfSeq
  <2>5. b \in Seq(S) /\ Len(b) = Len(s) - n /\ \A i \in 1..(Len(s) - n) : b[i] = s[n + i]
    BY <2>3, SubSeqProperties, LenProperties, ElementOfSeq
  <2> DEFINE c == a \o b
  <2>6. c \in Seq(S) /\ Len(c) = Len(s) - 1
    <3>1. c \in Seq(S) /\ Len(c) = Len(a) + Len(b) /\ Len(s) \in Nat
      BY <2>4, <2>5, ConcatProperties, LenProperties
    <3> HIDE DEF a, b, c
    <3>2. QED  BY <2>3, <2>4, <2>5, <3>1
  <2>7. ASSUME NEW i \in 1..(Len(s) - 1) PROVE c[i] = IF i < n THEN s[i] ELSE s[i + 1]
    <3>1. Len(s) \in Nat
      BY LenProperties
    <3>2. i \in 1..(Len(a) + Len(b))
      BY <2>3, <2>4, <2>5, <3>1
    <3>3. c[i] = IF i <= Len(a) THEN a[i] ELSE b[i - Len(a)]
      BY <2>4, <2>5, <3>2, ConcatProperties
    <3> HIDE DEF a, b, c
    <3>4. CASE i < n
      BY <2>3, <2>4, <3>1, <3>3, <3>4
    <3>5. CASE ~(i < n)
      <4>1. i - Len(a) \in 1..(Len(s) - n) /\ i > Len(a) /\ n + (i - Len(a)) = i + 1
        BY <2>3, <2>4, <3>1, <3>5
      <4>2. QED  BY <2>5, <3>3, <3>5, <4>1
    <3>6. QED  BY <3>4, <3>5
  <2> HIDE DEF a, b, c
  <2>8. DOMAIN c = 1..(Len(s) - 1) /\ DOMAIN s = 1..Len(s) /\ Len(s) \in Nat
    <3>1. DOMAIN c = 1..Len(c) /\ DOMAIN s = 1..Len(s) /\ Len(s) \in Nat
      BY <2>6, LenProperties
    <3>2. QED  BY <2>6, <3>1
  <2>9. ASSUME IsInjective(s) PROVE IsInjective(c) /\ \A x : Contains(c, x) <=> Contains(s, x) /\ x # e
    <3>1. IsInjective(c)
      <4>1. SUFFICES ASSUME NEW i \in 1..(Len(s) - 1), NEW j \in 1..(Len(s) - 1), c[i] = c[j]
                     PROVE  i = j
        BY <2>8 DEF IsInjective
      <4>2. \A k, l \in 1..Len(s) : s[k] = s[l] => k = l
        BY <2>8, <2>9 DEF IsInjective
      <4>3. {i, j, i + 1, j + 1} \subseteq 1..Len(s)
        BY <2>8
      <4>4. CASE i < n /\ j < n
        BY <2>7, <4>1, <4>2, <4>3, <4>4
      <4>5. CASE i < n /\ ~(j < n)
        BY <2>3, <2>7, <4>1, <4>2, <4>3, <4>5
      <4>6. CASE ~(i < n) /\ j < n
        BY <2>3, <2>7, <4>1, <4>2, <4>3, <4>6
      <4>7. CASE ~(i < n) /\ ~(j < n)
        <5>1. i + 1 = j + 1
          BY <2>7, <4>1, <4>2, <4>3, <4>7
        <5>2. QED  BY <5>1
      <4>8. QED  BY <4>4, <4>5, <4>6, <4>7
    <3>2. ASSUME NEW x, Contains(s, x), x # e PROVE Contains(c, x)
      <4>1. PICK i \in 1..Len(s) : s[i] = x
        BY <3>2 DEF Contains
      <4>2. CASE i < n
        <5>1. i \in 1..(Len(s) - 1) /\ c[i] = x
          BY <2>3, <2>7, <2>8, <4>1, <4>2
        <5>2. QED  BY <2>6, <5>1 DEF Contains
      <4>3. CASE i > n
        <5>1. i - 1 \in 1..(Len(s) - 1) /\ ~(i - 1 < n) /\ i - 1 + 1 = i
          BY <2>3, <2>8, <4>1, <4>3
        <5>2. c[i - 1] = x
          BY <2>7, <4>1, <5>1
        <5>3. QED  BY <2>6, <5>1, <5>2 DEF Contains
      <4>4. QED  BY <4>1, <4>2, <4>3, <3>2, <2>3
    <3>3. ASSUME NEW x, Contains(c, x) PROVE Contains(s, x) /\ x # e
      <4>1. PICK i \in 1..(Len(s) - 1) : c[i] = x
        BY <3>3, <2>6 DEF Contains
      <4>2. CASE i < n
        BY <4>1, <4>2, <2>3, <2>7, <2>8, <2>9 DEF Contains, IsInjective
      <4>3. CASE i >= n
        BY <4>1, <4>3, <2>3, <2>7, <2>8, <2>9, i + 1 \in 1..Len(s) DEF Contains, IsInjective
      <4>4. QED  BY <4>2, <4>3, <2>3
    <3>4. QED  BY <3>1, <3>2, <3>3
  <2>10. QED  BY <2>2, <2>6, <2>9 DEF c
<1>3. QED  BY <1>1, <1>2

-----------------------------------------------------------------------------
(* Types.                                                                   *)

Sides == {"blocks", "blockedBy"}

LEMMA NewTaskType == NewTask \in Task
BY DEF NewTask, Task

LEMMA IdleType == Idle \in Calls
<1>1. 0 \in Ids \union {0} /\ <<>> \in Seq(Edges)
  OBVIOUS
<1>2. <<>> \in Hash
  <2>1. <<>> \in [{} -> Task]
    OBVIOUS
  <2>2. QED  BY <2>1 DEF Hash
<1>3. QED  BY <1>1, <1>2, NewTaskType DEF Idle, Calls

LEMMA ListingType ==
  ASSUME NEW task \in Task, NEW list \in Sides, NEW j \in Ids
  PROVE  Listing(task, list, j) \in Task
<1>1. CASE list = "blocks"
  BY <1>1 DEF Listing, Task
<1>2. CASE list = "blockedBy"
  BY <1>2 DEF Listing, Task
<1>3. QED  BY <1>1, <1>2 DEF Sides

LEMMA HashGet == ASSUME NEW h \in Hash, NEW j \in DOMAIN h PROVE h[j] \in Task /\ j \in Ids
BY DEF Hash

LEMMA SaveType ==
  ASSUME tasks \in Hash, NEW i \in Ids, NEW task \in Task, Save(i, task)
  PROVE  tasks' \in Hash
<1>1. PICK ids \in SUBSET Ids : tasks \in [ids -> Task]
  BY DEF Hash
<1>2. tasks' \in [ids \union {i} -> Task]
  BY <1>1 DEF Save
<1>3. QED  BY <1>2 DEF Hash

LEMMA RestrictType == ASSUME NEW h \in Hash, NEW S PROVE Restrict(h, DOMAIN h \ S) \in Hash
<1>1. PICK ids \in SUBSET Ids : h \in [ids -> Task]
  BY DEF Hash
<1>2. Restrict(h, DOMAIN h \ S) \in [ids \ S -> Task]
  BY <1>1 DEF Restrict
<1>3. QED  BY <1>2 DEF Hash

LEMMA ForgetType == ASSUME NEW task \in Task, NEW i PROVE Forget(task, i) \in Task
<1>1. task.blocks \in Seq(Ids) /\ task.blockedBy \in Seq(Ids)
  BY DEF Task
<1>2. QED  BY <1>1, RemoveFirstProperties DEF Forget, Task

LEMMA HeadTodo ==
  ASSUME NEW f \in Calls, f.todo # <<>>
  PROVE  /\ Head(f.todo)[1] \in Sides /\ Head(f.todo)[2] \in Ids
         /\ Tail(f.todo) \in Seq(Edges)
BY DEF Calls, Edges, Sides

LEMMA Moves ==
  ASSUME TypeOK, NEW c \in Callers, NEW f \in Calls, Becomes(c, f)
  PROVE  /\ call' \in [Callers -> Calls]
         /\ call'[c] = f
         /\ \A d \in Callers \ {c} : call'[d] = call[d]
BY DEF TypeOK, Becomes

LEMMA InitType == Init => TypeOK
<1>1. <<>> \in Hash
  BY IdleType DEF Idle, Calls
<1>2. QED  BY <1>1, IdleType, BoundsAssumption DEF Init, TypeOK

LEMMA StartType == ASSUME NEW m \in SUBSET Mishaps, seen \subseteq Mishaps, Start(m)
                   PROVE  seen' \subseteq Mishaps
BY DEF Start, Mishaps


\* A call under way is about some task, and an edge is under way at "target".
Sound(f) == /\ f \in Calls
            /\ f.pc # "idle" => f.id \in Ids
            /\ f.pc = "target" => f.todo # <<>>

Typed == TypeOK /\ \A c \in Callers : Sound(call[c])

LEMMA InitTyped == Init => Typed
BY InitType, IdleType DEF Init, Typed, Sound, Idle

LEMMA IdleSound == Sound(Idle)
BY IdleType DEF Sound, Idle

\* A step of c that leaves the types of the rest alone.
LEMMA TypedMove ==
  ASSUME Typed, NEW c \in Callers, NEW f, Sound(f), Becomes(c, f),
         counter' \in 0..MaxTasks, tasks' \in Hash, seen' \subseteq Mishaps
  PROVE  Typed'
<1>1. f \in Calls /\ TypeOK
  BY DEF Sound, Typed
<1>2. /\ call' \in [Callers -> Calls]
      /\ call'[c] = f
      /\ \A d \in Callers \ {c} : call'[d] = call[d]
  BY <1>1, Moves
<1>3. \A d \in Callers : Sound(call'[d])
  BY <1>2 DEF Typed
<1>4. QED  BY <1>2, <1>3 DEF Typed, TypeOK, Sound

LEMMA TypedStarts ==
  ASSUME Typed, NEW c \in Callers, TakeId(c) \/ Read(c) \/ ReadToDelete(c)
  PROVE  Typed'
<1>1. TypeOK /\ counter \in 0..MaxTasks /\ tasks \in Hash /\ seen \subseteq Mishaps
  BY DEF Typed, TypeOK
<1>2. CASE TakeId(c)
  <2>1. counter' \in 0..MaxTasks /\ counter + 1 \in Ids
    BY <1>1, <1>2, BoundsAssumption DEF TakeId, Ids
  <2>2. Sound([Idle EXCEPT !.pc = "create", !.id = counter + 1])
    BY <2>1, IdleType DEF Sound, Calls
  <2>3. seen' \subseteq Mishaps
    BY <1>1, <1>2, StartType DEF TakeId
  <2>4. QED  BY <1>1, <1>2, <2>1, <2>2, <2>3, TypedMove DEF TakeId
<1>3. CASE Read(c)
  <2>1. PICK i \in DOMAIN tasks, todo \in Requests :
          /\ Start(Repeats(todo))
          /\ Becomes(c, [Idle EXCEPT !.pc = "edges", !.id = i, !.task = tasks[i], !.todo = todo])
    BY <1>3 DEF Read
  <2>2. todo \in Seq(Edges)
    BY SeqDef, BoundsAssumption DEF Requests
  <2>3. tasks[i] \in Task /\ i \in Ids
    BY <1>1, HashGet
  <2>4. Sound([Idle EXCEPT !.pc = "edges", !.id = i, !.task = tasks[i], !.todo = todo])
    BY <2>2, <2>3, IdleType DEF Sound, Calls
  <2>5. Repeats(todo) \subseteq Mishaps
    BY DEF Repeats, Mishaps
  <2>6. seen' \subseteq Mishaps
    BY <1>1, <2>1, <2>5, StartType
  <2>7. QED  BY <1>1, <1>3, <2>1, <2>4, <2>6, TypedMove DEF Read
<1>4. CASE ReadToDelete(c)
  <2>1. PICK i \in DOMAIN tasks : Becomes(c, [Idle EXCEPT !.pc = "delete", !.id = i])
    BY <1>4 DEF ReadToDelete
  <2>2. i \in Ids
    BY <1>1, HashGet
  <2>3. Sound([Idle EXCEPT !.pc = "delete", !.id = i])
    BY <2>2, IdleType DEF Sound, Calls
  <2>4. seen' \subseteq Mishaps
    BY <1>1, <1>4, StartType DEF ReadToDelete
  <2>5. QED  BY <1>1, <1>4, <2>1, <2>3, <2>4, TypedMove DEF ReadToDelete
<1>5. QED  BY <1>2, <1>3, <1>4

LEMMA TypedSteps == ASSUME Typed, NEW c \in Callers, Step(c) PROVE Typed'
<1>1. /\ TypeOK /\ counter \in 0..MaxTasks /\ tasks \in Hash /\ seen \subseteq Mishaps
      /\ call[c] \in Calls /\ Sound(call[c])
  BY DEF Typed, TypeOK
<1> DEFINE f == call[c]
           list == Head(f.todo)[1]
           j == Head(f.todo)[2]
<1>2. f.todo # <<>> => list \in Sides /\ j \in Ids /\ Tail(f.todo) \in Seq(Edges)
  BY <1>1, HeadTodo
<1>3. CASE Create(c)
  <2>1. f.id \in Ids
    BY <1>1, <1>3 DEF Create, At, Sound
  <2>2. tasks' \in Hash
    BY <1>1, <1>3, <2>1, NewTaskType, SaveType DEF Create
  <2>3. QED  BY <1>1, <1>3, <2>2, IdleSound, TypedMove DEF Create, Return
<1>4. CASE EdgeRefused(c)
  <2>1. seen' \subseteq Mishaps
    BY <1>1, <1>4 DEF EdgeRefused, Mishaps
  <2>2. QED  BY <1>1, <1>4, <2>1, IdleSound, TypedMove DEF EdgeRefused, Return
<1>5. CASE Edge(c)
  <2>1. f.pc = "edges" /\ f.todo # <<>> /\ Exists(j)
    BY <1>5 DEF Edge, At
  <2>2. Listing(f.task, list, j) \in Task
    BY <1>1, <1>2, <2>1, ListingType DEF Calls
  <2>3. Other(list) \in Sides /\ f.id \in Ids /\ tasks[j] \in Task
    BY <1>1, <2>1, HashGet DEF Other, Sides, Sound, Exists
  <2>4. Listing(tasks[j], Other(list), f.id) \in Task
    BY <2>3, ListingType
  <2> DEFINE g == [f EXCEPT !.task = Listing(f.task, list, j)]
  <2>5. Sound([g EXCEPT !.todo = Tail(f.todo)])
    BY <1>1, <1>2, <2>1, <2>2 DEF Sound, Calls
  <2>6. Sound([g EXCEPT !.pc = "target", !.target = Listing(tasks[j], Other(list), f.id)])
    BY <1>1, <2>1, <2>2, <2>4 DEF Sound, Calls
  <2>7. \/ Becomes(c, [g EXCEPT !.todo = Tail(f.todo)])
        \/ Becomes(c, [g EXCEPT !.pc = "target", !.target = Listing(tasks[j], Other(list), f.id)])
    BY <1>5 DEF Edge
  <2> HIDE DEF g, f, j, list
  <2>8. QED  BY <1>1, <1>5, <2>5, <2>6, <2>7, TypedMove DEF Edge
<1>6. CASE SaveTarget(c)
  <2>1. f.pc = "target" /\ f.todo # <<>> /\ f.target \in Task
    BY <1>1, <1>6 DEF SaveTarget, At, Sound, Calls
  <2>2. tasks' \in Hash
    BY <1>1, <1>2, <1>6, <2>1, SaveType DEF SaveTarget
  <2>3. Sound([f EXCEPT !.pc = "edges", !.todo = Tail(f.todo), !.target = NewTask])
    BY <1>1, <1>2, <2>1, NewTaskType DEF Sound, Calls
  <2>4. QED  BY <1>1, <1>6, <2>2, <2>3, TypedMove DEF SaveTarget
<1>7. CASE SaveTask(c)
  <2>1. f.id \in Ids /\ f.task \in Task
    BY <1>1, <1>7 DEF SaveTask, At, Sound, Calls
  <2>2. tasks' \in Hash
    BY <1>1, <1>7, <2>1, SaveType DEF SaveTask
  <2>3. QED  BY <1>1, <1>7, <2>2, IdleSound, TypedMove DEF SaveTask, Return
<1>8. CASE Delete(c)
  <2>1. tasks' \in Hash
    BY <1>1, <1>8, RestrictType DEF Delete, Drop
  <2>2. Sound([f EXCEPT !.pc = "list"])
    BY <1>1, <1>8 DEF Sound, Calls, Delete, At
  <2>3. QED  BY <1>1, <1>8, <2>1, <2>2, TypedMove DEF Delete
<1>9. CASE List(c)
  <2> DEFINE naming == {k \in DOMAIN tasks : Refs(tasks[k], f.id)}
             sweep == [k \in naming |-> Forget(tasks[k], f.id)]
  <2>1. naming \subseteq Ids /\ \A k \in naming : Forget(tasks[k], f.id) \in Task
    BY <1>1, HashGet, ForgetType
  <2>2. sweep \in Hash
    <3> HIDE DEF naming
    <3> QED BY <2>1 DEF Hash
  <2> HIDE DEF sweep
  <2>3. Sound([f EXCEPT !.pc = "sweep", !.sweep = sweep])
    BY <1>1, <1>9, <2>2 DEF Sound, Calls, List, At
  <2>4. Becomes(c, [f EXCEPT !.pc = "sweep", !.sweep = sweep])
    BY <1>9 DEF List, sweep
  <2>5. QED  BY <1>1, <1>9, <2>3, <2>4, TypedMove DEF List
<1>10. CASE Sweep(c)
  <2>1. PICK k \in DOMAIN f.sweep :
          /\ Save(k, f.sweep[k])
          /\ Becomes(c, [f EXCEPT !.sweep = Restrict(f.sweep, DOMAIN f.sweep \ {k})])
    BY <1>10 DEF Sweep
  <2>2. f.sweep \in Hash
    BY <1>1 DEF Calls
  <2>3. k \in Ids /\ f.sweep[k] \in Task /\ Restrict(f.sweep, DOMAIN f.sweep \ {k}) \in Hash
    BY <2>2, HashGet, RestrictType
  <2>4. tasks' \in Hash
    BY <1>1, <2>1, <2>3, SaveType
  <2>5. Sound([f EXCEPT !.sweep = Restrict(f.sweep, DOMAIN f.sweep \ {k})])
    BY <1>1, <1>10, <2>3 DEF Sound, Calls, Sweep, At
  <2>6. QED  BY <1>1, <1>10, <2>1, <2>4, <2>5, TypedMove DEF Sweep
<1>11. CASE Deleted(c)
  BY <1>1, <1>11, IdleSound, TypedMove DEF Deleted, Return
<1>12. QED
  BY <1>3, <1>4, <1>5, <1>6, <1>7, <1>8, <1>9, <1>10, <1>11 DEF Step

LEMMA NextTyped == Typed /\ [Next]_vars => Typed'
<1>1. CASE UNCHANGED vars
  BY <1>1 DEF Typed, TypeOK, Sound, vars
<1>2. CASE Next
  BY <1>2, TypedStarts, TypedSteps DEF Next
<1>3. QED  BY <1>1, <1>2

\* The hash and the copies that the calls hold are well-formed tasks over ids
\* that have been given out, whatever the interleaving.
THEOREM Typing == Spec => []Typed
BY InitTyped, NextTyped, PTL DEF Spec

-----------------------------------------------------------------------------
(* Ids are fresh.                                                           *)

\* The id i has been given out, and its task has been created.
Made(i) == i \in 1..counter /\ \A d \in Callers : At(d, "create") => call[d].id # i

\* Only what has been made is stored, or can still be saved by a call.
FreshCall(c) ==
  /\ At(c, "create") => call[c].id \in 1..counter
  /\ At(c, "edges") \/ At(c, "target") => Made(call[c].id)
  /\ At(c, "target") => Made(Head(call[c].todo)[2])
  /\ \A j \in DOMAIN call[c].sweep : Made(j)

FreshInv ==
  /\ \A i \in DOMAIN tasks : Made(i)
  /\ \A c \in Callers : FreshCall(c)
  /\ \A c, d \in Callers : At(c, "create") /\ At(d, "create") /\ c # d => call[c].id # call[d].id

LEMMA InitFresh == Init => FreshInv
BY DEF Init, FreshInv, FreshCall, Idle, At

\* A step of c that lets no task be created, and gives out no id, keeps what
\* has been made.
LEMMA FreshMove ==
  ASSUME Typed, FreshInv, NEW c \in Callers, NEW f \in Calls, Becomes(c, f),
         counter' = counter, f.pc # "create",
         \A i \in DOMAIN tasks' : i \in DOMAIN tasks \/ Made(i) \/ (At(c, "create") /\ i = call[c].id),
         f.pc \in {"edges", "target"} => Made(f.id),
         f.pc = "target" => Made(Head(f.todo)[2]),
         \A j \in DOMAIN f.sweep : Made(j)
  PROVE  FreshInv'
<1>1. /\ call' \in [Callers -> Calls]
      /\ call'[c] = f
      /\ \A d \in Callers \ {c} : call'[d] = call[d]
  BY Moves DEF Typed
<1>2. \A i : Made(i) => Made(i)'
  BY <1>1 DEF Made, At
<1>3. \A i : At(c, "create") /\ call[c].id = i => Made(i)'
  BY <1>1 DEF FreshInv, FreshCall, Made, At
<1>4. \A i \in DOMAIN tasks' : Made(i)'
  BY <1>2, <1>3 DEF FreshInv, FreshCall
<1>5. ASSUME NEW d \in Callers PROVE FreshCall(d)'
  <2>1. CASE d = c
    BY <1>1, <1>2, <2>1 DEF FreshCall, At, Made
  <2>2. CASE d # c
    BY <1>1, <1>2, <2>2 DEF FreshInv, FreshCall, At, Made
  <2>3. QED  BY <2>1, <2>2
<1>6. \A d, e \in Callers : At(d, "create")' /\ At(e, "create")' /\ d # e => call'[d].id # call'[e].id
  BY <1>1 DEF FreshInv, FreshCall, At
<1>7. QED  BY <1>4, <1>5, <1>6 DEF FreshInv, FreshCall

LEMMA FreshStarts ==
  ASSUME Typed, FreshInv, NEW c \in Callers, TakeId(c) \/ Read(c) \/ ReadToDelete(c)
  PROVE  FreshInv'
<1>1. TypeOK /\ counter \in 0..MaxTasks /\ tasks \in Hash
  BY DEF Typed, TypeOK
<1>2. CASE TakeId(c)
  <2> DEFINE f == [Idle EXCEPT !.pc = "create", !.id = counter + 1]
  <2>1. counter' = counter + 1 /\ counter' \in Nat /\ counter \in Nat /\ UNCHANGED tasks
    BY <1>1, <1>2, BoundsAssumption DEF TakeId
  <2>2. f.pc = "create" /\ f.id = counter' /\ DOMAIN f.sweep = {}
    BY <2>1 DEF Idle
  <2>3. call'[c] = f /\ \A d \in Callers \ {c} : call'[d] = call[d]
    BY <1>1, <1>2 DEF TakeId, Becomes, TypeOK
  <2> HIDE DEF f
  <2>4. \A i : Made(i) => Made(i)'
    BY <2>1, <2>2, <2>3 DEF Made, At
  <2>5. ASSUME NEW d \in Callers PROVE FreshCall(d)'
    <3>1. CASE d = c
      BY <2>1, <2>2, <2>3, <3>1 DEF FreshCall, At
    <3>2. CASE d # c
      BY <2>1, <2>3, <2>4, <3>2 DEF FreshInv, FreshCall, At, Made
    <3>3. QED  BY <3>1, <3>2
  <2>6. \A d, e \in Callers : At(d, "create")' /\ At(e, "create")' /\ d # e => call'[d].id # call'[e].id
    <3>1. \A d \in Callers : d # c /\ At(d, "create")' => call'[d].id \in 1..counter
      BY <2>3 DEF FreshInv, FreshCall, At
    <3>2. QED  BY <2>1, <2>2, <2>3, <3>1 DEF FreshInv, FreshCall, At
  <2>7. QED  BY <2>1, <2>4, <2>5, <2>6 DEF FreshInv, FreshCall
<1>3. CASE Read(c)
  <2>1. PICK i \in DOMAIN tasks, todo \in Requests :
          Becomes(c, [Idle EXCEPT !.pc = "edges", !.id = i, !.task = tasks[i], !.todo = todo])
    BY <1>3 DEF Read
  <2>2. todo \in Seq(Edges)
    BY SeqDef, BoundsAssumption DEF Requests
  <2> DEFINE f == [Idle EXCEPT !.pc = "edges", !.id = i, !.task = tasks[i], !.todo = todo]
  <2>3. f \in Calls
    BY <1>1, <2>2, HashGet, IdleType DEF Calls
  <2>4. f.pc = "edges" /\ f.id = i /\ DOMAIN f.sweep = {}
    BY DEF Idle
  <2>5. Made(i)
    BY <2>1 DEF FreshInv, FreshCall
  <2> HIDE DEF f
  <2>6. QED  BY <1>3, <2>1, <2>3, <2>4, <2>5, FreshMove DEF Read, f
<1>4. CASE ReadToDelete(c)
  <2>1. PICK i \in DOMAIN tasks : Becomes(c, [Idle EXCEPT !.pc = "delete", !.id = i])
    BY <1>4 DEF ReadToDelete
  <2> DEFINE f == [Idle EXCEPT !.pc = "delete", !.id = i]
  <2>2. f \in Calls
    BY <1>1, HashGet, IdleType DEF Calls
  <2>3. f.pc = "delete" /\ DOMAIN f.sweep = {}
    BY DEF Idle
  <2>4. QED  BY <1>4, <2>1, <2>2, <2>3, FreshMove DEF ReadToDelete
<1>5. QED  BY <1>2, <1>3, <1>4

LEMMA IdleFresh == Idle.pc = "idle" /\ DOMAIN Idle.sweep = {}
BY DEF Idle

LEMMA FreshSteps == ASSUME Typed, FreshInv, NEW c \in Callers, Step(c) PROVE FreshInv'
<1>1. /\ TypeOK /\ tasks \in Hash /\ call[c] \in Calls /\ Sound(call[c])
  BY DEF Typed, TypeOK
<1> DEFINE f == call[c]
           list == Head(f.todo)[1]
           j == Head(f.todo)[2]
<1>2. f.todo # <<>> => list \in Sides /\ j \in Ids /\ Tail(f.todo) \in Seq(Edges)
  BY <1>1, HeadTodo
<1>3. \A k \in DOMAIN f.sweep : Made(k)
  BY DEF FreshInv, FreshCall
<1>4. CASE Create(c)
  BY <1>1, <1>4, IdleType, IdleFresh, FreshMove DEF Create, Return, Save
<1>5. CASE EdgeRefused(c) \/ Deleted(c)
  BY <1>1, <1>5, IdleType, IdleFresh, FreshMove DEF EdgeRefused, Deleted, Return
<1>6. CASE Edge(c)
  <2>1. f.pc = "edges" /\ f.todo # <<>> /\ Exists(j) /\ UNCHANGED <<counter, tasks>>
    BY <1>6 DEF Edge, At
  <2>2. Listing(f.task, list, j) \in Task
    BY <1>1, <1>2, <2>1, ListingType DEF Calls
  <2>3. Other(list) \in Sides /\ f.id \in Ids /\ tasks[j] \in Task
    BY <1>1, <2>1, HashGet DEF Other, Sides, Sound, Exists
  <2>4. Listing(tasks[j], Other(list), f.id) \in Task
    BY <2>3, ListingType
  <2>5. Made(f.id) /\ Made(j)
    BY <2>1 DEF FreshInv, FreshCall, Exists, At
  <2> DEFINE e == [f EXCEPT !.task = Listing(f.task, list, j)]
             g == [e EXCEPT !.todo = Tail(f.todo)]
             h == [e EXCEPT !.pc = "target", !.target = Listing(tasks[j], Other(list), f.id)]
  <2>6. g \in Calls /\ g.pc = "edges" /\ g.id = f.id /\ g.sweep = f.sweep
    BY <1>1, <1>2, <2>1, <2>2 DEF Calls
  <2>7. h \in Calls /\ h.pc = "target" /\ h.id = f.id /\ h.sweep = f.sweep /\ h.todo = f.todo
    BY <1>1, <2>1, <2>2, <2>4 DEF Calls
  <2>8. Becomes(c, g) \/ Becomes(c, h)
    BY <1>6 DEF Edge
  <2> HIDE DEF e, g, h, f
  <2>9. QED  BY <1>1, <1>3, <2>1, <2>5, <2>6, <2>7, <2>8, FreshMove
<1>7. CASE SaveTarget(c)
  <2>1. f.pc = "target" /\ f.todo # <<>> /\ f.target \in Task /\ UNCHANGED counter
    BY <1>1, <1>7 DEF SaveTarget, At, Sound, Calls
  <2> DEFINE g == [f EXCEPT !.pc = "edges", !.todo = Tail(f.todo), !.target = NewTask]
  <2>2. g \in Calls /\ g.pc = "edges" /\ g.id = f.id /\ g.sweep = f.sweep
    BY <1>1, <1>2, <2>1, NewTaskType DEF Calls
  <2>3. Becomes(c, g) /\ DOMAIN tasks' = DOMAIN tasks \union {j}
    BY <1>7 DEF SaveTarget, Save
  <2>4. Made(f.id) /\ Made(j)
    BY <2>1 DEF FreshInv, FreshCall, At
  <2> HIDE DEF g, f
  <2>5. QED  BY <1>1, <1>3, <2>1, <2>2, <2>3, <2>4, FreshMove
<1>8. CASE SaveTask(c)
  <2>1. Made(f.id) /\ DOMAIN tasks' = DOMAIN tasks \union {f.id} /\ UNCHANGED counter
    BY <1>8 DEF SaveTask, FreshInv, FreshCall, At, Save
  <2>2. QED  BY <1>1, <1>8, <2>1, IdleType, IdleFresh, FreshMove DEF SaveTask, Return
<1>9. CASE Delete(c)
  <2> DEFINE g == [f EXCEPT !.pc = "list"]
  <2>1. g \in Calls /\ g.pc = "list" /\ g.sweep = f.sweep
    BY <1>1 DEF Calls
  <2>2. DOMAIN tasks' \subseteq DOMAIN tasks /\ Becomes(c, g) /\ UNCHANGED counter
    BY <1>9 DEF Delete, Drop, Restrict
  <2> HIDE DEF g, f
  <2>3. QED  BY <1>1, <1>3, <2>1, <2>2, FreshMove
<1>10. CASE List(c)
  <2> DEFINE naming == {k \in DOMAIN tasks : Refs(tasks[k], f.id)}
             sweep == [k \in naming |-> Forget(tasks[k], f.id)]
             g == [f EXCEPT !.pc = "sweep", !.sweep = sweep]
  <2>1. naming \subseteq Ids /\ \A k \in naming : Forget(tasks[k], f.id) \in Task
    BY <1>1, HashGet, ForgetType
  <2>2. sweep \in Hash /\ DOMAIN sweep \subseteq DOMAIN tasks
    <3> HIDE DEF naming
    <3>1. sweep \in Hash /\ DOMAIN sweep = naming
      BY <2>1 DEF Hash
    <3>2. QED BY <3>1 DEF naming
  <2>3. Becomes(c, g) /\ UNCHANGED <<counter, tasks>>
    BY <1>10 DEF List
  <2> HIDE DEF sweep
  <2>4. g \in Calls /\ g.pc = "sweep" /\ g.sweep = sweep
    BY <1>1, <2>2 DEF Calls
  <2>5. \A k \in DOMAIN sweep : Made(k)
    BY <2>2 DEF FreshInv, FreshCall
  <2> HIDE DEF g, f
  <2>6. QED  BY <1>1, <2>3, <2>4, <2>5, FreshMove
<1>11. CASE Sweep(c)
  <2>1. PICK k \in DOMAIN f.sweep :
          /\ Save(k, f.sweep[k])
          /\ Becomes(c, [f EXCEPT !.sweep = Restrict(f.sweep, DOMAIN f.sweep \ {k})])
    BY <1>11 DEF Sweep
  <2> DEFINE g == [f EXCEPT !.sweep = Restrict(f.sweep, DOMAIN f.sweep \ {k})]
  <2>2. Restrict(f.sweep, DOMAIN f.sweep \ {k}) \in Hash
    BY <1>1, RestrictType DEF Calls
  <2>3. g \in Calls /\ g.pc = "sweep" /\ g.sweep = Restrict(f.sweep, DOMAIN f.sweep \ {k})
    BY <1>1, <1>11, <2>2 DEF Calls, Sweep, At
  <2>4. DOMAIN g.sweep \subseteq DOMAIN f.sweep /\ DOMAIN tasks' = DOMAIN tasks \union {k}
    BY <2>1, <2>3 DEF Restrict, Save
  <2>5. Made(k) /\ Becomes(c, g) /\ UNCHANGED counter
    BY <1>3, <1>11, <2>1 DEF Sweep
  <2> HIDE DEF g, f
  <2>6. QED  BY <1>1, <1>3, <2>3, <2>4, <2>5, FreshMove
<1>12. QED
  BY <1>4, <1>5, <1>6, <1>7, <1>8, <1>9, <1>10, <1>11 DEF Step

LEMMA NextFresh == Typed /\ FreshInv /\ [Next]_vars => FreshInv'
<1>1. CASE UNCHANGED vars
  BY <1>1 DEF FreshInv, FreshCall, Made, At, vars
<1>2. CASE Next
  BY <1>2, FreshStarts, FreshSteps DEF Next
<1>3. QED  BY <1>1, <1>2

\* create_task stores into a field of the hash that is free, and no two calls
\* create the same id, however creations, updates and deletions interleave:
\* INCR is what makes the ids, and a deletion gives none back.
THEOREM FreshIds == Spec => []IdsAreFresh
<1>1. FreshInv => IdsAreFresh
  BY DEF FreshInv, FreshCall, IdsAreFresh, Made, Exists, At
<1>2. QED  BY <1>1, InitTyped, NextTyped, InitFresh, NextFresh, PTL DEF Spec

-----------------------------------------------------------------------------
(* Both sides of a dependency, while the calls come one at a time.          *)

\* No list of the task names another twice.
Tidy(task) == \A list \in Sides : IsInjective(task[list])

\* Outside of X, what is on one side is on the other.
Mirrored(X) ==
  \A i, j \in Ids \ X : \A list \in Sides : Lists(i, list, j) => Lists(j, Other(list), i)

\* The copy of c lists what lists its task, but for the head of what is to do
\* when its other side is still to be saved.
CopyInv(c, id, task, todo) ==
  /\ id \in DOMAIN tasks /\ Tidy(task) /\ IsInjective(todo)
  /\ \A list \in Sides : ~Contains(task[list], id)
  /\ \A list \in Sides, j \in Ids :
       /\ Lists(j, Other(list), id) => Contains(task[list], j)
       /\ Contains(task[list], j) => \/ Lists(j, Other(list), id)
                                     \/ At(c, "target") /\ Head(todo) = <<list, j>>
  /\ \A k \in DOMAIN todo : Contains(task[todo[k][1]], todo[k][2]) <=> k = 1 /\ At(c, "target")

TargetInv(id, todo, target) ==
  LET list == Head(todo)[1]
      j == Head(todo)[2]
  IN /\ j # id /\ j \in DOMAIN tasks
     /\ ~Contains(tasks[j][Other(list)], id)
     /\ target = Listing(tasks[j], Other(list), id)

SweepInv(id, sweep) ==
  /\ \A j \in DOMAIN tasks : Refs(tasks[j], id) => j \in DOMAIN sweep
  /\ \A j \in DOMAIN sweep : j \in DOMAIN tasks /\ sweep[j] = Forget(tasks[j], id)

CalmCall(c) ==
  LET id == call[c].id IN
  /\ At(c, "create") => Mirrored({}) /\ ~Exists(id)
  /\ At(c, "edges") \/ At(c, "target") => /\ Mirrored({id})
                                          /\ CopyInv(c, id, call[c].task, call[c].todo)
  /\ At(c, "target") => TargetInv(id, call[c].todo, call[c].target)
  /\ At(c, "delete") => Mirrored({})
  /\ At(c, "list") \/ At(c, "sweep") => Mirrored({id}) /\ ~Exists(id)
  /\ At(c, "sweep") => SweepInv(id, call[c].sweep)

\* As long as nothing untoward has happened.
Calm ==
  /\ \A i \in DOMAIN tasks : Tidy(tasks[i]) /\ \A list \in Sides : ~Contains(tasks[i][list], i)
  /\ \A c, d \in Callers : At(c, "idle") \/ At(d, "idle") \/ c = d
  /\ Quiet => Mirrored({})
  /\ \A c \in Callers : CalmCall(c)

CalmInv == seen = {} => Calm

LEMMA InitCalm == Init => CalmInv
BY DEF Init, CalmInv, Calm, CalmCall, Mirrored, Lists, Exists, Idle, At

LEMMA SidesOther ==
  \A list \in Sides : Other(list) \in Sides /\ Other(Other(list)) = list /\ Other(list) # list
BY DEF Sides, Other

LEMMA TaskLists == ASSUME NEW task \in Task, NEW list \in Sides PROVE task[list] \in Seq(Ids)
BY DEF Task, Sides

LEMMA ListingProperties ==
  ASSUME NEW task \in Task, NEW list \in Sides, NEW j \in Ids
  PROVE  /\ \A l \in Sides : \A x : Contains(Listing(task, list, j)[l], x)
                                  <=> Contains(task[l], x) \/ (l = list /\ x = j)
         /\ Tidy(task) /\ ~Contains(task[list], j) => Tidy(Listing(task, list, j))
<1>1. task[list] \in Seq(Ids) /\ Listing(task, list, j) \in Task
  BY TaskLists, ListingType
<1>2. Listing(task, list, j)[list] = Append(task[list], j)
  BY <1>1 DEF Listing, Task, Sides
<1>3. \A l \in Sides : l # list => Listing(task, list, j)[l] = task[l]
  BY <1>1 DEF Listing, Task, Sides
<1> DEFINE s == task[list]
           t == Append(s, j)
<1>4. /\ s \in Seq(Ids) /\ Len(s) \in Nat /\ Len(t) = Len(s) + 1
      /\ \A i \in 1..Len(s) : t[i] = s[i]
      /\ t[Len(s) + 1] = j
      /\ DOMAIN s = 1..Len(s) /\ DOMAIN t = 1..(Len(s) + 1)
  BY <1>1, AppendProperties, LenProperties
<1> HIDE DEF s, t
<1>5. \A x : Contains(t, x) <=> Contains(s, x) \/ x = j
  <2>1. ASSUME NEW x, Contains(t, x) PROVE Contains(s, x) \/ x = j
    BY <1>4, <2>1 DEF Contains
  <2>2. ASSUME NEW x, Contains(s, x) PROVE Contains(t, x)
    BY <1>4, <2>2 DEF Contains
  <2>3. Contains(t, j)
    BY <1>4, Len(s) + 1 \in 1..(Len(s) + 1) DEF Contains
  <2>4. QED  BY <2>1, <2>2, <2>3
<1>6. ASSUME IsInjective(s), ~Contains(s, j) PROVE IsInjective(t)
  <2>1. SUFFICES ASSUME NEW a \in 1..(Len(s) + 1), NEW b \in 1..(Len(s) + 1), t[a] = t[b]
                 PROVE  a = b
    BY <1>4 DEF IsInjective
  <2>2. \A i \in 1..Len(s) : s[i] # j
    BY <1>6 DEF Contains
  <2>3. QED  BY <1>4, <1>6, <2>1, <2>2 DEF IsInjective
<1>7. QED  BY <1>2, <1>3, <1>5, <1>6 DEF Tidy, s, t

LEMMA ForgetProperties ==
  ASSUME NEW task \in Task, Tidy(task), NEW i
  PROVE  /\ \A l \in Sides : \A x : Contains(Forget(task, i)[l], x) <=> Contains(task[l], x) /\ x # i
         /\ Tidy(Forget(task, i))
<1>1. \A l \in Sides : task[l] \in Seq(Ids) /\ IsInjective(task[l])
  BY TaskLists DEF Tidy
<1>2. \A l \in Sides : Forget(task, i)[l] = RemoveFirst(task[l], i)
  BY DEF Forget, Sides
<1>3. QED  BY <1>1, <1>2, RemoveFirstProperties DEF Tidy

\* Requests of other kinds than repeats and refusals leave no trace.
LEMMA CalmStart ==
  ASSUME NEW m, Start(m), seen' = {}
  PROVE  seen = {} /\ Quiet /\ m = {}
BY DEF Start

\* The only call that is under way moves.
LEMMA CalmMove ==
  ASSUME Typed, Calm, NEW c \in Callers, NEW f \in Calls, Becomes(c, f),
         \A d \in Callers \ {c} : At(d, "idle")
  PROVE  /\ call'[c] = f
         /\ \A d \in Callers \ {c} : call'[d].pc = "idle"
         /\ \A d, e \in Callers : At(d, "idle")' \/ At(e, "idle")' \/ d = e
         /\ \A d \in Callers \ {c} : CalmCall(d)'
         /\ Quiet' <=> f.pc = "idle"
<1>1. /\ call'[c] = f
      /\ \A d \in Callers \ {c} : call'[d] = call[d]
  BY Moves DEF Typed
<1>2. \A d \in Callers \ {c} : call'[d].pc = "idle"
  BY <1>1 DEF At
<1>3. \A d \in Callers \ {c} : CalmCall(d)'
  BY <1>2 DEF CalmCall, At
<1>4. QED  BY <1>1, <1>2, <1>3 DEF At, Quiet

LEMMA CalmStarts ==
  ASSUME Typed, FreshInv, CalmInv, NEW c \in Callers, TakeId(c) \/ Read(c) \/ ReadToDelete(c)
  PROVE  CalmInv'
<1>1. SUFFICES ASSUME seen' = {} PROVE Calm'
  BY DEF CalmInv
<1>2. PICK m : Start(m) /\ (Read(c) => \E i \in DOMAIN tasks, todo \in Requests :
                              /\ IsNew(tasks[i], todo)
                              /\ m = Repeats(todo)
                              /\ Becomes(c, [Idle EXCEPT !.pc = "edges", !.id = i,
                                               !.task = tasks[i], !.todo = todo]))
  BY DEF TakeId, Read, ReadToDelete
<1>3. seen = {} /\ Quiet /\ m = {} /\ Calm
  BY <1>1, <1>2, CalmStart DEF CalmInv
<1>4. /\ tasks \in Hash /\ Mirrored({}) /\ UNCHANGED tasks
      /\ \A d \in Callers \ {c} : At(d, "idle")
  BY <1>3 DEF Typed, TypeOK, Calm, Quiet, TakeId, Read, ReadToDelete
<1>5. Mirrored({})' /\ \A i : Mirrored({i})'
  BY <1>4 DEF Mirrored, Lists, Exists
<1>6. ASSUME NEW f \in Calls, Becomes(c, f), f.pc # "idle", CalmCall(c)' PROVE Calm'
  <2>1. /\ \A d, e \in Callers : At(d, "idle")' \/ At(e, "idle")' \/ d = e
        /\ \A d \in Callers \ {c} : CalmCall(d)'
        /\ ~Quiet'
    BY <1>3, <1>4, <1>6, CalmMove
  <2>2. \A d \in Callers : CalmCall(d)'
    BY <1>6, <2>1
  <2>3. \A i \in DOMAIN tasks' : Tidy(tasks'[i]) /\ \A list \in Sides : ~Contains(tasks'[i][list], i)
    BY <1>3, <1>4 DEF Calm
  <2>4. QED  BY <2>1, <2>2, <2>3 DEF Calm
<1>7. CASE TakeId(c)
  <2> DEFINE f == [Idle EXCEPT !.pc = "create", !.id = counter + 1]
  <2>1. counter + 1 \in Ids /\ counter \in Nat
    BY <1>7, BoundsAssumption DEF TakeId, Ids, Typed, TypeOK
  <2>2. f \in Calls
    BY <2>1, IdleType DEF Calls
  <2>3. f.pc = "create" /\ f.id = counter + 1 /\ Becomes(c, f)
    BY <1>7 DEF TakeId, Idle
  <2>4. call'[c] = f
    BY <2>2, <2>3, Moves DEF Typed
  <2>5. counter + 1 \notin DOMAIN tasks
    BY <2>1 DEF FreshInv, Made
  <2> HIDE DEF f
  <2>6. CalmCall(c)'
    BY <1>4, <1>5, <2>3, <2>4, <2>5 DEF CalmCall, At, Exists
  <2>7. QED  BY <1>6, <2>2, <2>3, <2>6
<1>8. CASE Read(c)
  <2>1. PICK i \in DOMAIN tasks, todo \in Requests :
          /\ IsNew(tasks[i], todo)
          /\ m = Repeats(todo)
          /\ Becomes(c, [Idle EXCEPT !.pc = "edges", !.id = i, !.task = tasks[i], !.todo = todo])
    BY <1>2, <1>8
  <2>2. todo \in Seq(Edges) /\ IsInjective(todo)
    <3>1. todo \in Seq(Edges)
      BY SeqDef, BoundsAssumption DEF Requests
    <3>2. Repeats(todo) = {}
      BY <1>3, <2>1
    <3>3. IsInjective(todo)
      BY <3>2 DEF Repeats
    <3>4. QED  BY <3>1, <3>3
  <2> DEFINE f == [Idle EXCEPT !.pc = "edges", !.id = i, !.task = tasks[i], !.todo = todo]
  <2>3. f \in Calls
    BY <1>4, <2>2, HashGet, IdleType DEF Calls
  <2>4. f.pc = "edges" /\ f.id = i /\ f.task = tasks[i] /\ f.todo = todo
    BY DEF Idle
  <2>5. call'[c] = f
    BY <2>1, <2>3, Moves DEF Typed
  <2>6. tasks[i] \in Task /\ i \in Ids /\ Tidy(tasks[i]) /\ \A list \in Sides : ~Contains(tasks[i][list], i)
    <3>1. tasks[i] \in Task /\ i \in Ids
      BY <1>4, HashGet
    <3>2. QED  BY <1>3, <2>1, <3>1 DEF Calm
  <2>7. \A list \in Sides, j \in Ids : Lists(j, Other(list), i) <=> Contains(tasks[i][list], j)
    <3>1. SUFFICES ASSUME NEW list \in Sides, NEW j \in Ids
                   PROVE  Lists(j, Other(list), i) <=> Contains(tasks[i][list], j)
      OBVIOUS
    <3>2. Lists(j, Other(list), i) => Lists(i, Other(Other(list)), j)
      BY <1>4, <2>6, SidesOther DEF Mirrored
    <3>3. Lists(i, list, j) => Lists(j, Other(list), i)
      BY <1>4, <2>6 DEF Mirrored
    <3>4. QED  BY <3>2, <3>3, SidesOther DEF Lists, Exists
  <2> HIDE DEF f
  <2>8. \A list \in Sides, j \in Ids : Lists(j, Other(list), i)' <=> Contains(tasks[i][list], j)
    BY <1>4, <2>7 DEF Lists, Exists
  <2>9. CalmCall(c)'
    BY <1>4, <1>5, <2>1, <2>2, <2>4, <2>5, <2>6, <2>8 DEF CalmCall, At, CopyInv, IsNew
  <2>10. QED  BY <1>6, <2>1, <2>3, <2>4, <2>9 DEF f
<1>9. CASE ReadToDelete(c)
  <2>1. PICK i \in DOMAIN tasks : Becomes(c, [Idle EXCEPT !.pc = "delete", !.id = i])
    BY <1>9 DEF ReadToDelete
  <2> DEFINE f == [Idle EXCEPT !.pc = "delete", !.id = i]
  <2>2. f \in Calls
    BY <1>4, HashGet, IdleType DEF Calls
  <2>3. f.pc = "delete" /\ call'[c] = f
    BY <2>1, <2>2, Moves DEF Idle, Typed
  <2> HIDE DEF f
  <2>4. CalmCall(c)'
    BY <1>5, <2>3 DEF CalmCall, At
  <2>5. QED  BY <1>6, <2>1, <2>2, <2>3, <2>4 DEF f
<1>10. QED  BY <1>7, <1>8, <1>9

\* The step of the only call under way: what is to be shown of it.
LEMMA CalmStep ==
  ASSUME Typed, Calm, NEW c \in Callers, ~At(c, "idle"), NEW f \in Calls, Becomes(c, f),
         \A i \in DOMAIN tasks' : Tidy(tasks'[i]) /\ \A list \in Sides : ~Contains(tasks'[i][list], i),
         f.pc = "idle" => Mirrored({})',
         call'[c] = f => CalmCall(c)'
  PROVE  Calm'
<1>1. \A d \in Callers \ {c} : At(d, "idle")
  BY DEF Calm
<1>2. /\ call'[c] = f
      /\ \A d, e \in Callers : At(d, "idle")' \/ At(e, "idle")' \/ d = e
      /\ \A d \in Callers \ {c} : CalmCall(d)'
      /\ Quiet' <=> f.pc = "idle"
  BY <1>1, CalmMove
<1>3. QED  BY <1>2 DEF Calm

LEMMA IdleCalm == ASSUME NEW c \in Callers PROVE call'[c] = Idle => CalmCall(c)'
BY DEF CalmCall, At, Idle

LEMMA CalmCreates ==
  ASSUME Typed, Calm, NEW c \in Callers, Create(c) PROVE Calm'
<1>1. /\ tasks \in Hash /\ Mirrored({}) /\ ~Exists(call[c].id) /\ ~At(c, "idle")
      /\ Save(call[c].id, NewTask) /\ Becomes(c, Idle)
  BY DEF Typed, TypeOK, Calm, CalmCall, Create, At, Return
<1> DEFINE id == call[c].id
<1>2. /\ DOMAIN tasks' = DOMAIN tasks \union {id}
      /\ tasks'[id] = NewTask
      /\ \A i \in DOMAIN tasks : i # id /\ tasks'[i] = tasks[i]
  BY <1>1 DEF Save, Exists
<1>3. /\ Tidy(NewTask)
      /\ \A list \in Sides, x \in Ids : ~Contains(NewTask[list], x)
      /\ \A list \in Sides : ~Contains(NewTask[list], id)
  BY DEF Tidy, Sides, NewTask, IsInjective, Contains
<1> HIDE DEF id
<1>4. Mirrored({})'
  <2>1. SUFFICES ASSUME NEW i \in Ids, NEW j \in Ids, NEW list \in Sides, Lists(i, list, j)'
                 PROVE  Lists(j, Other(list), i)'
    BY DEF Mirrored
  <2>2. i # id /\ Lists(i, list, j)
    BY <1>2, <1>3, <2>1 DEF Lists, Exists
  <2>3. Lists(j, Other(list), i)
    BY <1>1, <2>2 DEF Mirrored
  <2>4. QED  BY <1>2, <2>3 DEF Lists, Exists
<1>5. \A i \in DOMAIN tasks' : Tidy(tasks'[i]) /\ \A list \in Sides : ~Contains(tasks'[i][list], i)
  BY <1>2, <1>3 DEF Calm
<1>6. QED  BY <1>1, <1>4, <1>5, IdleType, IdleCalm, CalmStep

\* In calm times a dependency that is to be added is on neither side.
LEMMA CalmEdge ==
  ASSUME Typed, Calm, NEW c \in Callers, Edge(c) PROVE Calm'
<1>0. PICK f \in Calls : f = call[c]
  BY DEF Typed, TypeOK
<1> DEFINE list == Head(f.todo)[1]
           j == Head(f.todo)[2]
           task == Listing(f.task, list, j)
<1>a. PICK target : target = Listing(tasks[j], Other(list), f.id)
  OBVIOUS
<1> DEFINE g == [f EXCEPT !.task = task, !.pc = "target", !.target = target]
<1>1. /\ f \in Calls /\ Sound(f) /\ tasks \in Hash /\ ~At(c, "idle") /\ f.pc = "edges"
      /\ f.todo # <<>> /\ j # f.id /\ j \in DOMAIN tasks /\ UNCHANGED tasks
  BY <1>0 DEF Typed, TypeOK, Edge, At, Exists
<1>2. /\ Mirrored({f.id}) /\ CopyInv(c, f.id, f.task, f.todo)
  BY <1>0, <1>1 DEF Calm, CalmCall, At
<1>3. /\ list \in Sides /\ Other(list) \in Sides /\ j \in Ids /\ f.id \in Ids /\ f.task \in Task
      /\ f.todo \in Seq(Edges) /\ tasks[j] \in Task
  BY <1>1, HeadTodo, SidesOther, HashGet DEF Sound, Calls
<1>4. Head(f.todo) = f.todo[1] /\ 1 \in DOMAIN f.todo /\ f.todo[1] = <<list, j>>
  BY <1>1, <1>3 DEF Edges
<1>5. ~Contains(f.task[list], j)
  BY <1>0, <1>1, <1>2, <1>4 DEF CopyInv, At
<1>6. ~Contains(tasks[j][Other(list)], f.id)
  BY <1>1, <1>2, <1>3, <1>5 DEF CopyInv, Lists, Exists
<1>7. Becomes(c, g)
  <2>1. Becomes(c, [[f EXCEPT !.task = task] EXCEPT !.pc = "target", !.target = target])
    BY <1>0, <1>6, <1>a DEF Edge
  <2>2. [[f EXCEPT !.task = task] EXCEPT !.pc = "target", !.target = target] = g
    BY <1>1 DEF Calls
  <2>3. QED  BY <2>1, <2>2
<1>8. task \in Task /\ target \in Task
  BY <1>3, <1>a, ListingType
<1>9. /\ g \in Calls /\ g.pc = "target" /\ g.id = f.id /\ g.todo = f.todo /\ g.task = task
      /\ g.target = target
  <2> HIDE DEF task
  <2> QED BY <1>1, <1>8 DEF Calls
<1>10. /\ \A l \in Sides : \A x : Contains(task[l], x) <=> Contains(f.task[l], x) \/ (l = list /\ x = j)
       /\ Tidy(task)
  <2>1. Tidy(f.task)
    BY <1>2 DEF CopyInv
  <2> HIDE DEF list, j
  <2>2. QED  BY <1>3, <1>5, <2>1, ListingProperties
<1>11. \A k \in DOMAIN f.todo : k # 1 => f.todo[k] # <<list, j>>
  BY <1>2, <1>4 DEF CopyInv, IsInjective
<1>12. \A k \in DOMAIN f.todo : f.todo[k] = <<f.todo[k][1], f.todo[k][2]>> /\ f.todo[k][1] \in Sides
  BY <1>3 DEF Edges, Sides
<1>13. /\ Mirrored({f.id})' /\ \A l, x, y : Lists(x, l, y)' <=> Lists(x, l, y)
  BY <1>1, <1>2 DEF Mirrored, Lists, Exists
<1>14. TargetInv(f.id, f.todo, target)'
  BY <1>1, <1>6, <1>a DEF TargetInv
<1> HIDE DEF g, task, list, j
<1>15. ASSUME call'[c] = g PROVE CopyInv(c, f.id, task, f.todo)'
  <2>1. f.id \in DOMAIN tasks' /\ IsInjective(f.todo)
    BY <1>1, <1>2 DEF CopyInv
  <2>2. \A l \in Sides : ~Contains(task[l], f.id)
    BY <1>1, <1>2, <1>10 DEF CopyInv
  <2>3. At(c, "target")'
    BY <1>9, <1>15 DEF At
  <2>4. ASSUME NEW l \in Sides, NEW x \in Ids
        PROVE  /\ Lists(x, Other(l), f.id)' => Contains(task[l], x)
               /\ Contains(task[l], x) => Lists(x, Other(l), f.id)' \/ Head(f.todo) = <<l, x>>
    BY <1>0, <1>1, <1>2, <1>4, <1>10, <1>13 DEF CopyInv, At
  <2>5. ASSUME NEW k \in DOMAIN f.todo, Contains(task[f.todo[k][1]], f.todo[k][2]) PROVE k = 1
    <3>1. ~Contains(f.task[f.todo[k][1]], f.todo[k][2])
      BY <1>0, <1>1, <1>2 DEF CopyInv, At
    <3>2. f.todo[k][1] = list /\ f.todo[k][2] = j
      BY <1>10, <1>12, <2>5, <3>1
    <3>3. QED  BY <1>11, <1>12, <3>2
  <2>6. Contains(task[f.todo[1][1]], f.todo[1][2])
    BY <1>3, <1>4, <1>10
  <2>7. QED  BY <1>10, <2>1, <2>2, <2>3, <2>4, <2>5, <2>6 DEF CopyInv
<1>16. ASSUME call'[c] = g PROVE CalmCall(c)'
  BY <1>9, <1>13, <1>14, <1>15, <1>16 DEF CalmCall, At
<1>17. \A i \in DOMAIN tasks' : Tidy(tasks'[i]) /\ \A l \in Sides : ~Contains(tasks'[i][l], i)
  BY <1>1 DEF Calm
<1>18. QED  BY <1>1, <1>7, <1>9, <1>16, <1>17, CalmStep

LEMMA CalmTarget ==
  ASSUME Typed, Calm, NEW c \in Callers, SaveTarget(c) PROVE Calm'
<1>0. PICK f \in Calls : f = call[c]
  BY DEF Typed, TypeOK
<1> DEFINE list == Head(f.todo)[1]
           j == Head(f.todo)[2]
           g == [f EXCEPT !.pc = "edges", !.todo = Tail(f.todo), !.target = NewTask]
<1>1. /\ f \in Calls /\ Sound(f) /\ tasks \in Hash /\ ~At(c, "idle") /\ f.pc = "target"
      /\ f.todo # <<>> /\ Save(j, f.target) /\ Becomes(c, g)
  BY <1>0 DEF Typed, TypeOK, SaveTarget, At, Sound
<1>2. /\ Mirrored({f.id}) /\ CopyInv(c, f.id, f.task, f.todo) /\ TargetInv(f.id, f.todo, f.target)
  BY <1>0, <1>1 DEF Calm, CalmCall, At
<1>3. /\ list \in Sides /\ Other(list) \in Sides /\ j \in Ids /\ f.id \in Ids /\ f.task \in Task
      /\ f.todo \in Seq(Edges) /\ Tail(f.todo) \in Seq(Edges)
      /\ j # f.id /\ j \in DOMAIN tasks /\ tasks[j] \in Task
      /\ f.target = Listing(tasks[j], Other(list), f.id)
      /\ ~Contains(tasks[j][Other(list)], f.id)
  BY <1>1, <1>2, HeadTodo, SidesOther, HashGet DEF Sound, Calls, TargetInv
<1>4. /\ Head(f.todo) = f.todo[1] /\ f.todo[1] = <<list, j>> /\ 1 \in DOMAIN f.todo
      /\ \A k \in DOMAIN Tail(f.todo) : k + 1 \in DOMAIN f.todo /\ Tail(f.todo)[k] = f.todo[k + 1] /\ k \in Nat \ {0}
  BY <1>1, <1>3 DEF Edges
<1>5. /\ g \in Calls /\ g.pc = "edges" /\ g.id = f.id /\ g.todo = Tail(f.todo) /\ g.task = f.task
  BY <1>1, <1>3, NewTaskType DEF Calls
<1>6. /\ DOMAIN tasks' = DOMAIN tasks
      /\ tasks'[j] = f.target
      /\ \A i \in DOMAIN tasks : i # j => tasks'[i] = tasks[i]
  BY <1>1, <1>3 DEF Save
<1>7. /\ \A l \in Sides : \A x : Contains(f.target[l], x) <=> Contains(tasks[j][l], x)
                                                    \/ (l = Other(list) /\ x = f.id)
      /\ Tidy(f.target)
  <2>1. Tidy(tasks[j])
    BY <1>3 DEF Calm
  <2> HIDE DEF list, j
  <2>2. PICK t \in Task, l \in Sides : t = tasks[j] /\ l = Other(list)
    BY <1>3
  <2>3. f.target = Listing(t, l, f.id) /\ Tidy(t) /\ ~Contains(t[l], f.id)
    BY <1>3, <2>1, <2>2
  <2>4. Tidy(f.target)
    <3>1. f.id \in Ids
      BY <1>3
    <3>2. QED  BY <3>1, <2>3, ListingProperties
  <2>5. ASSUME NEW k \in Sides, NEW x
        PROVE  Contains(Listing(t, l, f.id)[k], x) <=> Contains(t[k], x) \/ (k = l /\ x = f.id)
    <3>1. f.id \in Ids
      BY <1>3
    <3>2. QED  BY <3>1, ListingProperties
  <2>6. QED  BY <2>2, <2>3, <2>4, <2>5
<1> HIDE DEF g, list, j
<1>8. \A x, y : \A l \in Sides :
        Lists(x, l, y)' <=> Lists(x, l, y) \/ (x = j /\ l = Other(list) /\ y = f.id)
  BY <1>3, <1>6, <1>7 DEF Lists, Exists
<1>9. Mirrored({f.id})'
  BY <1>2, <1>8, SidesOther DEF Mirrored
<1>10. ASSUME call'[c] = g PROVE CopyInv(c, f.id, f.task, Tail(f.todo))'
  <2>1. /\ f.id \in DOMAIN tasks' /\ Tidy(f.task) /\ \A l \in Sides : ~Contains(f.task[l], f.id)
    BY <1>2, <1>6 DEF CopyInv
  <2>2. IsInjective(Tail(f.todo))
    BY <1>2, <1>4 DEF CopyInv, IsInjective
  <2>3. ASSUME NEW l \in Sides, NEW x \in Ids
        PROVE  /\ Lists(x, Other(l), f.id)' => Contains(f.task[l], x)
               /\ Contains(f.task[l], x) => Lists(x, Other(l), f.id)'
    <3>1. /\ Lists(x, Other(l), f.id) => Contains(f.task[l], x)
          /\ Contains(f.task[l], x) => Lists(x, Other(l), f.id) \/ (l = list /\ x = j)
          /\ Contains(f.task[list], j)
      <4>1. Contains(f.task[list], j)
        BY <1>0, <1>1, <1>2, <1>4 DEF CopyInv, At
      <4>2. QED  BY <1>2, <1>4, <4>1 DEF CopyInv
    <3>2. Other(l) = Other(list) => l = list
      BY <1>3, SidesOther
    <3>3. QED  BY <1>8, <3>1, <3>2, SidesOther
  <2>4. \A k \in DOMAIN Tail(f.todo) : ~Contains(f.task[Tail(f.todo)[k][1]], Tail(f.todo)[k][2])
    BY <1>2, <1>4 DEF CopyInv
  <2>5. ~At(c, "target")'
    BY <1>5, <1>10 DEF At
  <2>6. QED  BY <2>1, <2>2, <2>3, <2>4, <2>5 DEF CopyInv
<1>11. ASSUME call'[c] = g PROVE CalmCall(c)'
  BY <1>5, <1>9, <1>10, <1>11 DEF CalmCall, At
<1>12. \A i \in DOMAIN tasks' : Tidy(tasks'[i]) /\ \A l \in Sides : ~Contains(tasks'[i][l], i)
  <2>1. SUFFICES ASSUME NEW i \in DOMAIN tasks
                 PROVE  Tidy(tasks'[i]) /\ \A l \in Sides : ~Contains(tasks'[i][l], i)
    BY <1>6
  <2>2. CASE i = j
    BY <1>3, <1>6, <1>7, <2>2 DEF Calm
  <2>3. CASE i # j
    BY <1>6, <2>3 DEF Calm
  <2>4. QED  BY <2>2, <2>3
<1>13. QED  BY <1>1, <1>5, <1>11, <1>12, CalmStep

LEMMA CalmSave ==
  ASSUME Typed, Calm, NEW c \in Callers, SaveTask(c) PROVE Calm'
<1>0. PICK f \in Calls : f = call[c]
  BY DEF Typed, TypeOK
<1>1. /\ f \in Calls /\ Sound(f) /\ tasks \in Hash /\ ~At(c, "idle") /\ f.pc = "edges"
      /\ Save(f.id, f.task) /\ Becomes(c, Idle)
  BY <1>0 DEF Typed, TypeOK, SaveTask, At, Return
<1>2. /\ Mirrored({f.id}) /\ CopyInv(c, f.id, f.task, f.todo) /\ f.id \in Ids
  BY <1>0, <1>1 DEF Calm, CalmCall, At, Sound
<1>3. /\ DOMAIN tasks' = DOMAIN tasks
      /\ tasks'[f.id] = f.task
      /\ \A i \in DOMAIN tasks : i # f.id => tasks'[i] = tasks[i]
  BY <1>1, <1>2 DEF Save, CopyInv
<1>4. \A x \in Ids : \A l \in Sides : Lists(x, Other(l), f.id) <=> Contains(f.task[l], x)
  BY <1>0, <1>1, <1>2 DEF CopyInv, At
<1>5. Mirrored({})'
  <2>1. SUFFICES ASSUME NEW i \in Ids, NEW x \in Ids, NEW l \in Sides, Lists(i, l, x)'
                 PROVE  Lists(x, Other(l), i)'
    BY DEF Mirrored
  <2>2. CASE i = f.id
    <3>1. Contains(f.task[l], x) /\ x # f.id
      BY <1>2, <1>3, <2>1, <2>2 DEF Lists, CopyInv
    <3>2. Lists(x, Other(l), f.id)
      BY <1>4, <3>1
    <3>3. QED  BY <1>3, <2>2, <3>1, <3>2 DEF Lists, Exists
  <2>3. CASE i # f.id /\ x = f.id
    <3>1. Lists(i, Other(Other(l)), f.id)
      BY <1>3, <2>1, <2>3, SidesOther DEF Lists, Exists
    <3>2. Contains(f.task[Other(l)], i)
      BY <1>4, <3>1, SidesOther
    <3>3. QED  BY <1>2, <1>3, <2>3, <3>2 DEF Lists, Exists, CopyInv
  <2>4. CASE i # f.id /\ x # f.id
    <3>1. Lists(x, Other(l), i)
      BY <1>2, <1>3, <2>1, <2>4 DEF Mirrored, Lists, Exists
    <3>2. QED  BY <1>3, <2>4, <3>1 DEF Lists, Exists
  <2>5. QED  BY <2>2, <2>3, <2>4
<1>6. \A i \in DOMAIN tasks' : Tidy(tasks'[i]) /\ \A l \in Sides : ~Contains(tasks'[i][l], i)
  BY <1>2, <1>3 DEF Calm, CopyInv
<1>7. QED  BY <1>1, <1>5, <1>6, IdleType, IdleCalm, CalmStep

LEMMA CalmDelete ==
  ASSUME Typed, Calm, NEW c \in Callers, Delete(c) PROVE Calm'
<1>0. PICK f \in Calls : f = call[c]
  BY DEF Typed, TypeOK
<1> DEFINE g == [f EXCEPT !.pc = "list"]
<1>1. /\ f \in Calls /\ tasks \in Hash /\ ~At(c, "idle") /\ f.pc = "delete"
      /\ Drop(f.id) /\ Becomes(c, g)
  BY <1>0 DEF Typed, TypeOK, Delete, At
<1>2. Mirrored({})
  BY <1>0, <1>1 DEF Calm, CalmCall, At
<1>3. /\ DOMAIN tasks' = DOMAIN tasks \ {f.id}
      /\ \A i \in DOMAIN tasks' : tasks'[i] = tasks[i]
  BY <1>1 DEF Drop, Restrict
<1>4. g \in Calls /\ g.pc = "list" /\ g.id = f.id
  BY <1>1 DEF Calls
<1> HIDE DEF g
<1>5. Mirrored({f.id})' /\ ~Exists(f.id)'
  BY <1>2, <1>3 DEF Mirrored, Lists, Exists
<1>6. ASSUME call'[c] = g PROVE CalmCall(c)'
  BY <1>4, <1>5, <1>6 DEF CalmCall, At
<1>7. \A i \in DOMAIN tasks' : Tidy(tasks'[i]) /\ \A l \in Sides : ~Contains(tasks'[i][l], i)
  BY <1>3 DEF Calm
<1>8. QED  BY <1>1, <1>4, <1>6, <1>7, CalmStep

LEMMA CalmList ==
  ASSUME Typed, Calm, NEW c \in Callers, List(c) PROVE Calm'
<1>0. PICK f \in Calls : f = call[c]
  BY DEF Typed, TypeOK
<1>a. PICK naming, sweep : /\ naming = {k \in DOMAIN tasks : Refs(tasks[k], f.id)}
                           /\ sweep = [k \in naming |-> Forget(tasks[k], f.id)]
  OBVIOUS
<1> DEFINE g == [f EXCEPT !.pc = "sweep", !.sweep = sweep]
<1>1. /\ f \in Calls /\ tasks \in Hash /\ ~At(c, "idle") /\ f.pc = "list"
      /\ Becomes(c, g) /\ UNCHANGED tasks
  BY <1>0, <1>a DEF Typed, TypeOK, List, At
<1>2. Mirrored({f.id}) /\ ~Exists(f.id)
  BY <1>0, <1>1 DEF Calm, CalmCall, At
<1>3. naming \subseteq Ids /\ \A k \in naming : Forget(tasks[k], f.id) \in Task
  BY <1>1, <1>a, HashGet, ForgetType
<1>4. sweep \in Hash
  BY <1>3, <1>a DEF Hash
<1>5. SweepInv(f.id, sweep)'
  BY <1>1, <1>a DEF SweepInv
<1>6. g \in Calls /\ g.pc = "sweep" /\ g.id = f.id /\ g.sweep = sweep
  BY <1>1, <1>4 DEF Calls
<1> HIDE DEF g
<1>7. Mirrored({f.id})' /\ ~Exists(f.id)'
  BY <1>1, <1>2 DEF Mirrored, Lists, Exists
<1>8. ASSUME call'[c] = g PROVE CalmCall(c)'
  BY <1>5, <1>6, <1>7, <1>8 DEF CalmCall, At
<1>9. \A i \in DOMAIN tasks' : Tidy(tasks'[i]) /\ \A l \in Sides : ~Contains(tasks'[i][l], i)
  BY <1>1 DEF Calm
<1>10. QED  BY <1>1, <1>6, <1>8, <1>9, CalmStep

LEMMA CalmSweep ==
  ASSUME Typed, Calm, NEW c \in Callers, Sweep(c) PROVE Calm'
<1>0. PICK f \in Calls : f = call[c]
  BY DEF Typed, TypeOK
<1>1. /\ f \in Calls /\ tasks \in Hash /\ ~At(c, "idle") /\ f.pc = "sweep" /\ f.sweep \in Hash
  BY <1>0 DEF Typed, TypeOK, Sweep, At, Calls
<1>2. Mirrored({f.id}) /\ ~Exists(f.id) /\ SweepInv(f.id, f.sweep)
  BY <1>0, <1>1 DEF Calm, CalmCall, At
<1>3. PICK k \in DOMAIN f.sweep :
        /\ Save(k, f.sweep[k])
        /\ Becomes(c, [f EXCEPT !.sweep = Restrict(f.sweep, DOMAIN f.sweep \ {k})])
  BY <1>0 DEF Sweep
<1> DEFINE rest == Restrict(f.sweep, DOMAIN f.sweep \ {k})
           g == [f EXCEPT !.sweep = rest]
<1>4. rest \in Hash /\ DOMAIN rest = DOMAIN f.sweep \ {k} /\ \A i \in DOMAIN rest : rest[i] = f.sweep[i]
  BY <1>1, RestrictType DEF Restrict
<1>5. k \in DOMAIN tasks /\ k # f.id /\ f.sweep[k] = Forget(tasks[k], f.id) /\ tasks[k] \in Task
  BY <1>1, <1>2, HashGet DEF SweepInv, Exists
<1>6. /\ DOMAIN tasks' = DOMAIN tasks
      /\ tasks'[k] = Forget(tasks[k], f.id)
      /\ \A i \in DOMAIN tasks : i # k => tasks'[i] = tasks[i]
  BY <1>3, <1>5 DEF Save
<1>7. /\ \A l \in Sides : \A x : Contains(Forget(tasks[k], f.id)[l], x) <=> Contains(tasks[k][l], x) /\ x # f.id
      /\ Tidy(Forget(tasks[k], f.id))
  BY <1>5, ForgetProperties DEF Calm
<1>8. ~Refs(tasks'[k], f.id)
  BY <1>6, <1>7 DEF Refs, Sides
<1> HIDE DEF rest
<1>9. g \in Calls /\ g.pc = "sweep" /\ g.id = f.id /\ g.sweep = rest
  BY <1>1, <1>4 DEF Calls
<1>10. Becomes(c, g)
  BY <1>3 DEF rest
<1> HIDE DEF g
<1>11. \A x, y : \A l \in Sides : y # f.id => (Lists(x, l, y)' <=> Lists(x, l, y))
  BY <1>6, <1>7 DEF Lists, Exists
<1>12. Mirrored({f.id})' /\ ~Exists(f.id)'
  BY <1>2, <1>6, <1>11, SidesOther DEF Mirrored, Exists
<1>13. SweepInv(f.id, rest)'
  <2>1. ASSUME NEW i \in DOMAIN tasks', Refs(tasks'[i], f.id) PROVE i \in DOMAIN rest
    BY <1>2, <1>4, <1>6, <1>8, <2>1 DEF SweepInv
  <2>2. ASSUME NEW i \in DOMAIN rest PROVE i \in DOMAIN tasks' /\ rest[i] = Forget(tasks'[i], f.id)
    BY <1>2, <1>4, <1>6 DEF SweepInv
  <2>3. QED  BY <2>1, <2>2 DEF SweepInv
<1>14. ASSUME call'[c] = g PROVE CalmCall(c)'
  BY <1>9, <1>12, <1>13, <1>14 DEF CalmCall, At
<1>15. \A i \in DOMAIN tasks' : Tidy(tasks'[i]) /\ \A l \in Sides : ~Contains(tasks'[i][l], i)
  BY <1>6, <1>7 DEF Calm
<1>16. QED  BY <1>1, <1>9, <1>10, <1>14, <1>15, CalmStep

LEMMA CalmDeleted ==
  ASSUME Typed, Calm, NEW c \in Callers, Deleted(c) PROVE Calm'
<1>0. PICK f \in Calls : f = call[c]
  BY DEF Typed, TypeOK
<1>1. /\ tasks \in Hash /\ ~At(c, "idle") /\ f.pc = "sweep" /\ DOMAIN f.sweep = {}
      /\ Becomes(c, Idle) /\ UNCHANGED tasks
  BY <1>0 DEF Typed, TypeOK, Deleted, At, Return
<1>2. Mirrored({f.id}) /\ ~Exists(f.id) /\ SweepInv(f.id, f.sweep)
  BY <1>0, <1>1 DEF Calm, CalmCall, At
<1>3. \A x : \A l \in Sides : ~Lists(x, l, f.id) /\ ~Lists(f.id, l, x)
  BY <1>1, <1>2 DEF SweepInv, Refs, Sides, Lists, Exists
<1>4. Mirrored({})
  BY <1>2, <1>3 DEF Mirrored
<1>5. Mirrored({})'
  BY <1>1, <1>4 DEF Mirrored, Lists, Exists
<1>6. \A i \in DOMAIN tasks' : Tidy(tasks'[i]) /\ \A l \in Sides : ~Contains(tasks'[i][l], i)
  BY <1>1 DEF Calm
<1>7. QED  BY <1>1, <1>5, <1>6, IdleType, IdleCalm, CalmStep

LEMMA NextCalm == Typed /\ FreshInv /\ CalmInv /\ [Next]_vars => CalmInv'
<1>1. CASE UNCHANGED vars
  BY <1>1 DEF CalmInv, Calm, CalmCall, CopyInv, TargetInv, SweepInv, Mirrored, Lists, Exists,
              Quiet, At, vars
<1>2. ASSUME Typed, FreshInv, CalmInv, Next PROVE CalmInv'
  <2>1. PICK c \in Callers : TakeId(c) \/ Read(c) \/ ReadToDelete(c) \/ Step(c)
    BY <1>2 DEF Next
  <2>2. CASE TakeId(c) \/ Read(c) \/ ReadToDelete(c)
    BY <1>2, <2>2, CalmStarts
  <2>3. CASE EdgeRefused(c)
    BY <2>3 DEF EdgeRefused, CalmInv
  <2>4. CASE Step(c) /\ ~EdgeRefused(c)
    <3>1. seen' = seen
      BY <2>4 DEF Step, Create, Edge, SaveTarget, SaveTask, Delete, List, Sweep, Deleted
    <3>2. SUFFICES ASSUME seen = {}, Calm PROVE Calm'
      BY <1>2, <3>1 DEF CalmInv
    <3>3. QED
      BY <1>2, <2>4, <3>2, CalmCreates, CalmEdge, CalmTarget, CalmSave, CalmDelete, CalmList,
         CalmSweep, CalmDeleted DEF Step
  <2>5. QED  BY <2>1, <2>2, <2>3, <2>4
<1>3. QED  BY <1>1, <1>2

\* Calls that come one at a time, repeat no dependency and are never refused
\* leave the two sides of every dependency in agreement: only the task of the
\* call under way may disagree with another, over the several saves it takes.
THEOREM AsymmetryStaysLocal == Spec => []AsymmetryIsLocal
<1>1. Typed /\ CalmInv => AsymmetryIsLocal
  <2>1. SUFFICES ASSUME Typed, Calm, NEW i \in Ids, NEW j \in Ids, OneSided(i, j)
                 PROVE  \E c \in Callers : ~At(c, "idle") /\ call[c].id \in {i, j}
    BY DEF CalmInv, AsymmetryIsLocal
  <2>2. PICK list \in Sides : Lists(i, list, j) /\ ~Lists(j, Other(list), i)
    BY <2>1 DEF OneSided, Sides
  <2>3. ~Mirrored({})
    BY <2>2 DEF Mirrored
  <2>4. PICK c \in Callers : ~At(c, "idle")
    BY <2>1, <2>3 DEF Calm, Quiet
  <2>5. call[c] \in Calls /\ CalmCall(c)
    BY <2>1 DEF Typed, TypeOK, Calm
  <2>6. Mirrored({call[c].id})
    BY <2>3, <2>4, <2>5 DEF CalmCall, Calls, At
  <2>7. call[c].id \in {i, j}
    BY <2>2, <2>6 DEF Mirrored
  <2>8. QED  BY <2>4, <2>7
<1>2. QED
  BY <1>1, InitTyped, NextTyped, InitFresh, NextFresh, InitCalm, NextCalm, PTL DEF Spec

\* While the calls come one at a time a task that was deleted stays deleted:
\* what they save is there already.  (Of calls that overlap it is not true: the
\* run TaskResurrected.)
THEOREM SerialDeletesStay == Spec => [][seen' = {} => OnlyCreateAdds]_vars
<1>1. Typed /\ CalmInv /\ [Next]_vars => [seen' = {} => OnlyCreateAdds]_vars
  <2>1. SUFFICES ASSUME Typed, CalmInv, Next, seen' = {}, NEW i \in DOMAIN tasks', i \notin DOMAIN tasks
                 PROVE  \E c \in Callers : At(c, "create") /\ call[c].id = i
    BY DEF OnlyCreateAdds
  <2>2. PICK c \in Callers : TakeId(c) \/ Read(c) \/ ReadToDelete(c) \/ Step(c)
    BY <2>1 DEF Next
  <2>3. tasks' # tasks
    BY <2>1
  <2>4. Create(c) \/ SaveTarget(c) \/ SaveTask(c) \/ Delete(c) \/ Sweep(c)
    BY <2>2, <2>3 DEF TakeId, Read, ReadToDelete, Step, EdgeRefused, Edge, List, Deleted
  <2>5. CalmCall(c)
    BY <2>1, <2>4 DEF CalmInv, Calm, Create, SaveTarget, SaveTask, Delete, Sweep
  <2>6. CASE Create(c)
    BY <2>1, <2>6 DEF Create, Save
  <2>7. CASE SaveTarget(c)
    BY <2>1, <2>5, <2>7 DEF SaveTarget, Save, CalmCall, TargetInv
  <2>8. CASE SaveTask(c)
    BY <2>1, <2>5, <2>8 DEF SaveTask, Save, CalmCall, CopyInv
  <2>9. CASE Delete(c)
    BY <2>1, <2>9 DEF Delete, Drop, Restrict
  <2>10. CASE Sweep(c)
    BY <2>1, <2>5, <2>10 DEF Sweep, Save, CalmCall, SweepInv
  <2>11. QED  BY <2>4, <2>6, <2>7, <2>8, <2>9, <2>10
<1>2. QED
  BY <1>1, InitTyped, NextTyped, InitFresh, NextFresh, InitCalm, NextCalm, PTL DEF Spec
==============================================================================
