---------------------------- MODULE RunLockProofs ----------------------------
(***************************************************************************)
(* What is proved of RunLock for every set of runs and sessions and every  *)
(* TTL, lateness and choice of faults.                                     *)
(***************************************************************************)
EXTENDS RunLock, TLAPS

(* Facts about constants. *)

LEMMA Times == Ttl \in Nat /\ Ttl >= 1 /\ Interval \in Nat /\ MaxLate \in Nat
<1>1. Ttl \in Nat /\ Ttl >= 1  BY TimeAssumption DEF Ttl
<1>2. Ttl \div 2 \in Nat  BY <1>1
<1>3. QED  BY <1>1, <1>2, TimeAssumption DEF Interval

LEMMA SessionOfType == \A r \in Runs : SessionOf[r] \in Sessions
BY RunsAssumption

-----------------------------------------------------------------------------
(* Every variable of the lock scope keeps its type. *)

LEMMA OwnerType ==
  ASSUME TypeOK, NEW r \in Runs, OwnerNext(r)
  PROVE  TypeOK'
<1> USE SessionOfType, Times DEF TypeOK, OwnerStates, HbStates, Exits, keyVars, hbVars,
        exitVars, OwnerMove, SetKey, FreshTtl, ResetTimer, Key
<1>1. CASE Acquire(r)  BY <1>1 DEF Acquire
<1>2. CASE Refuse(r)  BY <1>2 DEF Refuse
<1>3. CASE Enter(r)  BY <1>3 DEF Enter
<1>4. CASE AcquireInterrupted(r)  BY <1>4 DEF AcquireInterrupted
<1>5. CASE LeaveBody(r)  BY <1>5 DEF LeaveBody
<1>6. CASE BodyAbsorbsCancel(r)  BY <1>6 DEF BodyAbsorbsCancel
<1>7. CASE TaskCancelled(r)  BY <1>7 DEF TaskCancelled
<1>8. QED  BY <1>1, <1>2, <1>3, <1>4, <1>5, <1>6, <1>7 DEF OwnerNext

LEMMA CleanupType ==
  ASSUME TypeOK, NEW r \in Runs, CleanupNext(r)
  PROVE  TypeOK'
<1> USE SessionOfType, Times DEF TypeOK, OwnerStates, HbStates, Exits, keyVars, hbVars,
        exitVars, OwnerMove, SetKey, FreshTtl, ResetTimer, Key, DeleteKey,
        DeleteIfOwner, ReleaseStep, Outcome
<1>1. CASE HeartbeatStopped(r)  BY <1>1 DEF HeartbeatStopped
<1>2. CASE CleanupSurvivesCancel(r)  BY <1>2 DEF CleanupSurvivesCancel
<1>3. CASE StopCancelled(r)  BY <1>3 DEF StopCancelled
<1>4. CASE ReleaseCancelled(r)  BY <1>4 DEF ReleaseCancelled
<1>5. CASE Leave(r)  BY <1>5 DEF Leave
<1>6. CASE ReleaseScript(r)  BY <1>6 DEF ReleaseScript
<1>7. CASE ReleaseScriptFails(r)  BY <1>7 DEF ReleaseScriptFails
<1>8. CASE ReleaseGet(r)  BY <1>8 DEF ReleaseGet
<1>9. CASE ReleaseDel(r)  BY <1>9 DEF ReleaseDel
<1>10. CASE ReleaseRaises(r)  BY <1>10 DEF ReleaseRaises
<1>11. QED  BY <1>1, <1>2, <1>3, <1>4, <1>5, <1>6, <1>7, <1>8, <1>9, <1>10 DEF CleanupNext

LEMMA HbType ==
  ASSUME TypeOK, NEW r \in Runs, HbNext(r)
  PROVE  TypeOK'
<1> USE SessionOfType, Times DEF TypeOK, HbStates, keyVars, hbVars, exitVars, HbMove,
        HbStep, FreshTtl, ResetTimer, Key
<1>1. CASE HbWake(r)  BY <1>1 DEF HbWake
<1>2. CASE HbStop(r)  BY <1>2 DEF HbStop
<1>3. CASE HbExtend(r)  BY <1>3 DEF HbExtend
<1>4. CASE HbScriptFails(r)  BY <1>4 DEF HbScriptFails
<1>5. CASE HbGet(r)  BY <1>5 DEF HbGet
<1>6. CASE HbExpire(r)  BY <1>6 DEF HbExpire
<1>7. CASE HbRaises(r)  BY <1>7 DEF HbRaises
<1>8. CASE HbGoesOn(r)  BY <1>8 DEF HbGoesOn
<1>9. CASE HbLost(r)  BY <1>9 DEF HbLost
<1>10. QED  BY <1>1, <1>2, <1>3, <1>4, <1>5, <1>6, <1>7, <1>8, <1>9 DEF HbNext

LEMMA TickType == TypeOK /\ Tick => TypeOK'
BY Times DEF TypeOK, Tick, Expires, hbVars, exitVars

\* Type correctness of the lock scope, whatever the environment does.
THEOREM Typing == Spec => []TypeOK
<1>1. Init => TypeOK
  BY Times DEF Init, TypeOK, OwnerStates, HbStates, Exits
<1>2. TypeOK /\ [Next]_vars => TypeOK'
  <2> SUFFICES ASSUME TypeOK, [Next]_vars  PROVE TypeOK'
    OBVIOUS
  <2>1. CASE \E r \in Runs : OwnerNext(r) \/ CleanupNext(r) \/ HbNext(r)
    BY <2>1, OwnerType, CleanupType, HbType
  <2>2. CASE Tick
    BY <2>2, TickType
  <2>3. CASE UNCHANGED vars
    BY <2>3 DEF vars, TypeOK
  <2>4. QED  BY <2>1, <2>2, <2>3 DEF Next
<1>3. QED  BY <1>1, <1>2, PTL DEF Spec
-----------------------------------------------------------------------------
(* A timely run keeps its lease. *)

\* The assumption under which LeaseKept is proved: what the interval leaves of
\* the TTL covers three late steps (the reply of acquire or extend, the
\* wake-up, the next extend), and scripts are atomic.
Timely == Interval + 3 * MaxLate < Ttl /\ "script" \notin Faults

\* The key is r's and its TTL was set at most n ticks ago.
Holds(r, n) == Key(r) = r /\ age[SessionOf[r]] <= n

\* How old the lease may be, wherever the owner or the heartbeat of r is: the
\* strengthening of LeaseKept that the steps preserve.
LeaseInv(r) ==
  /\ owner[r] = "start" => hb[r] = "none"
  /\ owner[r] = "granted" =>
       hb[r] = "none" /\ timer[r] <= MaxLate /\ Holds(r, timer[r])
  /\ owner[r] = "inside" =>
       \/ /\ hb[r] = "waiting"
          /\ timer[r] <= Interval + MaxLate
          /\ Holds(r, timer[r] + MaxLate)
       \/ /\ hb[r] = "extending"
          /\ timer[r] <= MaxLate
          /\ Holds(r, timer[r] + Interval + 2 * MaxLate)
       \/ /\ hb[r] = "answered" /\ reply[r] = "ok"
          /\ timer[r] <= MaxLate
          /\ Holds(r, timer[r])
       \/ /\ hb[r] = "answered" /\ reply[r] = "raised"
          /\ timer[r] <= MaxLate
          /\ Holds(r, timer[r] + Interval + 2 * MaxLate)
       \/ hb[r] = "done"

\* The non-atomic fallbacks of extend and release are not running.
NoFallback == \A r \in Runs : /\ hb[r] \notin {"getting", "expiring"}
                              /\ release[r] \notin {"get", "del"}

IInv == TypeOK /\ NoFallback /\ \A r \in Runs : LeaseInv(r)

\* A step of another run leaves r's lease alone: it neither takes the key
\* away nor makes its TTL older.
LEMMA OthersKeepLease ==
  ASSUME TypeOK, TypeOK', NEW r \in Runs, NEW q \in Runs, q # r, LeaseInv(r),
         UNCHANGED <<owner[r], hb[r], timer[r], reply[r]>>,
         \/ UNCHANGED keyVars
         \/ Key(q) \in {q, NoRun} /\ \E v \in {q, NoRun} : SetKey(q, v) /\ FreshTtl(q)
         \/ Key(q) = q /\ UNCHANGED lock /\ FreshTtl(q)
  PROVE  LeaseInv(r)'
<1>1. ASSUME Key(r) = r  PROVE Key(r)' = r /\ age'[SessionOf[r]] = age[SessionOf[r]]
  BY <1>1, RunsAssumption, SessionOfType
     DEF Key, SetKey, FreshTtl, keyVars, TypeOK
<1>2. ASSUME NEW n, Holds(r, n)  PROVE Holds(r, n)'
  BY <1>1, <1>2 DEF Holds
<1>3. QED  BY <1>1 DEF LeaseInv, Holds, Key

LEMMA OwnerLease ==
  ASSUME Timely, IInv, NEW q \in Runs, OwnerNext(q)
  PROVE  IInv'
<1> USE DEF IInv
<1>1. TypeOK'  BY OwnerType
<1>0. NoFallback'
  BY DEF NoFallback, OwnerNext, Acquire, Refuse, Enter, AcquireInterrupted, LeaveBody,
     BodyAbsorbsCancel, TaskCancelled, TypeOK, hbVars, exitVars
<1>2. ASSUME NEW r \in Runs  PROVE LeaseInv(r)'
  <2>1. CASE q # r
    <3>1. UNCHANGED <<owner[r], hb[r], timer[r], reply[r]>>
      BY <2>1 DEF OwnerNext, Acquire, Refuse, Enter, AcquireInterrupted, LeaveBody,
         BodyAbsorbsCancel, TaskCancelled, TypeOK, OwnerMove, ResetTimer, hbVars
    <3>2. \/ UNCHANGED keyVars
          \/ Key(q) = NoRun /\ SetKey(q, q) /\ FreshTtl(q)
      BY DEF OwnerNext, Acquire, Refuse, Enter, AcquireInterrupted, LeaveBody,
         BodyAbsorbsCancel, TaskCancelled, keyVars
    <3>3. QED  BY <1>1, <2>1, <3>1, <3>2, OthersKeepLease
  <2>2. CASE q = r
    <3> USE <2>2, Times, SessionOfType, RunsAssumption
        DEF LeaseInv, Holds, Key, TypeOK, OwnerMove, ResetTimer, keyVars, hbVars
    <3>1. CASE Acquire(q)  BY <3>1 DEF Acquire, SetKey, FreshTtl
    <3>2. CASE Refuse(q)  BY <3>2 DEF Refuse
    <3>3. CASE Enter(q)  BY <3>3 DEF Enter
    <3>4. CASE AcquireInterrupted(q)  BY <3>4 DEF AcquireInterrupted
    <3>5. CASE LeaveBody(q)  BY <3>5 DEF LeaveBody
    <3>6. CASE BodyAbsorbsCancel(q)  BY <3>6 DEF BodyAbsorbsCancel
    <3>7. CASE TaskCancelled(q)  BY <3>7 DEF TaskCancelled
    <3>8. QED  BY <3>1, <3>2, <3>3, <3>4, <3>5, <3>6, <3>7 DEF OwnerNext
  <2>3. QED  BY <2>1, <2>2
<1>3. QED  BY <1>0, <1>1, <1>2

LEMMA CleanupLease ==
  ASSUME Timely, IInv, NEW q \in Runs, CleanupNext(q)
  PROVE  IInv'
<1> USE DEF IInv
<1>1. TypeOK'  BY CleanupType
<1>0. NoFallback'
  BY DEF Timely, NoFallback, CleanupNext, HeartbeatStopped, CleanupSurvivesCancel,
     StopCancelled, ReleaseCancelled, Leave, ReleaseScript, ReleaseScriptFails,
     ReleaseGet, ReleaseDel, ReleaseRaises, ReleaseStep, TypeOK, hbVars
<1>2. owner[q] \in {"stopping", "releasing"} /\ owner'[q] \in {"stopping", "releasing", "left"}
  BY DEF CleanupNext, HeartbeatStopped, CleanupSurvivesCancel, StopCancelled,
     ReleaseCancelled, Leave, ReleaseScript, ReleaseScriptFails, ReleaseGet,
     ReleaseDel, ReleaseRaises, ReleaseStep, OwnerMove, TypeOK
<1>3. \/ UNCHANGED keyVars
      \/ Key(q) = q /\ SetKey(q, NoRun) /\ FreshTtl(q)
  BY DEF NoFallback, CleanupNext, HeartbeatStopped, CleanupSurvivesCancel, StopCancelled,
     ReleaseCancelled, Leave, ReleaseScript, ReleaseScriptFails, ReleaseGet,
     ReleaseDel, ReleaseRaises, ReleaseStep, DeleteIfOwner, DeleteKey, keyVars
<1>4. ASSUME NEW r \in Runs  PROVE LeaseInv(r)'
  <2>1. CASE q # r
    <3>1. UNCHANGED <<owner[r], hb[r], timer[r], reply[r]>>
      BY <2>1 DEF CleanupNext, HeartbeatStopped, CleanupSurvivesCancel, StopCancelled,
         ReleaseCancelled, Leave, ReleaseScript, ReleaseScriptFails, ReleaseGet,
         ReleaseDel, ReleaseRaises, ReleaseStep, OwnerMove, TypeOK, ResetTimer, hbVars
    <3>2. QED  BY <1>1, <1>3, <2>1, <3>1, OthersKeepLease
  <2>2. CASE q = r
    BY <1>2, <2>2 DEF LeaseInv
  <2>3. QED  BY <2>1, <2>2
<1>5. QED  BY <1>0, <1>1, <1>4

LEMMA HbLease ==
  ASSUME Timely, IInv, NEW q \in Runs, HbNext(q)
  PROVE  IInv'
<1> USE DEF IInv
<1>1. TypeOK'  BY HbType
<1>2. NoFallback'
  BY DEF Timely, NoFallback, HbNext, HbWake, HbStop, HbExtend, HbScriptFails, HbGet,
     HbExpire, HbRaises, HbGoesOn, HbLost, HbMove, HbStep, TypeOK, exitVars
<1>3. ASSUME NEW r \in Runs  PROVE LeaseInv(r)'
  <2>1. CASE q # r
    <3>1. UNCHANGED <<owner[r], hb[r], timer[r], reply[r]>>
      BY <2>1 DEF HbNext, HbWake, HbStop, HbExtend, HbScriptFails, HbGet, HbExpire,
         HbRaises, HbGoesOn, HbLost, HbMove, HbStep, TypeOK, ResetTimer
    <3>2. \/ UNCHANGED keyVars
          \/ Key(q) = q /\ UNCHANGED lock /\ FreshTtl(q)
      BY DEF NoFallback, HbNext, HbWake, HbStop, HbExtend, HbScriptFails, HbGet,
         HbExpire, HbRaises, HbGoesOn, HbLost, HbMove, HbStep, keyVars
    <3>3. QED  BY <1>1, <2>1, <3>1, <3>2, OthersKeepLease
  <2>2. CASE q = r
    <3> USE <2>2, Times, SessionOfType, RunsAssumption
        DEF LeaseInv, Holds, Key, TypeOK, HbMove, HbStep, ResetTimer, keyVars
    <3>1. CASE HbWake(q)  BY <3>1 DEF HbWake
    <3>2. CASE HbStop(q)  BY <3>2 DEF HbStop
    <3>3. CASE HbExtend(q)  BY <3>3 DEF HbExtend, FreshTtl
    <3>4. CASE HbGoesOn(q)  BY <3>4 DEF HbGoesOn
    <3>5. CASE HbLost(q)  BY <3>5 DEF HbLost
    <3>6. CASE HbRaises(q)  BY <3>6 DEF NoFallback, HbRaises
    <3>7. CASE HbScriptFails(q) \/ HbGet(q) \/ HbExpire(q)
      BY <3>7 DEF Timely, NoFallback, HbScriptFails, HbGet, HbExpire
    <3>8. QED  BY <3>1, <3>2, <3>3, <3>4, <3>5, <3>6, <3>7 DEF HbNext
  <2>3. QED  BY <2>1, <2>2
<1>4. QED  BY <1>1, <1>2, <1>3

LEMMA TickLease ==
  ASSUME Timely, IInv, Tick
  PROVE  IInv'
<1> USE DEF IInv
<1>1. TypeOK'  BY TickType
<1>2. NoFallback'  BY DEF NoFallback, Tick, hbVars, exitVars
<1>3. ASSUME NEW r \in Runs  PROVE LeaseInv(r)'
  <2>1. UNCHANGED <<owner[r], hb[r], reply[r]>>
    BY DEF Tick, hbVars
  <2>2. Timed(r) => timer[r] < Patience(r) /\ timer'[r] = timer[r] + 1
    BY DEF Tick, TypeOK
  <2>3. ASSUME NEW n \in Nat, Holds(r, n), n + 1 < Ttl
        PROVE  Key(r)' = r /\ age'[SessionOf[r]] <= n + 1
    <3>1. Key(r) = r /\ age[SessionOf[r]] \in Nat /\ age[SessionOf[r]] + 1 < Ttl
      BY <2>3, Times, SessionOfType DEF Holds, TypeOK
    <3>2. ~Expires(SessionOf[r])
      BY <3>1, Times DEF Expires
    <3>3. Key(r)' = r /\ age'[SessionOf[r]] = age[SessionOf[r]] + 1
      BY <3>1, <3>2, SessionOfType, RunsAssumption DEF Tick, Key
    <3>4. QED  BY <2>3, <3>1, <3>3 DEF Holds
  <2>4. timer[r] \in Nat  BY DEF TypeOK
  <2>5. CASE owner[r] = "granted"
    <3>1. hb[r] = "none" /\ timer[r] < MaxLate /\ timer'[r] = timer[r] + 1 /\ Holds(r, timer[r])
      BY <2>2, <2>5 DEF Timed, Patience, LeaseInv
    <3>2. Key(r)' = r /\ age'[SessionOf[r]] <= timer[r] + 1
      BY <2>3, <2>4, <3>1, Times DEF Timely
    <3>3. QED  BY <2>1, <2>4, <2>5, <3>1, <3>2, Times DEF LeaseInv, Holds, Key
  <2>6. CASE owner[r] = "inside"
    <3>1. CASE hb[r] = "waiting"
      <4>1. timer[r] < Interval + MaxLate /\ timer'[r] = timer[r] + 1 /\ Holds(r, timer[r] + MaxLate)
        BY <2>2, <2>6, <3>1 DEF Timed, Patience, LeaseInv
      <4>2. Key(r)' = r /\ age'[SessionOf[r]] <= timer[r] + MaxLate + 1
        BY <2>3, <2>4, <4>1, Times DEF Timely
      <4>3. QED  BY <2>1, <2>4, <2>6, <3>1, <4>1, <4>2, Times DEF LeaseInv, Holds, Key
    <3>2. CASE hb[r] = "extending"
      <4>1. timer[r] < MaxLate /\ timer'[r] = timer[r] + 1
            /\ Holds(r, timer[r] + Interval + 2 * MaxLate)
        BY <2>2, <2>6, <3>2 DEF Timed, Patience, LeaseInv
      <4>2. Key(r)' = r /\ age'[SessionOf[r]] <= timer[r] + Interval + 2 * MaxLate + 1
        BY <2>3, <2>4, <4>1, Times DEF Timely
      <4>3. QED  BY <2>1, <2>4, <2>6, <3>2, <4>1, <4>2, Times DEF LeaseInv, Holds, Key
    <3>3. CASE hb[r] = "answered" /\ reply[r] = "ok"
      <4>1. reply[r] = "ok" /\ timer[r] < MaxLate /\ timer'[r] = timer[r] + 1 /\ Holds(r, timer[r])
        BY <2>2, <2>6, <3>3 DEF Timed, Patience, LeaseInv
      <4>2. Key(r)' = r /\ age'[SessionOf[r]] <= timer[r] + 1
        BY <2>3, <2>4, <4>1, Times DEF Timely
      <4>3. QED  BY <2>1, <2>4, <2>6, <3>3, <4>1, <4>2, Times DEF LeaseInv, Holds, Key
    <3>4. CASE hb[r] = "answered" /\ reply[r] = "raised"
      <4>1. timer[r] < MaxLate /\ timer'[r] = timer[r] + 1
            /\ Holds(r, timer[r] + Interval + 2 * MaxLate)
        BY <2>2, <2>6, <3>4 DEF Timed, Patience, LeaseInv
      <4>2. Key(r)' = r /\ age'[SessionOf[r]] <= timer[r] + Interval + 2 * MaxLate + 1
        BY <2>3, <2>4, <4>1, Times DEF Timely
      <4>3. QED  BY <2>1, <2>4, <2>6, <3>4, <4>1, <4>2, Times DEF LeaseInv, Holds, Key
    <3>5. CASE hb[r] = "done"
      BY <2>1, <2>6, <3>5 DEF LeaseInv
    <3>6. QED  BY <2>6, <3>1, <3>2, <3>3, <3>4, <3>5 DEF LeaseInv
  <2>7. CASE owner[r] \notin {"granted", "inside"}
    BY <2>1, <2>7 DEF LeaseInv
  <2>8. QED  BY <2>5, <2>6, <2>7
<1>4. QED  BY <1>1, <1>2, <1>3

LEMMA IInvHolds ==
  ASSUME Timely
  PROVE  Spec => []IInv
<1>1. Init => IInv
  BY Times DEF Init, IInv, TypeOK, OwnerStates, HbStates, Exits, NoFallback, LeaseInv
<1>2. IInv /\ [Next]_vars => IInv'
  <2> SUFFICES ASSUME IInv, [Next]_vars  PROVE IInv'
    OBVIOUS
  <2>1. CASE \E r \in Runs : OwnerNext(r) \/ CleanupNext(r) \/ HbNext(r)
    BY <2>1, OwnerLease, CleanupLease, HbLease
  <2>2. CASE Tick
    BY <2>2, TickLease
  <2>3. CASE UNCHANGED vars
    BY <2>3 DEF vars, IInv, TypeOK, NoFallback, LeaseInv, Holds, Key
  <2>4. QED  BY <2>1, <2>2, <2>3 DEF Next
<1>3. QED  BY <1>1, <1>2, PTL DEF Spec

LEMMA IInvImplies == IInv => LeaseKept /\ MutualExclusion
<1> SUFFICES ASSUME IInv  PROVE LeaseKept /\ MutualExclusion
  OBVIOUS
<1>1. LeaseKept
  BY DEF IInv, LeaseInv, LeaseKept, Beating, Holds
<1>2. MutualExclusion
  BY <1>1 DEF LeaseKept, MutualExclusion, Key
<1>3. QED  BY <1>1, <1>2

\* A run with a live heartbeat has the key of its session, for every TTL
\* whose half, rounded up to a second, leaves room for three late steps.
THEOREM TimelyLeaseKept ==
  ASSUME Timely
  PROVE  Spec => []LeaseKept
BY IInvHolds, IInvImplies, PTL

\* Hence two runs of one session are never both inside with a live heartbeat.
THEOREM TimelyMutualExclusion ==
  ASSUME Timely
  PROVE  Spec => []MutualExclusion
BY IInvHolds, IInvImplies, PTL

-----------------------------------------------------------------------------
(* However late everybody is: only the owner gives the key back. *)

-----------------------------------------------------------------------------
(* The heartbeat task and the scope end in order, whatever fails. *)

\* A heartbeat runs only while its owner is inside or waits for it to stop,
\* and the release has not begun before it ended.
HbInv == \A r \in Runs :
  /\ hb[r] \notin {"none", "done"} => owner[r] \in {"inside", "stopping"}
  /\ owner[r] = "releasing" => hb[r] = "done"
  /\ release[r] # "none" => owner[r] \in {"releasing", "left"} /\ hb[r] = "done"

LEMMA HbInvStep == TypeOK /\ HbInv /\ [Next]_vars => HbInv'
<1> SUFFICES ASSUME TypeOK, HbInv, [Next]_vars  PROVE HbInv'
  OBVIOUS
<1> USE DEF TypeOK, HbInv
<1>1. ASSUME NEW q \in Runs, OwnerNext(q)  PROVE HbInv'
  BY <1>1 DEF OwnerNext, Acquire, Refuse, Enter, AcquireInterrupted, LeaveBody,
     BodyAbsorbsCancel, TaskCancelled, OwnerMove, hbVars, exitVars
<1>2. ASSUME NEW q \in Runs, CleanupNext(q)  PROVE HbInv'
  BY <1>2 DEF CleanupNext, HeartbeatStopped, CleanupSurvivesCancel, StopCancelled,
     ReleaseCancelled, Leave, ReleaseScript, ReleaseScriptFails, ReleaseGet,
     ReleaseDel, ReleaseRaises, ReleaseStep, OwnerMove, hbVars
<1>3. ASSUME NEW q \in Runs, HbNext(q)  PROVE HbInv'
  BY <1>3 DEF HbNext, HbWake, HbStop, HbExtend, HbScriptFails, HbGet, HbExpire,
     HbRaises, HbGoesOn, HbLost, HbMove, HbStep, exitVars
<1>4. CASE Tick  BY <1>4 DEF Tick, hbVars, exitVars
<1>5. CASE UNCHANGED vars  BY <1>5 DEF vars
<1>6. QED  BY <1>1, <1>2, <1>3, <1>4, <1>5 DEF Next

LEMMA HbInvHolds == Spec => []HbInv
<1>1. Init => HbInv  BY DEF Init, HbInv
<1>2. QED  BY <1>1, Typing, HbInvStep, PTL DEF Spec

\* No heartbeat outlives its scope or runs beside the release, whatever fails
\* and however often the owner is cancelled.
THEOREM HeartbeatEnds == Spec => []HeartbeatEndsFirst
<1>1. TypeOK /\ HbInv => HeartbeatEndsFirst
  BY DEF TypeOK, HbInv, HeartbeatEndsFirst, HbStates
<1>2. QED  BY <1>1, Typing, HbInvHolds, PTL

-----------------------------------------------------------------------------
(* RunLock implements SessionLease as long as no script call raises. *)

AtomicScripts == "script" \notin Faults

PhaseMap == [r \in Runs |-> Phase(r)]

LEMMA NoFallbackStep ==
  ASSUME AtomicScripts
  PROVE  TypeOK /\ NoFallback /\ [Next]_vars => NoFallback'
<1> SUFFICES ASSUME TypeOK, NoFallback, [Next]_vars  PROVE NoFallback'
  OBVIOUS
<1> USE DEF TypeOK, NoFallback
<1>1. ASSUME NEW q \in Runs, OwnerNext(q)  PROVE NoFallback'
  BY <1>1 DEF OwnerNext, Acquire, Refuse, Enter, AcquireInterrupted, LeaveBody,
     BodyAbsorbsCancel, TaskCancelled, hbVars, exitVars
<1>2. ASSUME NEW q \in Runs, CleanupNext(q)  PROVE NoFallback'
  BY <1>2 DEF AtomicScripts, CleanupNext, HeartbeatStopped, CleanupSurvivesCancel,
     StopCancelled, ReleaseCancelled, Leave, ReleaseScript, ReleaseScriptFails,
     ReleaseGet, ReleaseDel, ReleaseRaises, ReleaseStep, hbVars
<1>3. ASSUME NEW q \in Runs, HbNext(q)  PROVE NoFallback'
  BY <1>3 DEF AtomicScripts, HbNext, HbWake, HbStop, HbExtend, HbScriptFails, HbGet,
     HbExpire, HbRaises, HbGoesOn, HbLost, HbMove, HbStep, exitVars
<1>4. CASE Tick  BY <1>4 DEF Tick, hbVars, exitVars
<1>5. CASE UNCHANGED vars  BY <1>5 DEF vars
<1>6. QED  BY <1>1, <1>2, <1>3, <1>4, <1>5 DEF Next

AbstractPhase(o) == CASE o = "start" -> "out"
                     [] o \in {"granted", "inside", "stopping"} -> "in"
                     [] o = "releasing" -> "leaving"
                     [] o = "left" -> "gone"

\* How a step of the owner shows in the abstract phase.
LEMMA PhaseStep ==
  ASSUME TypeOK, NEW q \in Runs, NEW o \in OwnerStates,
         owner' = [owner EXCEPT ![q] = o]
  PROVE  PhaseMap' = [PhaseMap EXCEPT ![q] = AbstractPhase(o)]
<1>1. ASSUME NEW r \in Runs, r # q  PROVE Phase(r)' = Phase(r)
  BY <1>1 DEF Phase, TypeOK
<1>2. owner'[q] = o
  BY DEF TypeOK
<1>3. Phase(q)' = AbstractPhase(o)
  BY <1>2 DEF Phase, AbstractPhase
<1>4. QED  BY <1>1, <1>3 DEF PhaseMap

LEMMA PhaseSame == UNCHANGED owner => PhaseMap' = PhaseMap
BY DEF PhaseMap, Phase

\* A move of the owner within one abstract phase.
LEMMA PhaseKept ==
  ASSUME TypeOK, NEW q \in Runs, NEW o \in OwnerStates,
         owner' = [owner EXCEPT ![q] = o],
         {owner[q], o} \subseteq {"granted", "inside", "stopping"}
  PROVE  PhaseMap' = PhaseMap
<1>1. ASSUME NEW r \in Runs  PROVE Phase(r)' = Phase(r)
  <2>1. CASE r # q
    BY <2>1 DEF Phase, TypeOK
  <2>2. CASE r = q
    <3>1. Phase(q) = "in"
      BY DEF Phase
    <3>2. owner'[q] = o
      BY DEF TypeOK
    <3>3. Phase(q)' = "in"
      BY <3>2 DEF Phase
    <3>4. QED  BY <2>2, <3>1, <3>3
  <2>3. QED  BY <2>1, <2>2
<1>2. QED  BY <1>1 DEF PhaseMap

LEMMA LeaseOwner ==
  ASSUME TypeOK, NEW q \in Runs, OwnerNext(q)
  PROVE  [Lease!Next]_(Lease!vars)
<1> USE DEF OwnerStates
<1>1. CASE Acquire(q)
  <2>1. PhaseMap' = [PhaseMap EXCEPT ![q] = "in"] /\ PhaseMap[q] = "out"
    BY <1>1, PhaseStep DEF AbstractPhase, Acquire, OwnerMove, PhaseMap, Phase
  <2>2. Lease!Grant(q)
    BY <1>1, <2>1 DEF Acquire, Lease!Grant, Lease!Move, PhaseMap, SetKey, FreshTtl, Key
  <2>3. QED  BY <2>2 DEF Lease!Next
<1>2. CASE Refuse(q)
  <2>1. PhaseMap' = [PhaseMap EXCEPT ![q] = "gone"] /\ PhaseMap[q] = "out"
    BY <1>2, PhaseStep DEF AbstractPhase, Refuse, OwnerMove, PhaseMap, Phase
  <2>2. Lease!Deny(q)
    BY <1>2, <2>1 DEF Refuse, Lease!Deny, Lease!Move, PhaseMap, Key, keyVars
  <2>3. QED  BY <2>2 DEF Lease!Next
<1>3. CASE AcquireInterrupted(q)
  <2>1. PhaseMap' = [PhaseMap EXCEPT ![q] = "gone"] /\ PhaseMap[q] = "in"
    BY <1>3, PhaseStep DEF AbstractPhase, AcquireInterrupted, OwnerMove, PhaseMap, Phase
  <2>2. Lease!Abandon(q)
    BY <1>3, <2>1 DEF AcquireInterrupted, Lease!Abandon, Lease!Move, PhaseMap, keyVars
  <2>3. QED  BY <2>2 DEF Lease!Next
<1>4. CASE Enter(q) \/ LeaveBody(q) \/ BodyAbsorbsCancel(q) \/ TaskCancelled(q)
  <2>1. PhaseMap' = PhaseMap
    BY <1>4, PhaseKept, PhaseSame
       DEF Enter, LeaveBody, BodyAbsorbsCancel, TaskCancelled, OwnerMove
  <2>2. QED
    BY <1>4, <2>1 DEF Enter, LeaveBody, BodyAbsorbsCancel, TaskCancelled, keyVars,
       Lease!vars, PhaseMap
<1>5. QED  BY <1>1, <1>2, <1>3, <1>4 DEF OwnerNext

LEMMA LeaseCleanup ==
  ASSUME TypeOK, NoFallback, AtomicScripts, NEW q \in Runs, CleanupNext(q)
  PROVE  [Lease!Next]_(Lease!vars)
<1> USE DEF OwnerStates
<1>1. CASE HeartbeatStopped(q) \/ StopCancelled(q)
  <2>1. PhaseMap' = [PhaseMap EXCEPT ![q] = "leaving"] /\ PhaseMap[q] = "in"
    BY <1>1, PhaseStep DEF AbstractPhase, HeartbeatStopped, StopCancelled, OwnerMove, PhaseMap, Phase
  <2>2. Lease!StartLeaving(q)
    BY <1>1, <2>1 DEF HeartbeatStopped, StopCancelled, Lease!StartLeaving, Lease!Move,
       PhaseMap, keyVars
  <2>3. QED  BY <2>2 DEF Lease!Next
<1>2. CASE ReleaseCancelled(q) \/ Leave(q)
  <2>1. PhaseMap' = [PhaseMap EXCEPT ![q] = "gone"] /\ PhaseMap[q] = "leaving"
    BY <1>2, PhaseStep DEF AbstractPhase, ReleaseCancelled, Leave, OwnerMove, PhaseMap, Phase
  <2>2. Lease!Abandon(q)
    BY <1>2, <2>1 DEF ReleaseCancelled, Leave, Lease!Abandon, Lease!Move, PhaseMap, keyVars
  <2>3. QED  BY <2>2 DEF Lease!Next
<1>3. CASE ReleaseScript(q)
  <2>1. PhaseMap' = PhaseMap /\ PhaseMap[q] = "leaving"
    BY <1>3, PhaseSame DEF ReleaseScript, ReleaseStep, PhaseMap, Phase
  <2>2. CASE Key(q) = q
    <3>1. Lease!Release(q)
      BY <1>3, <2>1, <2>2 DEF ReleaseScript, DeleteIfOwner, DeleteKey, SetKey, FreshTtl,
         Key, Lease!Release, PhaseMap
    <3>2. QED  BY <3>1 DEF Lease!Next
  <2>3. CASE Key(q) # q
    BY <1>3, <2>1, <2>3 DEF ReleaseScript, DeleteIfOwner, keyVars, Lease!vars, PhaseMap
  <2>4. QED  BY <2>2, <2>3
<1>4. CASE CleanupSurvivesCancel(q) \/ ReleaseRaises(q)
  <2>1. PhaseMap' = PhaseMap
    BY <1>4, PhaseSame DEF CleanupSurvivesCancel, ReleaseRaises, ReleaseStep
  <2>2. QED
    BY <1>4, <2>1 DEF CleanupSurvivesCancel, ReleaseRaises, keyVars, Lease!vars, PhaseMap
<1>5. ~ReleaseScriptFails(q) /\ ~ReleaseGet(q) /\ ~ReleaseDel(q)
  BY DEF AtomicScripts, NoFallback, ReleaseScriptFails, ReleaseGet, ReleaseDel, ReleaseStep
<1>6. QED  BY <1>1, <1>2, <1>3, <1>4, <1>5 DEF CleanupNext

LEMMA LeaseHb ==
  ASSUME TypeOK, NoFallback, HbInv, AtomicScripts, NEW q \in Runs, HbNext(q)
  PROVE  [Lease!Next]_(Lease!vars)
<1>1. PhaseMap' = PhaseMap
  BY PhaseSame DEF HbNext, HbWake, HbStop, HbExtend, HbScriptFails, HbGet, HbExpire,
     HbRaises, HbGoesOn, HbLost, HbStep
<1>2. CASE HbExtend(q) /\ Key(q) = q
  <2>1. PhaseMap[q] = "in"
    BY <1>2 DEF HbExtend, HbStep, HbMove, HbInv, PhaseMap, Phase
  <2>2. Lease!Renew(q)
    BY <1>1, <1>2, <2>1 DEF HbExtend, HbStep, FreshTtl, Key, Lease!Renew, PhaseMap
  <2>3. QED  BY <2>2 DEF Lease!Next
<1>3. CASE ~(HbExtend(q) /\ Key(q) = q)
  <2>1. UNCHANGED keyVars
    BY <1>3 DEF AtomicScripts, NoFallback, HbNext, HbWake, HbStop, HbExtend, HbScriptFails,
       HbGet, HbExpire, HbRaises, HbGoesOn, HbLost, HbMove, HbStep, keyVars
  <2>2. QED  BY <1>1, <2>1 DEF keyVars, Lease!vars, PhaseMap
<1>4. QED  BY <1>2, <1>3

LEMMA LeaseTick ==
  ASSUME Tick
  PROVE  [Lease!Next]_(Lease!vars)
<1>1. PhaseMap' = PhaseMap
  BY PhaseSame DEF Tick
<1>2. Lease!Elapse
  BY <1>1 DEF Tick, Expires, Lease!Elapse, Lease!Lapses, PhaseMap
<1>3. QED  BY <1>2 DEF Lease!Next

\* The lock scope over Redis is a session lease: one holder, renewed and given
\* back by its holder only, taken away only after a whole TTL.
THEOREM ImplementsLease ==
  ASSUME AtomicScripts
  PROVE  Spec => LeaseSpec
<1>1. Init => Lease!Init /\ NoFallback
  BY DEF Init, Lease!Init, NoFallback, Phase
<1>2. TypeOK /\ NoFallback /\ HbInv /\ [Next]_vars => [Lease!Next]_(Lease!vars)
  <2> SUFFICES ASSUME TypeOK, NoFallback, HbInv, [Next]_vars
               PROVE  [Lease!Next]_(Lease!vars)
    OBVIOUS
  <2>1. CASE \E q \in Runs : OwnerNext(q) \/ CleanupNext(q) \/ HbNext(q)
    BY <2>1, LeaseOwner, LeaseCleanup, LeaseHb
  <2>2. CASE Tick
    BY <2>2, LeaseTick
  <2>3. CASE UNCHANGED vars
    BY <2>3, PhaseSame DEF vars, Lease!vars, PhaseMap
  <2>4. QED  BY <2>1, <2>2, <2>3 DEF Next
<1>3. QED
  BY <1>1, <1>2, Typing, HbInvHolds, NoFallbackStep, PTL DEF Spec, LeaseSpec, Lease!Spec

LEMMA NoFallbackHolds ==
  ASSUME AtomicScripts
  PROVE  Spec => []NoFallback
<1>1. Init => NoFallback  BY DEF Init, NoFallback
<1>2. QED  BY <1>1, Typing, NoFallbackStep, PTL DEF Spec

\* A key that exists is only given back by the run it names.
THEOREM OwnerFreesOnly ==
  ASSUME AtomicScripts
  PROVE  Spec => OnlyOwnerFrees
<1>1. TypeOK /\ NoFallback /\ [Next]_vars => [OwnerFrees]_vars
  <2> SUFFICES ASSUME TypeOK, NoFallback, Next  PROVE OwnerFrees
    OBVIOUS
  <2>1. ASSUME NEW q \in Runs, OwnerNext(q)  PROVE OwnerFrees
    BY <2>1, SessionOfType DEF TypeOK, OwnerNext, Acquire, Refuse, Enter,
       AcquireInterrupted, LeaveBody, BodyAbsorbsCancel, TaskCancelled, keyVars,
       SetKey, Key, OwnerFrees
  <2>2. ASSUME NEW q \in Runs, CleanupNext(q)  PROVE OwnerFrees
    <3>1. UNCHANGED lock \/ (owner[q] = "releasing" /\ Key(q) = q /\ SetKey(q, NoRun))
      BY <2>2 DEF NoFallback, CleanupNext, HeartbeatStopped, CleanupSurvivesCancel,
         StopCancelled, ReleaseCancelled, Leave, ReleaseScript, ReleaseScriptFails,
         ReleaseGet, ReleaseDel, ReleaseRaises, ReleaseStep, DeleteIfOwner, DeleteKey,
         keyVars
    <3>2. QED  BY <3>1, SessionOfType DEF TypeOK, SetKey, Key, OwnerFrees
  <2>3. ASSUME NEW q \in Runs, HbNext(q)  PROVE OwnerFrees
    BY <2>3 DEF HbNext, HbWake, HbStop, HbExtend, HbScriptFails, HbGet, HbExpire,
       HbRaises, HbGoesOn, HbLost, HbStep, keyVars, OwnerFrees
  <2>4. CASE Tick
    BY <2>4 DEF Tick, Expires, TypeOK, OwnerFrees
  <2>5. QED  BY <2>1, <2>2, <2>3, <2>4 DEF Next
<1>2. QED  BY <1>1, Typing, NoFallbackHolds, PTL DEF Spec, OnlyOwnerFrees
=============================================================================
