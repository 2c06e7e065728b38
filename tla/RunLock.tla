------------------------------- MODULE RunLock -------------------------------
(***************************************************************************)
(* The session lock of a chat run: ChatRunLockScope                        *)
(* (src/app/services/chat_run_lock.py) over RedisLockStore                 *)
(* (src/app/infra/store/redis_lock_store.py).                              *)
(*                                                                         *)
(* Three actors share one Redis key per session: the owner task, which     *)
(* enters the scope, runs its body and leaves; the heartbeat task, which   *)
(* prolongs the key's TTL and cancels the owner when it cannot; and Redis, *)
(* which drops the key when the TTL is over.  Time is counted in ticks.    *)
(* A command is applied by Redis in one step and its reply is seen by the  *)
(* caller in a later one.                                                  *)
(***************************************************************************)
EXTENDS Naturals

CONSTANTS Runs,       \* run ids, one per entry of a scope
          Sessions,   \* session ids
          SessionOf,  \* the session of each run
          NoRun,      \* the value of a key that does not exist
          TtlSeconds, \* session_lock_ttl_seconds
          Second,     \* ticks per second; even, so that half a TTL is whole
          MaxLate,    \* ticks by which a wake-up or a reply may be late
          Faults      \* which faults the environment may inject

FaultKinds == {"script",  \* a Lua call raises, applied or not: the fallback runs
               "store",   \* a command of the lock store raises to its caller
               "cancel"}  \* somebody else cancels the owner task

ASSUME RunsAssumption == NoRun \notin Runs /\ SessionOf \in [Runs -> Sessions]
ASSUME TimeAssumption == /\ TtlSeconds \in Nat \ {0}
                         /\ Second \in Nat \ {0}
                         /\ MaxLate \in Nat
ASSUME FaultsAssumption == Faults \subseteq FaultKinds

Ttl == TtlSeconds * Second

IntervalFullTtl == Ttl  \* mutant: the half is forgotten

\* max(1.0, ttl_seconds / 2), in ticks.
Interval == IF Ttl \div 2 < Second THEN Second ELSE Ttl \div 2

VARIABLES lock,      \* value of the lock key of each session
          age,       \* ticks since its TTL was last set
          owner,     \* where the owner task of each run is
          hb,        \* where its heartbeat task is
          timer,     \* ticks the owner or the heartbeat has been where it is
          reply,     \* the outcome of the last extend
          release,   \* how far _release_lock is
          hbError,   \* _heartbeat_error is set
          cancelReq, \* owner_task.cancel() was called, not yet delivered
          shielded,  \* the cleanup in progress is still behind asyncio.shield
          cleanupCancelled, \* the local of __aexit__
          exit       \* how the scope was left

vars == <<lock, age, owner, hb, timer, reply, release, hbError, cancelReq,
          shielded, cleanupCancelled, exit>>
keyVars == <<lock, age>>
hbVars == <<hb, reply, hbError>>
exitVars == <<release, shielded, cleanupCancelled, exit>>

OwnerStates == {"start", "granted", "inside", "stopping", "releasing", "left"}
HbStates == {"none", "waiting", "extending", "getting", "expiring", "answered", "done"}
Exits == {"none", "refused", "error", "cancelled", "lost", "normal"}

Init == /\ lock = [s \in Sessions |-> NoRun]
        /\ age = [s \in Sessions |-> 0]
        /\ owner = [r \in Runs |-> "start"]
        /\ hb = [r \in Runs |-> "none"]
        /\ timer = [r \in Runs |-> 0]
        /\ reply = [r \in Runs |-> "none"]
        /\ release = [r \in Runs |-> "none"]
        /\ hbError = [r \in Runs |-> FALSE]
        /\ cancelReq = [r \in Runs |-> FALSE]
        /\ shielded = [r \in Runs |-> FALSE]
        /\ cleanupCancelled = [r \in Runs |-> FALSE]
        /\ exit = [r \in Runs |-> "none"]

Key(r) == lock[SessionOf[r]]
SetKey(r, v) == lock' = [lock EXCEPT ![SessionOf[r]] = v]
FreshTtl(r) == age' = [age EXCEPT ![SessionOf[r]] = 0]
ResetTimer(r) == timer' = [timer EXCEPT ![r] = 0]
OwnerMove(r, from, to) == owner[r] = from /\ owner' = [owner EXCEPT ![r] = to]
HbMove(r, from, to) == hb[r] = from /\ hb' = [hb EXCEPT ![r] = to]

-----------------------------------------------------------------------------
(* The owner task: __aenter__. *)

\* mutant: SET without NX.
AcquireAlways(r) ==
  /\ OwnerMove(r, "start", "granted")
  /\ SetKey(r, r) /\ FreshTtl(r) /\ ResetTimer(r)
  /\ UNCHANGED <<hbVars, exitVars, cancelReq>>

\* SET key run NX EX ttl finds no key.
Acquire(r) ==
  /\ OwnerMove(r, "start", "granted")
  /\ Key(r) = NoRun
  /\ SetKey(r, r) /\ FreshTtl(r) /\ ResetTimer(r)
  /\ UNCHANGED <<hbVars, exitVars, cancelReq>>

\* SET NX finds a key: ChatRunLockNotAcquiredError, __aexit__ never runs.
Refuse(r) ==
  /\ OwnerMove(r, "start", "left")
  /\ Key(r) # NoRun
  /\ exit' = [exit EXCEPT ![r] = "refused"]
  /\ UNCHANGED <<keyVars, hbVars, timer, release, shielded, cleanupCancelled, cancelReq>>

\* The reply arrives: the heartbeat task is created, the body starts.
Enter(r) ==
  /\ OwnerMove(r, "granted", "inside")
  /\ hb' = [hb EXCEPT ![r] = "waiting"]
  /\ ResetTimer(r)
  /\ UNCHANGED <<keyVars, reply, hbError, exitVars, cancelReq>>

\* The await of acquire() raises although Redis set the key: __aenter__ fails,
\* so nothing will extend or release it.
AcquireInterrupted(r) ==
  /\ OwnerMove(r, "granted", "left")
  /\ \/ "store" \in Faults /\ exit' = [exit EXCEPT ![r] = "error"]
     \/ "cancel" \in Faults /\ exit' = [exit EXCEPT ![r] = "cancelled"]
  /\ ResetTimer(r)
  /\ UNCHANGED <<keyVars, hbVars, release, shielded, cleanupCancelled, cancelReq>>

(* The body, run by ChatService.stream_chat, seen from the scope. *)

\* The body ends: with the CancelledError of a delivered cancel, or without.
LeaveBody(r) ==
  /\ OwnerMove(r, "inside", "stopping")
  /\ \E e \in {"normal", "error", "cancelled"} :
       /\ (e = "cancelled") <=> cancelReq[r]
       /\ exit' = [exit EXCEPT ![r] = e]
  /\ cancelReq' = [cancelReq EXCEPT ![r] = FALSE]
  /\ shielded' = [shielded EXCEPT ![r] = TRUE]
  /\ IF hb[r] = "waiting" THEN ResetTimer(r) ELSE UNCHANGED timer
  /\ UNCHANGED <<keyVars, hbVars, release, cleanupCancelled>>

\* The body turns a CancelledError into a RunCancelledEvent, or the cancel
\* hits the task outside the generator; either way the body goes on.
BodyAbsorbsCancel(r) ==
  /\ owner[r] = "inside" /\ cancelReq[r]
  /\ cancelReq' = [cancelReq EXCEPT ![r] = FALSE]
  /\ UNCHANGED <<keyVars, hbVars, owner, timer, exitVars>>

\* Somebody else (server shutdown, the SSE layer) cancels the owner task.
TaskCancelled(r) ==
  /\ "cancel" \in Faults
  /\ owner[r] \in {"inside", "stopping", "releasing"}
  /\ ~cancelReq[r]
  /\ cancelReq' = [cancelReq EXCEPT ![r] = TRUE]
  /\ UNCHANGED <<keyVars, hbVars, owner, timer, exitVars>>

-----------------------------------------------------------------------------
(* The owner task: __aexit__ with its two shielded cleanups. *)

\* mutant: the stop event is set but the task is not awaited.
HeartbeatNotAwaited(r) ==
  /\ OwnerMove(r, "stopping", "releasing")
  /\ ~cancelReq[r]
  /\ release' = [release EXCEPT ![r] = "script"]
  /\ shielded' = [shielded EXCEPT ![r] = TRUE]
  /\ UNCHANGED <<keyVars, hbVars, timer, cancelReq, cleanupCancelled, exit>>

\* _stop_heartbeat has seen the heartbeat task end; _release_lock starts.
HeartbeatStopped(r) ==
  /\ OwnerMove(r, "stopping", "releasing")
  /\ hb[r] = "done" /\ ~cancelReq[r]
  /\ release' = [release EXCEPT ![r] = "script"]
  /\ shielded' = [shielded EXCEPT ![r] = TRUE]
  /\ UNCHANGED <<keyVars, hbVars, timer, cancelReq, cleanupCancelled, exit>>

\* The first CancelledError in _run_cleanup: the operation goes on behind the
\* shield and is awaited again, this time without it.
CleanupSurvivesCancel(r) ==
  /\ owner[r] \in {"stopping", "releasing"}
  /\ cancelReq[r] /\ shielded[r]
  /\ cancelReq' = [cancelReq EXCEPT ![r] = FALSE]
  /\ shielded' = [shielded EXCEPT ![r] = FALSE]
  /\ cleanupCancelled' = [cleanupCancelled EXCEPT ![r] = TRUE]
  /\ UNCHANGED <<keyVars, hbVars, owner, timer, release, exit>>

\* What __aexit__ raises, or returns.
Outcome(r) ==
  IF exit[r] = "cancelled" /\ hbError[r] THEN "lost"
  ELSE IF cleanupCancelled[r] THEN "cancelled"
  ELSE exit[r]

\* A second one cancels _stop_heartbeat and through it the heartbeat task.
StopCancelled(r) ==
  /\ OwnerMove(r, "stopping", "releasing")
  /\ cancelReq[r] /\ ~shielded[r]
  /\ cancelReq' = [cancelReq EXCEPT ![r] = FALSE]
  /\ shielded' = [shielded EXCEPT ![r] = TRUE]
  /\ hb' = [hb EXCEPT ![r] = "done"]
  /\ release' = [release EXCEPT ![r] = "script"]
  /\ ResetTimer(r)
  /\ UNCHANGED <<keyVars, reply, hbError, cleanupCancelled, exit>>

\* A second one during _release_lock cancels the release itself.
ReleaseCancelled(r) ==
  /\ OwnerMove(r, "releasing", "left")
  /\ cancelReq[r] /\ ~shielded[r]
  /\ cancelReq' = [cancelReq EXCEPT ![r] = FALSE]
  /\ exit' = [exit EXCEPT ![r] = Outcome(r)]
  /\ UNCHANGED <<keyVars, hbVars, timer, release, shielded, cleanupCancelled>>

Leave(r) ==
  /\ OwnerMove(r, "releasing", "left")
  /\ release[r] = "done" /\ ~cancelReq[r]
  /\ exit' = [exit EXCEPT ![r] = Outcome(r)]
  /\ UNCHANGED <<keyVars, hbVars, timer, cancelReq, release, shielded, cleanupCancelled>>

-----------------------------------------------------------------------------
(* RedisLockStore.release: the owner-checked script, else GET and DEL. *)

ReleaseStep(r, from, to) ==
  /\ owner[r] = "releasing" /\ release[r] = from
  /\ release' = [release EXCEPT ![r] = to]
  /\ UNCHANGED <<hbVars, owner, timer, cancelReq, shielded, cleanupCancelled, exit>>

DeleteKey(r) == SetKey(r, NoRun) /\ FreshTtl(r)

DeleteIfOwner(r) == IF Key(r) = r THEN DeleteKey(r) ELSE UNCHANGED keyVars

ReleaseScript(r) == ReleaseStep(r, "script", "done") /\ DeleteIfOwner(r)

ReleaseScriptFails(r) ==
  /\ "script" \in Faults
  /\ ReleaseStep(r, "script", "get")
  /\ DeleteIfOwner(r) \/ UNCHANGED keyVars

ReleaseGet(r) ==
  /\ ReleaseStep(r, "get", IF Key(r) = r THEN "del" ELSE "done")
  /\ UNCHANGED keyVars

\* DEL does not look at the value.
ReleaseDel(r) == ReleaseStep(r, "del", "done") /\ DeleteKey(r)

\* Any exception of release() is logged and swallowed.
ReleaseRaises(r) ==
  /\ "store" \in Faults
  /\ \E from \in {"script", "get", "del"} : ReleaseStep(r, from, "done")
  /\ UNCHANGED keyVars

-----------------------------------------------------------------------------
(* The heartbeat task. *)

\* wait_for(stop_event.wait(), interval) times out: extend() is called.
HbWake(r) ==
  /\ owner[r] = "inside" /\ timer[r] >= Interval
  /\ HbMove(r, "waiting", "extending")
  /\ ResetTimer(r)
  /\ UNCHANGED <<keyVars, owner, reply, hbError, cancelReq, exitVars>>

\* mutant: __aexit__ does not set the stop event.
HbStopUnset(r) == FALSE /\ HbMove(r, "waiting", "done")

\* The stop event is set.
HbStop(r) ==
  /\ owner[r] = "stopping"
  /\ HbMove(r, "waiting", "done")
  /\ UNCHANGED <<keyVars, owner, timer, reply, hbError, cancelReq, exitVars>>

\* The extend call is at "from" and moves to "to" with the answer a.
HbStep(r, from, to, a) ==
  /\ HbMove(r, from, to)
  /\ reply' = [reply EXCEPT ![r] = a]
  /\ UNCHANGED <<lock, owner, hbError, cancelReq, exitVars>>

\* The owner-checked EXPIRE script.
HbExtend(r) ==
  /\ HbStep(r, "extending", "answered", IF Key(r) = r THEN "ok" ELSE "lost")
  /\ IF Key(r) = r THEN FreshTtl(r) ELSE UNCHANGED age
  /\ ResetTimer(r)

HbScriptFails(r) ==
  /\ "script" \in Faults
  /\ HbStep(r, "extending", "getting", "none")
  /\ \/ Key(r) = r /\ FreshTtl(r)
     \/ UNCHANGED age
  /\ UNCHANGED timer

HbGet(r) ==
  /\ IF Key(r) = r THEN HbStep(r, "getting", "expiring", "none")
                   ELSE HbStep(r, "getting", "answered", "lost")
  /\ UNCHANGED <<age, timer>>

\* EXPIRE does not look at the value either.
HbExpire(r) ==
  /\ HbStep(r, "expiring", "answered", IF Key(r) = NoRun THEN "lost" ELSE "ok")
  /\ IF Key(r) = NoRun THEN UNCHANGED age ELSE FreshTtl(r)
  /\ ResetTimer(r)

HbRaises(r) ==
  /\ "store" \in Faults
  /\ \E from \in {"extending", "getting", "expiring"} : HbStep(r, from, "answered", "raised")
  /\ UNCHANGED <<age, timer>>

\* extend() returned true: wait again.
HbGoesOn(r) ==
  /\ HbMove(r, "answered", "waiting")
  /\ reply[r] = "ok"
  /\ reply' = [reply EXCEPT ![r] = "none"]
  /\ ResetTimer(r)
  /\ UNCHANGED <<keyVars, owner, hbError, cancelReq, exitVars>>

\* mutant: the heartbeat ends without telling anybody.
HbLostSilently(r) ==
  /\ HbMove(r, "answered", "done")
  /\ reply[r] \in {"lost", "raised"}
  /\ ResetTimer(r)
  /\ UNCHANGED <<keyVars, owner, reply, hbError, cancelReq, exitVars>>

\* extend() returned false or raised: record why, cancel the owner, end.
HbLost(r) ==
  /\ HbMove(r, "answered", "done")
  /\ reply[r] \in {"lost", "raised"}
  /\ hbError' = [hbError EXCEPT ![r] = TRUE]
  /\ cancelReq' = [cancelReq EXCEPT ![r] = TRUE]
  /\ ResetTimer(r)
  /\ UNCHANGED <<keyVars, owner, reply, exitVars>>

-----------------------------------------------------------------------------
(* Time and Redis expiry. *)

\* How long the owner or the heartbeat of r may stay where it is.
Patience(r) ==
  IF hb[r] = "waiting" THEN Interval + MaxLate ELSE MaxLate

Timed(r) ==
  \/ owner[r] = "granted"
  \/ hb[r] = "waiting" /\ owner[r] = "inside"
  \/ hb[r] \in {"extending", "getting", "expiring", "answered"}

ExpiresLate(s) == lock[s] # NoRun /\ age[s] > Ttl  \* mutant: off by two

Expires(s) == lock[s] # NoRun /\ age[s] + 1 >= Ttl

Tick ==
  /\ \A r \in Runs : Timed(r) => timer[r] < Patience(r)
  /\ lock' = [s \in Sessions |-> IF Expires(s) THEN NoRun ELSE lock[s]]
  /\ age' = [s \in Sessions |-> IF lock[s] = NoRun \/ Expires(s) THEN 0 ELSE age[s] + 1]
  /\ timer' = [r \in Runs |-> IF Timed(r) THEN timer[r] + 1 ELSE timer[r]]
  /\ UNCHANGED <<hbVars, owner, cancelReq, exitVars>>

OwnerNext(r) ==
  \/ Acquire(r) \/ Refuse(r) \/ Enter(r) \/ AcquireInterrupted(r)
  \/ LeaveBody(r) \/ BodyAbsorbsCancel(r) \/ TaskCancelled(r)

CleanupNext(r) ==
  \/ HeartbeatStopped(r) \/ CleanupSurvivesCancel(r) \/ StopCancelled(r)
  \/ ReleaseCancelled(r) \/ Leave(r)
  \/ ReleaseScript(r) \/ ReleaseScriptFails(r) \/ ReleaseGet(r)
  \/ ReleaseDel(r) \/ ReleaseRaises(r)

HbNext(r) ==
  \/ HbWake(r) \/ HbStop(r) \/ HbExtend(r) \/ HbScriptFails(r) \/ HbGet(r)
  \/ HbExpire(r) \/ HbRaises(r) \/ HbGoesOn(r) \/ HbLost(r)

Next == \/ \E r \in Runs : OwnerNext(r) \/ CleanupNext(r) \/ HbNext(r)
        \/ Tick

Spec == Init /\ [][Next]_vars

\* The event loop runs every ready task, Redis answers, the clock goes on;
\* nothing is assumed about when, or whether, the body ends.
Fairness == /\ WF_vars(Tick)
            /\ \A r \in Runs : /\ WF_vars(Enter(r))
                               /\ WF_vars(HbNext(r))
                               /\ WF_vars(CleanupNext(r))

FairSpec == Spec /\ Fairness
-----------------------------------------------------------------------------
(* Properties. *)

TypeOK ==
  /\ lock \in [Sessions -> Runs \cup {NoRun}]
  /\ age \in [Sessions -> 0 .. Ttl - 1]
  /\ owner \in [Runs -> OwnerStates]
  /\ hb \in [Runs -> HbStates]
  /\ timer \in [Runs -> Nat]
  /\ reply \in [Runs -> {"none", "ok", "lost", "raised"}]
  /\ release \in [Runs -> {"none", "script", "get", "del", "done"}]
  /\ hbError \in [Runs -> BOOLEAN]
  /\ cancelReq \in [Runs -> BOOLEAN]
  /\ shielded \in [Runs -> BOOLEAN]
  /\ cleanupCancelled \in [Runs -> BOOLEAN]
  /\ exit \in [Runs -> Exits]

\* The run believes it has the lock: it was granted, it has not begun to
\* leave, and its heartbeat has not given up.
Beating(r) == \/ owner[r] = "granted"
              \/ owner[r] = "inside" /\ hb[r] # "done"

\* A run whose heartbeat is alive holds the key of its session, as long as no
\* wake-up or reply is later than the margin the interval leaves (half a TTL
\* split over the reply of acquire or extend, the wake-up and the next extend).
LeaseKept == \A r \in Runs : Beating(r) => Key(r) = r

\* So two runs of one session never both believe they have it: this is what
\* keeps two stream_chat bodies of one session from overlapping.
MutualExclusion ==
  \A r1, r2 \in Runs :
    (Beating(r1) /\ Beating(r2) /\ SessionOf[r1] = SessionOf[r2]) => r1 = r2

\* However late everybody is, a key only disappears under its own run when
\* that run releases it or when Redis drops it after a whole TTL, and nobody
\* overwrites it: the owner checks of the two scripts and SET NX.
OwnerFrees ==
  \A s \in Sessions :
    (lock[s] # NoRun /\ lock'[s] # lock[s]) =>
       /\ lock'[s] = NoRun
       /\ \/ age[s] + 1 >= Ttl
          \/ owner[lock[s]] = "releasing"
OnlyOwnerFrees == [][OwnerFrees]_vars

\* The heartbeat has ended before the key is released and before the scope is
\* left, also when cancels cut the cleanup short: no late extend() prolongs a
\* released key and no late cancel() hits a task that has gone on to emit.
HeartbeatEndsFirst ==
  \A r \in Runs : (release[r] # "none" \/ owner[r] = "left") => hb[r] \in {"none", "done"}

\* A run that lost its key while the body runs is told so or leaves: the
\* heartbeat fails and cancels it.
LossIsNoticed ==
  \A r \in Runs : (owner[r] = "inside" /\ Key(r) # r) ~> (hbError[r] \/ owner[r] # "inside")

\* Once the body has ended, __aexit__ ends too: cancels, a failing store and
\* the heartbeat cannot keep it waiting.
ExitEnds == \A r \in Runs : (owner[r] = "stopping") ~> (owner[r] = "left")

(* RunLock implements SessionLease when no script call raises. *)
Phase(r) == CASE owner[r] = "start" -> "out"
              [] owner[r] \in {"granted", "inside", "stopping"} -> "in"
              [] owner[r] = "releasing" -> "leaving"
              [] owner[r] = "left" -> "gone"

Lease == INSTANCE SessionLease
           WITH holder <- lock, phase <- [r \in Runs |-> Phase(r)]
LeaseSpec == Lease!Spec
=============================================================================
