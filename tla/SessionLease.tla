---------------------------- MODULE SessionLease ----------------------------
(***************************************************************************)
(* What the session lock promises to its users, without scripts, replies   *)
(* and heartbeat tasks: a lease on every session that at most one run      *)
(* holds, that only its holder can prolong or give back, and that nobody   *)
(* takes away before Ttl ticks went by without a renewal.  RunLock, the    *)
(* model of ChatRunLockScope over RedisLockStore, implements it.           *)
(***************************************************************************)
EXTENDS Naturals

CONSTANTS Runs,       \* the run ids: one per call of stream_chat
          Sessions,   \* the session ids
          SessionOf,  \* the session each run belongs to
          NoRun,      \* "the key does not exist"
          Ttl         \* ticks a lease lasts without a renewal

VARIABLES holder,  \* the run each session is leased to, or NoRun
          age,     \* ticks since the lease was granted or renewed
          phase    \* how far each run is: "out", "in", "leaving", "gone"

vars == <<holder, age, phase>>

Init == /\ holder = [s \in Sessions |-> NoRun]
        /\ age = [s \in Sessions |-> 0]
        /\ phase = [r \in Runs |-> "out"]

Move(r, from, to) == phase[r] = from /\ phase' = [phase EXCEPT ![r] = to]

Grant(r) == /\ Move(r, "out", "in")
            /\ holder[SessionOf[r]] = NoRun
            /\ holder' = [holder EXCEPT ![SessionOf[r]] = r]
            /\ age' = [age EXCEPT ![SessionOf[r]] = 0]

\* Refused: nothing but the run itself changes.
Deny(r) == /\ Move(r, "out", "gone")
           /\ holder[SessionOf[r]] # NoRun
           /\ UNCHANGED <<holder, age>>

Renew(r) == /\ phase[r] = "in"
            /\ holder[SessionOf[r]] = r
            /\ age' = [age EXCEPT ![SessionOf[r]] = 0]
            /\ UNCHANGED <<holder, phase>>

\* The run gives up without releasing: the lease is left to lapse.
Abandon(r) == /\ \/ Move(r, "in", "gone")
                 \/ Move(r, "leaving", "gone")
              /\ UNCHANGED <<holder, age>>

StartLeaving(r) == Move(r, "in", "leaving") /\ UNCHANGED <<holder, age>>

Release(r) == /\ phase[r] = "leaving"
              /\ holder[SessionOf[r]] = r
              /\ holder' = [holder EXCEPT ![SessionOf[r]] = NoRun]
              /\ age' = [age EXCEPT ![SessionOf[r]] = 0]
              /\ UNCHANGED phase

\* One tick: leases grow older, those that reach Ttl are over.
Lapses(s) == holder[s] # NoRun /\ age[s] + 1 >= Ttl

Elapse == /\ holder' = [s \in Sessions |-> IF Lapses(s) THEN NoRun ELSE holder[s]]
          /\ age' = [s \in Sessions |->
                       IF holder[s] = NoRun \/ Lapses(s) THEN 0 ELSE age[s] + 1]
          /\ UNCHANGED phase

Next == \/ \E r \in Runs : \/ Grant(r) \/ Deny(r) \/ Renew(r)
                           \/ Abandon(r) \/ StartLeaving(r) \/ Release(r)
        \/ Elapse

Spec == Init /\ [][Next]_vars
=============================================================================
