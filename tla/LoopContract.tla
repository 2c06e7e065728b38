---------------------------- MODULE LoopContract ----------------------------
(***************************************************************************)
(* What the consumers of AgentLoop.run's events rely on: ChatEventProcessor *)
(* for a master run, ChildAgentRunner for a child run.  The contract sees  *)
(* each event with the calls it is about and takes nothing from the loop:  *)
(* which calls still have no result it works out from the events alone.    *)
(*                                                                         *)
(* The docstring of run() promises more, that nothing is ever raised       *)
(* (src/app/core/loop/agent_loop.py:96-98).  A task that is cancelled      *)
(* without the cancel event does make it raise (agent_loop.py:421-431), so *)
(* the contract has a Raise, and its consumers have to handle one.         *)
(***************************************************************************)
EXTENDS Naturals, Sequences

VARIABLES heard, \* the events so far: their types and calls
          raised \* the generator raised

vars == <<heard, raised>>

Endings == {"completed", "failed", "cancelled"}

Init == heard = <<>> /\ raised = FALSE

\* The calls that events of a type have named, up to the one at n.
Named(h, type, n) == UNION {h[i].calls : i \in {j \in 1..n : h[j].type = type}}

\* Announced calls that have no result yet.
Owed(h, n) == Named(h, "assistant_with_tools", n) \ Named(h, "tool_completed", n)

\* The event at i may follow those before it.  One start comes first and nothing
\* behind an end.  Calls are announced, new ones, when all others have their
\* results; each has one result and is started once at most, before it; and a run
\* completes only when no result is missing.
Permitted(h, i) ==
  LET owed == Owed(h, i - 1)
      calls == h[i].calls
  IN /\ h[i].type = "run_started" <=> i = 1
     /\ \A j \in 1..(i - 1) : h[j].type \notin Endings
     /\ h[i].type = "assistant_with_tools" =>
          /\ owed = {} /\ calls # {}
          /\ calls \intersect Named(h, "assistant_with_tools", i - 1) = {}
     /\ h[i].type \in {"tool_started", "tool_completed"} => \E c \in owed : calls = {c}
     /\ h[i].type = "tool_started" => calls \intersect Named(h, "tool_started", i - 1) = {}
     /\ h[i].type = "completed" => owed = {}

\* One or more events, each permitted; none is taken back.
Say ==
  /\ ~raised /\ UNCHANGED raised
  /\ Len(heard') > Len(heard)
  /\ \A i \in 1..Len(heard) : heard'[i] = heard[i]
  /\ \A i \in (Len(heard) + 1)..Len(heard') : Permitted(heard', i)

Raise ==
  /\ ~raised /\ raised' = TRUE
  /\ heard # <<>> /\ heard[Len(heard)].type \notin Endings
  /\ UNCHANGED heard

Next == Say \/ Raise

Spec == Init /\ [][Next]_vars
=============================================================================
