---------------------------- MODULE MCSessionStore ----------------------------
(* The constants of the session store's model-checking run: one chat request *)
(* with one Task call, which makes a child or resumes the one that is there. *)
EXTENDS SessionStore
CONSTANTS m1, k1, c1, t1

OneMaster == {m1}
OneCall == {k1}
OneChild == {c1}
OneResult == {t1}

\* Of the sessions that are there already, those with an earlier result: a new one
\* gets its own.
MCInit == Init /\ (session = "live" => results # {})
MCSpec == MCInit /\ [][Next]_vars

\* What is deleted has a plan: no other step looks at it.
Planned == del.calls > 0 => plan
=============================================================================
