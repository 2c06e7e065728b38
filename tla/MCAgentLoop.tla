---------------------------- MODULE MCAgentLoop ----------------------------
EXTENDS AgentLoop

\* Two tools at once, one that fails before it runs beside one that runs, and
\* a turn in which nothing is left to run.
ThreeTurns == {<<"runs", "runs">>, <<"runs", "refused">>, <<"malformed", "unknown">>}
=============================================================================
