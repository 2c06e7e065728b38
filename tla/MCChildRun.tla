----------------------------- MODULE MCChildRun -----------------------------
EXTENDS ChildRun

CONSTANTS c1, c2, old

TwoCalls == {c1, c2}

TwoTypes == {"Plan", "Explore"}
=============================================================================
