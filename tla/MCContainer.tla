----------------------------- MODULE MCContainer -----------------------------
EXTENDS Container

CONSTANTS k1, r1

Stdio == [enabled |-> TRUE, http |-> FALSE, startLimit |-> TRUE, readLimit |-> FALSE,
          silentAt |-> "never", pages |-> 1, tools |-> <<"search">>]

Http == [Stdio EXCEPT !.http = TRUE, !.startLimit = FALSE, !.pages = 2, !.tools = <<"fetch", "post">>]

Silent(s, at) == [s EXCEPT !.silentAt = at]

File(servers) == [valid |-> TRUE, servers |-> servers]

Off == [Stdio EXCEPT !.enabled = FALSE]

\* Two servers that start with a disabled one between them; a second server that
\* goes silent at each request, under a limit that covers it or not; names that
\* are missing or not unique; and files with nothing to start.
AllFiles ==
  {File(<<Stdio, Off, Silent(Http, "call")>>),
   File(<<Http, [Silent(Stdio, "initialize") EXCEPT !.tools = <<"other">>]>>),
   File(<<Stdio, Silent(Stdio, "list")>>),
   File(<<Stdio, Silent(Http, "initialize")>>),
   File(<<[Silent(Stdio, "cursor") EXCEPT !.readLimit = TRUE]>>),
   File(<<[Silent(Http, "list") EXCEPT !.readLimit = TRUE]>>),
   File(<<Stdio, [Http EXCEPT !.tools = <<"fetch", "search">>]>>),
   File(<<[Http EXCEPT !.tools = <<"fetch", Nameless>>]>>),
   File(<<Off>>),
   [valid |-> FALSE, servers |-> <<>>]}

HereAndAway == {[run |-> r1, away |-> b] : b \in BOOLEAN}
=============================================================================
