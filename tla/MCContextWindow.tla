-------------------------- MODULE MCContextWindow --------------------------
EXTENDS ContextWindow

\* A tool turn of an agent: a skill beside another tool, with a text.
SkillTurn == {[calls |-> <<"skill", "plain">>, text |-> TRUE]}

Calls(tools, text) == [Message("calls") EXCEPT !.calls = tools, !.text = text]

Result(i, k) == [Message("tool") EXCEPT !.call = <<i, k>>, !.text = FALSE]

Plain == <<Message("user"), Message("assistant")>>

\* Three rounds: the first with a turn of the agent, as a run alone writes it,
\* interrupted before the second result, or plain.
ThreeRounds ==
  {<<Message("user"), Calls(<<"query", "plain">>, FALSE), Result(2, 1), Result(2, 2),
     Message("assistant")>> \o Plain \o Plain,
   <<Message("user"), Calls(<<"skill", "plain">>, TRUE), Result(2, 1), Message("skill"),
     Result(2, 2), Message("assistant")>> \o Plain \o Plain,
   <<Message("user"), Calls(<<"plain", "query">>, FALSE), Result(2, 1), Message("hint")>>
     \o Plain \o Plain,
   Plain \o Plain}
=============================================================================
