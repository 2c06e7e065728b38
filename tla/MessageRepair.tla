---------------------------- MODULE MessageRepair ----------------------------
(***************************************************************************)
(* How a stored history becomes a request the model accepts:               *)
(* ContextBuilder._normalize_tagged_messages_with_repair_meta              *)
(* (src/app/core/runtime/context_builder.py), and what                     *)
(* ContextSummaryPlanner prunes from its old part.                         *)
(*                                                                         *)
(* A message is known by its position in the log; its text is left out,    *)
(* only whether it has one is kept.  A history is a sequence of positions. *)
(***************************************************************************)
EXTENDS Naturals, Sequences, FiniteSets, SequencesExt

Tools == {"plain", "skill", "query"}  \* query: query_tool_result

\* A tool call: the message that asks for it, and its place in that message.
CallsOf(log, i) == {<<i, k>> : k \in 1..Len(log[i].calls)}

ToolOf(log, call) == log[call[1]].calls[call[2]]

NoCall == <<0, 0>>

\* The elements of s at the places in K, in their order: a SelectSeq that names
\* the places it selects.
Only(s, K) ==
  [j \in 1..Cardinality(K) |-> s[CHOOSE k \in K : Cardinality({i \in K : i <= k}) = j]]

\* One message of the request and the position it stems from.
Record(i, role, calls, call) == [at |-> i, role |-> role, calls |-> calls, call |-> call]

-----------------------------------------------------------------------------
(* Repair: one pass, with the assistant message whose results are awaited.  *)

NoGroup == [at |-> 0, matched |-> <<>>]

Blank == [out |-> <<>>, dirty |-> FALSE, group |-> NoGroup]

ToolRecord(log, i) == Record(i, "tool", {}, log[i].call)

\* flush_pending_assistant: only calls with a result stay; without any the
\* message stays if it has a text.
Flush(log, acc) ==
  LET g == acc.group
      kept == {log[i].call : i \in Range(g.matched)}
      asked == Record(g.at, "assistant", kept, NoCall)
      results == [k \in DOMAIN g.matched |-> ToolRecord(log, g.matched[k])]
      stays == kept # {} \/ log[g.at].text
  IN IF g = NoGroup THEN acc
     ELSE [out |-> acc.out \o (IF stays THEN <<asked>> \o results ELSE <<>>),
           dirty |-> acc.dirty \/ kept # CallsOf(log, g.at),
           group |-> NoGroup]

Awaited(log, acc, i) == acc.group # NoGroup /\ log[i].call \in CallsOf(log, acc.group.at)

\* A result nobody awaits gets an assistant message of its own.
Orphan(log, acc, i) ==
  LET a == Flush(log, acc)
      asked == Record(i, "assistant", {log[i].call}, NoCall)
  IN [out |-> a.out \o <<asked, ToolRecord(log, i)>>, dirty |-> TRUE, group |-> a.group]

\* The loop body, for the message at i.
Scan(log, acc, i) ==
  LET kind == log[i].kind
      a == Flush(log, acc)
      g == acc.group
  IN CASE kind = "calls" -> [a EXCEPT !.group = [at |-> i, matched |-> <<>>]]
       [] kind = "tool" /\ Awaited(log, acc, i) ->
            [acc EXCEPT !.group = [at |-> g.at, matched |-> Append(g.matched, i)]]
       [] kind = "tool" /\ ~Awaited(log, acc, i) -> Orphan(log, acc, i)
       [] OTHER -> [a EXCEPT !.out = Append(@, Record(i, kind, {}, NoCall))]

Normalize(log, window) ==
  LET scanned[k \in 0..Len(window)] ==
        IF k = 0 THEN Blank ELSE Scan(log, scanned[k - 1], window[k])
  IN Flush(log, scanned[Len(window)])

-----------------------------------------------------------------------------
(* _prune_old_history_records: the old query_tool_result exchanges and      *)
(* skill messages go; keep is the position from which on nothing is old.    *)

Queries(log, calls) == {c \in calls : ToolOf(log, c) = "query"}

\* mutant: the results of a pruned call stay
PruneCalls(log, records, keep) ==
  LET Old(r) == r.at < keep
      Cut(r) == IF Old(r) THEN [r EXCEPT !.calls = @ \ Queries(log, @)] ELSE r
      Stays(r) == ~Old(r) \/ log[r.at].kind # "skill"
      kept == {k \in DOMAIN records : Stays(records[k])}
  IN Only([k \in DOMAIN records |-> Cut(records[k])], kept)

Prune(log, records, keep) ==
  LET Old(r) == r.at < keep
      removed == UNION {Queries(log, records[k].calls) :
                          k \in {j \in DOMAIN records : Old(records[j])}}
      Emptied(r) == r.calls # {} /\ r.calls \subseteq removed /\ ~log[r.at].text
      Stays(r) == ~Old(r) \/ ~(log[r.at].kind = "skill" \/ r.call \in removed \/ Emptied(r))
      Cut(r) == IF Old(r) THEN [r EXCEPT !.calls = @ \ removed] ELSE r
      kept == {k \in DOMAIN records : Stays(records[k])}
  IN Only([k \in DOMAIN records |-> Cut(records[k])], kept)

-----------------------------------------------------------------------------
(* What a model accepts and what repair may not touch.                      *)

\* The results of an assistant message follow it at once, each call once, and
\* no result stands anywhere else.
WellFormed(records) ==
  \A k \in DOMAIN records :
    LET r == records[k]
        n == Cardinality(r.calls)
    IN /\ r.calls # {} => /\ k + n <= Len(records)
                          /\ {records[k + j].call : j \in 1..n} = r.calls
       /\ r.role = "tool" => \E j \in 1..(k - 1) : /\ r.call \in records[j].calls
                                                   /\ k <= j + Cardinality(records[j].calls)

\* The positions of the history that the request contains.
Kept(records) == {records[k].at : k \in DOMAIN records}
=============================================================================
