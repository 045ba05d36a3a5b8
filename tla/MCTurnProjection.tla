-------------------------- MODULE MCTurnProjection --------------------------
(* Families of logs for TurnProjection. *)
EXTENDS TurnProjection

On(kinds)         == {Entry(k) : k \in kinds}
OfTurns(kinds, T) == {[Entry(k) EXCEPT !.turn = t] : k \in kinds, t \in T}
OfCalls(kinds, C) == {[Entry(k) EXCEPT !.call = c] : k \in kinds, c \in C}
Ends(kinds, C)    == {[e EXCEPT !.failed = f] : e \in OfCalls(kinds, C), f \in BOOLEAN}

\* Turns that overlap, end twice, or end unnamed, and what belongs to none.
TurnLogs ==
    [entries |-> OfTurns(TurnEvents, {None, "t1", "t2"})
                   \cup OfTurns({"item_model"}, {"t1", "t2"})
                   \cup OfTurns({"item_note", "agent_message", "item_user", "item_other"}, {"t2"})
                   \cup On({"user", "note", "model", "usage", "inter_agent", "response_other", "other"})
                   \cup OfCalls({"output"}, {"c1"}),
     length |-> 4, limit |-> 2, before |-> 0, paginated |-> FALSE, traced |-> FALSE]

\* Tool calls: every order of call, output and completions.
ToolLogs ==
    [entries |-> OfCalls({"call"}, {"c1", "c2", None}) \cup Ends({"output", "end"}, {"c1"})
                   \cup OfCalls({"output", "hosted"}, {"c2", None})
                   \cup Ends({"search_output"}, {"c2"})
                   \cup {[Entry("item_tool") EXCEPT !.call = "c1", !.took = "zero"],
                         [Entry("end") EXCEPT !.call = "c1", !.took = "some"],
                         [Entry("item_tool") EXCEPT !.timed = TRUE, !.turn = "t1"]}
                   \cup On({"user", "complete"}),
     length |-> 4, limit |-> 2, before |-> 4, paginated |-> FALSE, traced |-> FALSE]

DetailLogs ==
    [entries |-> OfCalls({"call"}, {"c1", "c2"}) \cup Ends({"output"}, {"c1"})
                   \cup Ends({"end"}, {"c1"}) \cup OfCalls({"output"}, {"c2"})
                   \cup On({"model"}),
     length |-> 5, limit |-> 2, before |-> 0, paginated |-> FALSE, traced |-> TRUE]

Paged ==
    [entries |-> OfTurns({"item_tool", "item_compaction", "item_model", "start", "complete"}, {"t1", "t2"})
                   \cup {[Entry("item_tool") EXCEPT !.turn = "t1", !.call = "c1", !.failed = TRUE]}
                   \cup On({"model", "user", "compaction", "compacted", "usage", "hosted", "end"}),
     length |-> 4, limit |-> 2, before |-> 0, paginated |-> TRUE, traced |-> FALSE]

\* Items that share the id with which the end of a compaction renames its record.
RenamedLogs ==
    [entries |-> OfCalls({"item_compaction", "item_tool"}, {"c1"})
                   \cup On({"compacted", "context_compacted"}),
     length |-> 6, limit |-> 3, before |-> 0, paginated |-> FALSE, traced |-> TRUE]

\* A task that is aborted while a tool runs.
MirrorScopes == [mirror |->
    [entries |-> OfTurns(TurnEvents, {"t1"}) \cup OfCalls({"call", "output"}, {"c1"})
                   \cup On({"user", "model"}),
     length |-> 5, limit |-> 2, before |-> 0, paginated |-> FALSE, traced |-> FALSE]]

AllScopes == [turns |-> TurnLogs, tools |-> ToolLogs, details |-> DetailLogs,
              paged |-> Paged, renamed |-> RenamedLogs]
=============================================================================
