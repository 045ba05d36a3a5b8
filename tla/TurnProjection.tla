--------------------------- MODULE TurnProjection ---------------------------
(***************************************************************************)
(* How one rollout log becomes turns, steps, records and counts            *)
(* (projection.py: parse_session), what the page index notes of it on the  *)
(* way (page_index.py: PageIndex), and the short overview of the same log  *)
(* (projection.py: session_overview).                                      *)
(*                                                                         *)
(* A log is read entry by entry.  An entry is reduced to its kind, the     *)
(* turn and the call or item it names, and how a call ended.  A log may    *)
(* name two items or calls alike.  A projection is a                       *)
(* record; the handlers are operators from projections to projections, so  *)
(* that a handler can call another as the code does, and so that a log, or *)
(* some entries of it, can be projected again (FoldLeft).                  *)
(*                                                                         *)
(* Every entry has a timestamp later than the one before.  Prices, texts   *)
(* and timestamps are left out, but not what decides which of two reports  *)
(* of a duration, an output or a failure is kept.                          *)
(***************************************************************************)
EXTENDS Integers, Sequences, FiniteSets, SequencesExt, FiniteSetsExt

CONSTANTS
    Scopes,      \* families of logs to read, by name: see ScopesAssumption
    MaxTracked,  \* MAX_TRACKED_CALLS
    MinRecords,  \* MIN_RECORDS: how far a result may be from its call
    MaxTurns,    \* MAX_TURNS
    Whole        \* MAX_RECORDS: the page size of a detail read

ASSUME LimitsAssumption ==
    /\ {MaxTracked, MinRecords, MaxTurns, Whole} \subseteq Nat \ {0}
    /\ MinRecords <= Whole

\* A scope: the entries that occur, how many are read, the history mode, the
\* page that is asked for (before 0: the newest) and whether the entries read
\* are remembered for a detail read.
ASSUME ScopesAssumption ==
    \A n \in DOMAIN Scopes : LET s == Scopes[n] IN
                      /\ s.length \in Nat /\ s.limit \in Nat \ {0}
                      /\ s.before \in Nat /\ s.paginated \in BOOLEAN
                      /\ s.traced \in BOOLEAN

VARIABLES
    scope,     \* the log and the call, fixed
    count,     \* entries read so far
    log,       \* the entries read, if they are remembered
    detailed,  \* parse_session's projection so far
    overview   \* session_overview's

vars == <<scope, count, log, detailed, overview>>

Scope == Scopes[scope]

None   == "none"
NoCall == <<None>>  \* calls and records are named by tuples

\* [kind, turn, call, failed, took, timed]: call is the id of the call or item,
\* took the explicit duration ("none", "zero", "some"), timed whether the entry
\* says when the call began.
Entry(kind) == [kind |-> kind, turn |-> None, call |-> None, failed |-> FALSE,
                took |-> "none", timed |-> FALSE]

TurnEvents    == {"start", "complete", "abort"}
Items         == {"item_user", "item_note", "item_model", "item_compaction",
                  "item_tool", "item_other"}
LegacyEvents  == {"user", "end", "note", "context_compacted"}
ResponseItems == {"model", "call", "output", "search_output", "hosted",
                  "compaction", "response_other"}
Always        == {"compacted", "agent_message", "inter_agent"}
Messages      == {"user", "note", "inter_agent", "agent_message", "model"}
CallEntries   == {"call", "output", "search_output", "hosted", "end"}
Compactions   == {"compaction", "compacted", "context_compacted"}
Silent        == {"usage", "other"}

\* Paginated logs repeat as items what legacy logs say in these.
Skipped(e, paginated) == paginated /\ e.kind \in LegacyEvents \cup ResponseItems

-----------------------------------------------------------------------------
(* Bounded, least recently used first: OrderedDict.                        *)

Find(s, c)  == {i \in DOMAIN s : s[i].call = c}
Known(s, c) == c # NoCall /\ Find(s, c) # {}
Get(s, c)   == s[CHOOSE i \in Find(s, c) : TRUE]
Drop(s, c)  == IF Find(s, c) = {} THEN s
               ELSE RemoveAt(s, CHOOSE i \in Find(s, c) : TRUE)

\* (mutant of Newest) one entry too many stays.
NewestPlusOne(s) == IF Len(s) > MaxTracked + 1 THEN Tail(s) ELSE s

Newest(s)   == IF Len(s) > MaxTracked THEN Tail(s) ELSE s
Put(s, x)   == Newest(Append(Drop(s, x.call), x))

-----------------------------------------------------------------------------
(* Turns and steps.                                                        *)

\* calls: which of the usage samples are summed up in the turn's usage.
NewTurn(id) == [id |-> id, status |-> "running", steps |-> 0, records |-> 0,
                calls |-> {}]

Start == [
    event |-> 0, paginated |-> FALSE, limit |-> Whole, before |-> 0,
    active |-> FALSE, step |-> 0, after |-> FALSE,
    turns |-> <<>>,        \* all of them; the deque holds the last MaxTurns
    heap |-> <<>>,         \* all records; `kept` are those of the page
    kept |-> <<>>, visible |-> {},   \* records, visible_record_ids
    given |-> {},          \* ids of the log that renamed a record (history)
    owners |-> <<>>,                 \* retained_turn_refcounts
    tracked |-> <<>>,      \* tracked_calls: the record of a call
    states |-> <<>>,       \* call_states
    lastRecord |-> 0, lastTurn |-> 0, pending |-> 0,
    tools |-> 0, failures |-> 0, compactions |-> 0, samples |-> 0,
    \* the page index
    stored |-> <<>>, dirty |-> {}, refs |-> {}, names |-> {},
    ambiguous |-> FALSE]

Turn(d)      == Len(d.turns)
InDeque(d, t) == t > Turn(d) - MaxTurns

Bigger(a, b) == IF a > b THEN a ELSE b

EnsureTurn(d, id) ==
    IF d.active
    THEN [d EXCEPT !.turns[Turn(d)].id = IF @ = None THEN id ELSE @]
    ELSE [d EXCEPT !.turns = Append(@, NewTurn(id)), !.step = 0,
                   !.after = FALSE, !.active = TRUE]

AtStep(d, s) == [d EXCEPT !.turns[Turn(d)].steps = Bigger(@, s)]

\* A model output opens a step, unless the step it belongs to is open.
ModelStep(d) ==
    LET e == EnsureTurn(d, None)
        s == IF e.step = 0 \/ e.after THEN e.step + 1 ELSE e.step
    IN AtStep([e EXCEPT !.step = s, !.after = FALSE], s)

CloseTurn(d, status) ==
    [d EXCEPT !.turns[Turn(d)].status = status, !.active = FALSE,
              !.step = 0, !.after = FALSE]

\* (mutant of Supersede) the turn is marked and goes on.
SupersedeOpen(d, id) ==
    IF /\ d.active /\ id # None
       /\ d.turns[Turn(d)].id \notin {None, id}
    THEN [CloseTurn(d, "aborted") EXCEPT !.active = TRUE]
    ELSE d

\* An entry of another turn ends the one that runs.
Supersede(d, id) ==
    IF /\ d.active /\ id # None
       /\ d.turns[Turn(d)].id \notin {None, id}
    THEN CloseTurn(d, "aborted")
    ELSE d

-----------------------------------------------------------------------------
(* The page index: what is noted while the log is projected.               *)

Track(d, i) == [d EXCEPT !.dirty = @ \cup {i}, !.refs = @ \cup {<<i, d.event>>}]

\* (mutant of Inherit) a marker refers to its own entry only.
InheritNothing(d, i, from) == d

Inherit(d, i, from) ==
    [d EXCEPT !.refs = @ \cup {<<i, r[2]>> : r \in {q \in @ : q[1] = from}}]

\* track_identifiers: a repeated record or call makes details ambiguous.
Identify(d, id, call) ==
    LET new == {id} \cup (IF call = NoCall THEN {} ELSE {<<"call id", call>>})
    IN [d EXCEPT !.ambiguous = @ \/ new \cap d.names # {}, !.names = @ \cup new]

\* flush, after every entry.
Flush(d) ==
    [d EXCEPT !.stored = [i \in DOMAIN d.heap |->
                             IF i \in d.dirty THEN d.heap[i] ELSE @[i]],
              !.dirty = {}]

-----------------------------------------------------------------------------
(* Records.                                                                *)

\* A name that is taken on the page gets salt.
RecordId(d, id) ==
    IF id \in d.visible THEN <<"salted", id, Len(d.heap) + 1>> ELSE id

\* (mutant of Retain) the record that leaves the page keeps its turn.
RetainOwner(d, i) ==
    LET full == Len(d.kept) = d.limit
        turn == d.heap[i].turn
    IN IF d.before # 0 /\ i >= d.before THEN d
       ELSE [d EXCEPT
              !.kept = Append(IF full THEN Tail(@) ELSE @, i),
              !.visible = (IF full THEN @ \ {d.heap[Head(d.kept)].id} ELSE @)
                            \cup {d.heap[i].id},
              !.owners = [t \in DOMAIN @ \cup {turn} |->
                            (IF t \in DOMAIN @ THEN @[t] ELSE 0)
                            + (IF t = turn THEN 1 ELSE 0)]]

\* Adds a record to the page, if it belongs there, and drops the oldest.
Retain(d, i) ==
    LET full  == Len(d.kept) = d.limit
        out   == d.heap[Head(d.kept)].turn
        less  == IF ~full THEN d.owners
                 ELSE IF d.owners[out] > 1 THEN [d.owners EXCEPT ![out] = @ - 1]
                 ELSE [t \in DOMAIN d.owners \ {out} |-> d.owners[t]]
        turn  == d.heap[i].turn
    IN IF d.before # 0 /\ i >= d.before THEN d
       ELSE [d EXCEPT
              !.kept = Append(IF full THEN Tail(@) ELSE @, i),
              !.visible = (IF full THEN @ \ {d.heap[Head(d.kept)].id} ELSE @)
                            \cup {d.heap[i].id},
              !.owners = [t \in DOMAIN less \cup {turn} |->
                            (IF t \in DOMAIN less THEN less[t] ELSE 0)
                            + (IF t = turn THEN 1 ELSE 0)]]

\* What a handler passes to add_record.
Draft(kind, id) ==
    [kind |-> kind, id |-> id, step |-> 0, status |-> "complete", call |-> NoCall,
     input |-> 0, counted |-> TRUE, started |-> TRUE, inherited |-> FALSE]

\* (mutant of CountsAsTool) every tool record counts.
CountsAsToolAlways(d, r) == r.kind = "tool" /\ r.counted

\* A logical call counts once.
CountsAsTool(d, r) ==
    /\ r.kind = "tool" /\ r.counted
    /\ Known(d.states, r.call) => ~Get(d.states, r.call).counts

AddRecord(d0, r) ==
    LET d      == Identify(EnsureTurn(d0, None), r.id,
                           IF r.inherited THEN NoCall ELSE r.call)
        n      == Len(d.heap) + 1
        counts == CountsAsTool(d, r)
        isCall == r.kind = "tool" /\ r.call # NoCall
        old    == IF Known(d.states, r.call) THEN Get(d.states, r.call)
                  ELSE [call |-> r.call, counts |-> FALSE, failed |-> FALSE]
        record == [turn |-> Turn(d), step |-> r.step, kind |-> r.kind,
                   id |-> RecordId(d, r.id),
                   call |-> r.call, status |-> r.status, counts |-> counts,
                   failed |-> isCall /\ old.failed, started |-> r.started,
                   ended |-> IF r.status = "running" THEN 0 ELSE d.event,
                   took |-> "none", final |-> FALSE, error |-> "none",
                   input |-> r.input, output |-> 0, outputFinal |-> FALSE,
                   marker |-> r.inherited]
        e == [d EXCEPT
                !.heap = Append(@, record),
                !.states = IF ~isCall THEN @
                           ELSE Put(@, [old EXCEPT !.counts = @ \/ r.counted]),
                !.tracked = IF ~isCall THEN @
                            ELSE Put(@, [call |-> r.call, record |-> n]),
                !.tools = IF counts THEN @ + 1 ELSE @,
                !.compactions = IF r.kind = "compaction" THEN @ + 1 ELSE @,
                !.turns[Turn(d)].records = @ + 1]
    IN Retain(Track(e, n), n)

LastRecord(d) == Len(d.heap)

\* (mutant of FinishTiming) the change stays out of the index.
FinishTimingUntracked(d, i) == [d EXCEPT !.heap[i].ended = d.event]

\* Non-tool items and late compaction boundaries.
FinishTiming(d, i) == [Track(d, i) EXCEPT !.heap[i].ended = d.event]

-----------------------------------------------------------------------------
(* How a tool call ends.                                                   *)

\* The first message stays, and a call that counts fails once.
MarkError(d, i, message) ==
    LET r      == d.heap[i]
        known  == Known(d.states, r.call)
        state  == Get(d.states, r.call)
        counts == IF known THEN state.counts ELSE r.counts
        failed == IF known THEN state.failed ELSE r.failed
        new    == counts /\ ~failed
    IN [Track(d, i) EXCEPT
          !.heap[i] = [r EXCEPT !.status = "error", !.failed = r.failed \/ new,
                                !.error = IF r.error = "none" THEN message
                                          ELSE r.error],
          !.failures = IF new THEN @ + 1 ELSE @,
          !.states = IF new /\ known THEN Put(@, [state EXCEPT !.failed = TRUE])
                     ELSE @]

\* (mutant of Finished) any later result replaces what was reported.
FinishedLast(r, event, took, output, final) ==
    [r EXCEPT !.ended = event, !.final = @ \/ final, !.output = event,
              !.outputFinal = @ \/ (output /\ final),
              !.took = IF r.started THEN "measured" ELSE "none"]

\* What a result changes: an authoritative one is never overwritten by one that
\* is not, and its duration not by one measured between two entries.
Finished(r, event, took, output, final) ==
    LET free == final \/ ~r.final
    IN [r EXCEPT
          !.ended = IF free THEN event ELSE @,
          !.took = IF took # "none" /\ free
                   THEN IF took = "some" THEN "reported" ELSE "none"
                   ELSE IF took = "none" /\ ~r.final /\ r.started THEN "measured"
                   ELSE @,
          !.final = @ \/ final,
          !.output = IF output /\ ~r.outputFinal THEN event ELSE @,
          !.outputFinal = @ \/ (output /\ final)]

FinishTool(d, i, failed, took, output, final) ==
    LET e == [Track(d, i) EXCEPT
                !.heap[i] = Finished(@, d.event, took, output, final)]
    IN IF failed \/ e.heap[i].status = "error"
       THEN MarkError(e, i, IF final THEN "completion" ELSE "result")
       ELSE [e EXCEPT !.heap[i].status = "complete"]

\* A result too far from its call to be on the smallest page with it.
Late(d, i) == LastRecord(d) - i >= MinRecords

\* late_tool_marker: a record of its own for a late result.
AddMarker(d, i) ==
    LET r == d.heap[i]
        n == LastRecord(d) + 1
        e == AddRecord(d, [Draft("tool", <<"late", r.call, n>>) EXCEPT
                             !.step = r.step, !.status = "running",
                             !.call = r.call, !.input = r.input,
                             !.counted = FALSE, !.inherited = TRUE])
    IN [Inherit(Track(e, n), n, i) EXCEPT
          !.heap[n] = [@ EXCEPT !.took = r.took, !.ended = r.ended,
                                !.final = r.final, !.started = r.started,
                                !.output = r.output,
                                !.outputFinal = r.outputFinal]]

\* The result of record i: on the record, and on a marker when it is late.
Result(d, i, failed, took, output, final) ==
    IF Late(d, i)
    THEN LET e == AddMarker(d, i)
         IN FinishTool(FinishTool(e, i, failed, took, output, final),
                       LastRecord(e), failed, took, output, final)
    ELSE FinishTool(d, i, failed, took, output, final)

\* The record whose result it is: the marker, if there is one.
Ended(d, i) == IF Late(d, i) THEN LastRecord(d) + 1 ELSE i

\* The model's output waits for the usage that is reported after it.
Speak(d, i) ==
    LET owner == d.heap[i].turn
    IN [d EXCEPT !.lastRecord = i,
                 !.lastTurn = IF InDeque(d, owner) THEN owner ELSE 0]

SpeakIfNew(d, i) ==
    IF d.lastRecord # 0 /\ d.heap[d.lastRecord].turn = Turn(d) THEN d
    ELSE Speak(d, i)

Tracked(d, call) == IF Known(d.tracked, call) THEN Get(d.tracked, call).record
                    ELSE 0

\* terminal_tool: an authoritative end, of a call that may be unknown.
TerminalTool(d, e, call, id) ==
    LET old     == Tracked(d, call)
        opened  == IF d.step = 0 THEN ModelStep(d)
                   ELSE AtStep(EnsureTurn(d, None), d.step)
        created == AddRecord(opened, [Draft("tool", id) EXCEPT
                     !.step = opened.step, !.status = "running", !.call = call,
                     !.input = d.event,
                     !.counted = Known(d.states, call)
                                   => ~Get(d.states, call).counts,
                     !.started = e.timed \/ e.took = "some"])
        known   == d.heap[old]
        found   == [d EXCEPT !.heap[old] =
                     [known EXCEPT
                        !.started = known.started \/ e.timed,
                        !.input = IF known.input = 0 THEN d.event ELSE known.input]]
        base    == IF old = 0 THEN created ELSE found
        i       == IF old = 0 THEN LastRecord(created) ELSE old
        untimed == old = 0 /\ ~e.timed /\ e.took # "some"
        ended   == Result(base, i, e.failed, e.took, e.kind # "hosted", TRUE)
        shown   == Ended(base, i)
        timed   == IF untimed THEN [ended EXCEPT !.heap[shown].took = "none"]
                   ELSE ended
    IN [SpeakIfNew(timed, shown) EXCEPT !.after = TRUE]

-----------------------------------------------------------------------------
(* The handlers of parse_session's main loop.                              *)

TaskStarted(d, e) == EnsureTurn(Supersede(d, e.turn), e.turn)

\* A completion without a turn makes one, as does one of another turn.
TaskEnded(d, e) ==
    CloseTurn(EnsureTurn(Supersede(d, e.turn), e.turn),
              IF e.kind = "abort" THEN "aborted"
              ELSE IF e.failed THEN "error" ELSE "complete")

AtEvent(d) == <<"event", d.event>>

\* A record is named as the log names the item, else after the event.
ItemId(d, e) == IF e.call = None THEN AtEvent(d) ELSE <<"call", e.call>>

UserMessage(d, e) ==
    AtStep(AddRecord(EnsureTurn(d, None), Draft("user", AtEvent(d))), d.step)

\* Review mode, activity of and messages between agents.
Note(d, id, kind) ==
    AddRecord(d, [Draft(kind, id) EXCEPT !.step = d.step])

AgentMessage(d, e) == Note(EnsureTurn(d, e.turn), ItemId(d, e), "subagent")

\* Reasoning and messages of the model.
ModelOutput(d, id, kind) ==
    LET m == ModelStep(d)
        r == AddRecord(m, [Draft(kind, id) EXCEPT !.step = m.step])
    IN [r EXCEPT !.lastRecord = LastRecord(r), !.lastTurn = Turn(r)]

ToolId(d, call) == IF call = NoCall THEN <<"tool at", d.event>>
                   ELSE <<"tool", call>>

\* function_call, and calls that are in progress.
ToolCall(d, call) ==
    LET m == ModelStep(d)
        r == AddRecord(m, [Draft("tool", ToolId(d, call)) EXCEPT
               !.step = m.step, !.status = "running", !.call = call,
               !.input = d.event])
    IN SpeakIfNew(r, LastRecord(r))

\* The projection with a record for the output of a call, made for an unknown
\* call or one no longer tracked, and that record.
WithRecord(d, call) ==
    LET old == Tracked(d, call)
        id  == IF call = NoCall THEN <<"result at", d.event>> ELSE <<"result", call>>
    IN IF old # 0 THEN d
       ELSE AddRecord(d, [Draft("tool", id) EXCEPT
              !.step = d.step, !.status = "running", !.call = call,
              !.counted = ~Known(d.states, call), !.started = FALSE])

RecordOf(d, call) ==
    IF Tracked(d, call) # 0 THEN Tracked(d, call) ELSE LastRecord(d) + 1

\* The output of a function or custom tool; one of a failed call has failed.
ToolOutput(d, e, call) ==
    LET b == WithRecord(d, call)
        i == RecordOf(d, call)
    IN [Result(b, i, e.failed \/ b.heap[i].status = "error", "none", TRUE, FALSE)
          EXCEPT !.after = TRUE]

SearchOutput(d, e, call) ==
    [Result(WithRecord(d, call), RecordOf(d, call), e.failed, "none", TRUE, FALSE)
       EXCEPT !.after = TRUE]

\* web_search_call, image_generation_call: over when they are logged.
HostedTool(d, e, call) == TerminalTool(d, e, call, ToolId(d, call))

\* The legacy events that end a tool.
EndEvent(d, e, call) == TerminalTool(d, e, call, ToolId(d, call))

\* An item that is a tool call, named by the item.
ToolItem(d, e, call) == TerminalTool(d, e, call, call)

InterAgent(d, e) == Note(d, ItemId(d, e), "subagent")

Compaction(d, e) == Note(d, ItemId(d, e), "compaction")

Compacted(d, id) ==
    LET r == Note(d, id, "compaction") IN [r EXCEPT !.pending = LastRecord(r)]

PendingHere(d) == d.pending # 0 /\ d.heap[d.pending].turn = Turn(d)

\* The legacy end of a compaction: of the pending one, if it is of this turn.
ContextCompacted(d, e) ==
    LET b == IF PendingHere(d) THEN d ELSE Compacted(d, AtEvent(d))
    IN [FinishTiming(b, b.pending) EXCEPT !.pending = 0]

\* The record gets the name without a look at those on the page, which do not
\* learn of it: others may have it already, or get it later.
Rename(d, i, e) ==
    [d EXCEPT !.heap[i].id = ItemId(d, e),
              !.given = IF e.call = None THEN @ ELSE @ \cup {ItemId(d, e)}]

\* The same as an item, which names the compaction.
CompactionItem(d, e) ==
    LET b == IF PendingHere(d) THEN Rename(d, d.pending, e)
             ELSE Compacted(d, ItemId(d, e))
    IN [FinishTiming(b, b.pending) EXCEPT !.pending = 0]

Timed(d) == FinishTiming(d, LastRecord(d))

CallOf(d, e) == IF e.call # None THEN <<"call", e.call>>
                ELSE IF e.kind = "item_tool" THEN <<"item", d.event>>
                ELSE NoCall

\* handle_completed_item: any item may end another turn and begins its own.
CompletedItem(d0, e) ==
    LET d    == EnsureTurn(Supersede(d0, e.turn), e.turn)
        call == CallOf(d, e)
    IN CASE e.kind = "item_user"  -> Timed(AddRecord(d, Draft("user", ItemId(d, e))))
         [] e.kind = "item_note"  -> Timed(Note(d, ItemId(d, e), "assistant"))
         [] e.kind = "item_model" -> Timed(ModelOutput(d, ItemId(d, e), "assistant"))
         [] e.kind = "item_compaction" -> CompactionItem(d, e)
         [] e.kind = "item_tool"  -> ToolItem(d, e, call)
         [] OTHER                 -> d

\* (mutant of TokenCount) usage without a model output is not attributed.
TokenCountLast(d) ==
    [d EXCEPT !.turns = IF d.lastTurn = 0 THEN @
                        ELSE [@ EXCEPT ![d.lastTurn].calls = @ \cup {d.samples + 1}],
              !.samples = IF Turn(d) = 0 THEN @ ELSE @ + 1,
              !.lastRecord = 0, !.lastTurn = 0]

\* Usage goes to the turn whose output it was reported for.
TokenCount(d) ==
    LET turn == IF d.lastTurn # 0 THEN d.lastTurn ELSE Turn(d)
    IN IF turn = 0 THEN d
       ELSE [d EXCEPT !.turns[turn].calls = @ \cup {d.samples + 1},
                      !.samples = @ + 1, !.lastRecord = 0, !.lastTurn = 0]

\* What parse_session does with an entry, by what the entry is about.
HandleTurn(d, e) ==
    CASE e.kind = "start"                 -> TaskStarted(d, e)
      [] e.kind \in {"complete", "abort"} -> TaskEnded(d, e)
      [] e.kind = "usage"                 -> TokenCount(d)

HandleMessage(d, e) ==
    CASE e.kind = "user"          -> UserMessage(d, e)
      [] e.kind = "note"          -> Note(d, ItemId(d, e), "subagent")
      [] e.kind = "inter_agent"   -> InterAgent(d, e)
      [] e.kind = "agent_message" -> AgentMessage(d, e)
      [] e.kind = "model"         -> ModelOutput(d, ItemId(d, e), "reasoning")

HandleCall(d, e) ==
    LET call == CallOf(d, e)
    IN CASE e.kind = "call"          -> ToolCall(d, call)
         [] e.kind = "output"        -> ToolOutput(d, e, call)
         [] e.kind = "search_output" -> SearchOutput(d, e, call)
         [] e.kind = "hosted"        -> HostedTool(d, e, call)
         [] e.kind = "end"           -> EndEvent(d, e, call)

HandleCompaction(d, e) ==
    CASE e.kind = "compaction"        -> Compaction(d, e)
      [] e.kind = "compacted"         -> Compacted(d, AtEvent(d))
      [] e.kind = "context_compacted" -> ContextCompacted(d, e)

Handle(d, e) ==
    IF Skipped(e, d.paginated) THEN d
    ELSE CASE e.kind \in TurnEvents \cup {"usage"} -> HandleTurn(d, e)
           [] e.kind \in Items                     -> CompletedItem(d, e)
           [] e.kind \in Messages                  -> HandleMessage(d, e)
           [] e.kind \in CallEntries               -> HandleCall(d, e)
           [] e.kind \in Compactions               -> HandleCompaction(d, e)
           [] OTHER                                -> d

\* One entry, the n-th, and the flush of the index after it.
Project(d, n, e) == Flush(Handle([d EXCEPT !.event = n], e))

-----------------------------------------------------------------------------
(* The overview.                                                           *)

NoOverview == [turns |-> 0, active |-> FALSE, id |-> None, tools |-> 0,
               seen |-> <<>>]

EnsureOverviewTurn(o, id) ==
    IF ~o.active
    THEN [o EXCEPT !.turns = @ + 1, !.active = TRUE, !.id = id]
    ELSE IF id # None /\ o.id \notin {None, id}
    THEN [o EXCEPT !.turns = @ + 1, !.id = id]
    ELSE IF o.id = None THEN [o EXCEPT !.id = id] ELSE o

CountToolCall(o, call) ==
    IF call = None THEN [o EXCEPT !.tools = @ + 1]
    ELSE [o EXCEPT !.seen = Put(@, [call |-> call]),
                   !.tools = IF Find(o.seen, call) = {} THEN @ + 1 ELSE @]

\* entry_creates_record
CreatesRecord(e, paginated) ==
    /\ e.kind \notin TurnEvents \cup Silent \cup {"response_other"}
    /\ ~Skipped(e, paginated)

NamesCall(e, paginated) ==
    \/ e.kind = "item_tool"
    \/ ~paginated /\ e.kind \in CallEntries

\* An agent message names its turn where the overview does not look.
TurnNamed(e) == IF e.kind = "agent_message" THEN None ELSE e.turn

Overview(o, e, paginated) ==
    LET n == IF e.kind \in TurnEvents \/ CreatesRecord(e, paginated)
             THEN EnsureOverviewTurn(o, TurnNamed(e)) ELSE o
        c == IF NamesCall(e, paginated) THEN CountToolCall(n, e.call) ELSE n
    IN IF e.kind \in {"complete", "abort"}
       THEN [c EXCEPT !.active = FALSE, !.id = None] ELSE c

-----------------------------------------------------------------------------
(* Reading a log.                                                          *)

Init ==
    /\ scope \in DOMAIN Scopes
    /\ count = 0
    /\ log = <<>>
    /\ detailed = [Start EXCEPT !.paginated = Scope.paginated,
                                !.limit = Scope.limit, !.before = Scope.before]
    /\ overview = NoOverview

Read(kinds) ==
    /\ count < Scope.length
    /\ \E e \in Scope.entries :
         /\ e.kind \in kinds
         /\ log' = IF Scope.traced THEN Append(log, e) ELSE log
         /\ detailed' = Project(detailed, count + 1, e)
         /\ overview' = Overview(overview, e, Scope.paginated)
    /\ count' = count + 1
    /\ UNCHANGED scope

ReadTurnEvent    == Read(TurnEvents)
ReadItem         == Read(Items)
ReadLegacyEvent  == Read(LegacyEvents)
ReadResponseItem == Read(ResponseItems)
ReadAlways       == Read(Always)
ReadSilent       == Read(Silent)

\* The end of the file.
End == count = Scope.length /\ UNCHANGED vars

Next == \/ ReadTurnEvent \/ ReadItem \/ ReadLegacyEvent \/ ReadResponseItem
        \/ ReadAlways \/ ReadSilent \/ End

Spec == Init /\ [][Next]_vars

-----------------------------------------------------------------------------
(* Pages and details.                                                      *)

\* The records a page of `limit` below `before` (0: the end) is to hold.
Slice(d, limit, before) ==
    LET end == IF before = 0 \/ LastRecord(d) < before THEN LastRecord(d) + 1
               ELSE before
    IN {i \in DOMAIN d.heap : i < end /\ i >= end - limit}

\* The end of parse_session: the turns that are shown are those of the page's
\* records, then the newest.
Fill(owners, turns, room) ==
    owners \cup {t \in turns : Cardinality({u \in turns \ owners : u > t})
                                  < room - Cardinality(owners)}

VisibleTurns(d) ==
    LET owners == {d.heap[d.kept[k]].turn : k \in DOMAIN d.kept}
    IN Fill(owners \cap DOMAIN d.owners,
            {t \in DOMAIN d.turns : InDeque(d, t)}, MaxTurns)

\* PageIndex.page: rows of the index.
IndexedTurns(d, limit, before) ==
    LET owners  == {d.stored[i].turn : i \in Slice(d, limit, before)}
        indexes == owners \cup {t \in DOMAIN d.turns : InDeque(d, t)}
    IN IF Cardinality(indexes) > MaxTurns
       THEN Fill(owners, indexes, MaxTurns) ELSE indexes

\* PageIndex.detail_entries: the entries that the records refer to, in order.
DetailEntries(d, records) ==
    SetToSortSeq({r[2] : r \in {q \in d.refs : q[1] \in records}}, <)

\* They alone are projected for the details of a page.
DetailsOf(d, records) ==
    FoldLeft(LAMBDA x, n : Project(x, n, log[n]),
             [Start EXCEPT !.paginated = d.paginated],
             DetailEntries(d, records))

\* Details are found by record, else by call; otherwise all is read again.
Match(details, r) ==
    LET byId   == {i \in DOMAIN details.heap : details.heap[i].id = r.id}
        byCall == {i \in DOMAIN details.heap :
                     /\ r.call # NoCall
                     /\ details.heap[i].call = r.call}
    IN IF byId # {} THEN byId ELSE IF r.kind = "tool" THEN byCall ELSE {}

Detail(r) == <<r.input, r.output, r.status>>

-----------------------------------------------------------------------------
(* Properties.                                                             *)

Heap == detailed.heap
Turns == detailed.turns

TypeOK ==
    /\ scope \in DOMAIN Scopes /\ count \in 0..Scope.length
    /\ detailed.step \in Nat /\ detailed.active \in BOOLEAN
    /\ \A t \in DOMAIN Turns :
         Turns[t].status \in {"running", "complete", "error", "aborted"}
    /\ \A i \in DOMAIN Heap :
         /\ Heap[i].turn \in DOMAIN Turns
         /\ Heap[i].kind \in {"user", "assistant", "reasoning", "tool",
                              "subagent", "compaction"}
         /\ Heap[i].status \in {"running", "complete", "error"}
    /\ Len(detailed.tracked) <= MaxTracked /\ Len(detailed.states) <= MaxTracked
    /\ overview.turns \in 0..count /\ overview.tools \in 0..count

\* However entries of several turns are mixed, at most the newest turn runs:
\* whatever ends the projection's current turn also says how it ended.
OneTurnRuns ==
    \A t \in DOMAIN Turns :
      Turns[t].status = "running" <=> detailed.active /\ t = Turn(detailed)

\* A turn that ended stays as it ended, whatever arrives late for it.
ClosedTurnsStep ==
    \A t \in DOMAIN Turns :
      Turns[t].status # "running" => Turns'[t].status = Turns[t].status
ClosedTurnsStay == [][ClosedTurnsStep]_vars

\* A record belongs to a step its turn has; steps of an earlier turn never
\* leak into it.  (A marker shows the step of its call.)
StepsWithinTurn ==
    \A i \in DOMAIN Heap :
      ~Heap[i].marker => Heap[i].step <= Turns[Heap[i].turn].steps

Tools      == {i \in DOMAIN Heap : Heap[i].kind = "tool"}
Named      == {Heap[i].call : i \in {j \in Tools : Heap[j].call # NoCall}}
Unnamed    == {i \in Tools : Heap[i].call = NoCall}
Remembered == Cardinality(Named) <= MaxTracked

\* Calls, results and both kinds of completions in any order, with markers and
\* results nobody asked for: a call counts once.
CallsCountOnce ==
    Remembered => detailed.tools = Cardinality(Named) + Cardinality(Unnamed)

\* A call that was reported as failed counts once as failed.
FailuresCountOnce ==
    Remembered =>
      detailed.failures =
        Cardinality({c \in Named : \E i \in Tools : Heap[i].call = c
                                                /\ Heap[i].status = "error"})
        + Cardinality({i \in Unnamed : Heap[i].status = "error"})

\* A tool that ended does not run again, a failure stays one, and what an
\* authoritative completion said of output and duration outlives the output
\* entry that comes after it.
ResultsStep ==
    \A i \in DOMAIN Heap :
      LET r == Heap[i]  s == Heap'[i] IN
      /\ r.status # "running" => s.status # "running"
      /\ r.status = "error" => s.status = "error" /\ s.error = r.error
      /\ r.outputFinal => s.output = r.output
      /\ r.final /\ r.took # "measured" => s.took # "measured"
ResultsStay == [][ResultsStep]_vars

\* Every usage sample after the first turn is in exactly one turn, even if a turn
\* ended or left the bounded list before its usage was reported.
UsageConserved ==
    /\ UNION {Turns[t].calls : t \in DOMAIN Turns} = 1..detailed.samples
    /\ \A t, u \in DOMAIN Turns : t # u => Turns[t].calls \cap Turns[u].calls = {}

\* The page kept while reading is the slice that was asked for, and the turns
\* retained for it are those its records belong to, counted exactly.
PageIsSlice ==
    LET on == Slice(detailed, Scope.limit, Scope.before) IN
    /\ ToSet(detailed.kept) = on
    /\ \A k, l \in DOMAIN detailed.kept :
         k < l => detailed.kept[k] < detailed.kept[l]
    /\ detailed.owners = [t \in {Heap[i].turn : i \in on} |->
                            Cardinality({i \in on : Heap[i].turn = t})]

\* Records of a page have different identifiers, so that the viewer can tell
\* them apart even if the log gives one id to several items or calls.  The
\* exception: an id with which a completion renamed the record of its compaction
\* (projection.py:1522).  It is not compared with those on the page, nor added to
\* them, so any other record of that id may share the page.
Ambiguous(i) == Heap[i].id \in detailed.given
IdsOnPageDiffer ==
    \A k, l \in DOMAIN detailed.kept :
      Heap[detailed.kept[k]].id = Heap[detailed.kept[l]].id
        => k = l \/ Ambiguous(detailed.kept[k])

\* A page from the index is the page a full projection would make: late changes
\* of flushed records reach the index, the same turns are chosen, and no
\* identifier depends on the page the index was built for.
IndexedPageAgrees ==
    /\ detailed.stored = Heap
    /\ Scope.limit <= MaxTurns =>
         IndexedTurns(detailed, Scope.limit, Scope.before) = VisibleTurns(detailed)
    /\ ~detailed.ambiguous => \A i \in DOMAIN Heap : Heap[i].id[1] # "salted"

TwoOutcomes(i) ==
    /\ Heap[i].marker /\ Heap[i].status # "error"
    /\ \E j \in Tools : Heap[j].call = Heap[i].call /\ Heap[j].status = "error"

\* Details projected from the referenced entries alone are those of the full
\* projection, for every page of the size the viewer asks for.  (One who fails
\* and is completed again much later has a marker of its own outcome; details
\* show the failure there too.  And details are found by identifier: a record
\* that shares the id of a renamed compaction may show the other's.)
DetailsAgree ==
    Scope.traced /\ ~detailed.ambiguous =>
      \A end \in DOMAIN Heap :
        LET page == Slice(detailed, MinRecords, end + 1)
        IN \A details \in {DetailsOf(detailed, page)},
              i \in {j \in page : ~TwoOutcomes(j) /\ ~Ambiguous(j)} :
             LET at == Match(details, Heap[i])
             IN at # {} => Detail(details.heap[Max(at)]) = Detail(Heap[i])

\* The overview counts the calls the projection counts.
OverviewCountsCalls == Remembered => overview.tools = detailed.tools

\* The overview counts the turns the projection counts.
OverviewCountsTurns == overview.turns = Len(Turns)


-----------------------------------------------------------------------------
(* What the runs check.                                                    *)

\* At most the newest turn runs, and no step leaks from one turn to another.
TurnsAreSeparate == OneTurnRuns /\ StepsWithinTurn

\* A call counts once, as a failure too, in the projection and the overview.
CountsExact == CallsCountOnce /\ FailuresCountOnce /\ OverviewCountsCalls

\* A page is the slice that was asked for, of records that can be told apart.
PageSound == PageIsSlice /\ IdsOnPageDiffer

\* Turns and tools that ended do not change how they ended.
EndedStaysEnded == ClosedTurnsStay /\ ResultsStay
=============================================================================
