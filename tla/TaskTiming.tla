----------------------------- MODULE TaskTiming -----------------------------
(***************************************************************************)
(* The timing of a task (project_timing.py).  The log is projected to      *)
(* turns and records, each with the times that were logged for it, which   *)
(* may be missing, contradict each other, or lie outside their turn.       *)
(* summarize_timing divides the time of the turns into tools, recorded and *)
(* estimated model time and the rest.  The log may grow while it is read:  *)
(* a request signs it twice, to find and keep an answer (_session_timing)  *)
(* and to read it (session_timing_summary).                                *)
(***************************************************************************)
EXTENDS Integers, Sequences, FiniteSets, SequencesExt, FiniteSetsExt

CONSTANTS
    Entries,     \* what a log may hold: turns and records, see below
    MaxEntries,  \* entries of the log (bounds them)
    MaxRequests  \* requests for the timing (bounds them)

ASSUME TimingAssumption == MaxEntries \in Nat /\ MaxRequests \in Nat

VARIABLES
    log,       \* the entries of the task's log; it only grows
    request,   \* the request that is running
    requests,  \* requests so far
    timings    \* _TIMING_CACHE: signature -> timing, of this task

timingVars == <<log, request, requests, timings>>

\* An entry is [kind, turn, start, end, duration], with more fields for turns
\* (calls: model calls) and for tools (call, step, status, hasStart).
NoTime == -99
NoStep == 0
NoCall == "none"

TimingSignature == Len(log)

\* (signature: the one the answer is kept for; revision: the one it is read at.)
NoRequest == [pc |-> "idle", signature |-> 0, revision |-> 0, entries |-> <<>>,
              timing |-> <<>>]

\* Codex appends an entry; a record belongs to a turn that was seen.
AppendEntry ==
    /\ Len(log) < MaxEntries
    /\ \E e \in Entries :
         /\ e.kind # "turn" =>
              \E i \in DOMAIN log : log[i].kind = "turn" /\ log[i].turn = e.turn
         /\ log' = Append(log, e)
    /\ UNCHANGED <<request, requests, timings>>

-----------------------------------------------------------------------------
(* Intervals <<from, to>> of milliseconds.                                 *)

Larger(a, b)  == IF a > b THEN a ELSE b
Smaller(a, b) == IF a < b THEN a ELSE b

Earlier(a, b) == a[1] < b[1] \/ (a[1] = b[1] /\ a[2] < b[2])

Joined(list, v) ==
    IF v[2] <= v[1] THEN list
    ELSE IF list # <<>> /\ v[1] <= Last(list)[2]
    THEN Append(Front(list), <<Last(list)[1], Larger(Last(list)[2], v[2])>>)
    ELSE Append(list, v)

MergeIntervals(S) == FoldLeft(Joined, <<>>, SetToSortSeq(S, Earlier))

IntersectIntervals(left, right) ==
    LET f[i \in 1..(Len(left) + 1), j \in 1..(Len(right) + 1)] ==
          IF i > Len(left) \/ j > Len(right) THEN <<>>
          ELSE LET from == Larger(left[i][1], right[j][1])
                   to   == Smaller(left[i][2], right[j][2])
               IN (IF to > from THEN <<<<from, to>>>> ELSE <<>>)
                  \o (IF left[i][2] < right[j][2] THEN f[i + 1, j] ELSE f[i, j + 1])
    IN f[1, 1]

\* One interval without a union.
Remainder(v, right) ==
    LET cut == FoldLeft(LAMBDA acc, r :
                 IF r[2] <= acc.start \/ r[1] >= v[2] \/ acc.start >= v[2] THEN acc
                 ELSE [start |-> Larger(acc.start, r[2]),
                       gaps  |-> IF r[1] > acc.start
                                 THEN Append(acc.gaps, <<acc.start, r[1]>>)
                                 ELSE acc.gaps],
                 [start |-> v[1], gaps |-> <<>>], right)
    IN IF cut.start < v[2] THEN Append(cut.gaps, <<cut.start, v[2]>>) ELSE cut.gaps

SubtractIntervals(left, right) ==
    FoldLeft(LAMBDA out, v : out \o Remainder(v, right), <<>>, left)

Milliseconds(list) == FoldLeft(LAMBDA sum, v : sum + v[2] - v[1], 0, list)

-----------------------------------------------------------------------------
(* summarize_timing.                                                       *)

\* _interval, as a set of one interval or none: a duration goes before the
\* clocks.
IntervalOf(e) ==
    IF e.duration < 1 THEN {}
    ELSE IF e.end # NoTime THEN {<<e.end - e.duration, e.end>>}
    ELSE IF e.start # NoTime THEN {<<e.start, e.start + e.duration>>}
    ELSE {}

Clip(S, envelope) == Range(IntersectIntervals(SetToSeq(S), SetToSeq(envelope)))

\* (mutant of UnknownInterval) a tool without a start began with its turn's last
\* output, even one that was logged after the tool had ended.
UnknownSinceAnchor(e, envelope, anchor) ==
    LET start == IF e.hasStart /\ e.start # NoTime THEN e.start ELSE anchor
        end   == IF e.end # NoTime THEN e.end ELSE envelope[2]
    IN Clip({<<start, end>>}, {envelope})

\* _unknown_tool_interval
UnknownInterval(e, envelope, anchor) ==
    LET start == IF e.hasStart /\ e.start # NoTime THEN e.start
                 ELSE IF e.end = NoTime \/ anchor <= e.end THEN anchor
                 ELSE envelope[1]
        end   == IF e.end # NoTime THEN e.end ELSE envelope[2]
    IN IF end < start THEN {envelope} ELSE Clip({<<start, end>>}, {envelope})

Priority(status) ==
    CASE status = "measured" -> 0 [] status = "submillisecond" -> 1
      [] status = "zero" -> 2 [] status = "invalid" -> 3 [] OTHER -> 4

Untimed == {"missing", "invalid"}

\* Key of the i-th entry as a tool call.
KeyOf(es, i) == <<es[i].turn, es[i].call, IF es[i].call = NoCall THEN i ELSE 0>>

StatusOf(e) == IF IntervalOf(e) # {} THEN "measured"
               ELSE IF e.status = "measured" THEN "missing" ELSE e.status

BetterStatus(previous, status) ==
    IF Priority(status) < Priority(previous) THEN status ELSE previous

\* The value of a partial function, or `none`.
Lookup(f, x, none) == IF x \in DOMAIN f THEN f[x] ELSE none
With(f, x, value)  == [y \in DOMAIN f \cup {x} |-> IF y = x THEN value ELSE f[y]]

\* Parallel calls of a model step share their anchor.
BatchOf(acc, es, i) ==
    <<es[i].turn, es[i].step,
      IF es[i].step # NoStep THEN 0 ELSE Lookup(acc.phases, es[i].turn, 0)>>

TimeTool(acc, es, i, envelopes) ==
    LET e        == es[i]
        key      == KeyOf(es, i)
        status   == BetterStatus(Lookup(acc.statuses, key, "missing"), StatusOf(e))
        known    == [acc EXCEPT !.statuses = With(@, key, status)]
        envelope == envelopes[e.turn]
        batch    == BatchOf(acc, es, i)
        anchor   == Lookup(acc.batches, batch, Lookup(acc.anchors, e.turn, envelope[1]))
    IN IF e.turn \notin DOMAIN envelopes THEN known
       ELSE [known EXCEPT
              !.batches = With(@, batch, anchor),
              !.uncertain = IF StatusOf(e) \notin Untimed THEN @
                ELSE With(@, key, Lookup(@, key, {})
                                    \cup UnknownInterval(e, envelope, anchor)),
              !.local = @ \cup Clip(IntervalOf(e), {envelope})]

TimeOutput(acc, e, envelopes) ==
    LET boundary == IF e.end # NoTime THEN e.end ELSE e.start
    IN [acc EXCEPT
         !.modelTurns = @ \cup {e.turn},
         !.anchors = IF boundary = NoTime THEN @ ELSE With(@, e.turn, boundary),
         !.phases = With(@, e.turn, Lookup(@, e.turn, 0) + 1),
         !.recorded = IF e.turn \notin DOMAIN envelopes THEN @
                      ELSE @ \cup Clip(IntervalOf(e), {envelopes[e.turn]})]

TimeOther(acc, e, envelopes) ==
    IF e.turn \notin DOMAIN envelopes THEN acc
    ELSE [acc EXCEPT !.other = @ \cup Clip(IntervalOf(e), {envelopes[e.turn]})]

\* What the log says last of each turn.
ByTurn(es) ==
    LET told == {i \in DOMAIN es : es[i].kind = "turn"}
    IN [t \in {es[i].turn : i \in told} |-> es[Max({i \in told : es[i].turn = t})]]

Summarize(es) ==
    LET byTurn    == ByTurn(es)
        timed     == {t \in DOMAIN byTurn : IntervalOf(byTurn[t]) # {}}
        envelopes == [t \in timed |-> CHOOSE v \in IntervalOf(byTurn[t]) : TRUE]
        start     == [local |-> {}, recorded |-> {}, other |-> {},
                      modelTurns |-> {t \in DOMAIN byTurn : byTurn[t].calls > 0},
                      statuses |-> <<>>, uncertain |-> <<>>, anchors |-> <<>>,
                      phases |-> <<>>, batches |-> <<>>]
        acc       == FoldLeft(LAMBDA a, i :
                       CASE es[i].kind = "turn"      -> a
                         [] es[i].kind = "tool"      -> TimeTool(a, es, i, envelopes)
                         [] es[i].kind = "assistant" -> TimeOutput(a, es[i], envelopes)
                         [] OTHER                    -> TimeOther(a, es[i], envelopes),
                       start, [i \in 1..Len(es) |-> i])
        active    == MergeIntervals(Range(envelopes))
        local     == MergeIntervals(acc.local)
        recorded  == SubtractIntervals(MergeIntervals(acc.recorded), local)
        unknown   == UNION {acc.uncertain[k] : k \in
                       {k \in DOMAIN acc.uncertain : acc.statuses[k] \in Untimed}}
        blocked   == MergeIntervals(Range(local) \cup Range(recorded)
                                    \cup acc.other \cup unknown)
        eligible  == MergeIntervals({envelopes[t] : t \in timed \cap acc.modelTurns})
        estimated == SubtractIntervals(eligible, blocked)
        count(S)  == Cardinality({k \in DOMAIN acc.statuses : acc.statuses[k] \in S})
    IN [total |-> Milliseconds(active), local |-> Milliseconds(local),
        recorded |-> Milliseconds(recorded), estimated |-> Milliseconds(estimated),
        unattributed |-> Milliseconds(active) - Milliseconds(local)
                         - Milliseconds(recorded) - Milliseconds(estimated),
        untimed |-> count(Untimed), missing |-> count({"missing"}),
        zero |-> count({"zero"})]

-----------------------------------------------------------------------------
(* A request.                                                              *)

\* (mutant of SameLog) nobody looks whether the log changed.
SameLogAlways == TRUE

\* The log is still the one the answer would be kept for ...
SameLog == TimingSignature = request.signature

\* ... the one it is read at.
SameRevision == TimingSignature = request.revision

FailTiming == request' = [NoRequest EXCEPT !.pc = "failed"]

\* _session_timing: what is known for the signature is answered at once.
AskTiming ==
    /\ request.pc \in {"idle", "done", "failed"} /\ requests < MaxRequests
    /\ request' =
          LET s == TimingSignature
              r == [NoRequest EXCEPT !.signature = s]
          IN IF s \in DOMAIN timings
             THEN [r EXCEPT !.pc = "done", !.revision = s, !.timing = timings[s]]
             ELSE [r EXCEPT !.pc = "sign"]
    /\ requests' = requests + 1
    /\ UNCHANGED <<log, timings>>

\* session_timing_summary signs for itself.  The log at this signature may have
\* been projected before (_PAGE_INDEXES) ...
SignLog ==
    /\ request.pc = "sign"
    /\ request' \in {[request EXCEPT !.pc = "parse", !.revision = TimingSignature],
                     [request EXCEPT !.pc = "summarize", !.revision = TimingSignature,
                                     !.entries = log]}
    /\ UNCHANGED <<log, requests, timings>>

\* ... or it is projected as it is now.
ParseLog ==
    /\ request.pc = "parse"
    /\ request' = [request EXCEPT !.pc = "summarize", !.entries = log]
    /\ UNCHANGED <<log, requests, timings>>

\* The log changed since SignLog, or it has too many records for a page index.
SummarizeFails ==
    /\ request.pc = "summarize"
    /\ FailTiming
    /\ UNCHANGED <<log, requests, timings>>

SummarizeLog ==
    /\ request.pc = "summarize"
    /\ SameRevision
    /\ request' = [request EXCEPT !.pc = "recheck", !.entries = <<>>,
                                  !.timing = Summarize(request.entries)]
    /\ UNCHANGED <<log, requests, timings>>

RecheckLog ==
    /\ request.pc = "recheck"
    /\ IF SameRevision THEN request' = [request EXCEPT !.pc = "store"] ELSE FailTiming
    /\ UNCHANGED <<log, requests, timings>>

\* (mutant of OnlyTiming) older timings of the task stay.
AddTiming(s, timing) == With(timings, s, timing)

OnlyTiming(s, timing) == [x \in {s} |-> timing]

\* The answer is kept, instead of older ones of the task, if the log is still
\* the one the request asked for; it is returned in any case.
StoreTiming ==
    /\ request.pc = "store"
    /\ request' = [request EXCEPT !.pc = "done"]
    /\ timings' = IF SameLog THEN OnlyTiming(request.signature, request.timing)
                  ELSE timings
    /\ UNCHANGED <<log, requests>>

TimingInit == log = <<>> /\ request = NoRequest /\ requests = 0 /\ timings = <<>>

TimingNext == \/ AppendEntry \/ AskTiming \/ SignLog \/ ParseLog
              \/ SummarizeFails \/ SummarizeLog \/ RecheckLog \/ StoreTiming

TimingSpec == TimingInit /\ [][TimingNext]_timingVars

-----------------------------------------------------------------------------
(* The reference: what is known of every millisecond.                      *)

Ms(S) == UNION {v[1]..(v[2] - 1) : v \in S}

\* The time of a turn, and of all its entries of a kind that were timed.
TurnMs(es, t) == IF t \in DOMAIN ByTurn(es) THEN Ms(IntervalOf(ByTurn(es)[t])) ELSE {}
ActiveMs(es)  == UNION {TurnMs(es, t) : t \in DOMAIN ByTurn(es)}
KindMs(es, kind) ==
    UNION {Ms(IntervalOf(es[i])) \cap TurnMs(es, es[i].turn) :
           i \in {i \in DOMAIN es : es[i].kind = kind}}

Outputs(es, t) == {i \in DOMAIN es : es[i].kind = "assistant" /\ es[i].turn = t}
Tools(es)      == {i \in DOMAIN es : es[i].kind = "tool"}

\* The earliest call of the model step of the call i: the calls with its step,
\* or without a step those since the turn's last output.
FirstOfStep(es, i) ==
    Min({j \in Tools(es) \cap 1..i :
           /\ es[j].turn = es[i].turn /\ es[j].step = es[i].step
           /\ es[i].step = NoStep => Outputs(es, es[i].turn) \cap j..i = {}})

\* When the model last said something before this step, or the turn began.
StepBegan(es, i) ==
    LET t    == es[i].turn
        said == {j \in Outputs(es, t) :
                   j < FirstOfStep(es, i) /\ {es[j].start, es[j].end} # {NoTime}}
    IN IF said = {} THEN Min(TurnMs(es, t))
       ELSE LET e == es[Max(said)] IN IF e.end # NoTime THEN e.end ELSE e.start

\* When the call i may have run: since its start, if that was logged, or else
\* since the step began, until its end or that of the turn; if the clocks
\* contradict each other, at any time.
MayHaveRun(es, i) ==
    LET e       == es[i]
        turn    == TurnMs(es, e.turn)
        began   == IF e.hasStart /\ e.start # NoTime THEN e.start
                   ELSE IF e.end # NoTime /\ e.end < StepBegan(es, i) THEN Min(turn)
                   ELSE StepBegan(es, i)
    IN IF turn = {} \/ (e.end # NoTime /\ e.end < began) THEN turn
       ELSE {t \in turn : began <= t /\ (e.end # NoTime => t < e.end)}

\* All that was logged of the call i.
CallOf(es, i) == {j \in Tools(es) : KeyOf(es, j) = KeyOf(es, i)}
NeverTimed(es, i) == \A j \in CallOf(es, i) : StatusOf(es[j]) \in Untimed

-----------------------------------------------------------------------------
(* Properties.                                                             *)

TimingTypeOK ==
    /\ Len(log) <= MaxEntries /\ requests <= MaxRequests
    /\ request.pc \in {"idle", "sign", "parse", "summarize", "recheck", "store",
                       "done", "failed"}
    /\ Cardinality(DOMAIN timings) <= 1

\* The log the request was answered of.
Answered == SubSeq(log, 1, request.revision)

\* It is the log of one moment between the beginning of the request and now.
AnswerIsOfItsTime ==
    request.pc = "done" => request.revision \in request.signature..Len(log)

\* Time is divided without rest or overlap: nested, parallel and touching calls
\* count once, no time outside of a turn counts, tools go before the model, and
\* what is left over is never negative.
TimeIsPartitioned ==
    request.pc = "done" =>
      LET local    == KindMs(Answered, "tool")
          recorded == KindMs(Answered, "assistant") \ local
      IN /\ request.timing.total = Cardinality(ActiveMs(Answered))
         /\ request.timing.local = Cardinality(local)
         /\ request.timing.recorded = Cardinality(recorded)
         /\ request.timing.unattributed >= 0

\* Model time is estimated for exactly the time of a model's turn that nothing
\* explains and in which no call without timing may have been running.
EstimateIsCautious ==
    request.pc = "done" =>
      LET turns   == ByTurn(Answered)
          model   == {t \in DOMAIN turns : turns[t].calls > 0 \/ Outputs(Answered, t) # {}}
          unknown == {i \in Tools(Answered) :
                        StatusOf(Answered[i]) \in Untimed /\ NeverTimed(Answered, i)}
      IN request.timing.estimated = Cardinality(
           UNION {TurnMs(Answered, t) : t \in model}
             \ (UNION {KindMs(Answered, kind) : kind \in {"tool", "assistant", "other"}}
                \cup UNION {MayHaveRun(Answered, i) : i \in unknown}))

\* Every call counts once, with the best that any of its records says of it.
CallsTimedOnce ==
    request.pc = "done" =>
      /\ request.timing.untimed = Cardinality({CallOf(Answered, i) : i \in
           {i \in Tools(Answered) : NeverTimed(Answered, i)}})
      /\ request.timing.missing = Cardinality({CallOf(Answered, i) : i \in
           {i \in Tools(Answered) :
              \A j \in CallOf(Answered, i) : StatusOf(Answered[j]) = "missing"}})

\* What is kept is the timing of the log at the moment of its signature, although
\* the log grows between the two signatures, the projection and the checks, and
\* the answer may be of a later moment.
TimingsKeptHold ==
    \A s \in DOMAIN timings : timings[s] = Summarize(SubSeq(log, 1, s))

\* An answer divides the time of the log at one moment of its request, estimates
\* with caution, and counts calls once.
TimingIsExact == /\ AnswerIsOfItsTime
                 /\ TimeIsPartitioned /\ EstimateIsCautious /\ CallsTimedOnce

=============================================================================
