---------------------------- MODULE RolloutReader ----------------------------
(***************************************************************************)
(* Reading the history of a session while Codex appends to it             *)
(* (sessions.py: rollout_lineage, iter_jsonl, iter_session_jsonl and their *)
(* twins for the search, _iter_search_lines and iter_session_search_jsonl).*)
(*                                                                         *)
(* A rollout is a file of lines with ascending ordinals, led by a line of  *)
(* metadata, which may point into another rollout whose beginning is its   *)
(* own history.  A complete line is LineWidth bytes long, a line that is   *)
(* being written one byte; a line appended to one that was never finished  *)
(* makes a longer one that no reader accepts.  What the writer does is     *)
(* external; the reader follows the code, one file after the other, with   *)
(* the writer between any two of its steps.                                *)
(***************************************************************************)
EXTENDS Integers, Sequences, FiniteSets, SequencesExt, FiniteSetsExt

CONSTANTS
    Rollouts,     \* rollout identifiers
    Shapes,       \* rollout -> what it may be: "legacy" (the old format: no
                  \* ordinals), "root", or "copied" (a subagent's, which begins
                  \* with entries of its parent)
    Sources,      \* rollout -> those whose history it may continue
    MaxLines,     \* rollout -> lines of its file (bounds the writer)
    MaxDamage,    \* changes of a file other than by appending (bounds them)
    ReadLimit,    \* jsonl_byte_limit
    MaxSegments   \* MAX_LINEAGE_SEGMENTS

ASSUME ReaderAssumption ==
    /\ \A r \in Rollouts : /\ Shapes[r] \subseteq {"legacy", "root", "copied"}
                           /\ Sources[r] \subseteq Rollouts \ {r}
    /\ {ReadLimit, MaxSegments} \subseteq Nat \ {0}
    /\ MaxLines \in [Rollouts -> Nat]
    /\ MaxDamage \in Nat

VARIABLES
    files,   \* rollout -> its file
    told,    \* rollout -> the entries of its history, oldest first
    damage,  \* how often a file was changed otherwise than by appending
    reader   \* the read in progress

readerVars == <<files, told, damage, reader>>

LineWidth == 2
JoinedWidth == LineWidth + 1

NoBase == [source |-> "none", ordinal |-> 0, byte |-> 0]

NoFile == [copies |-> 0, lines |-> <<>>, torn |-> FALSE, next |-> 0,
           base |-> NoBase, own |-> 0, legacy |-> FALSE]

Offset(f, k) == MapThenSumSet(LAMBDA i : f.lines[i].width, 1..k)
Size(f) == Offset(f, Len(f.lines)) + (IF f.torn THEN 1 ELSE 0)

Line(kind, ordinal, width) == [kind |-> kind, ordinal |-> ordinal, width |-> width]

-----------------------------------------------------------------------------
(* The writer.                                                             *)

\* A session begins: on its own, or at the end of a line of another rollout.
\* A subagent's own history may begin after entries copied from its parent.
Create(r) ==
    /\ files[r] = NoFile
    /\ \E shape \in Shapes[r] :
         files' = [files EXCEPT ![r] = [NoFile EXCEPT
                     !.copies = 1, !.torn = TRUE, !.legacy = shape = "legacy",
                     !.own = IF shape = "copied" THEN 2 ELSE 0]]
    /\ UNCHANGED <<told, damage, reader>>

Fork(r, s) ==
    /\ files[r] = NoFile
    /\ files[s].copies # 0 /\ ~files[s].legacy
    /\ \E k \in {j \in DOMAIN files[s].lines : files[s].lines[j].kind # "bad"} :
         LET end == files[s].lines[k].ordinal + 1 IN
         /\ files' = [files EXCEPT ![r] = [NoFile EXCEPT
              !.copies = 1, !.torn = TRUE, !.next = end,
              !.base = [source |-> s, ordinal |-> end, byte |-> Offset(files[s], k)]]]
         /\ told' = [told EXCEPT ![r] =
              SelectSeq(told[s], LAMBDA e : e[1] = s => e[2] < end)]
    /\ UNCHANGED <<damage, reader>>

BeginLine(r) ==
    /\ files[r].copies # 0 /\ ~files[r].torn /\ Len(files[r].lines) < MaxLines[r]
    /\ files' = [files EXCEPT ![r].torn = TRUE]
    /\ UNCHANGED <<told, damage, reader>>

FinishLine(r) ==
    LET f == files[r]
        first == f.lines = <<>>
    IN /\ f.torn
       /\ files' = [files EXCEPT ![r] = [@ EXCEPT !.torn = FALSE, !.next = @ + 1,
            !.lines = Append(@, Line(IF first THEN "meta" ELSE "entry", f.next,
                                     LineWidth))]]
       /\ told' = IF first \/ f.next < f.own THEN told
                  ELSE [told EXCEPT ![r] = Append(@, <<r, f.next>>)]
       /\ UNCHANGED <<damage, reader>>

\* The writer died in the middle of a line, and another goes on behind it.
JoinLine(r) ==
    LET f == files[r] IN
    /\ f.torn /\ f.lines # <<>>
    /\ \E next \in {f.next, f.next + 1} :
         files' = [files EXCEPT ![r] = [@ EXCEPT !.torn = FALSE, !.next = next,
                     !.lines = Append(@, Line("bad", 0, JoinedWidth))]]
    /\ UNCHANGED <<told, damage, reader>>

Damage(r, f) ==
    /\ files[r].copies # 0 /\ damage < MaxDamage
    /\ damage' = damage + 1
    /\ files' = [files EXCEPT ![r] = f]
    /\ UNCHANGED <<told, reader>>

\* Removed, copied to another directory, or an unfinished copy or an edit lost lines.
Delete(r)   == Damage(r, [files[r] EXCEPT !.copies = 0])
Copy(r)     == Damage(r, [files[r] EXCEPT !.copies = 2])
DropLine(r) == \E k \in DOMAIN files[r].lines :
                 k > 1 /\ Damage(r, [files[r] EXCEPT !.lines = RemoveAt(@, k)])

\* (Nobody looks at the files between an outcome and the next read.)
Write == /\ reader.pc \notin {"done", "failed"}
         /\ \E r \in Rollouts :
           \/ Create(r) \/ (\E s \in Sources[r] : Fork(r, s))
           \/ BeginLine(r) \/ FinishLine(r) \/ JoinLine(r)
           \/ Delete(r) \/ Copy(r) \/ DropLine(r)

-----------------------------------------------------------------------------
(* The reader.                                                             *)

Idle == [pc |-> "idle", full |-> TRUE, target |-> "none", at |-> "none",
         begun |-> FALSE, known |-> <<>>, segments |-> <<>>, end |-> 0,
         byte |-> 0, index |-> {}, indexed |-> FALSE, next |-> 1, used |-> 0,
         out |-> <<>>, why |-> "none"]

Fail(why) == reader' = [reader EXCEPT !.pc = "failed", !.why = why]

\* Metadata leads the file only if its first line is complete.
HasMetadata(r) == files[r].lines # <<>>

StartRead(r, full) ==
    /\ reader.pc = "idle" /\ files[r].copies # 0
    /\ reader' = [Idle EXCEPT !.pc = "lineage", !.full = full, !.target = r,
                              !.at = r, !.begun = HasMetadata(r), !.known = told[r]]
    /\ UNCHANGED <<files, told, damage>>

\* Identifiers of rollouts that exist once, found when a base is first followed.
RolloutIndex == {r \in Rollouts : files[r].copies = 1}
Index == IF reader.indexed THEN reader.index ELSE RolloutIndex

\* byte 0: to the end of the file.
Segment(r, ordinal, byte) == [at |-> r, ordinal |-> ordinal, byte |-> byte]

\* A source that is missing or exists twice cannot be followed.
SourceOf(base) == IF base.source \in Index THEN base.source ELSE "none"

\* rollout_lineage: one file of the lineage, newest first.  A target without
\* metadata is taken for the old format.
ResolveSegment ==
    LET r    == reader.at
        base == files[r].base
        all  == <<Segment(r, reader.end, reader.byte)>> \o reader.segments
    IN /\ reader.pc = "lineage"
       /\ \/ /\ reader.segments = <<>> /\ (files[r].legacy \/ ~HasMetadata(r))
             /\ reader' = [reader EXCEPT !.pc = "measure",
                             !.segments = <<Segment("legacy", 0, 0)>>]
          \/ /\ ~files[r].legacy /\ HasMetadata(r)
             /\ IF Len(reader.segments) >= MaxSegments THEN Fail("segments")
                ELSE IF \E s \in ToSet(reader.segments) : s.at = r
                THEN Fail("cycle")
                ELSE IF base = NoBase
                THEN reader' = [reader EXCEPT !.pc = "measure", !.segments = all]
                ELSE IF SourceOf(base) = "none" THEN Fail("source")
                ELSE reader' = [reader EXCEPT
                       !.segments = all, !.at = SourceOf(base),
                       !.end = base.ordinal, !.byte = base.byte,
                       !.index = Index, !.indexed = TRUE]
       /\ UNCHANGED <<files, told, damage>>

Path(s)    == IF s.at = "legacy" THEN reader.target ELSE s.at
Needs(s)   == IF s.byte = 0 THEN Size(files[Path(s)]) ELSE s.byte
SegmentIds == DOMAIN reader.segments
Total      == MapThenSumSet(LAMBDA i : Needs(reader.segments[i]), SegmentIds)

\* The whole history must fit the limit before any of it is read; a file that
\* is gone by now cannot be read.  (The search has no such check.)
Measure ==
    /\ reader.pc = "measure"
    /\ IF reader.full /\ \E i \in SegmentIds :
                            files[Path(reader.segments[i])].copies = 0
       THEN Fail("gone")
       ELSE IF reader.full /\ Total > ReadLimit THEN Fail("limit")
       ELSE reader' = [reader EXCEPT !.pc = "read"]
    /\ UNCHANGED <<files, told, damage>>

Open(f, i) == [last |-> IF f.base = NoBase THEN -1 ELSE f.base.ordinal - 1,
               rejected |-> 0, out |-> <<>>, bad |-> FALSE]

\* (mutant of Accept) entries copied from the parent are history.
AcceptCopied(state, f, s, line) ==
    LET start == IF f.base = NoBase THEN 1 ELSE f.base.ordinal + 1 IN
    IF line.kind = "bad" THEN [state EXCEPT !.rejected = @ + 1]
    ELSE IF line.ordinal - (state.last + 1) \notin 0..state.rejected
    THEN [state EXCEPT !.bad = TRUE]
    ELSE [state EXCEPT !.last = line.ordinal, !.rejected = 0,
            !.out = IF line.ordinal < start THEN @ ELSE Append(@, line.ordinal)]

\* One line of a paginated segment: ordinals go up by one, except past lines
\* that were rejected; own metadata and copied entries are not history.
Accept(state, f, s, line) ==
    LET skipped == line.ordinal - (state.last + 1)
        start   == IF f.base = NoBase THEN 1 ELSE f.base.ordinal + 1
    IN IF line.kind = "bad" THEN [state EXCEPT !.rejected = @ + 1]
       ELSE IF skipped < 0 \/ skipped > state.rejected
       THEN [state EXCEPT !.bad = TRUE]
       ELSE [state EXCEPT
              !.last = line.ordinal, !.rejected = 0,
              !.bad = @ \/ (s.ordinal # 0 /\ line.ordinal >= s.ordinal
                            /\ line.ordinal >= start /\ line.ordinal >= f.own),
              !.out = IF line.ordinal < start \/ line.ordinal < f.own THEN @
                      ELSE Append(@, line.ordinal)]

\* The lines that end at or before a byte, and whether one is cut there.
Whole(f, byte) == Cardinality({k \in DOMAIN f.lines : Offset(f, k) <= byte})
Cut(f, byte)   == Offset(f, Whole(f, byte)) < byte

\* What iter_session_jsonl makes of a segment; `bad` if it raises.
ReadLines(f, s, lines) ==
    LET end == FoldLeft(LAMBDA state, line : Accept(state, f, s, line),
                        Open(f, s), lines)
    IN [end EXCEPT !.bad = @ \/ (s.ordinal # 0 /\ end.last # s.ordinal - 1)]

\* The search skips what the reader would not accept.
SearchLines(f, s, lines) ==
    LET start == IF f.base = NoBase THEN 1 ELSE f.base.ordinal + 1
        found == SelectSeq(lines, LAMBDA line :
                   /\ line.kind # "bad" /\ line.ordinal >= start
                   /\ line.ordinal >= f.own
                   /\ s.ordinal # 0 => line.ordinal < s.ordinal)
    IN [Open(f, s) EXCEPT !.out = [k \in DOMAIN found |-> found[k].ordinal]]

\* A file without a base or metadata, taken for the old format: a line that
\* turns out to be of the new one ends the read.  The search takes it.
LegacyLines(f) ==
    LET found == SelectSeq(f.lines, LAMBDA line : line.kind = "entry")
    IN [Open(f, NoBase) EXCEPT
          !.bad = reader.full /\ ~f.legacy /\ f.lines # <<>>,
          !.out = [k \in DOMAIN found |-> found[k].ordinal]]

\* (mutant of Budget) every file has the limit for itself.
BudgetEach(used, size) == size

\* Bytes read for one request, in all its files.
Budget(used, size) == used + size

\* iter_jsonl over one file, whose size is that when it was opened: what is
\* appended later is not read.
ReadSegment ==
    LET s     == reader.segments[reader.next]
        f     == files[Path(s)]
        size  == Needs(s)
        lines == SubSeq(f.lines, 1, Whole(f, size))
        got   == IF s.at = "legacy" THEN LegacyLines(f)
                 ELSE IF reader.full THEN ReadLines(f, s, lines)
                 ELSE SearchLines(f, s, lines)
        used  == Budget(reader.used, size)
    IN /\ reader.pc = "read" /\ reader.next \in SegmentIds
       /\ IF f.copies = 0 THEN Fail("gone")
          ELSE IF s.byte > Size(f) THEN Fail("past end")
          ELSE IF used > ReadLimit THEN Fail("limit")
          ELSE IF s.byte # 0 /\ Cut(f, s.byte) THEN Fail("cut")
          ELSE IF got.bad THEN Fail("ordinals")
          ELSE reader' = [reader EXCEPT
                 !.next = @ + 1, !.used = used,
                 !.out = @ \o [k \in DOMAIN got.out |-> <<Path(s), got.out[k]>>]]
       /\ UNCHANGED <<files, told, damage>>

FinishRead ==
    /\ reader.pc = "read" /\ reader.next \notin SegmentIds
    /\ reader' = [reader EXCEPT !.pc = "done"]
    /\ UNCHANGED <<files, told, damage>>

Answer ==
    /\ reader.pc \in {"done", "failed"}
    /\ reader' = Idle
    /\ UNCHANGED <<files, told, damage>>

ReaderInit ==
    /\ files = [r \in Rollouts |-> NoFile]
    /\ told = [r \in Rollouts |-> <<>>]
    /\ damage = 0
    /\ reader = Idle

Read ==
    \/ \E r \in Rollouts, full \in BOOLEAN : StartRead(r, full)
    \/ ResolveSegment \/ Measure \/ ReadSegment \/ FinishRead \/ Answer

ReaderNext == Write \/ Read

ReaderSpec == ReaderInit /\ [][ReaderNext]_readerVars

-----------------------------------------------------------------------------
(* Properties.                                                             *)

ReaderTypeOK ==
    /\ damage \in 0..MaxDamage
    /\ \A r \in Rollouts : /\ files[r].copies \in 0..2
                           /\ Len(files[r].lines) <= MaxLines[r]
                           /\ \A e \in ToSet(told[r]) : e[1] \in Rollouts
    /\ reader.pc \in {"idle", "lineage", "measure", "read", "done", "failed"}
    /\ reader.used \in 0..ReadLimit

\* While files only grow, a read returns the session's history as it was at some
\* moment between its begin and its end, whole and in order, over all the files
\* it spans; so does a search.  (Before its first line is complete, a session
\* that continues another reads as empty.)
ReadIsHistory ==
    reader.pc = "done" /\ damage = 0 /\ reader.begun =>
      /\ IsPrefix(reader.out, told[reader.target])
      /\ IsPrefix(reader.known, reader.out)

\* Whatever happened to files with ordinals, a read that succeeds has left out no more
\* entries than lines it rejected, and reordered none.
GapsAreExplained ==
    reader.pc = "done" /\ reader.full /\ reader.begun /\ ~files[reader.target].legacy =>
      LET all     == told[reader.target]
          shown   == ToSet(reader.out)
          before  == {k \in DOMAIN all : \E l \in DOMAIN all :
                        l > k /\ all[l] \in shown}
          missing == {k \in before : all[k] \notin shown}
          Bad(i)  == {k \in DOMAIN files[Path(reader.segments[i])].lines :
                        files[Path(reader.segments[i])].lines[k].kind = "bad"}
          bad     == UNION {{i} \X Bad(i) : i \in SegmentIds}
      IN /\ reader.out = SelectSeq(all, LAMBDA e : e \in shown)
         /\ Cardinality(missing) <= Cardinality(bad)

\* Appending never makes a read fail: one that fails met a file that was changed
\* otherwise, a real limit, or a session whose first line was not yet written.
ReadsSucceed ==
    reader.pc = "failed" =>
      \/ damage # 0 \/ reader.why = "segments" \/ ~reader.begun
      \/ reader.why = "limit" /\ Total > ReadLimit

\* However many files a history spans, and though only the full read measures
\* them first, what a read or search has taken in fits the one limit.
ReadFitsLimit ==
    reader.pc = "done" =>
      MapThenSumSet(LAMBDA i : reader.segments[i].byte, SegmentIds)
        + LineWidth * Cardinality({k \in DOMAIN reader.out :
                                     reader.out[k][1] = reader.target})
        <= ReadLimit

\* A read is the session's history: all of it while files only grow, and without
\* unexplained gaps whatever happened to them.
HistoryIsRead == ReadIsHistory /\ GapsAreExplained

\* A read fails for a reason, and succeeds only within the limit.
OutcomeIsJust == ReadsSucceed /\ ReadFitsLimit

=============================================================================
