--------------------------- MODULE MCTaskReports ---------------------------
(***************************************************************************)
(* Instances for TLC of what is computed from the log of a task: its       *)
(* history, its timing, its tokens, those of its subagents, and the        *)
(* account's quota.  These readers share no state in the program; `part`   *)
(* says which of them runs, the others stay where they began.              *)
(***************************************************************************)
EXTENDS RolloutReader, TaskTiming, TaskUsage, TokenEpochs, AccountQuota

CONSTANT MaxSpent   \* tokens spent per counter (bounds TokenEpochs)

VARIABLE part

-----------------------------------------------------------------------------
(* A root session, one that continues it, and one that continues that.     *)

Chain1 == "r1"
Chain2 == "r2"
Chain3 == "r3"
ChainRollouts == {Chain1, Chain2, Chain3}
ChainShapes   == [r \in ChainRollouts |->
                    IF r = Chain1 THEN {"legacy", "root", "copied"} ELSE {}]
ChainSources  == [r \in ChainRollouts |->
                    CASE r = Chain1 -> {} [] r = Chain2 -> {Chain1} [] OTHER -> {Chain2}]
ChainLines    == [r \in ChainRollouts |->
                    CASE r = Chain1 -> 3 [] r = Chain2 -> 2 [] OTHER -> 1]

\* The files the history of a rollout may span: while it is read, a change of
\* another file makes no difference, and waits.
ChainHistory  == [r \in ChainRollouts |->
                    CASE r = Chain1 -> {Chain1} [] r = Chain2 -> {Chain1, Chain2}
                      [] OTHER -> ChainRollouts]

-----------------------------------------------------------------------------
(* Two overlapping turns, and what may be logged of them.                  *)

TurnEntry(t, start, end, duration, calls) ==
    [kind |-> "turn", turn |-> t, start |-> start, end |-> end,
     duration |-> duration, calls |-> calls]

PlainEntry(kind, t, start, end, duration) ==
    [kind |-> kind, turn |-> t, start |-> start, end |-> end, duration |-> duration]

ToolEntry(t, start, end, duration, step, status, hasStart, call) ==
    [kind |-> "tool", turn |-> t, start |-> start, end |-> end,
     duration |-> duration, step |-> step, status |-> status,
     hasStart |-> hasStart, call |-> call]

TimedEntries ==
    { TurnEntry(1, 1, 7, 6, 0),
      TurnEntry(1, 1, NoTime, 0, 1),            \* running, not yet timed
      TurnEntry(2, 5, NoTime, 4, 1) }
    \cup
    { ToolEntry(1, 2, 4, 2, 1, "measured", TRUE, NoCall),
      ToolEntry(1, NoTime, 9, 6, 0, "measured", FALSE, "c"),  \* beyond its turn
      ToolEntry(1, NoTime, 4, 0, 1, "missing", FALSE, NoCall),
      ToolEntry(1, 6, 6, 0, 1, "missing", FALSE, "c"),
      ToolEntry(1, 5, 3, 0, 0, "invalid", TRUE, "c"),         \* conflicting clocks
      ToolEntry(1, 2, 5, 0, 0, "zero", TRUE, NoCall),
      ToolEntry(1, 3, NoTime, 0, 0, "missing", TRUE, NoCall),
      ToolEntry(1, NoTime, 6, 0, 0, "missing", FALSE, NoCall),
      ToolEntry(2, 3, 6, 0, 1, "invalid", TRUE, NoCall) }
    \cup
    { PlainEntry("assistant", 1, 3, 3, 0), PlainEntry("assistant", 1, NoTime, 5, 3),
      PlainEntry("assistant", 2, 6, NoTime, 1),
      PlainEntry("other", 1, 4, 6, 2) }

-----------------------------------------------------------------------------

SmallCalls == [Counters -> 0..2] \ {Zero}

reportVars == <<part, readerVars, timingVars, usageVars, epochVars, quotaVars>>

Init == /\ part \in {"reader", "timing", "usage", "epochs", "quota"}
        /\ ReaderInit /\ TimingInit /\ UsageInit /\ EpochsInit /\ QuotaInit

NextReader == /\ part = "reader" /\ ReaderNext
              /\ reader.pc # "idle" =>
                   \A r \in Rollouts \ ChainHistory[reader.target] : files'[r] = files[r]
              /\ UNCHANGED <<part, timingVars, usageVars, epochVars, quotaVars>>
\* (During a request and after it the log grows by one entry, which is enough to
\* be another log, and by one more while it is read.)
NextTiming == /\ part = "timing" /\ TimingNext
              /\ log' # log =>
                    \/ request.pc = "idle"
                    \/ Len(log) = request.signature
                    \/ /\ Len(log) = request.revision
                       /\ request.pc \in {"parse", "summarize"}
              /\ UNCHANGED <<part, readerVars, usageVars, epochVars, quotaVars>>
NextUsage  == /\ part = "usage" /\ UsageNext
              /\ UNCHANGED <<part, readerVars, timingVars, epochVars, quotaVars>>
NextEpochs == /\ part = "epochs" /\ EpochsNext /\ \A c \in Counters : spent'[c] <= MaxSpent
              /\ UNCHANGED <<part, readerVars, timingVars, usageVars, quotaVars>>
\* (The logs are alike: the first sample is one of "a".)
NextQuota  == /\ part = "quota" /\ QuotaNext /\ rewrites' + unread' <= 1
              /\ clock = 0 => \A l \in QuotaLogs \ {"a"} : samples'[l] = <<>>
              /\ UNCHANGED <<part, readerVars, timingVars, usageVars, epochVars>>

Next == NextReader \/ NextTiming \/ NextUsage \/ NextEpochs \/ NextQuota

Spec == Init /\ [][Next]_reportVars

\* The types of the part that runs, and for TokenEpochs the inductive invariant
\* of its proof.
TypeOK == /\ part = "reader" => ReaderTypeOK
          /\ part = "timing" => TimingTypeOK
          /\ part = "usage"  => UsageTypeOK
          /\ part = "epochs" => EpochsIInv
          /\ part = "quota"  => QuotaTypeOK

=============================================================================
