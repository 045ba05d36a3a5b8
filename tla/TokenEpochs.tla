----------------------------- MODULE TokenEpochs -----------------------------
(***************************************************************************)
(* Tokens accounted from cumulative samples (projection.py:                *)
(* token_usage_snapshot, merge_token_usage).  Codex counts the tokens of a *)
(* session in counters that only grow, and logs them now and then; a       *)
(* resumed session begins again at zero.  The reader sees the samples      *)
(* alone, and adds what each one has over the one before.                  *)
(***************************************************************************)
EXTENDS Integers, FiniteSets

CONSTANTS
    Counters,   \* input_tokens, output_tokens, total_tokens, ...
    MaxSafe,    \* MAX_SAFE_INTEGER
    Calls       \* what a model call may add to the counters

ASSUME EpochsAssumption ==
    /\ MaxSafe \in Nat
    /\ Calls \subseteq [Counters -> Nat]

VARIABLES
    cum,        \* Codex: the counters of this epoch
    spent,      \* Codex: all tokens, of all epochs
    billed,     \* Codex: all tokens that were logged
    logged,     \* Codex: the counters when they were last logged, in this epoch
    sampled,    \* whether they were logged in this epoch
    hidden,     \* whether an epoch began without a counter that decreased
    previous,   \* previous_total_usage
    accounted   \* accounted_usage

epochVars == <<cum, spent, billed, logged, sampled, hidden, previous, accounted>>

Zero == [c \in Counters |-> 0]
SumOf(f, g) == [c \in Counters |-> f[c] + g[c]]

\* A model call; it may not be logged.
Call ==
    /\ \E d \in Calls : cum' = SumOf(cum, d) /\ spent' = SumOf(spent, d)
    /\ UNCHANGED <<billed, logged, sampled, hidden, previous, accounted>>

\* The session is resumed.
Resume ==
    /\ cum' = Zero /\ logged' = Zero /\ sampled' = FALSE
    /\ UNCHANGED <<spent, billed, hidden, previous, accounted>>

-----------------------------------------------------------------------------
(* The reader.                                                             *)

\* numeric_token_usage: counters beyond the limit are ignored.
Reported == {c \in Counters : cum[c] <= MaxSafe}

\* A counter that decreased begins a new epoch.
Reset == \E c \in Reported : cum[c] < previous[c]

\* current_total_usage: what is not reported is as before, or zero.
CurrentTotal == [c \in Counters |-> IF c \in Reported THEN cum[c]
                                    ELSE IF Reset THEN 0 ELSE previous[c]]

\* (mutant of LastUsage) every sample counts in full.
LastUsageInFull == [c \in Counters |-> IF c \in Reported THEN cum[c] ELSE 0]

\* last_usage: the counters themselves after a reset, else their increase.
LastUsage == [c \in Counters |-> IF c \notin Reported THEN 0
                                 ELSE IF Reset THEN cum[c]
                                 ELSE cum[c] - previous[c]]

\* merge_token_usage: a sum beyond the limit is not taken.
Merge(f, g) == [c \in Counters |-> IF f[c] + g[c] <= MaxSafe THEN f[c] + g[c]
                                   ELSE f[c]]

\* A token_count event with the counters, and what the reader makes of it.  The
\* same counters may be logged again.
Sample ==
    /\ billed' = [c \in Counters |-> billed[c] + cum[c] - logged[c]]
    /\ logged' = cum /\ sampled' = TRUE
    /\ hidden' = (hidden \/ (~sampled /\ previous # Zero /\ ~Reset))
    /\ previous' = CurrentTotal
    /\ accounted' = IF CurrentTotal = previous THEN accounted
                    ELSE Merge(accounted, LastUsage)
    /\ UNCHANGED <<cum, spent>>

EpochsInit ==
    /\ cum = Zero /\ spent = Zero /\ billed = Zero /\ logged = Zero
    /\ sampled = FALSE /\ hidden = FALSE
    /\ previous = Zero /\ accounted = Zero

EpochsNext == Call \/ Resume \/ Sample

EpochsSpec == EpochsInit /\ [][EpochsNext]_epochVars

-----------------------------------------------------------------------------
(* Properties.                                                             *)

EpochsTypeOK ==
    /\ \A f \in {cum, spent, billed, logged, previous, accounted} :
         f \in [Counters -> Nat]
    /\ sampled \in BOOLEAN /\ hidden \in BOOLEAN

\* Whatever is logged twice, resumed unnoticed or dropped at the limit, no token
\* is accounted that was not spent.
NeverDoubled == \A c \in Counters : accounted[c] <= spent[c]

\* Below the limit, and as long as each new epoch shows in some counter, every
\* logged token is accounted exactly once.
TokensExact ==
    ~hidden /\ (\A c \in Counters : spent[c] <= MaxSafe) => accounted = billed

\* Accounting never exceeds what was spent and, where it can be, is exact.
TokensAreAccounted == NeverDoubled /\ TokensExact

-----------------------------------------------------------------------------
(* The inductive invariant behind them.                                    *)

Small == \A c \in Counters : spent[c] <= MaxSafe

\* What may still come of this epoch's counters has room in what was spent.
Room ==
    \A c \in Counters :
      /\ previous[c] <= MaxSafe
      /\ sampled => /\ previous[c] <= cum[c]
                    /\ accounted[c] + cum[c] - previous[c] <= spent[c]
      /\ ~sampled => accounted[c] + cum[c] <= spent[c]

\* What was logged of this epoch is part of what was billed, the rest of its
\* counters is yet to come.
Pending ==
    \A c \in Counters :
      /\ logged[c] <= cum[c] /\ logged[c] <= billed[c]
      /\ billed[c] + cum[c] - logged[c] <= spent[c]
      /\ ~sampled => logged[c] = 0

\* The reader's memory is that of the last sample.
Exact ==
    ~hidden /\ Small => /\ accounted = billed
                        /\ sampled => previous = logged

EpochsIInv == EpochsTypeOK /\ Room /\ Pending /\ Exact

=============================================================================
