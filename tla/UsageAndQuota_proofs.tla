------------------------- MODULE UsageAndQuota_proofs -------------------------
(***************************************************************************)
(* Tokens are accounted exactly, for any counters, any limit and any calls *)
(* of the model (TokenEpochs), and the quota is current, for any logs,     *)
(* windows and tails (AccountQuota).                                       *)
(*                                                                         *)
(* TokensAreAccounted is not inductive: that a sample adds no more than    *)
(* was spent since the last one depends on `previous` being at most the    *)
(* counters of this epoch once it was sampled, or on nothing of the epoch  *)
(* being accounted before (Room); and that it adds exactly that much, on   *)
(* what of the epoch was logged (Pending).                                 *)
(*                                                                         *)
(* QuotaIsCurrent speaks of the moment after a poll.  That a poll shows    *)
(* what is current depends on what is remembered of each log: if the log   *)
(* may have grown since, what the samples seen so far said (Linked).       *)
(***************************************************************************)
EXTENDS TokenEpochs, AccountQuota, FiniteSetTheorems, SequenceTheorems,
        NaturalsInduction, WellFoundedInduction, TLAPS

(***************************************************************************)
(* TokenEpochs                                                             *)
(***************************************************************************)

\* What EpochsIInv says, and of the next state.
LEMMA EpochsParts ==
    /\ EpochsIInv <=> EpochsTypeOK /\ Room /\ Pending /\ Exact
    /\ EpochsIInv' <=> EpochsTypeOK' /\ Room' /\ Pending' /\ Exact'
BY DEF EpochsIInv

\* The counters of an epoch are part of what was spent.
LEMMA CumIsSpent ==
    ASSUME EpochsTypeOK, Pending, NEW c \in Counters PROVE cum[c] <= spent[c]
BY DEF EpochsTypeOK, Pending

-----------------------------------------------------------------------------
(* The reader's operators, for one counter.                                *)

\* What a sample makes of the reader's memory.
LEMMA CurrentTotalAt ==
    ASSUME EpochsTypeOK, NEW c \in Counters
    PROVE /\ CurrentTotal \in [Counters -> Nat]
          /\ cum[c] <= MaxSafe => CurrentTotal[c] = cum[c]
          /\ ~(cum[c] <= MaxSafe) => CurrentTotal[c] = IF Reset THEN 0 ELSE previous[c]
BY DEF EpochsTypeOK, CurrentTotal, Reported

\* What a sample has over the one before.
LEMMA LastUsageAt ==
    ASSUME EpochsTypeOK, NEW c \in Counters
    PROVE /\ LastUsage[c] \in Nat
          /\ cum[c] <= MaxSafe /\ Reset => LastUsage[c] = cum[c]
          /\ cum[c] <= MaxSafe /\ ~Reset => /\ previous[c] <= cum[c]
                                            /\ LastUsage[c] = cum[c] - previous[c]
          /\ ~(cum[c] <= MaxSafe) => LastUsage[c] = 0
BY DEF EpochsTypeOK, LastUsage, Reported, Reset

\* A merge adds, or keeps what there was.
LEMMA MergeAt ==
    ASSUME EpochsAssumption, NEW f \in [Counters -> Nat], NEW g,
           \A c \in Counters : g[c] \in Nat
    PROVE /\ Merge(f, g) \in [Counters -> Nat]
          /\ \A c \in Counters : /\ f[c] <= Merge(f, g)[c] /\ Merge(f, g)[c] <= f[c] + g[c]
                                 /\ f[c] + g[c] <= MaxSafe => Merge(f, g)[c] = f[c] + g[c]
BY DEF Merge, EpochsAssumption

-----------------------------------------------------------------------------
(* Inductiveness, one lemma per action.                                    *)

LEMMA EpochsInitIInv == EpochsAssumption /\ EpochsInit => EpochsIInv
<1> SUFFICES ASSUME EpochsAssumption, EpochsInit PROVE EpochsIInv
  OBVIOUS
<1>1. Zero \in [Counters -> Nat] /\ \A c \in Counters : Zero[c] = 0
  BY DEF Zero
<1>2. EpochsTypeOK
  BY <1>1 DEF EpochsInit, EpochsTypeOK
<1>3. Room
  BY <1>1 DEF EpochsInit, Room, EpochsAssumption
<1>4. Pending
  BY <1>1 DEF EpochsInit, Pending
<1>5. Exact
  BY DEF EpochsInit, Exact
<1> QED BY <1>2, <1>3, <1>4, <1>5, EpochsParts

LEMMA CallIInv ==
    ASSUME EpochsAssumption, EpochsIInv, Call PROVE EpochsIInv'
<1>1. EpochsTypeOK /\ Room /\ Pending /\ Exact
  BY EpochsParts
<1>2. PICK d \in Calls : cum' = SumOf(cum, d) /\ spent' = SumOf(spent, d)
  BY DEF Call
<1>3. d \in [Counters -> Nat]
  BY <1>2 DEF EpochsAssumption
<1>4. /\ cum' \in [Counters -> Nat] /\ spent' \in [Counters -> Nat]
      /\ \A c \in Counters : cum'[c] = cum[c] + d[c] /\ spent'[c] = spent[c] + d[c]
  BY <1>1, <1>2, <1>3 DEF SumOf, EpochsTypeOK
<1>5. UNCHANGED <<billed, logged, sampled, hidden, previous, accounted>>
  BY DEF Call
<1>6. EpochsTypeOK'
  BY <1>1, <1>4, <1>5 DEF EpochsTypeOK
<1>7. Room'
  <2> SUFFICES ASSUME NEW c \in Counters
               PROVE /\ previous[c] <= MaxSafe
                     /\ sampled  => /\ previous[c] <= cum'[c]
                                    /\ accounted[c] + cum'[c] - previous[c] <= spent'[c]
                     /\ ~sampled => accounted[c] + cum'[c] <= spent'[c]
    BY <1>5 DEF Room
  <2> QED BY <1>1, <1>3, <1>4 DEF Room, EpochsTypeOK
<1>8. Pending'
  <2> SUFFICES ASSUME NEW c \in Counters
               PROVE /\ logged[c] <= cum'[c] /\ logged[c] <= billed[c]
                     /\ billed[c] + cum'[c] - logged[c] <= spent'[c]
                     /\ ~sampled => logged[c] = 0
    BY <1>5 DEF Pending
  <2> QED BY <1>1, <1>3, <1>4 DEF Pending, EpochsTypeOK
<1>9. Exact'
  <2>1. Small' => Small
    BY <1>1, <1>3, <1>4 DEF Small, EpochsTypeOK, EpochsAssumption
  <2> QED BY <1>1, <1>5, <2>1 DEF Exact
<1> QED BY <1>6, <1>7, <1>8, <1>9, EpochsParts

LEMMA ResumeIInv ==
    ASSUME EpochsAssumption, EpochsIInv, Resume PROVE EpochsIInv'
<1>1. EpochsTypeOK /\ Room /\ Pending /\ Exact
  BY EpochsParts
<1>2. /\ cum' = Zero /\ logged' = Zero /\ sampled' = FALSE
      /\ UNCHANGED <<spent, billed, hidden, previous, accounted>>
  BY DEF Resume
<1>3. Zero \in [Counters -> Nat] /\ \A c \in Counters : Zero[c] = 0
  BY DEF Zero
<1>4. EpochsTypeOK'
  BY <1>1, <1>2, <1>3 DEF EpochsTypeOK
<1>5. Room'
  <2> SUFFICES ASSUME NEW c \in Counters
               PROVE previous[c] <= MaxSafe /\ accounted[c] + Zero[c] <= spent[c]
    BY <1>2 DEF Room
  <2> QED BY <1>1, <1>3 DEF Room, EpochsTypeOK
<1>6. Pending'
  <2> SUFFICES ASSUME NEW c \in Counters
               PROVE /\ Zero[c] <= Zero[c] /\ Zero[c] <= billed[c]
                     /\ billed[c] + Zero[c] - Zero[c] <= spent[c]
                     /\ Zero[c] = 0
    BY <1>2 DEF Pending
  <2> QED BY <1>1, <1>3 DEF Pending, EpochsTypeOK
<1>7. Exact'
  BY <1>1, <1>2 DEF Exact, Small
<1> QED BY <1>4, <1>5, <1>6, <1>7, EpochsParts

\* What a sample makes of the reader's memory fits what is yet to come.
LEMMA SampleRoom ==
    ASSUME EpochsAssumption, EpochsTypeOK, Room, Sample
    PROVE /\ previous' \in [Counters -> Nat] /\ accounted' \in [Counters -> Nat]
          /\ \A c \in Counters : /\ previous'[c] <= MaxSafe /\ previous'[c] <= cum[c]
                                 /\ accounted'[c] + cum[c] - previous'[c] <= spent[c]
<1>1. /\ previous' = CurrentTotal
      /\ accounted' = IF CurrentTotal = previous THEN accounted ELSE Merge(accounted, LastUsage)
  BY DEF Sample
<1>2. /\ accounted \in [Counters -> Nat]
      /\ \A c \in Counters : LastUsage[c] \in Nat
  BY LastUsageAt DEF EpochsTypeOK
<1>3. /\ accounted' \in [Counters -> Nat]
      /\ CurrentTotal = previous => accounted' = accounted
      /\ \A c \in Counters : accounted'[c] <= accounted[c] + LastUsage[c]
  BY <1>1, <1>2, MergeAt
<1>4. previous' \in [Counters -> Nat]
  BY <1>1 DEF CurrentTotal, EpochsTypeOK
<1>5. ASSUME NEW c \in Counters
      PROVE /\ previous'[c] <= MaxSafe /\ previous'[c] <= cum[c]
            /\ accounted'[c] + cum[c] - previous'[c] <= spent[c]
  <2>1. /\ cum[c] \in Nat /\ spent[c] \in Nat /\ previous[c] \in Nat /\ MaxSafe \in Nat
        /\ accounted[c] \in Nat /\ accounted'[c] \in Nat /\ LastUsage[c] \in Nat
    BY <1>2, <1>3 DEF EpochsTypeOK, EpochsAssumption
  <2>2. previous[c] <= MaxSafe
        /\ (previous[c] <= cum[c] => accounted[c] + cum[c] - previous[c] <= spent[c])
    BY <2>1 DEF Room
  <2>3. CASE cum[c] <= MaxSafe
    <3>1. previous'[c] = cum[c]
      BY <1>1, <2>3, CurrentTotalAt
    <3>2. accounted'[c] <= spent[c]
      <4>1. CASE CurrentTotal = previous
        BY <1>1, <1>3, <2>1, <2>2, <3>1, <4>1
      <4>2. CASE CurrentTotal # previous /\ Reset
        <5>1. LastUsage[c] = cum[c]
          BY <2>3, <4>2, LastUsageAt
        <5>2. ~sampled
          BY <4>2 DEF Room, Reset, Reported, EpochsTypeOK
        <5>3. accounted[c] + cum[c] <= spent[c]
          BY <5>2 DEF Room
        <5> QED BY <1>3, <2>1, <5>1, <5>3
      <4>3. CASE CurrentTotal # previous /\ ~Reset
        <5>1. previous[c] <= cum[c] /\ LastUsage[c] = cum[c] - previous[c]
          BY <2>3, <4>3, LastUsageAt
        <5> QED BY <1>3, <2>1, <2>2, <5>1
      <4> QED BY <4>1, <4>2, <4>3
    <3> QED BY <2>1, <2>3, <3>1, <3>2
  <2>4. CASE ~(cum[c] <= MaxSafe)
    <3>1. LastUsage[c] = 0 /\ previous'[c] = IF Reset THEN 0 ELSE previous[c]
      BY <1>1, <2>4, CurrentTotalAt, LastUsageAt
    <3>2. accounted'[c] <= accounted[c]
      BY <1>3, <2>1, <3>1
    <3>3. CASE Reset
      <4>1. ~sampled
        BY <3>3 DEF Room, Reset, Reported, EpochsTypeOK
      <4>2. accounted[c] + cum[c] <= spent[c]
        BY <4>1 DEF Room
      <4> QED BY <2>1, <2>4, <3>1, <3>2, <3>3, <4>2
    <3>4. CASE ~Reset
      BY <2>1, <2>2, <2>4, <3>1, <3>2, <3>4
    <3> QED BY <3>3, <3>4
  <2> QED BY <2>3, <2>4
<1> QED BY <1>3, <1>4, <1>5

\* Below the limit, a sample accounts what was logged with it.
LEMMA SampleExact ==
    ASSUME EpochsAssumption, EpochsTypeOK, Room, Pending, Exact, Sample, ~hidden', Small
    PROVE accounted' = billed' /\ previous' = cum
<1>1. /\ ~hidden /\ (sampled \/ previous = Zero \/ Reset)
      /\ billed' = [c \in Counters |-> billed[c] + cum[c] - logged[c]]
      /\ accounted' = IF CurrentTotal = previous THEN accounted ELSE Merge(accounted, LastUsage)
      /\ previous' = CurrentTotal
  BY DEF Sample
<1>2. /\ cum \in [Counters -> Nat] /\ spent \in [Counters -> Nat]
      /\ billed \in [Counters -> Nat] /\ logged \in [Counters -> Nat]
      /\ previous \in [Counters -> Nat] /\ accounted \in [Counters -> Nat]
      /\ MaxSafe \in Nat
  BY DEF EpochsTypeOK, EpochsAssumption
<1>3. \A c \in Counters : cum[c] <= MaxSafe
  BY <1>2, CumIsSpent DEF Small
<1>4. CurrentTotal = cum
  BY <1>2, <1>3 DEF CurrentTotal, Reported
<1>5. accounted = billed /\ (sampled => previous = logged)
  BY <1>1 DEF Exact
<1>6. \A c \in Counters : ~sampled => logged[c] = 0
  BY DEF Pending
<1>7. \A c \in Counters : billed[c] + cum[c] - logged[c] <= MaxSafe
                          /\ billed[c] + cum[c] - logged[c] \in Nat
  BY <1>2 DEF Pending, Small
\* What the sample has over the one before is what was not logged yet.
<1>8. ASSUME NEW c \in Counters
      PROVE LastUsage[c] = cum[c] - logged[c]
  <2>1. CASE Reset
    <3>1. ~sampled
      BY <2>1, <1>2 DEF Room, Reset, Reported
    <3> QED BY <1>2, <1>3, <1>6, <2>1, <3>1, LastUsageAt
  <2>2. CASE ~Reset
    <3>1. LastUsage[c] = cum[c] - previous[c]
      BY <1>3, <2>2, LastUsageAt
    <3>2. previous[c] = logged[c]
      <4>1. CASE sampled
        BY <1>5, <4>1
      <4>2. CASE ~sampled
        BY <1>1, <1>6, <2>2, <4>2 DEF Zero
      <4> QED BY <4>1, <4>2
    <3> QED BY <3>1, <3>2
  <2> QED BY <2>1, <2>2
<1>9. accounted' = billed'
  <2>1. CASE CurrentTotal = previous
    <3>1. ~Reset
      <4>1. \A c \in Reported : cum[c] = previous[c] /\ cum[c] \in Nat
        BY <1>2, <1>4, <2>1 DEF Reported
      <4> QED BY <4>1 DEF Reset
    <3>2. \A c \in Counters : LastUsage[c] = 0
      BY <1>2, <1>3, <1>4, <2>1, <3>1, LastUsageAt
    <3>3. \A c \in Counters : billed'[c] = accounted[c]
      BY <1>1, <1>2, <1>5, <1>8, <3>2
    <3> QED BY <1>1, <1>2, <2>1, <3>3
  <2>2. CASE CurrentTotal # previous
    <3>1. /\ Merge(accounted, LastUsage) \in [Counters -> Nat]
          /\ \A c \in Counters :
               accounted[c] + LastUsage[c] <= MaxSafe =>
                 Merge(accounted, LastUsage)[c] = accounted[c] + LastUsage[c]
      BY <1>2, LastUsageAt, MergeAt
    <3>2. \A c \in Counters :
            Merge(accounted, LastUsage)[c] = billed[c] + cum[c] - logged[c]
      BY <1>2, <1>5, <1>7, <1>8, <3>1
    <3> QED BY <1>1, <2>2, <3>1, <3>2
  <2> QED BY <2>1, <2>2
<1> QED BY <1>1, <1>4, <1>9

LEMMA SampleIInv ==
    ASSUME EpochsAssumption, EpochsIInv, Sample PROVE EpochsIInv'
<1>1. EpochsTypeOK /\ Room /\ Pending /\ Exact
  BY EpochsParts
<1>2. /\ billed' = [c \in Counters |-> billed[c] + cum[c] - logged[c]]
      /\ logged' = cum /\ sampled' = TRUE
      /\ hidden' = (hidden \/ (~sampled /\ previous # Zero /\ ~Reset))
      /\ UNCHANGED <<cum, spent>>
  BY DEF Sample
<1>3. /\ previous' \in [Counters -> Nat] /\ accounted' \in [Counters -> Nat]
      /\ \A c \in Counters : /\ previous'[c] <= MaxSafe /\ previous'[c] <= cum[c]
                             /\ accounted'[c] + cum[c] - previous'[c] <= spent[c]
  BY <1>1, SampleRoom
<1>4. /\ billed' \in [Counters -> Nat]
      /\ \A c \in Counters : cum[c] <= billed'[c] /\ billed'[c] <= spent[c]
  BY <1>1, <1>2 DEF EpochsTypeOK, Pending
<1>5. hidden' \in BOOLEAN
  BY <1>1, <1>2, Zenon DEF EpochsTypeOK
<1>6. EpochsTypeOK'
  BY <1>1, <1>2, <1>3, <1>4, <1>5 DEF EpochsTypeOK
<1>7. Room'
  BY <1>2, <1>3 DEF Room
<1>8. Pending'
  <2> SUFFICES ASSUME NEW c \in Counters
               PROVE cum[c] <= cum[c] /\ cum[c] <= billed'[c]
                     /\ billed'[c] + cum[c] - cum[c] <= spent[c]
    BY <1>2 DEF Pending
  <2> QED BY <1>1, <1>4 DEF EpochsTypeOK
<1>9. Exact'
  <2>1. Small' <=> Small
    BY <1>2 DEF Small
  <2> QED BY <1>1, <1>2, <2>1, SampleExact DEF Exact
<1> QED BY <1>6, <1>7, <1>8, <1>9, EpochsParts

-----------------------------------------------------------------------------

\* Every reachable state has room for what is yet to come, and holds of the last
\* sample what the next one needs (token_usage_snapshot).
THEOREM EpochsInvariance == EpochsSpec => []EpochsIInv
<1>1. EpochsInit => EpochsIInv
  BY EpochsAssumption, EpochsInitIInv
<1>2. EpochsIInv /\ [EpochsNext]_epochVars => EpochsIInv'
  <2> SUFFICES ASSUME EpochsIInv, [EpochsNext]_epochVars PROVE EpochsIInv'
    OBVIOUS
  <2>1. CASE Call
    BY <2>1, EpochsAssumption, CallIInv
  <2>2. CASE Resume
    BY <2>2, EpochsAssumption, ResumeIInv
  <2>3. CASE Sample
    BY <2>3, EpochsAssumption, SampleIInv
  <2>4. CASE UNCHANGED epochVars
    BY <2>4 DEF epochVars, EpochsIInv, EpochsTypeOK, Room, Pending, Exact, Small
  <2> QED BY <2>1, <2>2, <2>3, <2>4 DEF EpochsNext
<1> QED BY <1>1, <1>2, PTL DEF EpochsSpec

\* However sessions are resumed, samples repeated and counters dropped at the
\* limit, no token is accounted twice, and below the limit none is lost, whatever
\* the counters, the limit and the calls (token_usage_snapshot,
\* merge_token_usage).
THEOREM TokensCorrect == EpochsSpec => []TokensAreAccounted
<1>1. EpochsIInv => TokensAreAccounted
  <2> SUFFICES ASSUME EpochsIInv PROVE NeverDoubled /\ TokensExact
    BY DEF TokensAreAccounted
  <2>1. EpochsTypeOK /\ Room /\ Exact
    BY EpochsParts
  <2>2. NeverDoubled
    BY <2>1 DEF NeverDoubled, Room, EpochsTypeOK
  <2>3. TokensExact
    BY <2>1 DEF TokensExact, Exact, Small
  <2> QED BY <2>2, <2>3
<1> QED BY <1>1, EpochsInvariance, PTL

(***************************************************************************)
(* AccountQuota: sequences and numbers.                                    *)
(***************************************************************************)

\* A sequence is a function of its positions.
LEMMA SeqIsFunction ==
    ASSUME NEW S, NEW s \in Seq(S)
    PROVE  s \in [1..Len(s) -> S]
  OBVIOUS

\* What holds of 0 and goes on holds up to n.
LEMMA UpTo ==
    ASSUME NEW n \in Nat, NEW S, 0 \in S, \A k \in 0..(n - 1) : k \in S => k + 1 \in S
    PROVE  \A k \in 0..n : k \in S
  <1> DEFINE T == {k \in 0..n : k \notin S}
             R == OpToRel(<, Nat)
  <1>1. \A a, b \in Nat : a < b => <<a, b>> \in R
    BY DEF OpToRel
  <1>2. IsWellFoundedOn(R, Nat)
    BY NatLessThanWellFounded
  <1>3. T \in SUBSET Nat
    OBVIOUS
  <1> HIDE DEF R
  <1> SUFFICES ASSUME T # {} PROVE FALSE
    OBVIOUS
  <1>4. PICK m \in T : \A k \in T : <<k, m>> \notin R
    BY <1>2, <1>3, WFMin
  <1>5. m \in 1..n /\ m \notin S /\ m - 1 \in 0..(n - 1) /\ (m - 1) + 1 = m
    OBVIOUS
  <1>6. m - 1 \notin S
    BY <1>5
  <1>7. m - 1 \in T /\ m - 1 \in Nat /\ m \in Nat /\ m - 1 < m
    BY <1>5, <1>6
  <1> QED  BY <1>1, <1>4, <1>7

\* The member that is at least as great as the others is the maximum.
LEMMA MaxIs ==
    ASSUME NEW S \in SUBSET Int, NEW m \in S, \A k \in S : k <= m
    PROVE  Max(S) = m
  <1>1. \A y \in S : m >= y
    OBVIOUS
  <1>2. PICK x : x = Max(S)
    OBVIOUS
  <1>3. x \in S /\ \A y \in S : x >= y
    BY <1>1, <1>2 DEF Max
  <1> QED  BY <1>2, <1>3

-----------------------------------------------------------------------------
(* FoldLeft, which is defined over sets of positions.                      *)

Folded(F, b, s, D, g) ==
    \A x \in SUBSET D :
      g[x] = IF x = {} THEN b ELSE F[<<g[x \ {Max(x)}], s[Max(x)]>>]

\* A function that folds every set of positions exists.
LEMMA FoldExists ==
    ASSUME NEW R, NEW E, NEW F \in [R \X E -> R], NEW b \in R, NEW n \in Nat,
           NEW s \in [1..n -> E]
    PROVE  \E g \in [SUBSET (1..n) -> R] : Folded(F, b, s, 1..n, g)
  <1> DEFINE P(k) == \E g \in [SUBSET (1..k) -> R] : Folded(F, b, s, 1..k, g)
             S == {k \in 0..n : P(k)}
  <1>1. 0 \in S
    <2>1. PICK g : g = [x \in SUBSET (1..0) |-> b]
      OBVIOUS
    <2>2. g \in [SUBSET (1..0) -> R] /\ \A x \in SUBSET (1..0) : x = {} /\ g[x] = b
      BY <2>1
    <2>3. Folded(F, b, s, 1..0, g)
      BY <2>2 DEF Folded
    <2> QED  BY <2>2, <2>3
  <1>2. ASSUME NEW k \in 0..(n - 1), k \in S
        PROVE  k + 1 \in S
    <2>1. PICK g \in [SUBSET (1..k) -> R] : Folded(F, b, s, 1..k, g)
      BY <1>2
    <2>2. PICK m : m = k + 1
      OBVIOUS
    <2>3. m \in 1..n /\ s[m] \in E /\ 1..k \subseteq 1..m
      BY <2>2
    <2>4. \A x \in SUBSET (1..m) : x \ {m} \in SUBSET (1..k)
      BY <2>2
    <2>5. PICK h : h = [x \in SUBSET (1..m) |-> IF m \in x THEN F[<<g[x \ {m}], s[m]>>] ELSE g[x]]
      OBVIOUS
    <2>6. ASSUME NEW x \in SUBSET (1..m), m \in x
          PROVE  /\ h[x] = F[<<g[x \ {m}], s[m]>>] /\ h[x] \in R
                 /\ h[x \ {m}] = g[x \ {m}] /\ Max(x) = m /\ x # {}
      <3>1. g[x \ {m}] \in R
        BY <2>4
      <3>2. h[x] = F[<<g[x \ {m}], s[m]>>]
        BY <2>5, <2>6
      <3>3. h[x] \in R
        BY <2>3, <3>1, <3>2
      <3>4. h[x \ {m}] = g[x \ {m}]
        <4>1. x \ {m} \in SUBSET (1..m) /\ m \notin x \ {m}
          OBVIOUS
        <4> QED  BY <2>5, <4>1
      <3>5. x \in SUBSET Int /\ \A y \in x : y <= m
        BY <2>2
      <3>6. Max(x) = m
        BY <2>6, <3>5, MaxIs
      <3> QED  BY <2>6, <3>2, <3>3, <3>4, <3>6
    <2>7. ASSUME NEW x \in SUBSET (1..m), m \notin x
          PROVE  /\ x \in SUBSET (1..k) /\ h[x] = g[x] /\ h[x] \in R
                 /\ \A y : h[x \ {y}] = g[x \ {y}]
      <3>1. x \in SUBSET (1..k) /\ h[x] = g[x]
        BY <2>4, <2>5, <2>7
      <3>2. ASSUME NEW y PROVE h[x \ {y}] = g[x \ {y}]
        <4>1. x \ {y} \in SUBSET (1..m) /\ m \notin x \ {y}
          BY <2>7
        <4> QED  BY <2>5, <4>1
      <3> QED  BY <3>1, <3>2
    <2>8. h \in [SUBSET (1..m) -> R]
      <3>1. \A x \in SUBSET (1..m) : h[x] \in R
        BY <2>6, <2>7
      <3> QED  BY <2>5, <3>1
    <2>9. ASSUME NEW x \in SUBSET (1..m)
          PROVE  h[x] = IF x = {} THEN b ELSE F[<<h[x \ {Max(x)}], s[Max(x)]>>]
      <3>1. CASE m \in x
        BY <2>6, <3>1
      <3>2. CASE m \notin x
        <4>1. g[x] = IF x = {} THEN b ELSE F[<<g[x \ {Max(x)}], s[Max(x)]>>]
          BY <2>1, <2>7, <3>2 DEF Folded
        <4> QED  BY <2>7, <3>2, <4>1
      <3> QED  BY <3>1, <3>2
    <2>10. Folded(F, b, s, 1..m, h)
      BY <2>9 DEF Folded
    <2>11. P(k + 1)
      BY <2>2, <2>8, <2>10
    <2> QED  BY <2>11
  <1> HIDE DEF S
  <1>3. \A k \in 0..n : k \in S
    BY <1>1, <1>2, UpTo
  <1>4. n \in S
    BY <1>3
  <1> QED  BY <1>4 DEF S


\* A set of numbers that is not empty has a least one.
LEMMA LeastNumber ==
    ASSUME NEW T \in SUBSET Nat, T # {}
    PROVE  \E m \in T : \A n \in T : m <= n
  <1> DEFINE R == OpToRel(<, Nat)
  <1>1. \A a, b \in Nat : a < b => <<a, b>> \in R
    BY DEF OpToRel
  <1>2. IsWellFoundedOn(R, Nat)
    BY NatLessThanWellFounded
  <1> HIDE DEF R
  <1>3. PICK m \in T : \A n \in T : <<n, m>> \notin R
    BY <1>2, WFMin
  <1>4. \A n \in T : ~ (n < m)
    BY <1>1, <1>3
  <1> QED  BY <1>4

\* A bounded set of numbers that is not empty has a greatest one.
LEMMA MaxOf ==
    ASSUME NEW n \in Nat, NEW S \in SUBSET (0..n), S # {}
    PROVE  Max(S) \in S /\ \A k \in S : k <= Max(S)
  <1> DEFINE B == {b \in 0..n : \A k \in S : k <= b}
  <1>1. B \in SUBSET Nat /\ n \in B
    OBVIOUS
  <1>2. PICK m \in B : \A b \in B : m <= b
    BY <1>1, LeastNumber
  <1>3. m \in 0..n /\ \A k \in S : k <= m
    BY <1>2
  <1>4. m \in S
    <2> SUFFICES ASSUME m \notin S PROVE FALSE
      OBVIOUS
    <2>1. \A k \in S : k \in 0..n /\ k <= m /\ k # m
      BY <1>3
    <2>2. \A k \in S : k <= m - 1 /\ 0 <= m - 1
      BY <1>3, <2>1
    <2> HIDE DEF B
    <2>3. PICK k \in S : TRUE
      OBVIOUS
    <2>4. m - 1 \in 0..n
      BY <1>3, <2>2, <2>3
    <2>5. m - 1 \in B
      BY <2>2, <2>4 DEF B
    <2> QED  BY <1>2, <1>3, <2>5
  <1>5. S \in SUBSET Int
    OBVIOUS
  <1>6. Max(S) = m
    BY <1>3, <1>4, <1>5, MaxIs
  <1> QED  BY <1>3, <1>4, <1>6

-----------------------------------------------------------------------------
(* What samples say.                                                       *)

\* The last thing the samples S of s say of a window, or else what was known.
LastOf(s, S, w, known) ==
    LET said == {i \in S : s[i].window[w] # Absent}
    IN IF said = {} THEN known ELSE s[Max(said)].window[w]

LEMMA LastOfMore ==
    ASSUME NEW s, NEW i \in Nat, NEW S \in SUBSET (0..i), i \notin S, NEW w, NEW known,
           NEW U, U = S \cup {i}
    PROVE  LastOf(s, U, w, known) =
             IF s[i].window[w] = Absent THEN LastOf(s, S, w, known) ELSE s[i].window[w]
  <1> DEFINE A(V) == {k \in V : s[k].window[w] # Absent}
  <1>1. CASE s[i].window[w] = Absent
    <2>1. A(U) = A(S)
      BY <1>1
    <2> QED  BY <1>1, <2>1 DEF LastOf
  <1>2. CASE s[i].window[w] # Absent
    <2>1. PICK T : T = A(U)
      OBVIOUS
    <2>2. T \subseteq U
      BY <2>1
    <2>3. U \subseteq 0..i
      OBVIOUS
    <2>4. i \in T /\ T \subseteq 0..i
      <3>1. i \in T
        BY <1>2, <2>1
      <3> QED  BY <2>2, <2>3, <3>1
    <2>5. T \in SUBSET Int /\ \A k \in T : k <= i
      BY <2>4
    <2>6. Max(T) = i
      BY <2>4, <2>5, MaxIs
    <2> QED  BY <1>2, <2>1, <2>4, <2>6 DEF LastOf
  <1> QED  BY <1>1, <1>2

\* The samples X are the last of U, and N has the others, of n in all.
EndsIn(n, U, N, X) ==
    /\ n \in Nat /\ U \in SUBSET (0..n)
    /\ N \subseteq U /\ X \subseteq U /\ U \subseteq N \cup X
    /\ \A k \in U \ X : \A j \in X : k < j

\* What U says, X says after N.
LEMMA LastOfSplit ==
    ASSUME NEW s, NEW n, NEW U, NEW N, NEW X, EndsIn(n, U, N, X),
           NEW w, NEW known, NEW was, was = LastOf(s, N, w, known)
    PROVE  LastOf(s, U, w, known) = LastOf(s, X, w, was)
  <1> USE DEF EndsIn
  <1> DEFINE A(V) == {k \in V : s[k].window[w] # Absent}
  <1>1. CASE A(X) = {}
    <2>1. A(U) = A(N)
      BY <1>1
    <2> QED  BY <1>1, <2>1 DEF LastOf
  <1>2. CASE A(X) # {}
    <2>1. PICK T, V : T = A(U) /\ V = A(X)
      OBVIOUS
    <2>2. V # {} /\ V \subseteq T /\ V \subseteq X /\ T \subseteq U
      BY <1>2, <2>1
    <2>3. V \in SUBSET (0..n) /\ T \in SUBSET Int
      BY <2>2
    <2>4. Max(V) \in V /\ \A k \in V : k <= Max(V)
      BY <2>2, <2>3, MaxOf
    <2>5. PICK m : m = Max(V)
      OBVIOUS
    <2>6. \A k \in T : k <= m
      <3> SUFFICES ASSUME NEW k \in T PROVE k <= m
        OBVIOUS
      <3>1. CASE k \in V
        BY <2>4, <2>5, <3>1
      <3>2. CASE k \notin V
        <4>1. k \in U \ X /\ m \in X /\ k \in Int /\ m \in Int
          BY <2>1, <2>2, <2>4, <2>5, <2>3, <3>2
        <4>2. k < m
          BY <4>1
        <4> QED  BY <4>1, <4>2
      <3> QED  BY <3>1, <3>2
    <2>7. Max(T) = m
      BY <2>2, <2>4, <2>5, <2>6, <2>3, MaxIs
    <2> QED  BY <1>2, <2>1, <2>2, <2>5, <2>7 DEF LastOf
  <1> QED  BY <1>1, <1>2

-----------------------------------------------------------------------------
(* A log is read on from what is known.                                    *)

Merged == [time : Nat, window : [Windows -> Int]]

\* What a sample changes of what is known.
LEMMA ApplyIs ==
    ASSUME NEW x \in Merged, NEW y \in Merged
    PROVE  /\ Apply(x, y) \in Merged
           /\ y.time < x.time => Apply(x, y) = x
           /\ ~(y.time < x.time) =>
                /\ Apply(x, y).time = y.time
                /\ \A w \in Windows : Apply(x, y).window[w] =
                      IF y.window[w] = Absent THEN x.window[w] ELSE y.window[w]
  BY DEF Apply, MergeLimits, Merged, Absent

\* h lists what is known after each of the n samples of s, f is the last of it.
Applied(b, s, n, h, f) ==
    /\ h \in [0..n -> Merged] /\ h[0] = b /\ f = h[n]
    /\ \A k \in 1..n : h[k] = Apply(h[k - 1], s[k])

\* Reading samples with FoldLeft is applying one after the other.
LEMMA FoldApply ==
    ASSUME NEW b \in Merged, NEW n \in Nat, NEW s, s \in [1..n -> Merged],
           NEW f, f = FoldLeft(Apply, b, s)
    PROVE  \E h : Applied(b, s, n, h, f)
  <1> DEFINE D == 1..n
             Eqn(g) == g = [x \in SUBSET D |->
                              IF x = {} THEN b ELSE Apply(g[x \ {Max(x)}], s[Max(x)])]
  <1>1. FoldLeft(Apply, b, s) = (CHOOSE g : Eqn(g))[D]
    BY DEF FoldLeft, MapThenFoldSet
  <1>2. PICK F : F = [p \in Merged \X Merged |-> Apply(p[1], p[2])]
    OBVIOUS
  <1>3. F \in [Merged \X Merged -> Merged]
    BY <1>2, ApplyIs
  <1>4. \A x \in Merged, y \in Merged : F[<<x, y>>] = Apply(x, y)
    BY <1>2
  <1>5. PICK g \in [SUBSET D -> Merged] : Folded(F, b, s, D, g)
    BY <1>3, FoldExists
  <1>6. ASSUME NEW x \in SUBSET D
        PROVE  g[x] = IF x = {} THEN b ELSE Apply(g[x \ {Max(x)}], s[Max(x)])
    <2>1. CASE x = {}
      BY <1>5, <2>1 DEF Folded
    <2>2. CASE x # {}
      <3>1. x \in SUBSET (0..n)
        OBVIOUS
      <3>2. Max(x) \in x
        BY <2>2, <3>1, MaxOf
      <3>3. s[Max(x)] \in Merged /\ g[x \ {Max(x)}] \in Merged
        BY <3>2
      <3>4. g[x] = F[<<g[x \ {Max(x)}], s[Max(x)]>>]
        BY <1>5, <2>2 DEF Folded
      <3> QED  BY <1>4, <2>2, <3>3, <3>4
    <2> QED  BY <2>1, <2>2
  <1>7. Eqn(g)
    BY <1>6
  <1>8. PICK q : q = CHOOSE e : Eqn(e)
    OBVIOUS
  <1>9. Eqn(q)
    BY <1>7, <1>8
  <1>10. \A x \in SUBSET D : q[x] = IF x = {} THEN b ELSE Apply(q[x \ {Max(x)}], s[Max(x)])
    BY <1>9
  <1> HIDE DEF Eqn
  <1>11. PICK h : h = [k \in 0..n |-> q[1..k]]
    OBVIOUS
  <1>12. h[0] = b
    <2>1. q[{}] = b
      BY <1>10
    <2>2. 1..0 = {} /\ 0 \in 0..n
      OBVIOUS
    <2> QED  BY <1>11, <2>1, <2>2
  <1>13. ASSUME NEW k \in 1..n
         PROVE  h[k] = Apply(h[k - 1], s[k])
    <2>1. /\ 1..k \in SUBSET D /\ 1..k \in SUBSET Int /\ k \in 1..k /\ \A j \in 1..k : j <= k
          /\ (1..k) \ {k} = 1..(k - 1) /\ k - 1 \in 0..n /\ k \in 0..n
      OBVIOUS
    <2>2. PICK x : x = 1..k
      OBVIOUS
    <2>3. Max(x) = k
      BY <2>1, <2>2, MaxIs
    <2>4. q[x] = Apply(q[x \ {k}], s[k])
      BY <1>10, <2>1, <2>2, <2>3
    <2> QED  BY <1>11, <2>1, <2>2, <2>4
  <1>14. \A k \in 0..n : h[k] \in Merged
    <2> DEFINE S == {k \in 0..n : h[k] \in Merged}
    <2>1. 0 \in S
      BY <1>12
    <2>2. ASSUME NEW k \in 0..(n - 1), k \in S
          PROVE  k + 1 \in S
      <3>1. k + 1 \in 1..n /\ (k + 1) - 1 = k
        OBVIOUS
      <3>2. h[k + 1] = Apply(h[k], s[k + 1]) /\ h[k] \in Merged /\ s[k + 1] \in Merged
        BY <1>13, <2>2, <3>1
      <3>3. h[k + 1] \in Merged
        BY <3>2, ApplyIs
      <3> QED  BY <3>1, <3>3
    <2>3. \A k \in 0..n : k \in S
      <3> HIDE DEF S
      <3> QED  BY <2>1, <2>2, UpTo
    <2> QED  BY <2>3
  <1>15. h \in [0..n -> Merged]
    BY <1>11, <1>14
  <1>16. f = h[n]
    BY <1>1, <1>8, <1>11
  <1> QED  BY <1>12, <1>13, <1>15, <1>16 DEF Applied

\* Samples of a log: later ones are not older.
IsSamples(s) ==
    /\ s \in Seq(Merged)
    /\ \A i \in 1..Len(s) : s[i].time > 0
    /\ \A i, j \in 1..Len(s) : i <= j => s[i].time <= s[j].time

\* A sample of a log has a time.
LEMMA SampleIs ==
    ASSUME NEW s, IsSamples(s), NEW i \in 1..Len(s)
    PROVE  s[i] \in Merged /\ s[i].time \in Nat /\ s[i].time > 0
  <1>1. s[i] \in Merged
    BY DEF IsSamples
  <1>2. s[i].time \in Nat
    BY <1>1 DEF Merged
  <1> QED  BY <1>1, <1>2 DEF IsSamples

\* The first sample of the tail of a log of n samples.
TailStart(n) == Max({1, n - TailLines + 1})

\* sample is what the samples N of the first n in s say, the last of which were seen.
Says(s, N, n, sample) ==
    /\ n \in 0..Len(s) /\ N \in SUBSET (1..n)
    /\ TailStart(n)..n \subseteq N
    /\ sample \in Merged
    /\ sample.time = IF n = 0 THEN 0 ELSE s[n].time
    /\ \A w \in Windows : sample.window[w] = LastOf(s, N, w, Retired)

\* Where the tail starts.
LEMMA TailStartIs ==
    ASSUME QuotaAssumption, NEW n \in Nat
    PROVE  /\ TailStart(n) \in 1..(n + 1) /\ (n > 0 => TailStart(n) <= n)
           /\ n - TailLines + 1 <= TailStart(n)
           /\ TailStart(n) = 1 \/ TailStart(n) = n - TailLines + 1
  <1>1. TailLines \in Nat \ {0}
    BY DEF QuotaAssumption
  <1>2. PICK S : S = {1, n - TailLines + 1}
    OBVIOUS
  <1>3. S \in SUBSET Int
    BY <1>1, <1>2
  <1>4. CASE n - TailLines + 1 <= 1
    <2>1. 1 \in S /\ \A k \in S : k <= 1
      BY <1>1, <1>2, <1>4
    <2>2. Max(S) = 1
      BY <1>3, <2>1, MaxIs
    <2> QED  BY <1>1, <1>2, <1>4, <2>2 DEF TailStart
  <1>5. CASE ~(n - TailLines + 1 <= 1)
    <2>1. /\ n - TailLines + 1 \in S /\ \A k \in S : k <= n - TailLines + 1
      BY <1>1, <1>2, <1>5
    <2>2. Max(S) = n - TailLines + 1
      BY <1>3, <2>1, MaxIs
    <2> QED  BY <1>1, <1>2, <1>5, <2>2 DEF TailStart
  <1> QED  BY <1>4, <1>5

\* x is what is known when the samples a..i of s were read after b.
Since(s, b, a, i)     == {j \in a..i : s[j].time >= b.time}
ReadOn(s, b, a, i, x) ==
    /\ x.time = IF i < a \/ s[i].time < b.time THEN b.time ELSE s[i].time
    /\ \A w \in Windows : x.window[w] = LastOf(s, Since(s, b, a, i), w, b.window[w])

\* Before the first sample is read, what was known is known.
LEMMA NothingRead ==
    ASSUME NEW s, NEW b, NEW a \in Nat, NEW i \in Int, i < a
    PROVE  ReadOn(s, b, a, i, b)
  <1>1. Since(s, b, a, i) = {}
    BY DEF Since
  <1>2. \A w \in Windows : LastOf(s, {}, w, b.window[w]) = b.window[w]
    BY DEF LastOf
  <1> QED  BY <1>1, <1>2 DEF ReadOn

\* One more sample is read.
LEMMA OneMoreRead ==
    ASSUME NEW s, IsSamples(s), NEW b \in Merged, NEW a \in Nat \ {0}, NEW i \in 1..Len(s), a <= i,
           NEW x \in Merged, ReadOn(s, b, a, i - 1, x), NEW y, y = Apply(x, s[i])
    PROVE  ReadOn(s, b, a, i, y)
  <1>1. Len(s) \in Nat /\ s \in [1..Len(s) -> Merged]
    BY DEF IsSamples
  <1>2. PICK e : e = s[i]
    OBVIOUS
  <1>3. e \in Merged /\ e.time \in Nat /\ x.time \in Nat /\ b.time \in Nat
    BY <1>1, <1>2 DEF Merged
  <1>4. x.time >= b.time /\ (x.time = b.time \/ x.time <= e.time)
    <2>1. CASE i - 1 < a
      BY <1>3, <2>1 DEF ReadOn
    <2>2. CASE ~(i - 1 < a)
      <3>1. PICK j : j = i - 1
        OBVIOUS
      <3>2. j \in 1..Len(s) /\ j <= i
        BY <1>1, <2>2, <3>1
      <3>3. s[j].time <= e.time /\ s[j].time \in Nat
        BY <1>1, <1>2, <3>2 DEF IsSamples, Merged
      <3>4. x.time = IF s[j].time < b.time THEN b.time ELSE s[j].time
        BY <2>2, <3>1 DEF ReadOn
      <3> QED  BY <1>3, <3>3, <3>4
    <2> QED  BY <2>1, <2>2
  <1>5. PICK A, B : A = Since(s, b, a, i - 1) /\ B = Since(s, b, a, i)
    OBVIOUS
  <1>6. A \in SUBSET (0..i) /\ i \notin A /\ i \in Nat
    BY <1>1, <1>5 DEF Since
  <1>7. B = IF e.time >= b.time THEN A \cup {i} ELSE A
    <2>1. a..i = a..(i - 1) \cup {i}
      BY <1>1
    <2> QED  BY <1>2, <1>5, <2>1 DEF Since
  <1>8. \A w \in Windows : x.window[w] = LastOf(s, A, w, b.window[w])
    BY <1>5 DEF ReadOn
  <1>9. ~(i < a)
    BY <1>1
  <1>10. CASE e.time < x.time
    <2>1. y = x /\ x.time = b.time /\ e.time < b.time
      BY <1>2, <1>3, <1>4, <1>10, ApplyIs
    <2>2. B = A
      BY <1>3, <1>7, <2>1
    <2> QED  BY <1>2, <1>5, <1>8, <2>1, <2>2 DEF ReadOn
  <1>11. CASE ~(e.time < x.time)
    <2>1. ~(e.time < b.time) /\ e.time >= b.time
      BY <1>3, <1>4, <1>11
    <2>2. B = A \cup {i}
      BY <1>7, <2>1
    <2>3. /\ y.time = e.time
          /\ \A w \in Windows : y.window[w] =
                IF e.window[w] = Absent THEN x.window[w] ELSE e.window[w]
      BY <1>2, <1>3, <1>11, ApplyIs
    <2>4. ASSUME NEW w \in Windows
          PROVE  y.window[w] = LastOf(s, B, w, b.window[w])
      <3>1. PICK c : c = b.window[w]
        OBVIOUS
      <3>2. LastOf(s, B, w, c) =
              IF s[i].window[w] = Absent THEN LastOf(s, A, w, c) ELSE s[i].window[w]
        BY <1>6, <2>2, LastOfMore
      <3> QED  BY <1>2, <1>8, <2>3, <3>1, <3>2
    <2> QED  BY <1>2, <1>5, <1>9, <2>1, <2>3, <2>4 DEF ReadOn
  <1> QED  BY <1>10, <1>11

\* Reading on to the end of a log.
LEMMA TailRead ==
    ASSUME NEW s, IsSamples(s), NEW b \in Merged, NEW a \in 1..(Len(s) + 1),
           NEW t, t = SubSeq(s, a, Len(s)), NEW f, f = FoldLeft(Apply, b, t)
    PROVE  f \in Merged /\ ReadOn(s, b, a, Len(s), f)
  <1>1. PICK n, l : n = Len(s) /\ l = n - a + 1
    OBVIOUS
  <1>2. n \in Nat /\ a \in Nat \ {0} /\ l \in Nat /\ a + l - 1 = n /\ s \in [1..n -> Merged]
    BY <1>1 DEF IsSamples
  <1>3. \A k \in 1..l : a + k - 1 \in 1..n
    BY <1>2
  <1>4. Len(t) = l /\ \A k \in 1..l : t[k] = s[a + k - 1]
    BY <1>1, <1>2, SubSeqProperties DEF IsSamples
  <1>5. t \in [1..l -> Merged]
    <2>1. t \in Seq(Merged)
      BY <1>1, <1>2, SubSeqProperties DEF IsSamples
    <2>2. t \in [1..Len(t) -> Merged]
      BY <2>1, SeqIsFunction
    <2>3. Len(t) = l
      BY <1>4
    <2> QED  BY <2>2, <2>3
  <1>6. PICK h : Applied(b, t, l, h, f)
    BY <1>2, <1>5, FoldApply
  <1> DEFINE S == {k \in 0..l : ReadOn(s, b, a, a + k - 1, h[k])}
  <1>7. 0 \in S
    <2>1. a + 0 - 1 \in Int /\ a + 0 - 1 < a /\ h[0] = b
      BY <1>2, <1>6 DEF Applied
    <2>2. ReadOn(s, b, a, a + 0 - 1, h[0])
      BY <1>2, <2>1, NothingRead
    <2> QED  BY <1>2, <2>2
  <1>8. ASSUME NEW k \in 0..(l - 1), k \in S
        PROVE  k + 1 \in S
    <2>1. PICK i : i = a + k
      OBVIOUS
    <2>2. /\ i \in 1..Len(s) /\ a <= i /\ i - 1 = a + k - 1 /\ i = a + (k + 1) - 1
          /\ k + 1 \in 1..l /\ (k + 1) - 1 = k /\ k \in 0..l
      BY <1>1, <1>2, <2>1
    <2>3. h[k + 1] = Apply(h[k], s[i]) /\ h[k] \in Merged
      BY <1>4, <1>6, <2>2 DEF Applied
    <2>4. ReadOn(s, b, a, i - 1, h[k])
      BY <1>8, <2>2
    <2>5. ReadOn(s, b, a, i, h[k + 1])
      BY <1>2, <2>2, <2>3, <2>4, OneMoreRead
    <2> QED  BY <2>2, <2>5
  <1> HIDE DEF S
  <1>9. \A k \in 0..l : k \in S
    BY <1>2, <1>7, <1>8, UpTo
  <1>10. l \in 0..l /\ l \in S
    BY <1>2, <1>9
  <1>11. f = h[l] /\ f \in Merged
    BY <1>6, <1>10 DEF Applied
  <1> QED  BY <1>1, <1>2, <1>10, <1>11 DEF S

\* Reading the tail again, or what of it is new, makes no difference.
LEMMA TailAdds ==
    ASSUME QuotaAssumption, NEW s, IsSamples(s), NEW N, NEW m, NEW b, Says(s, N, m, b),
           NEW n, n = Len(s), NEW a, a = TailStart(n), NEW t, t = SubSeq(s, a, n),
           NEW f, f = FoldLeft(Apply, b, t), NEW U, U = N \cup a..n
    PROVE  Says(s, U, n, f)
  <1>1. n \in Nat /\ m \in 0..n /\ s \in [1..n -> Merged] /\ N \in SUBSET (1..m)
    BY DEF IsSamples, Says
  <1>2. a \in 1..(n + 1) /\ (n > 0 => a <= n)
    BY <1>1, TailStartIs
  <1>3. b \in Merged /\ b.time \in Nat
    BY DEF Says, Merged
  <1>4. f \in Merged /\ ReadOn(s, b, a, n, f)
    BY <1>2, <1>3, TailRead
  <1>5. \A i \in 1..n : s[i].time \in Nat
    BY <1>1 DEF Merged
  <1>6. f.time = IF n = 0 THEN 0 ELSE s[n].time
    <2>1. CASE n = 0
      <3>1. n < a /\ m = 0
        BY <1>1, <1>2, <2>1
      <3>2. f.time = b.time /\ b.time = 0
        BY <1>4, <3>1 DEF Says, ReadOn
      <3> QED  BY <2>1, <3>2
    <2>2. CASE n # 0
      <3>1. ~(n < a) /\ n \in 1..n
        BY <1>1, <1>2, <2>2
      <3>2. b.time <= s[n].time
        <4>1. CASE m = 0
          BY <1>5, <3>1, <4>1 DEF Says
        <4>2. CASE m # 0
          <5>1. m \in 1..n /\ m <= n /\ b.time = s[m].time
            BY <1>1, <4>2 DEF Says
          <5> QED  BY <3>1, <5>1 DEF IsSamples
        <4> QED  BY <4>1, <4>2
      <3>3. ~(s[n].time < b.time)
        BY <1>3, <1>5, <3>1, <3>2
      <3> QED  BY <1>4, <2>2, <3>1, <3>3 DEF ReadOn
    <2> QED  BY <2>1, <2>2
  <1>7. PICK V : V = Since(s, b, a, n)
    OBVIOUS
  <1>8. V \subseteq a..n /\ \A j \in a..n : j \in V <=> s[j].time >= b.time
    BY <1>7 DEF Since
  <1>9. a..n \subseteq 1..n /\ 1..m \subseteq 1..n /\ 1..n \subseteq 0..n
    BY <1>1, <1>2
  <1>10. U \in SUBSET (1..n) /\ U \in SUBSET (0..n) /\ N \in SUBSET U /\ V \in SUBSET U
    BY <1>1, <1>8, <1>9
  <1>11. U \subseteq N \cup V
    <2> SUFFICES ASSUME NEW j \in a..n, j \notin N PROVE j \in V
      OBVIOUS
    <2>1. ~(j <= m)
      <3> SUFFICES ASSUME j <= m PROVE FALSE
        OBVIOUS
      <3>1. TailLines \in Nat \ {0}
        BY DEF QuotaAssumption
      <3>2. PICK c : c = TailStart(m)
        OBVIOUS
      <3>3. c \in 1..(m + 1) /\ (c = 1 \/ c = m - TailLines + 1)
        BY SMTT(30), <1>1, <3>2, TailStartIs
      <3>4. n - TailLines + 1 <= a
        BY <1>1, TailStartIs
      <3>5. j \in c..m
        BY <1>1, <1>2, <3>1, <3>3, <3>4
      <3> QED  BY <3>2, <3>5 DEF Says
    <2>2. j \in 1..n /\ m \in Nat /\ m <= j
      BY <1>1, <1>2, <2>1
    <2>3. s[j].time >= b.time
      <3>1. CASE m = 0
        BY <1>5, <2>2, <3>1 DEF Says
      <3>2. CASE m # 0
        <4>1. m \in 1..n /\ b.time = s[m].time
          BY <1>1, <3>2 DEF Says
        <4>2. s[m].time <= s[j].time
          BY <2>2, <4>1 DEF IsSamples
        <4> QED  BY <1>5, <2>2, <4>1, <4>2
      <3> QED  BY <3>1, <3>2
    <2> QED  BY <1>8, <2>3
  <1>12. \A k \in U \ V : \A j \in V : k < j
    <2> SUFFICES ASSUME NEW k \in U \ V, NEW j \in V PROVE k < j
      OBVIOUS
    <2>1. j \in a..n /\ s[j].time >= b.time /\ j \in 1..n /\ k \in 1..n
      BY <1>8, <1>9, <1>10
    <2>2. CASE k < a
      BY <1>2, <2>1, <2>2
    <2>3. CASE ~(k < a)
      <3>1. k \in a..n
        BY <1>1, <1>2, <2>1, <2>3
      <3>2. ~(s[k].time >= b.time) /\ s[k].time \in Nat /\ s[j].time \in Nat
        BY <1>5, <1>8, <2>1, <3>1
      <3>3. ~(s[j].time <= s[k].time)
        BY <1>3, <2>1, <3>2
      <3>4. ~(j <= k)
        BY <2>1, <3>3 DEF IsSamples
      <3> QED  BY <2>1, <3>4
    <2> QED  BY <2>2, <2>3
  <1>13. ASSUME NEW w \in Windows
         PROVE  f.window[w] = LastOf(s, U, w, Retired)
    <2>1. f.window[w] = LastOf(s, V, w, b.window[w])
      BY <1>4, <1>7 DEF ReadOn
    <2>2. b.window[w] = LastOf(s, N, w, Retired)
      BY DEF Says
    <2>3. PICK r : r = Retired
      OBVIOUS
    <2>4. PICK q : q = LastOf(s, N, w, r)
      OBVIOUS
    <2>5. EndsIn(n, U, N, V)
      BY <1>1, <1>10, <1>11, <1>12 DEF EndsIn
    <2>6. LastOf(s, U, w, r) = LastOf(s, V, w, q)
      BY <2>4, <2>5, LastOfSplit
    <2> QED  BY <2>1, <2>2, <2>3, <2>4, <2>6
  <1>14. n \in 0..Len(s) /\ TailStart(n)..n \subseteq U
    BY <1>1
  <1> QED  BY <1>4, <1>6, <1>10, <1>13, <1>14 DEF Says

-----------------------------------------------------------------------------
(* What is remembered of a log.                                            *)

\* s are the samples of a log with identity id, N those that polls have seen
\* since it was rewritten, c what is remembered of it.  Either it is of another
\* file, or of one that was cut and is no longer than it was, or it is what the
\* samples seen say.
Linked(s, N, id, c) ==
    /\ c.signature.inode <= id.inode
    /\ c.signature.inode # id.inode => N = {}
    /\ c.signature.inode = id.inode =>
         /\ c.signature.size \in Nat
         /\ c.signature.stamp <= id.stamp
         /\ c.signature.size # 0 /\ N = {} =>
              Len(s) <= c.signature.size /\ c.signature.stamp < id.stamp
         /\ c.signature.size = 0 \/ N # {} =>
              /\ Says(s, N, c.signature.size, c.sample)
              /\ c.signature.stamp = id.stamp => c.signature.size = Len(s)
         /\ N # {} /\ c.signature.size = Len(s) => c.signature.stamp = id.stamp

IsIdentity(id) == id \in [inode : Nat, stamp : Nat]
IsCached(c)    == c \in [signature : [inode : Int, stamp : Int, size : Int], sample : Merged]

\* Of an empty log nothing is known.
LEMMA NothingSaid ==
    ASSUME QuotaAssumption, NEW s, IsSamples(s)
    PROVE  Says(s, {}, 0, NoSample)
  <1>1. NoSample \in Merged /\ NoSample.time = 0
    BY DEF NoSample, Merged, Retired
  <1>2. ASSUME NEW w \in Windows
        PROVE  NoSample.window[w] = LastOf(s, {}, w, Retired)
    BY DEF NoSample, LastOf
  <1>3. TailStart(0) \in 1..1
    BY TailStartIs
  <1>4. TailStart(0)..0 \subseteq {}
    BY <1>3
  <1>5. 0 \in 0..Len(s)
    BY DEF IsSamples
  <1> QED  BY <1>1, <1>2, <1>4, <1>5 DEF Says

\* What the first samples say does not change when others follow.
LEMMA SaysStays ==
    ASSUME NEW s, NEW N, NEW n, NEW c, Says(s, N, n, c), NEW t, Len(t) \in Nat, n <= Len(t),
           \A i \in 1..n : t[i] = s[i]
    PROVE  Says(t, N, n, c)
  <1>1. N \in SUBSET (1..n)
    BY DEF Says
  <1>2. ASSUME NEW w
        PROVE  LastOf(t, N, w, Retired) = LastOf(s, N, w, Retired)
    <2>1. PICK A : A = {i \in N : s[i].window[w] # Absent}
      OBVIOUS
    <2>2. A = {i \in N : t[i].window[w] # Absent}
      BY <1>1, <2>1
    <2>3. CASE A = {}
      BY <2>1, <2>2, <2>3 DEF LastOf
    <2>4. CASE A # {}
      <3>1. n \in Nat
        BY DEF Says
      <3>2. A \in SUBSET (0..n)
        <4>1. A \subseteq N /\ 1..n \subseteq 0..n
          BY <2>1, <3>1
        <4> QED  BY <1>1, <4>1
      <3>3. Max(A) \in A
        BY <2>4, <3>1, <3>2, MaxOf
      <3>4. Max(A) \in 1..n
        BY <1>1, <2>1, <3>3
      <3>5. t[Max(A)] = s[Max(A)]
        BY <3>4
      <3> QED  BY <2>1, <2>2, <2>4, <3>5 DEF LastOf
    <2> QED  BY <2>3, <2>4
  <1>3. n \in 0..Len(t)
    BY DEF Says
  <1>4. n # 0 => t[n] = s[n]
    BY DEF Says
  <1> QED  BY <1>2, <1>3, <1>4 DEF Says

\* A poll makes of what is remembered what all the samples seen say.
LEMMA RefreshedSays ==
    ASSUME QuotaAssumption, NEW l \in QuotaLogs,
           NEW s, s = samples[l], IsSamples(s),
           NEW N, N = noticed[l], NEW id, id = identity[l], IsIdentity(id),
           NEW c, c = cache[l], IsCached(c), Linked(s, N, id, c),
           NEW n, n = Len(s), NEW U, U = N \cup TailStart(n)..n
    PROVE  Says(s, U, n, Refreshed(l))
  <1>1. Signature(l) = [inode |-> id.inode, stamp |-> id.stamp, size |-> n]
    BY DEF Signature
  <1>2. n \in Nat
    BY DEF IsSamples
  <1>3. CASE c.signature = Signature(l)
    <2>1. c.signature.inode = id.inode /\ c.signature.stamp = id.stamp /\ c.signature.size = n
      BY <1>1, <1>3
    <2>2. c.signature.size = 0 \/ N # {}
      BY <2>1 DEF Linked, IsIdentity
    <2>3. Says(s, N, n, c.sample)
      BY <2>1, <2>2 DEF Linked
    <2>4. U = N
      BY <2>3 DEF Says
    <2>5. Refreshed(l) = c.sample
      BY <1>3 DEF Refreshed
    <2> QED  BY <2>3, <2>4, <2>5
  <1>4. CASE c.signature # Signature(l)
    <2>1. PICK b, m : b = Kept(l) /\ Says(s, N, m, b)
      <3>1. CASE c.signature.inode = id.inode /\ n > c.signature.size
        <4>1. Kept(l) = c.sample
          BY <3>1 DEF Kept
        <4>2. c.signature.size = 0 \/ N # {}
          BY <1>2, <3>1 DEF Linked
        <4>3. Says(s, N, c.signature.size, c.sample)
          BY <3>1, <4>2 DEF Linked
        <4> QED  BY <4>1, <4>3
      <3>2. CASE ~(c.signature.inode = id.inode /\ n > c.signature.size)
        <4>1. Kept(l) = NoSample
          BY <3>2 DEF Kept
        <4>2. N = {}
          <5> SUFFICES ASSUME N # {} PROVE FALSE
            OBVIOUS
          <5>1. c.signature.inode = id.inode /\ c.signature.size \in Nat /\ ~(n > c.signature.size)
            BY <3>2 DEF Linked
          <5>2. Says(s, N, c.signature.size, c.sample)
            BY <5>1 DEF Linked
          <5>3. c.signature.size = n
            BY <1>2, <5>1, <5>2 DEF Says
          <5>4. c.signature.stamp = id.stamp
            BY <5>1, <5>3 DEF Linked
          <5>5. c.signature = [inode |-> id.inode, stamp |-> id.stamp, size |-> n]
            BY <5>1, <5>3, <5>4 DEF IsCached
          <5> QED  BY <1>1, <1>4, <5>5
        <4> QED  BY <4>1, <4>2, NothingSaid
      <3> QED  BY <3>1, <3>2
    <2>2. PICK a, t : a = TailStart(n) /\ t = SubSeq(s, a, n)
      OBVIOUS
    <2>3. PICK f : f = FoldLeft(Apply, b, t)
      OBVIOUS
    <2>4. Says(s, U, n, f)
      <3>1. U = N \cup a..n
        BY <2>2
      <3>2. Says(s, N, m, b)
        BY <2>1
      <3> QED  BY <2>2, <2>3, <3>1, <3>2, TailAdds
    <2>5. Refreshed(l) = f
      BY <1>4, <2>1, <2>2, <2>3 DEF Refreshed, TailOf, TailStart
    <2> QED  BY <2>4, <2>5
  <1> QED  BY <1>3, <1>4

\* What is remembered after a poll is linked to the log.
LEMMA PolledLinks ==
    ASSUME QuotaAssumption, NEW s, IsSamples(s), NEW U, NEW n, n = Len(s), NEW f, Says(s, U, n, f),
           NEW id, IsIdentity(id),
           NEW c, c = [signature |-> [inode |-> id.inode, stamp |-> id.stamp, size |-> n],
                       sample |-> f]
    PROVE  Linked(s, U, id, c) /\ IsCached(c)
  <1>1. n \in Nat /\ f \in Merged
    BY DEF IsSamples, Says
  <1>2. IsCached(c)
    BY <1>1 DEF IsCached, IsIdentity
  <1>3. n # 0 => U # {}
    <2>1. n # 0 => n \in TailStart(n)..n
      BY <1>1, TailStartIs
    <2> QED  BY <2>1 DEF Says
  <1>4. c.signature.inode = id.inode /\ c.signature.stamp = id.stamp /\ c.signature.size = n
        /\ c.sample = f
    OBVIOUS
  <1>5. id.stamp <= id.stamp /\ id.inode <= id.inode
    BY DEF IsIdentity
  <1>6. Linked(s, U, id, c)
    BY <1>1, <1>3, <1>4, <1>5 DEF Linked
  <1> QED  BY <1>2, <1>6

\* A log of which nothing is remembered.
LEMMA ForgottenLinks ==
    ASSUME NEW s, NEW id, IsIdentity(id),
           NEW c, c = [signature |-> Unknown, sample |-> NoSample]
    PROVE  Linked(s, {}, id, c) /\ IsCached(c)
  <1>1. NoSample \in Merged
    BY DEF NoSample, Merged, Retired
  <1>2. IsCached(c)
    BY <1>1 DEF IsCached, Unknown
  <1>3. c.signature.inode = -1
    BY DEF Unknown
  <1>4. Linked(s, {}, id, c)
    BY <1>3 DEF Linked, IsIdentity
  <1> QED  BY <1>2, <1>4

\* A sample more, and a change of the file.
LEMMA GrownLinks ==
    ASSUME NEW s, IsSamples(s), NEW N, NEW id, IsIdentity(id), NEW c, IsCached(c),
           Linked(s, N, id, c), NEW e, NEW t, t = Append(s, e),
           c.signature.inode = id.inode /\ c.signature.size > 0 /\ N = {}
             => Len(s) < c.signature.size,
           NEW jd, jd = [id EXCEPT !.stamp = @ + 1]
    PROVE  Linked(t, N, jd, c) /\ IsIdentity(jd)
  <1>1. IsIdentity(jd) /\ jd.inode = id.inode /\ jd.stamp = id.stamp + 1 /\ id.stamp \in Nat
    BY DEF IsIdentity
  <1>2. Len(t) = Len(s) + 1 /\ Len(s) \in Nat /\ \A i \in 1..Len(s) : t[i] = s[i]
    BY DEF IsSamples
  <1>3. PICK g : g = c.signature
    OBVIOUS
  <1>4. g.inode \in Int /\ g.stamp \in Int /\ g.size \in Int
    BY <1>3 DEF IsCached
  <1>5. ASSUME g.inode = id.inode
        PROVE  /\ g.size \in Nat /\ g.stamp < jd.stamp
               /\ g.size # 0 /\ N = {} => Len(t) <= g.size
               /\ g.size = 0 \/ N # {} => Says(t, N, g.size, c.sample) /\ g.size # Len(t)
    <2>1. g.size \in Nat /\ g.stamp <= id.stamp
      BY <1>3, <1>5 DEF Linked
    <2>2. g.size # 0 /\ N = {} => Len(t) <= g.size
      BY <1>2, <1>3, <1>5, <2>1
    <2>3. ASSUME g.size = 0 \/ N # {}
          PROVE  Says(t, N, g.size, c.sample) /\ g.size # Len(t)
      <3>1. Says(s, N, g.size, c.sample)
        BY <1>3, <1>5, <2>3 DEF Linked
      <3>2. g.size \in 0..Len(s)
        BY <3>1 DEF Says
      <3>3. g.size <= Len(t) /\ g.size # Len(t) /\ Len(t) \in Nat /\ \A i \in 1..g.size : t[i] = s[i]
        BY <1>2, <3>2
      <3>4. PICK m, x : m = g.size /\ x = c.sample
        OBVIOUS
      <3>5. Says(t, N, m, x)
        BY <3>1, <3>3, <3>4, SaysStays
      <3> QED  BY <3>3, <3>4, <3>5
    <2> QED  BY <1>1, <1>4, <2>1, <2>2, <2>3
  <1>6. g.inode <= jd.inode /\ (g.inode # jd.inode => N = {})
    BY <1>1, <1>3 DEF Linked
  <1>7. Linked(t, N, jd, c)
    BY <1>1, <1>3, <1>4, <1>5, <1>6 DEF Linked
  <1> QED  BY <1>1, <1>7

\* A log that was replaced, or cut to no more than was seen.
LEMMA RewrittenLinks ==
    ASSUME QuotaAssumption, NEW s, IsSamples(s), NEW N, NEW id, IsIdentity(id), NEW c, IsCached(c),
           Linked(s, N, id, c), NEW n \in Nat, NEW inode \in {0, 1},
           inode = 0 => n <= c.signature.size, NEW t, IsSamples(t), Len(t) = n,
           NEW jd, jd = [inode |-> id.inode + inode, stamp |-> id.stamp + 1]
    PROVE  Linked(t, {}, jd, c) /\ IsIdentity(jd)
  <1>1. IsIdentity(jd) /\ jd.inode = id.inode + inode /\ jd.stamp = id.stamp + 1
        /\ id.stamp \in Nat /\ id.inode \in Nat
    BY DEF IsIdentity
  <1>2. PICK g : g = c.signature
    OBVIOUS
  <1>3. g.inode \in Int /\ g.stamp \in Int /\ g.size \in Int
    BY <1>2 DEF IsCached
  <1>4. g.inode <= id.inode
    BY <1>2 DEF Linked
  <1>5. ASSUME g.inode = jd.inode
        PROVE  /\ g.size \in Nat /\ g.stamp < jd.stamp /\ n <= g.size
               /\ g.size = 0 => Says(t, {}, g.size, c.sample)
    <2>1. inode = 0 /\ g.inode = id.inode
      BY <1>1, <1>4, <1>3, <1>5
    <2>2. g.size \in Nat /\ g.stamp <= id.stamp /\ n <= g.size
      BY <1>2, <2>1 DEF Linked
    <2>3. ASSUME g.size = 0
          PROVE  Says(t, {}, g.size, c.sample)
      <3>1. Says(s, N, 0, c.sample)
        BY <1>2, <2>1, <2>3 DEF Linked
      <3>2. N = {}
        BY <3>1 DEF Says
      <3>3. 0 <= Len(t) /\ Len(t) \in Nat /\ \A i \in 1..0 : t[i] = s[i]
        OBVIOUS
      <3>4. PICK m, x : m = 0 /\ x = c.sample
        OBVIOUS
      <3>5. Says(t, N, m, x)
        BY <3>1, <3>3, <3>4, SaysStays
      <3> QED  BY <2>3, <3>2, <3>4, <3>5
    <2> QED  BY <1>1, <1>3, <2>2, <2>3
  <1>6. g.inode <= jd.inode
    BY <1>1, <1>3, <1>4
  <1>7. Linked(t, {}, jd, c)
    BY <1>1, <1>2, <1>3, <1>5, <1>6 DEF Linked
  <1> QED  BY <1>1, <1>7

-----------------------------------------------------------------------------
(* The invariant.                                                          *)

\* Numbers of samples are no greater than n.
SaysAtMost(x, n)  == \A w \in Windows : x.window[w] \in 0..n
SamplesTo(s, n)   ==
    /\ Len(s) <= n
    /\ \A i \in 1..Len(s) : /\ s[i].time <= n
                            /\ \A w \in Windows : s[i].window[w] \in {Absent} \cup 0..n

LogFits(l) ==
    /\ IsSamples(samples[l]) /\ SamplesTo(samples[l], clock)
    /\ IsIdentity(identity[l]) /\ IsCached(cache[l])
    /\ Linked(samples[l], noticed[l], identity[l], cache[l])
    /\ SaysAtMost(cache[l].sample, clock)

\* No log that could be read has lost the sample that is shown.
QuotaKnown ==
    rewrites = 0 /\ unread = 0 =>
      quota.time = 0 \/ \E l \in QuotaLogs : \E i \in 1..Len(samples[l]) :
                          quota.time <= samples[l][i].time

QuotaInv ==
    /\ clock \in 0..MaxSamples /\ rewrites \in 0..MaxRewrites /\ unread \in 0..MaxUnread
    /\ \A f \in {samples, identity, cache, noticed} :
         DOMAIN f = QuotaLogs /\ f = [l \in QuotaLogs |-> f[l]]
    /\ \A l \in QuotaLogs : LogFits(l)
    /\ quota \in Merged /\ SaysAtMost(quota, clock)
    /\ QuotaKnown

\* What is known of a log is made of what it says.
LEMMA SaysFits ==
    ASSUME NEW s, NEW N, NEW n, NEW f, Says(s, N, n, f), NEW k \in Nat, SamplesTo(s, k),
           Len(s) \in Nat
    PROVE  SaysAtMost(f, k) /\ N \in SUBSET (1..k)
  <1>1. n \in Nat /\ n <= k /\ N \in SUBSET (1..n) /\ n <= Len(s)
    BY DEF Says, SamplesTo
  <1>2. ASSUME NEW w \in Windows
        PROVE  f.window[w] \in 0..k
    <2>1. f.window[w] = LastOf(s, N, w, Retired)
      BY DEF Says
    <2>2. PICK A : A = {i \in N : s[i].window[w] # Absent}
      OBVIOUS
    <2>3. CASE A = {}
      <3>1. LastOf(s, N, w, Retired) = Retired
        <4>1. {i \in N : s[i].window[w] # Absent} = {}
          BY <2>2, <2>3
        <4> QED  BY <4>1 DEF LastOf
      <3>2. Retired \in 0..k
        BY DEF Retired
      <3> QED  BY <2>1, <3>1, <3>2
    <2>4. CASE A # {}
      <3>1. A \in SUBSET (0..n)
        <4>1. A \subseteq N /\ 1..n \subseteq 0..n
          BY <1>1, <2>2
        <4> QED  BY <1>1, <4>1
      <3>2. Max(A) \in A
        BY <1>1, <2>4, <3>1, MaxOf
      <3>3. PICK m : m = Max(A)
        OBVIOUS
      <3>4. m \in 1..Len(s) /\ s[m].window[w] # Absent
        <4>1. m \in N /\ s[m].window[w] # Absent
          BY <2>2, <3>2, <3>3
        <4>2. m \in 1..n
          BY <1>1, <4>1
        <4> QED  BY <1>1, <4>1, <4>2
      <3>5. s[m].window[w] \in 0..k
        BY <3>4 DEF SamplesTo
      <3> QED  BY <2>1, <2>2, <2>4, <3>3, <3>5 DEF LastOf
    <2> QED  BY <2>3, <2>4
  <1>3. 1..n \subseteq 1..k
    BY <1>1
  <1> QED  BY <1>1, <1>2, <1>3 DEF SaysAtMost

\* A poll reads the logs that are not broken.
PollOf(broken, fresh) ==
    /\ broken \in SUBSET QuotaLogs /\ DOMAIN fresh = QuotaLogs \ broken
    /\ unread + Cardinality(broken) <= MaxUnread /\ unread' = unread + Cardinality(broken)
    /\ UNCHANGED <<clock, samples, identity, rewrites>>
    /\ DOMAIN cache' = QuotaLogs /\ cache' = [l \in QuotaLogs |-> cache'[l]]
    /\ DOMAIN noticed' = QuotaLogs /\ noticed' = [l \in QuotaLogs |-> noticed'[l]]
    /\ \A l \in broken : noticed'[l] = {}
                         /\ cache'[l] = [signature |-> Unknown, sample |-> NoSample]
    /\ \A l \in QuotaLogs \ broken :
         /\ noticed'[l] = noticed[l] \cup TailStart(Len(samples[l]))..Len(samples[l])
         /\ cache'[l] = [signature |-> Signature(l), sample |-> fresh[l]]
         /\ Says(samples[l], noticed'[l], Len(samples[l]), fresh[l])
    /\ \/ quota' = NoSample /\ \A l \in QuotaLogs \ broken : fresh[l] = NoSample
       \/ \E l \in QuotaLogs \ broken :
            quota' = fresh[l] /\ \A k \in QuotaLogs \ broken : fresh[k].time <= fresh[l].time

\* The model's poll is one of these.
LEMMA PollIs ==
    ASSUME QuotaAssumption, QuotaInv, Poll
    PROVE  \E broken, fresh : PollOf(broken, fresh)
  <1>1. PICK broken \in SUBSET QuotaLogs :
          LET fresh == [l \in QuotaLogs \ broken |-> Refreshed(l)]
              seen  == {l \in DOMAIN fresh : fresh[l] # NoSample}
          IN /\ unread + Cardinality(broken) <= MaxUnread
             /\ unread' = unread + Cardinality(broken)
             /\ cache' = [l \in QuotaLogs |->
                  IF l \in broken THEN [signature |-> Unknown, sample |-> NoSample]
                  ELSE [signature |-> Signature(l), sample |-> fresh[l]]]
             /\ IF seen = {} THEN quota' = NoSample
                ELSE \E l \in Newest(fresh) : quota' = fresh[l]
             /\ noticed' = [l \in QuotaLogs |->
                  IF l \in broken THEN {}
                  ELSE noticed[l] \cup Max({1, Len(samples[l]) - TailLines + 1})
                                      ..Len(samples[l])]
             /\ UNCHANGED <<clock, samples, identity, rewrites>>
    BY DEF Poll
  <1>2. PICK fresh : fresh = [l \in QuotaLogs \ broken |-> Refreshed(l)]
    OBVIOUS
  <1>3. /\ unread + Cardinality(broken) <= MaxUnread
        /\ unread' = unread + Cardinality(broken)
        /\ UNCHANGED <<clock, samples, identity, rewrites>>
    BY <1>1
  <1>4. cache' = [l \in QuotaLogs |->
                  IF l \in broken THEN [signature |-> Unknown, sample |-> NoSample]
                  ELSE [signature |-> Signature(l), sample |-> fresh[l]]]
    BY <1>1, <1>2
  <1>5. noticed' = [l \in QuotaLogs |->
                  IF l \in broken THEN {}
                  ELSE noticed[l] \cup TailStart(Len(samples[l]))..Len(samples[l])]
    BY <1>1 DEF TailStart
  <1>6. DOMAIN fresh = QuotaLogs \ broken
    BY <1>2
  <1>7. ASSUME NEW l \in QuotaLogs \ broken
        PROVE  /\ noticed'[l] = noticed[l] \cup TailStart(Len(samples[l]))..Len(samples[l])
               /\ cache'[l] = [signature |-> Signature(l), sample |-> fresh[l]]
               /\ Says(samples[l], noticed'[l], Len(samples[l]), fresh[l])
    <2>1. noticed'[l] = noticed[l] \cup TailStart(Len(samples[l]))..Len(samples[l])
      BY <1>5
    <2>2. cache'[l] = [signature |-> Signature(l), sample |-> fresh[l]]
      BY <1>4
    <2>3. fresh[l] = Refreshed(l)
      BY <1>2
    <2>4. LogFits(l)
      BY DEF QuotaInv
    <2>5. PICK s, N, id, c, n : /\ s = samples[l] /\ N = noticed[l] /\ id = identity[l]
                                /\ c = cache[l] /\ n = Len(s)
      OBVIOUS
    <2>6. IsSamples(s) /\ IsIdentity(id) /\ IsCached(c) /\ Linked(s, N, id, c)
      BY <2>4, <2>5 DEF LogFits
    <2>7. PICK U : U = N \cup TailStart(n)..n
      OBVIOUS
    <2>8. Says(s, U, n, Refreshed(l))
      BY <2>5, <2>6, <2>7, RefreshedSays
    <2> QED  BY <2>1, <2>2, <2>3, <2>5, <2>7, <2>8
  <1>8. \/ quota' = NoSample /\ \A l \in QuotaLogs \ broken : fresh[l] = NoSample
        \/ \E l \in QuotaLogs \ broken :
             quota' = fresh[l] /\ \A k \in QuotaLogs \ broken : fresh[k].time <= fresh[l].time
    <2>1. PICK seen : seen = {l \in DOMAIN fresh : fresh[l] # NoSample}
      OBVIOUS
    <2>2. IF seen = {} THEN quota' = NoSample ELSE \E l \in Newest(fresh) : quota' = fresh[l]
      BY <1>1, <1>2, <2>1
    <2>3. CASE seen = {}
      BY <1>6, <2>1, <2>2, <2>3
    <2>4. CASE seen # {}
      <3>1. PICK l \in Newest(fresh) : quota' = fresh[l]
        BY <2>2, <2>4
      <3> QED  BY <1>6, <3>1 DEF Newest
    <2> QED  BY <2>3, <2>4
  <1>9. /\ DOMAIN cache' = QuotaLogs /\ cache' = [l \in QuotaLogs |-> cache'[l]]
        /\ \A l \in broken : cache'[l] = [signature |-> Unknown, sample |-> NoSample]
    BY <1>4
  <1>10. /\ DOMAIN noticed' = QuotaLogs /\ noticed' = [l \in QuotaLogs |-> noticed'[l]]
         /\ \A l \in broken : noticed'[l] = {}
    BY <1>5
  <1>11. PollOf(broken, fresh)
    BY <1>3, <1>6, <1>7, <1>8, <1>9, <1>10 DEF PollOf
  <1> QED  BY <1>11

\* After a poll, what is remembered of each log fits it.
LEMMA PollFits ==
    ASSUME QuotaAssumption, QuotaInv, NEW broken, NEW fresh, PollOf(broken, fresh)
    PROVE  /\ \A l \in QuotaLogs : LogFits(l)'
           /\ \A l \in QuotaLogs \ broken : /\ fresh[l] \in Merged /\ SaysAtMost(fresh[l], clock)
                                            /\ noticed'[l] \in SUBSET (1..Len(samples[l]))
  <1>1. clock \in Nat /\ clock' = clock /\ samples' = samples /\ identity' = identity
    BY DEF QuotaInv, PollOf, QuotaAssumption
  <1>2. ASSUME NEW l \in QuotaLogs
        PROVE  IsSamples(samples[l]) /\ SamplesTo(samples[l], clock) /\ IsIdentity(identity[l])
               /\ Len(samples[l]) \in Nat
    BY DEF QuotaInv, LogFits, IsSamples
  <1>3. ASSUME NEW l \in QuotaLogs \ broken
        PROVE  /\ fresh[l] \in Merged /\ SaysAtMost(fresh[l], clock)
               /\ noticed'[l] \in SUBSET (1..Len(samples[l])) /\ LogFits(l)'
    <2>1. PICK s, U, n, f, id : /\ s = samples[l] /\ U = noticed'[l] /\ n = Len(s) /\ f = fresh[l]
                                /\ id = identity[l]
      OBVIOUS
    <2>2. Says(s, U, n, f) /\ cache'[l] = [signature |-> Signature(l), sample |-> f]
      BY <2>1 DEF PollOf
    <2>3. Signature(l) = [inode |-> id.inode, stamp |-> id.stamp, size |-> n]
      BY <2>1 DEF Signature
    <2>4. PICK c : c = [signature |-> [inode |-> id.inode, stamp |-> id.stamp, size |-> n],
                        sample |-> f]
      OBVIOUS
    <2>5. IsSamples(s) /\ SamplesTo(s, clock) /\ IsIdentity(id) /\ n \in Nat
      BY <1>2, <2>1
    <2>6. Linked(s, U, id, c) /\ IsCached(c)
      BY <2>1, <2>2, <2>4, <2>5, PolledLinks
    <2>7. SaysAtMost(f, clock)
      BY <1>1, <2>1, <2>2, <2>5, SaysFits
    <2>8. f \in Merged /\ U \in SUBSET (1..n)
      BY <2>2 DEF Says
    <2>9. cache'[l] = c /\ c.sample = f
      BY <2>2, <2>3, <2>4
    <2> QED  BY <1>1, <2>1, <2>5, <2>6, <2>7, <2>8, <2>9 DEF LogFits
  <1>4. ASSUME NEW l \in broken
        PROVE  LogFits(l)'
    <2>1. l \in QuotaLogs /\ noticed'[l] = {}
          /\ cache'[l] = [signature |-> Unknown, sample |-> NoSample]
      BY DEF PollOf
    <2>2. PICK s, id, c : /\ s = samples[l] /\ id = identity[l]
                          /\ c = [signature |-> Unknown, sample |-> NoSample]
      OBVIOUS
    <2>3. IsSamples(s) /\ SamplesTo(s, clock) /\ IsIdentity(id)
      BY <1>2, <2>1, <2>2
    <2>4. Linked(s, {}, id, c) /\ IsCached(c)
      BY <2>2, <2>3, ForgottenLinks
    <2>5. SaysAtMost(c.sample, clock)
      BY <1>1, <2>2 DEF SaysAtMost, NoSample, Retired
    <2> QED  BY <1>1, <2>1, <2>2, <2>3, <2>4, <2>5 DEF LogFits
  <1> QED  BY <1>3, <1>4

\* The time of what a log says is that of its last sample.
LEMMA FreshTime ==
    ASSUME QuotaInv, NEW broken, NEW fresh, PollOf(broken, fresh), NEW l \in QuotaLogs \ broken
    PROVE  /\ Len(samples[l]) \in Nat
           /\ samples[l] = <<>> <=> Len(samples[l]) = 0
           /\ Len(samples[l]) = 0 => fresh[l].time = 0
           /\ Len(samples[l]) # 0 =>
                /\ fresh[l].time = samples[l][Len(samples[l])].time
                /\ fresh[l].time > 0 /\ fresh[l].time \in Nat
  <1>1. PICK s, n, f : s = samples[l] /\ n = Len(s) /\ f = fresh[l]
    OBVIOUS
  <1>2. IsSamples(s)
    BY <1>1 DEF QuotaInv, LogFits
  <1>3. n \in Nat /\ s \in [1..n -> Merged] /\ (s = <<>> <=> n = 0)
    BY <1>1, <1>2 DEF IsSamples
  <1>4. f.time = IF n = 0 THEN 0 ELSE s[n].time
    <2>1. PICK U : Says(s, U, n, f)
      BY <1>1 DEF PollOf
    <2> QED  BY <2>1 DEF Says
  <1>5. ASSUME n # 0
        PROVE  s[n].time > 0 /\ s[n].time \in Nat
    <2>1. n \in 1..Len(s)
      BY <1>1, <1>3, <1>5
    <2> QED  BY <1>2, <2>1, SampleIs
  <1> QED  BY <1>1, <1>3, <1>4, <1>5

\* A poll keeps the invariant.
LEMMA PollKeepsInv ==
    ASSUME QuotaAssumption, QuotaInv, NEW broken, NEW fresh, PollOf(broken, fresh)
    PROVE  QuotaInv'
  <1>1. clock \in Nat /\ clock' = clock /\ samples' = samples /\ identity' = identity
        /\ rewrites' = rewrites
    BY DEF QuotaInv, PollOf, QuotaAssumption
  <1>2. unread' \in 0..MaxUnread
    <2>1. Cardinality(broken) \in Nat
      <3>1. broken \in SUBSET QuotaLogs /\ IsFiniteSet(QuotaLogs)
        BY DEF PollOf, QuotaAssumption
      <3>2. IsFiniteSet(broken)
        BY <3>1, FS_Subset
      <3> QED  BY <3>2, FS_CardinalityType
    <2> QED  BY <2>1 DEF PollOf, QuotaInv, QuotaAssumption
  <1>3. \A f \in {samples', identity', cache', noticed'} :
          DOMAIN f = QuotaLogs /\ f = [l \in QuotaLogs |-> f[l]]
    BY <1>1 DEF QuotaInv, PollOf
  <1>4. /\ \A l \in QuotaLogs : LogFits(l)'
        /\ \A l \in QuotaLogs \ broken : fresh[l] \in Merged /\ SaysAtMost(fresh[l], clock)
    BY PollFits
  <1>5. NoSample \in Merged /\ SaysAtMost(NoSample, clock) /\ NoSample.time = 0
    BY <1>1 DEF NoSample, Merged, Retired, SaysAtMost
  <1>6. CASE quota' = NoSample
    <2>1. quota' \in Merged /\ SaysAtMost(quota', clock') /\ QuotaKnown'
      BY <1>1, <1>5, <1>6 DEF QuotaKnown
    <2> QED  BY <1>1, <1>2, <1>3, <1>4, <2>1 DEF QuotaInv
  <1>7. ASSUME NEW l \in QuotaLogs \ broken, quota' = fresh[l]
        PROVE  QuotaInv'
    <2>1. quota' \in Merged /\ SaysAtMost(quota', clock')
      BY <1>1, <1>4, <1>7
    <2>2. PICK n : n = Len(samples[l])
      OBVIOUS
    <2>3. n \in Nat /\ (n = 0 => quota'.time = 0)
          /\ (n # 0 => quota'.time = samples[l][n].time /\ quota'.time \in Nat)
      BY <1>7, <2>2, FreshTime
    <2>4. quota'.time = 0 \/ \E i \in 1..Len(samples[l]) : quota'.time <= samples[l][i].time
      <3>1. CASE n = 0
        BY <2>3, <3>1
      <3>2. CASE n # 0
        <4>1. n \in 1..Len(samples[l]) /\ quota'.time <= samples[l][n].time
          BY <2>2, <2>3, <3>2
        <4> QED  BY <4>1
      <3> QED  BY <3>1, <3>2
    <2>5. QuotaKnown'
      BY <1>1, <1>7, <2>4 DEF QuotaKnown
    <2> QED  BY <1>1, <1>2, <1>3, <1>4, <2>1, <2>5 DEF QuotaInv
  <1>8. quota' = NoSample \/ \E l \in QuotaLogs \ broken : quota' = fresh[l]
    BY DEF PollOf
  <1> QED  BY <1>6, <1>7, <1>8

\* A poll shows what is current, and nothing older than before.
LEMMA PollIsCurrent ==
    ASSUME QuotaAssumption, QuotaInv, NEW broken, NEW fresh, PollOf(broken, fresh)
    PROVE  QuotaIsNewest' /\ NeverOlder
  <1>1. clock' = clock /\ samples' = samples /\ identity' = identity /\ rewrites' = rewrites
    BY DEF PollOf
  <1>2. /\ \A l \in QuotaLogs : LogFits(l)'
        /\ \A l \in QuotaLogs \ broken : fresh[l] \in Merged
                                         /\ noticed'[l] \in SUBSET (1..Len(samples[l]))
    BY PollFits
  <1>3. \/ quota' = NoSample /\ \A l \in QuotaLogs \ broken : fresh[l] = NoSample
        \/ \E l \in QuotaLogs \ broken :
             quota' = fresh[l] /\ \A k \in QuotaLogs \ broken : fresh[k].time <= fresh[l].time
    BY DEF PollOf
  <1>4. NoSample.time = 0
    BY DEF NoSample
  <1>5. QuotaIsNewest'
    <2> SUFFICES ASSUME Polled', NEW m \in QuotaLogs, samples'[m] # <<>>
                 PROVE  \E l \in QuotaLogs :
                          /\ samples'[l] # <<>> /\ quota'.time = Last(samples'[l]).time
                          /\ \A k \in QuotaLogs :
                               samples'[k] # <<>> => quota'.time >= Last(samples'[k]).time
                          /\ quota'.window = [w \in Windows |-> LastSaid(l, w)']
      BY DEF QuotaIsNewest
    <2>1. broken = {}
      <3> SUFFICES ASSUME NEW l \in broken PROVE FALSE
        OBVIOUS
      <3>1. l \in QuotaLogs /\ cache'[l] = [signature |-> Unknown, sample |-> NoSample]
        BY DEF PollOf
      <3>2. cache'[l].signature.inode = -1
        BY <3>1 DEF Unknown
      <3>3. IsIdentity(identity'[l])
        BY <1>2, <3>1 DEF LogFits
      <3>4. cache'[l].signature.inode = identity'[l].inode
        <4>1. cache'[l].signature = Signature(l)'
          BY <3>1 DEF Polled
        <4> QED  BY <4>1 DEF Signature
      <3> QED  BY <3>2, <3>3, <3>4 DEF IsIdentity
    <2>2. ASSUME NEW k \in QuotaLogs, samples[k] # <<>>
          PROVE  fresh[k].time = Last(samples[k]).time /\ fresh[k].time > 0 /\ fresh[k].time \in Nat
      <3>1. k \in QuotaLogs \ broken
        BY <2>1
      <3> QED  BY <2>2, <3>1, FreshTime DEF Last
    <2>3. fresh[m].time > 0 /\ fresh[m].time \in Nat /\ fresh[m] # NoSample
      BY <1>1, <1>4, <2>2
    <2>4. PICK l \in QuotaLogs :
            quota' = fresh[l] /\ \A k \in QuotaLogs : fresh[k].time <= fresh[l].time
      BY <1>3, <2>1, <2>3
    <2>5. samples[l] # <<>>
      <3> SUFFICES ASSUME samples[l] = <<>> PROVE FALSE
        OBVIOUS
      <3>1. l \in QuotaLogs \ broken
        BY <2>1
      <3>2. fresh[l].time = 0
        BY <3>1, FreshTime
      <3>3. fresh[m].time <= fresh[l].time
        BY <2>4
      <3> QED  BY <2>3, <3>2, <3>3
    <2>6. quota'.time = Last(samples[l]).time
      BY <2>2, <2>4, <2>5
    <2>7. ASSUME NEW k \in QuotaLogs, samples[k] # <<>>
          PROVE  quota'.time >= Last(samples[k]).time
      <3>1. fresh[k].time <= fresh[l].time /\ fresh[k].time = Last(samples[k]).time
            /\ fresh[k].time \in Nat /\ fresh[l].time \in Nat
        BY <2>2, <2>4, <2>5, <2>7
      <3> QED  BY <2>4, <3>1
    <2>8. quota'.window = [w \in Windows |-> LastSaid(l, w)']
      <3>1. l \in QuotaLogs \ broken
        BY <2>1
      <3>2. PICK s, U, n, f : s = samples[l] /\ U = noticed'[l] /\ n = Len(s) /\ f = fresh[l]
        OBVIOUS
      <3>3. Says(s, U, n, f)
        BY <3>1, <3>2 DEF PollOf
      <3>4. IsSamples(s)
        BY <1>1, <1>2, <3>1, <3>2 DEF LogFits
      <3>5. DOMAIN s = 1..n
        BY <3>2, <3>4 DEF IsSamples
      <3>6. U \cap DOMAIN s = U
        BY <3>3, <3>5 DEF Says
      <3>7. ASSUME NEW w \in Windows
            PROVE  LastSaid(l, w)' = f.window[w]
        <4>1. LastSaid(l, w)' = LastOf(s, U, w, Retired)
          BY <1>1, <3>2, <3>6 DEF LastSaid, LastOf
        <4> QED  BY <3>3, <4>1 DEF Says
      <3>8. f.window = [w \in Windows |-> f.window[w]]
        BY <3>3 DEF Says, Merged
      <3> QED  BY <2>4, <3>2, <3>7, <3>8
    <2> QED  BY <1>1, <2>5, <2>6, <2>7, <2>8
  <1>6. NeverOlder
    <2> SUFFICES ASSUME rewrites' = 0, unread' = 0
                 PROVE  quota'.time >= quota.time
      BY DEF NeverOlder
    <2>1. broken = {} /\ unread = 0 /\ rewrites = 0
      <3>1. broken \in SUBSET QuotaLogs /\ IsFiniteSet(QuotaLogs) /\ unread \in Nat
        BY DEF PollOf, QuotaAssumption, QuotaInv
      <3>2. IsFiniteSet(broken)
        BY <3>1, FS_Subset
      <3>3. Cardinality(broken) \in Nat
        BY <3>2, FS_CardinalityType
      <3>4. Cardinality(broken) = 0 /\ unread = 0
        BY <3>1, <3>3 DEF PollOf
      <3>5. broken = {}
        BY <3>2, <3>4, FS_EmptySet
      <3> QED  BY <1>1, <3>4, <3>5
    <2>2. quota.time \in Nat /\ quota'.time \in Nat
      <3>1. quota \in Merged /\ quota' \in Merged
        BY PollKeepsInv DEF QuotaInv
      <3> QED  BY <3>1 DEF Merged
    <2>3. CASE quota.time = 0
      BY <2>2, <2>3
    <2>4. CASE quota.time # 0
      <3>1. PICK l \in QuotaLogs :
              \E i \in 1..Len(samples[l]) : quota.time <= samples[l][i].time
        BY <2>1, <2>4 DEF QuotaInv, QuotaKnown
      <3>2. PICK i \in 1..Len(samples[l]) : quota.time <= samples[l][i].time
        BY <3>1
      <3>3. PICK s, n : s = samples[l] /\ n = Len(s)
        OBVIOUS
      <3>4. l \in QuotaLogs \ broken
        BY <2>1
      <3>5. n \in Nat /\ n # 0 /\ i \in 1..n /\ n \in 1..n /\ i <= n
        BY <3>2, <3>3, <3>4, FreshTime
      <3>6. fresh[l].time = s[n].time /\ fresh[l].time > 0 /\ fresh[l].time \in Nat
        BY <3>3, <3>4, <3>5, FreshTime
      <3>7. s[i].time <= s[n].time /\ s[i].time \in Nat
        <4>1. IsSamples(s)
          BY <3>3 DEF QuotaInv, LogFits
        <4>2. s[i].time <= s[n].time
          BY <3>3, <3>5, <4>1 DEF IsSamples
        <4>3. i \in 1..Len(s)
          BY <3>3, <3>5
        <4> QED  BY <4>1, <4>2, <4>3, SampleIs
      <3>8. fresh[l] # NoSample
        BY <1>4, <3>6
      <3>9. PICK k \in QuotaLogs : quota' = fresh[k] /\ fresh[l].time <= fresh[k].time
        BY <1>3, <3>4, <3>8
      <3>10. quota.time <= fresh[l].time
        BY <2>2, <3>2, <3>3, <3>6, <3>7
      <3>11. quota'.time = fresh[k].time
        BY <3>9
      <3> QED  BY <2>2, <3>6, <3>9, <3>10, <3>11
    <2> QED  BY <2>3, <2>4
  <1> QED  BY <1>5, <1>6

-----------------------------------------------------------------------------
(* The other steps.                                                        *)

\* A log that nothing happened to fits as before.
LEMMA StillFits ==
    ASSUME NEW l \in QuotaLogs, LogFits(l), clock \in Nat, clock' \in Nat, clock <= clock',
           samples'[l] = samples[l], identity'[l] = identity[l],
           cache'[l] = cache[l], noticed'[l] = noticed[l]
    PROVE  LogFits(l)'
  <1>1. PICK s, id, c, U : /\ s = samples[l] /\ id = identity[l]
                           /\ c = cache[l] /\ U = noticed[l]
    OBVIOUS
  <1>2. IsSamples(s) /\ SamplesTo(s, clock) /\ SaysAtMost(c.sample, clock)
    BY <1>1 DEF LogFits
  <1>3. SamplesTo(s, clock')
    <2>1. Len(s) \in Nat /\ Len(s) <= clock'
      BY <1>2 DEF SamplesTo, IsSamples
    <2>2. ASSUME NEW i \in 1..Len(s)
          PROVE  s[i].time <= clock' /\ \A w \in Windows : s[i].window[w] \in {Absent} \cup 0..clock'
      <3>1. s[i].time \in Nat
        BY <1>2, <2>2, SampleIs
      <3> QED  BY <1>2, <3>1 DEF SamplesTo
    <2> QED  BY <2>1, <2>2 DEF SamplesTo
  <1>4. SaysAtMost(c.sample, clock')
    BY <1>2 DEF SaysAtMost
  <1> QED  BY <1>1, <1>2, <1>3, <1>4 DEF LogFits

\* last is the time of the newest sample of all logs, 0 when there is none.
LastTime(last) == /\ last \in 0..clock
                  /\ \A k \in QuotaLogs : \A i \in 1..Len(samples[k]) : samples[k][i].time <= last

\* What LogSample computes of the logs is the time of the newest sample.
LEMMA LastTimeIs ==
    ASSUME QuotaAssumption, QuotaInv
    PROVE  LastTime(Max({0} \cup UNION {{samples[k][i].time : i \in DOMAIN samples[k]}
                                          : k \in QuotaLogs}))
  <1>1. clock \in Nat
    BY DEF QuotaInv, QuotaAssumption
  <1>2. PICK T : T = {0} \cup UNION {{samples[k][i].time : i \in DOMAIN samples[k]}
                                          : k \in QuotaLogs}
    OBVIOUS
  <1>3. ASSUME NEW k \in QuotaLogs
        PROVE  /\ DOMAIN samples[k] = 1..Len(samples[k])
               /\ \A i \in DOMAIN samples[k] : samples[k][i].time \in 0..clock
    <2>1. PICK s : s = samples[k]
      OBVIOUS
    <2>2. IsSamples(s) /\ SamplesTo(s, clock)
      BY <2>1 DEF QuotaInv, LogFits
    <2>3. DOMAIN s = 1..Len(s)
      BY <2>2 DEF IsSamples
    <2>4. ASSUME NEW i \in DOMAIN s
          PROVE  s[i].time \in 0..clock
      <3>1. s[i] \in Merged
        BY <2>2, <2>3 DEF IsSamples
      <3> QED  BY <1>1, <2>2, <2>3, <2>4, <3>1 DEF SamplesTo, Merged
    <2> QED  BY <2>1, <2>3, <2>4
  <1>4. T \in SUBSET (0..clock) /\ T # {}
    BY <1>1, <1>2, <1>3
  <1>5. ASSUME NEW k \in QuotaLogs, NEW i \in 1..Len(samples[k])
        PROVE  samples[k][i].time \in T
    BY <1>2, <1>3
  <1>6. Max(T) \in T /\ \A t \in T : t <= Max(T)
    BY <1>1, <1>4, MaxOf
  <1> QED  BY <1>2, <1>4, <1>5, <1>6 DEF LastTime

\* t is s with one more sample, e, and e is not older than the others.
Extends(s, e, t) == /\ e \in Merged /\ e.time > 0
                    /\ \A i \in 1..Len(s) : s[i].time <= e.time
                    /\ t = Append(s, e)
Longer(s, e, t)  == /\ Len(t) = Len(s) + 1 /\ Len(s) \in Nat
                    /\ t[Len(t)] = e /\ \A i \in 1..Len(s) : t[i] = s[i]

LEMMA OneMoreSample ==
    ASSUME NEW s, IsSamples(s), NEW e, NEW t, Extends(s, e, t)
    PROVE  IsSamples(t) /\ Longer(s, e, t)
  <1> USE DEF Extends
  <1>1. s \in Seq(Merged) /\ Len(s) \in Nat
    BY DEF IsSamples
  <1>2. t \in Seq(Merged) /\ Len(t) = Len(s) + 1 /\ t[Len(t)] = e
        /\ \A i \in 1..Len(s) : t[i] = s[i]
    BY <1>1
  <1>3. ASSUME NEW i \in 1..Len(t)
        PROVE  i \in 1..Len(s) \/ i = Len(t)
    BY <1>1, <1>2
  <1>4. \A i \in 1..Len(t) : t[i].time > 0
    BY <1>2, <1>3 DEF IsSamples
  <1>5. ASSUME NEW i \in 1..Len(t), NEW j \in 1..Len(t), i <= j
        PROVE  t[i].time <= t[j].time
    <2>1. CASE j \in 1..Len(s)
      <3>1. i \in 1..Len(s)
        BY <1>1, <1>5, <2>1
      <3> QED  BY <1>2, <1>5, <2>1, <3>1 DEF IsSamples
    <2>2. CASE i \in 1..Len(s) /\ j = Len(t)
      BY <1>2, <2>2
    <2>3. CASE i = Len(t) /\ j = Len(t)
      BY <1>2, <2>3 DEF Merged
    <2>4. i = Len(t) => j = Len(t)
      BY <1>1, <1>2, <1>5
    <2> QED  BY <1>3, <2>1, <2>2, <2>3, <2>4
  <1>6. IsSamples(t)
    BY <1>2, <1>4, <1>5 DEF IsSamples
  <1> QED  BY <1>1, <1>2, <1>6 DEF Longer

\* What LogSample logs of sample e.
LogOf(l, e) ==
    /\ clock < MaxSamples
    /\ WasCut(l) => Len(samples[l]) < cache[l].signature.size
    /\ identity' = [identity EXCEPT ![l].stamp = @ + 1]
    /\ samples' = [samples EXCEPT ![l] = Append(@, e)]
    /\ e \in Merged /\ e.time > 0 /\ e.time <= clock + 1
    /\ \A i \in 1..Len(samples[l]) : samples[l][i].time <= e.time
    /\ \A w \in Windows : e.window[w] \in {Absent} \cup 0..(clock + 1)
    /\ clock' = clock + 1
    /\ UNCHANGED <<rewrites, unread, cache, quota, noticed>>

\* The model's LogSample is one of these.
LEMMA LogIs ==
    ASSUME QuotaAssumption, QuotaInv, NEW l \in QuotaLogs, LogSample(l)
    PROVE  \E e : LogOf(l, e)
  <1>1. clock \in Nat
    BY DEF QuotaInv, QuotaAssumption
  <1>2. PICK last : last = Max({0} \cup UNION {{samples[k][i].time : i \in DOMAIN samples[k]}
                                               : k \in QuotaLogs})
    OBVIOUS
  <1>3. LastTime(last)
    BY <1>2, LastTimeIs
  <1>4. PICK said \in [Windows -> {Absent, Retired, clock + 1}], tick \in {0, 1} :
          samples' = [samples EXCEPT ![l] =
             Append(@, [time |-> IF last = 0 THEN 1 ELSE last + tick, window |-> said])]
    BY <1>2 DEF LogSample
  <1>5. PICK e : e = [time |-> IF last = 0 THEN 1 ELSE last + tick, window |-> said]
    OBVIOUS
  <1>6. last \in 0..clock /\ \A i \in 1..Len(samples[l]) : samples[l][i].time <= last
    BY <1>3 DEF LastTime
  <1>7. e.time \in Nat /\ e.time > 0 /\ e.time <= clock + 1 /\ last <= e.time
    BY <1>1, <1>5, <1>6
  <1>8. \A w \in Windows : e.window[w] \in {Absent} \cup 0..(clock + 1)
    BY <1>1, <1>5 DEF Retired
  <1>9. e \in Merged
    BY <1>1, <1>5, <1>7 DEF Merged, Absent, Retired
  <1>10. \A i \in 1..Len(samples[l]) : samples[l][i].time <= e.time
    <2>1. ASSUME NEW i \in 1..Len(samples[l])
          PROVE  samples[l][i].time \in Nat
      <3>1. IsSamples(samples[l])
        BY DEF QuotaInv, LogFits
      <3> QED  BY <3>1, SampleIs
    <2> QED  BY <1>6, <1>7, <2>1
  <1> QED  BY <1>4, <1>5, <1>7, <1>8, <1>9, <1>10 DEF LogSample, LogOf

\* The log with one more sample.
LEMMA LogFitsMore ==
    ASSUME QuotaAssumption, QuotaInv, NEW l \in QuotaLogs, NEW e, LogOf(l, e)
    PROVE  LogFits(l)' /\ Len(samples'[l]) = Len(samples[l]) + 1 /\ Len(samples[l]) \in Nat
           /\ \A i \in 1..Len(samples[l]) : samples'[l][i] = samples[l][i]
  <1>1. clock \in Nat /\ clock' = clock + 1
    BY DEF QuotaInv, QuotaAssumption, LogOf
  <1>2. PICK s, id, c, U, t, jd : /\ s = samples[l] /\ id = identity[l] /\ c = cache[l]
                                  /\ U = noticed[l] /\ t = samples'[l] /\ jd = identity'[l]
    OBVIOUS
  <1>3. t = Append(s, e) /\ jd = [id EXCEPT !.stamp = @ + 1]
    BY <1>2 DEF LogOf, QuotaInv
  <1>4. cache'[l] = c /\ noticed'[l] = U
    BY <1>2 DEF LogOf
  <1>5. /\ IsSamples(s) /\ SamplesTo(s, clock) /\ IsIdentity(id) /\ IsCached(c)
        /\ Linked(s, U, id, c) /\ SaysAtMost(c.sample, clock)
    BY <1>2 DEF QuotaInv, LogFits
  <1>6. /\ e \in Merged /\ e.time > 0 /\ e.time <= clock + 1
        /\ \A i \in 1..Len(s) : s[i].time <= e.time
        /\ \A w \in Windows : e.window[w] \in {Absent} \cup 0..(clock + 1)
    BY <1>2 DEF LogOf
  <1>7. /\ IsSamples(t) /\ Len(t) = Len(s) + 1 /\ Len(s) \in Nat
        /\ t[Len(t)] = e /\ \A i \in 1..Len(s) : t[i] = s[i]
    <2>1. Extends(s, e, t)
      BY <1>3, <1>6 DEF Extends
    <2>2. IsSamples(t) /\ Longer(s, e, t)
      BY <1>5, <2>1, OneMoreSample
    <2> QED  BY <2>2 DEF Longer
  <1>8. c.signature.inode = id.inode /\ c.signature.size > 0 /\ U = {}
             => Len(s) < c.signature.size
    BY <1>2 DEF LogOf, WasCut
  <1>9. Linked(t, U, jd, c) /\ IsIdentity(jd)
    BY <1>3, <1>5, <1>8, GrownLinks
  <1>10. SamplesTo(t, clock')
    <2>1. Len(t) <= clock'
      BY <1>1, <1>5, <1>7 DEF SamplesTo
    <2>2. ASSUME NEW i \in 1..Len(t)
          PROVE  t[i].time <= clock' /\ \A w \in Windows : t[i].window[w] \in {Absent} \cup 0..clock'
      <3>1. CASE i \in 1..Len(s)
        <4>1. t[i] = s[i] /\ s[i] \in Merged
          BY <1>5, <1>7, <3>1 DEF IsSamples
        <4> QED  BY <1>1, <1>5, <3>1, <4>1 DEF SamplesTo, Merged
      <3>2. CASE i = Len(t)
        BY <1>1, <1>6, <1>7, <3>2
      <3> QED  BY <1>7, <2>2, <3>1, <3>2
    <2> QED  BY <2>1, <2>2 DEF SamplesTo
  <1>11. SaysAtMost(c.sample, clock')
    BY <1>1, <1>5 DEF SaysAtMost
  <1> QED  BY <1>2, <1>4, <1>5, <1>7, <1>9, <1>10, <1>11 DEF LogFits

\* After a change of a log the last poll is not up to date: its stamp has moved.
LEMMA NotPolled ==
    ASSUME QuotaInv, NEW l \in QuotaLogs, NEW jd, IsIdentity(jd), identity'[l] = jd,
           jd.inode >= identity[l].inode, jd.stamp > identity[l].stamp,
           cache' = cache, NEW t, samples'[l] = t
    PROVE  ~ Polled'
  <1>1. PICK s, id, c, U : /\ s = samples[l] /\ id = identity[l]
                           /\ c = cache[l] /\ U = noticed[l]
    OBVIOUS
  <1>2. IsIdentity(id) /\ IsCached(c) /\ Linked(s, U, id, c)
    BY <1>1 DEF QuotaInv, LogFits
  <1>3. ~ (c.signature.inode = jd.inode /\ c.signature.stamp = jd.stamp)
    BY <1>1, <1>2 DEF Linked, IsIdentity, IsCached
  <1>4. Polled' => c.signature = [inode |-> jd.inode, stamp |-> jd.stamp, size |-> Len(t)]
    BY <1>1 DEF Polled, Signature
  <1> QED  BY <1>3, <1>4

\* Logging a sample keeps the invariant, and the answer waits for the next poll.
LEMMA LogKeepsInv ==
    ASSUME QuotaAssumption, QuotaInv, NEW l \in QuotaLogs, LogSample(l)
    PROVE  QuotaInv' /\ QuotaIsNewest' /\ NeverOlder
  <1>1. PICK e : LogOf(l, e)
    BY LogIs
  <1>2. /\ clock \in Nat /\ clock' = clock + 1 /\ clock' \in 0..MaxSamples
        /\ rewrites' = rewrites /\ unread' = unread
        /\ cache' = cache /\ quota' = quota /\ noticed' = noticed
    BY <1>1 DEF QuotaInv, QuotaAssumption, LogOf
  <1>3. \A f \in {samples', identity', cache', noticed'} :
          DOMAIN f = QuotaLogs /\ f = [k \in QuotaLogs |-> f[k]]
    BY <1>1, <1>2 DEF QuotaInv, LogOf
  <1>4. ASSUME NEW k \in QuotaLogs, k # l
        PROVE  samples'[k] = samples[k] /\ identity'[k] = identity[k] /\ LogFits(k)'
    <2>1. samples'[k] = samples[k] /\ identity'[k] = identity[k]
      BY <1>1, <1>4 DEF LogOf, QuotaInv
    <2>2. LogFits(k) /\ clock <= clock' /\ clock' \in Nat
      BY <1>2 DEF QuotaInv
    <2> QED  BY <1>2, <2>1, <2>2, StillFits
  <1>5. LogFits(l)' /\ Len(samples'[l]) = Len(samples[l]) + 1 /\ Len(samples[l]) \in Nat
        /\ \A i \in 1..Len(samples[l]) : samples'[l][i] = samples[l][i]
    BY <1>1, LogFitsMore
  <1>6. quota \in Merged /\ SaysAtMost(quota, clock')
    BY <1>2 DEF QuotaInv, SaysAtMost
  <1>7. QuotaKnown'
    <2> SUFFICES ASSUME rewrites = 0, unread = 0, quota.time # 0
                 PROVE  \E k \in QuotaLogs : \E i \in 1..Len(samples'[k]) :
                          quota.time <= samples'[k][i].time
      BY <1>2 DEF QuotaKnown
    <2>1. PICK k \in QuotaLogs : \E i \in 1..Len(samples[k]) : quota.time <= samples[k][i].time
      BY DEF QuotaInv, QuotaKnown
    <2>2. PICK i \in 1..Len(samples[k]) : quota.time <= samples[k][i].time
      BY <2>1
    <2>3. CASE k = l
      <3>1. i \in 1..Len(samples'[l]) /\ quota.time <= samples'[l][i].time
        BY <1>5, <2>2, <2>3
      <3> QED  BY <3>1
    <2>4. CASE k # l
      BY <1>4, <2>2, <2>4
    <2> QED  BY <2>3, <2>4
  <1>8. QuotaInv'
    BY <1>2, <1>3, <1>4, <1>5, <1>6, <1>7 DEF QuotaInv
  <1>9. ~ Polled'
    <2>1. PICK id, jd, t : id = identity[l] /\ jd = identity'[l] /\ t = samples'[l]
      OBVIOUS
    <2>2. IsIdentity(id) /\ IsIdentity(jd)
      BY <1>5, <2>1 DEF QuotaInv, LogFits
    <2>3. jd = [id EXCEPT !.stamp = @ + 1]
      BY <1>1, <2>1 DEF LogOf, QuotaInv
    <2>4. jd.inode >= id.inode /\ jd.stamp > id.stamp
      BY <2>2, <2>3 DEF IsIdentity
    <2> QED  BY <1>2, <2>1, <2>2, <2>4, NotPolled
  <1>10. quota'.time >= quota.time
    BY <1>2, <1>6 DEF Merged
  <1> QED  BY <1>8, <1>9, <1>10 DEF QuotaIsNewest, NeverOlder

\* The first samples of a log are samples.
LEMMA FirstSamples ==
    ASSUME NEW s, IsSamples(s), NEW n \in Nat, n <= Len(s), NEW t, t = SubSeq(s, 1, n)
    PROVE  /\ IsSamples(t) /\ Len(t) = n
           /\ \A m \in Nat : SamplesTo(s, m) => SamplesTo(t, m)
  <1>1. s \in Seq(Merged) /\ Len(s) \in Nat
    BY DEF IsSamples
  <1>2. t \in Seq(Merged) /\ Len(t) = n /\ \A i \in 1..n : t[i] = s[i] /\ i \in 1..Len(s)
    BY <1>1
  <1>3. IsSamples(t)
    BY <1>2 DEF IsSamples
  <1>4. \A m \in Nat : SamplesTo(s, m) => SamplesTo(t, m)
    BY <1>1, <1>2 DEF SamplesTo
  <1> QED  BY <1>2, <1>3, <1>4

\* A log that was replaced or cut fits.
LEMMA LogFitsLess ==
    ASSUME QuotaAssumption, QuotaInv, NEW l \in QuotaLogs, NEW n \in 0..(Len(samples[l]) - 1),
           NEW inode \in {0, 1}, inode = 0 => n <= cache[l].signature.size,
           NEW t, t = SubSeq(samples[l], 1, n), samples'[l] = t,
           NEW jd, jd = [inode |-> identity[l].inode + inode, stamp |-> identity[l].stamp + 1],
           identity'[l] = jd, noticed'[l] = {}, cache'[l] = cache[l], clock' = clock
    PROVE  LogFits(l)'
  <1>1. PICK s, id, c, U : /\ s = samples[l] /\ id = identity[l]
                           /\ c = cache[l] /\ U = noticed[l]
    OBVIOUS
  <1>2. /\ IsSamples(s) /\ SamplesTo(s, clock) /\ IsIdentity(id) /\ IsCached(c)
        /\ Linked(s, U, id, c) /\ SaysAtMost(c.sample, clock) /\ clock \in Nat
    BY <1>1 DEF QuotaInv, LogFits, QuotaAssumption
  <1>3. Len(s) \in Nat
    BY <1>2 DEF IsSamples
  <1>4. n \in Nat /\ n <= Len(s)
    BY <1>1, <1>3
  <1>5. t = SubSeq(s, 1, n) /\ jd = [inode |-> id.inode + inode, stamp |-> id.stamp + 1]
        /\ (inode = 0 => n <= c.signature.size)
    BY <1>1
  <1>6. IsSamples(t) /\ Len(t) = n /\ SamplesTo(t, clock)
    BY <1>2, <1>4, <1>5, FirstSamples
  <1>7. Linked(t, {}, jd, c) /\ IsIdentity(jd)
    BY <1>2, <1>4, <1>5, <1>6, RewrittenLinks
  <1> QED  BY <1>1, <1>2, <1>6, <1>7 DEF LogFits

\* Replacing or cutting a log keeps the invariant.
LEMMA RewriteKeepsInv ==
    ASSUME QuotaAssumption, QuotaInv, NEW l \in QuotaLogs, Rewrite(l)
    PROVE  QuotaInv' /\ QuotaIsNewest' /\ NeverOlder
  <1>1. PICK n \in 0..(Len(samples[l]) - 1), inode \in {0, 1} :
          /\ inode = 0 => n <= cache[l].signature.size
          /\ samples' = [samples EXCEPT ![l] = SubSeq(@, 1, n)]
          /\ identity' = [identity EXCEPT ![l] =
                            [inode |-> @.inode + inode, stamp |-> @.stamp + 1]]
    BY DEF Rewrite
  <1>2. /\ clock \in Nat /\ clock' = clock /\ unread' = unread /\ cache' = cache /\ quota' = quota
        /\ rewrites' \in 0..MaxRewrites /\ rewrites' > 0
        /\ noticed' = [noticed EXCEPT ![l] = {}]
    BY DEF QuotaInv, QuotaAssumption, Rewrite
  <1>3. \A f \in {samples', identity', cache', noticed'} :
          DOMAIN f = QuotaLogs /\ f = [k \in QuotaLogs |-> f[k]]
    BY <1>1, <1>2 DEF QuotaInv
  <1>4. ASSUME NEW k \in QuotaLogs, k # l
        PROVE  LogFits(k)'
    <2>1. samples'[k] = samples[k] /\ identity'[k] = identity[k] /\ noticed'[k] = noticed[k]
      BY <1>1, <1>2, <1>4 DEF QuotaInv
    <2>2. LogFits(k) /\ clock <= clock' /\ clock' \in Nat
      BY <1>2 DEF QuotaInv
    <2> QED  BY <1>2, <2>1, <2>2, StillFits
  <1>5. PICK t, jd : /\ t = SubSeq(samples[l], 1, n)
                     /\ jd = [inode |-> identity[l].inode + inode, stamp |-> identity[l].stamp + 1]
    OBVIOUS
  <1>6. samples'[l] = t /\ identity'[l] = jd /\ noticed'[l] = {}
    BY <1>1, <1>2, <1>5 DEF QuotaInv
  <1>7. LogFits(l)'
    BY <1>1, <1>2, <1>5, <1>6, LogFitsLess
  <1>8. QuotaInv'
    BY <1>2, <1>3, <1>4, <1>7 DEF QuotaInv, QuotaKnown
  <1>9. ~ Polled'
    <2>1. IsIdentity(identity[l]) /\ IsIdentity(jd)
      BY <1>6, <1>7 DEF QuotaInv, LogFits
    <2>2. jd.inode >= identity[l].inode /\ jd.stamp > identity[l].stamp
      BY <1>5, <2>1 DEF IsIdentity
    <2> QED  BY <1>2, <1>6, <2>1, <2>2, NotPolled
  <1> QED  BY <1>2, <1>8, <1>9 DEF QuotaIsNewest, NeverOlder

\* Both for the poll of the model.
LEMMA PollCurrent ==
    ASSUME QuotaAssumption, QuotaInv, Poll
    PROVE  QuotaInv' /\ QuotaIsNewest' /\ NeverOlder
  <1>1. PICK broken, fresh : PollOf(broken, fresh)
    BY PollIs
  <1> QED  BY <1>1, PollKeepsInv, PollIsCurrent

-----------------------------------------------------------------------------
(* The theorems.                                                           *)

\* At first nothing is known.
LEMMA QuotaInitInv == QuotaAssumption /\ QuotaInit => QuotaInv
  <1> SUFFICES ASSUME QuotaAssumption, QuotaInit PROVE QuotaInv
    OBVIOUS
  <1>1. clock = 0 /\ 0 \in Nat /\ rewrites = 0 /\ unread = 0
    BY DEF QuotaInit
  <1>2. NoSample \in Merged /\ SaysAtMost(NoSample, 0) /\ NoSample.time = 0
    BY DEF NoSample, Merged, Retired, SaysAtMost
  <1>3. ASSUME NEW l \in QuotaLogs
        PROVE  LogFits(l)
    <2>1. PICK s, id, c : /\ s = samples[l] /\ id = identity[l]
                          /\ c = [signature |-> Unknown, sample |-> NoSample]
      OBVIOUS
    <2>2. s = <<>> /\ id = [inode |-> 0, stamp |-> 0] /\ cache[l] = c /\ noticed[l] = {}
      BY <2>1 DEF QuotaInit
    <2>3. IsSamples(s) /\ SamplesTo(s, 0) /\ IsIdentity(id)
      BY <2>2 DEF IsSamples, SamplesTo, IsIdentity
    <2>4. Linked(s, {}, id, c) /\ IsCached(c)
      BY <2>1, <2>3, ForgottenLinks
    <2>5. SaysAtMost(c.sample, 0)
      BY <1>2, <2>1
    <2> QED  BY <1>1, <2>1, <2>2, <2>3, <2>4, <2>5 DEF LogFits
  <1>4. \A f \in {samples, identity, cache, noticed} :
          DOMAIN f = QuotaLogs /\ f = [l \in QuotaLogs |-> f[l]]
    BY DEF QuotaInit
  <1>5. quota = NoSample
    BY DEF QuotaInit
  <1> QED  BY <1>1, <1>2, <1>3, <1>4, <1>5 DEF QuotaInv, QuotaKnown, QuotaAssumption

\* A step keeps the invariant and shows what is current.
LEMMA QuotaStep ==
    ASSUME QuotaAssumption, QuotaInv, QuotaNext
    PROVE  QuotaInv' /\ QuotaIsNewest' /\ NeverOlder
  <1>1. ASSUME NEW l \in QuotaLogs, LogSample(l) PROVE QuotaInv' /\ QuotaIsNewest' /\ NeverOlder
    BY <1>1, LogKeepsInv
  <1>2. ASSUME NEW l \in QuotaLogs, Rewrite(l) PROVE QuotaInv' /\ QuotaIsNewest' /\ NeverOlder
    BY <1>2, RewriteKeepsInv
  <1> QED  BY <1>1, <1>2, PollCurrent DEF QuotaNext

\* The invariant speaks of quotaVars only.
LEMMA QuotaStutters == QuotaInv /\ UNCHANGED quotaVars => QuotaInv'
  <1> SUFFICES ASSUME QuotaInv, UNCHANGED quotaVars PROVE QuotaInv'
    OBVIOUS
  <1> USE DEF quotaVars
  <1>1. \A l \in QuotaLogs : LogFits(l)'
    BY DEF QuotaInv, LogFits
  <1> QED  BY <1>1 DEF QuotaInv, QuotaKnown

\* What is known of every log, and of the answer.
THEOREM QuotaInvariance == QuotaSpec => []QuotaInv
  <1>1. QuotaInit => QuotaInv
    BY QuotaAssumption, QuotaInitInv
  <1>2. QuotaInv /\ [QuotaNext]_quotaVars => QuotaInv'
    BY QuotaAssumption, QuotaStep, QuotaStutters
  <1> QED  BY <1>1, <1>2, PTL DEF QuotaSpec

\* No window shows anything but what was logged.
THEOREM QuotaTypeCorrect == QuotaSpec => []QuotaTypeOK
  <1>1. QuotaInv => QuotaTypeOK
    <2> SUFFICES ASSUME QuotaInv PROVE QuotaTypeOK
      OBVIOUS
    <2>1. clock \in 0..MaxSamples /\ rewrites \in 0..MaxRewrites /\ unread \in 0..MaxUnread
          /\ MaxSamples \in Nat
      BY QuotaAssumption DEF QuotaInv, QuotaAssumption
    <2>2. ASSUME NEW x \in Merged, SaysAtMost(x, clock)
          PROVE  x.window \in [Windows -> 0..MaxSamples]
      BY <2>1, <2>2 DEF Merged, SaysAtMost
    <2>3. ASSUME NEW l \in QuotaLogs
          PROVE  /\ noticed[l] \subseteq 1..MaxSamples
                 /\ cache[l].sample.window \in [Windows -> 0..MaxSamples]
      <3>1. PICK s, id, c, U : /\ s = samples[l] /\ id = identity[l]
                               /\ c = cache[l] /\ U = noticed[l]
        OBVIOUS
      <3>2. /\ IsSamples(s) /\ SamplesTo(s, clock) /\ IsIdentity(id) /\ IsCached(c)
            /\ Linked(s, U, id, c) /\ SaysAtMost(c.sample, clock)
        BY <3>1 DEF QuotaInv, LogFits
      <3>3. c.sample.window \in [Windows -> 0..MaxSamples]
        BY <2>2, <3>2 DEF IsCached
      <3>4. ASSUME U # {} PROVE U \subseteq 1..MaxSamples
        <4>1. Says(s, U, c.signature.size, c.sample)
          BY <3>2, <3>4 DEF Linked
        <4>2. U \subseteq 1..c.signature.size /\ c.signature.size \in 0..Len(s)
          BY <4>1 DEF Says
        <4>3. Len(s) \in Nat /\ Len(s) <= clock
          BY <3>2 DEF IsSamples, SamplesTo
        <4> QED  BY <2>1, <4>2, <4>3
      <3> QED  BY <3>1, <3>3, <3>4
    <2>4. quota.window \in [Windows -> 0..MaxSamples]
      BY <2>2 DEF QuotaInv
    <2> QED  BY <2>1, <2>3, <2>4 DEF QuotaTypeOK
  <1> QED  BY <1>1, QuotaInvariance, PTL

\* Right after a poll the quota is that of the log with the newest sample, with
\* the last that was seen of each window, and it never goes back in time.
THEOREM QuotaStaysCurrent == QuotaSpec => QuotaIsCurrent
  <1>1. QuotaInv /\ [QuotaNext]_quotaVars => [QuotaIsNewest' /\ NeverOlder]_quotaVars
    BY QuotaAssumption, QuotaStep
  <1> QED  BY <1>1, QuotaInvariance, PTL DEF QuotaSpec, QuotaIsCurrent

===============================================================================
