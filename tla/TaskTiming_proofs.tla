------------------------- MODULE TaskTiming_proofs -------------------------
(***************************************************************************)
(* Proofs about the requests for a task's timing (TaskTiming): what is     *)
(* kept is the timing of the log at its signature, and what is answered    *)
(* that of the log at one moment of the request, although the log grows    *)
(* between the two signatures, the projection and the checks.  What summarize_timing makes of a log is not looked     *)
(* into here: Summarize is any function of the log.                        *)
(***************************************************************************)
EXTENDS TaskTiming, FiniteSetTheorems, TLAPS

-----------------------------------------------------------------------------
(* The invariant.                                                          *)

Phases == {"idle", "sign", "parse", "summarize", "recheck", "store", "done", "failed"}

TimingTypes ==
    /\ log \in Seq(Entries) /\ Len(log) <= MaxEntries
    /\ requests \in 0..MaxRequests
    /\ request = [pc |-> request.pc, signature |-> request.signature,
                  revision |-> request.revision,
                  entries |-> request.entries, timing |-> request.timing]
    /\ request.pc \in Phases
    /\ request.signature \in 0..Len(log) /\ request.revision \in 0..Len(log)
    /\ request.pc # "sign" => request.signature <= request.revision

\* The beginning of the log that the signature s stands for.
LogOf(s) == SubSeq(log, 1, s)

\* One timing at most is kept, of a log that the task has had.
KeptIsOfItsLog ==
    /\ DOMAIN timings = {} \/ \E s \in 0..Len(log) : DOMAIN timings = {s}
    /\ \A s \in DOMAIN timings : timings[s] = Summarize(LogOf(s))

\* What was projected is the log of a moment since the second signature was
\* taken; if the log has not grown since, it is the log of that signature.
ProjectedIsALog ==
    request.pc = "summarize" =>
      \E n \in request.revision..Len(log) : request.entries = LogOf(n)

\* From the check after the projection on, the timing is that of the second
\* signature.
TimingIsOfRevision ==
    request.pc \in {"recheck", "store", "done"} =>
      request.timing = Summarize(LogOf(request.revision))

TimingInv == TimingTypes /\ KeptIsOfItsLog /\ ProjectedIsALog /\ TimingIsOfRevision

-----------------------------------------------------------------------------
(* A log that grows keeps its beginnings.                                  *)

LEMMA WholeLog ==
    ASSUME NEW S, NEW s \in Seq(S)
    PROVE  SubSeq(s, 1, Len(s)) = s
  OBVIOUS

LEMMA BeginningStays ==
    ASSUME NEW S, NEW s \in Seq(S), NEW e \in S, NEW n \in 0..Len(s)
    PROVE  SubSeq(Append(s, e), 1, n) = SubSeq(s, 1, n)
  <1>1. Append(s, e) \in Seq(S) /\ Len(Append(s, e)) = Len(s) + 1
    OBVIOUS
  <1>2. \A i \in 1..n : Append(s, e)[i] = s[i]
    OBVIOUS
  <1> QED  BY <1>1, <1>2

\* The moves of a request leave the log alone.
LEMMA SameLogSameBeginnings ==
    ASSUME log' = log, NEW n
    PROVE  LogOf(n)' = SubSeq(log, 1, n)
  BY DEF LogOf

-----------------------------------------------------------------------------
(* Every step keeps the invariant.                                         *)

LEMMA AppendKeeps ==
    ASSUME TimingInv, AppendEntry, MaxEntries \in Nat
    PROVE  TimingInv'
  <1>1. PICK e \in Entries : log' = Append(log, e)
    BY DEF AppendEntry
  <1>2. UNCHANGED <<request, requests, timings>> /\ Len(log) < MaxEntries
    BY DEF AppendEntry
  <1>3. log \in Seq(Entries) /\ Len(log) \in Nat
    BY DEF TimingInv, TimingTypes
  <1>4. log' \in Seq(Entries) /\ Len(log') = Len(log) + 1
    BY <1>1, <1>3
  <1>5. \A n \in 0..Len(log) : SubSeq(log', 1, n) = SubSeq(log, 1, n)
    BY <1>1, <1>3, BeginningStays
  <1>6. TimingTypes'
    BY <1>2, <1>3, <1>4 DEF TimingInv, TimingTypes
  <1>7. KeptIsOfItsLog'
    <2>1. DOMAIN timings \subseteq 0..Len(log)
      BY DEF TimingInv, KeptIsOfItsLog
    <2>2. \A s \in DOMAIN timings : timings[s] = Summarize(SubSeq(log, 1, s))
      BY DEF TimingInv, KeptIsOfItsLog, LogOf
    <2>3. \A s \in DOMAIN timings : timings[s] = Summarize(SubSeq(log', 1, s))
      BY <1>5, <2>1, <2>2
    <2>4. DOMAIN timings = {} \/ \E s \in 0..Len(log') : DOMAIN timings = {s}
      <3>1. 0..Len(log) \subseteq 0..Len(log')
        BY <1>3, <1>4
      <3>2. DOMAIN timings = {} \/ \E s \in 0..Len(log) : DOMAIN timings = {s}
        BY DEF TimingInv, KeptIsOfItsLog
      <3> QED  BY <3>1, <3>2, Zenon
    <2> QED  BY <1>2, <2>3, <2>4 DEF KeptIsOfItsLog, LogOf
  <1>8. ProjectedIsALog'
    <2> SUFFICES ASSUME request.pc = "summarize"
                 PROVE  \E n \in request.revision..Len(log') :
                          request.entries = SubSeq(log', 1, n)
      BY <1>2 DEF ProjectedIsALog, LogOf
    <2>1. PICK n \in request.revision..Len(log) : request.entries = SubSeq(log, 1, n)
      BY DEF TimingInv, ProjectedIsALog, LogOf
    <2>2. request.revision \in Nat
      BY DEF TimingInv, TimingTypes
    <2>3. n \in 0..Len(log) /\ n \in request.revision..Len(log')
      BY <1>3, <1>4, <2>1, <2>2
    <2> QED  BY <1>5, <2>1, <2>3
  <1>9. TimingIsOfRevision'
    <2>1. request.revision \in 0..Len(log)
      BY DEF TimingInv, TimingTypes
    <2> QED  BY <1>2, <1>5, <2>1 DEF TimingInv, TimingIsOfRevision, LogOf
  <1> QED  BY <1>6, <1>7, <1>8, <1>9 DEF TimingInv

LEMMA AskKeeps ==
    ASSUME TimingInv, AskTiming, MaxRequests \in Nat
    PROVE  TimingInv'
  <1>1. UNCHANGED <<log, timings>> /\ requests' = requests + 1 /\ requests < MaxRequests
    BY DEF AskTiming
  <1>2. log \in Seq(Entries) /\ Len(log) \in Nat
    BY DEF TimingInv, TimingTypes
  <1>3. KeptIsOfItsLog'
    BY <1>1 DEF TimingInv, KeptIsOfItsLog, LogOf
  <1>4. CASE Len(log) \in DOMAIN timings
    <2>1. request' = [pc |-> "done", signature |-> Len(log),
                      revision |-> Len(log), entries |-> <<>>,
                      timing |-> timings[Len(log)]]
      BY <1>4 DEF AskTiming, TimingSignature, NoRequest
    <2>2. timings[Len(log)] = Summarize(SubSeq(log, 1, Len(log)))
      BY <1>4 DEF TimingInv, KeptIsOfItsLog, LogOf
    <2>3. TimingTypes'
      BY <1>1, <1>2, <2>1 DEF TimingInv, TimingTypes, Phases
    <2> QED  BY <1>1, <1>3, <2>1, <2>2, <2>3
             DEF TimingInv, ProjectedIsALog, TimingIsOfRevision, LogOf
  <1>5. CASE Len(log) \notin DOMAIN timings
    <2>1. request' = [pc |-> "sign", signature |-> Len(log), revision |-> 0,
                      entries |-> <<>>, timing |-> <<>>]
      BY <1>5 DEF AskTiming, TimingSignature, NoRequest
    <2>2. TimingTypes'
      BY <1>1, <1>2, <2>1 DEF TimingInv, TimingTypes, Phases
    <2> QED  BY <1>3, <2>1, <2>2 DEF TimingInv, ProjectedIsALog, TimingIsOfRevision
  <1> QED  BY <1>4, <1>5

LEMMA SignKeeps ==
    ASSUME TimingInv, SignLog
    PROVE  TimingInv'
  <1>1. UNCHANGED <<log, requests, timings>>
    BY DEF SignLog
  <1>2. log \in Seq(Entries) /\ Len(log) \in Nat /\ request.signature \in 0..Len(log)
    BY DEF TimingInv, TimingTypes
  <1>3. KeptIsOfItsLog'
    BY <1>1 DEF TimingInv, KeptIsOfItsLog, LogOf
  <1>4. log = SubSeq(log, 1, Len(log)) /\ Len(log) \in Len(log)..Len(log)
    BY <1>2, WholeLog
  <1>5. CASE request' = [request EXCEPT !.pc = "parse", !.revision = TimingSignature]
    <2>1. request' = [pc |-> "parse", signature |-> request.signature,
                      revision |-> Len(log), entries |-> request.entries,
                      timing |-> request.timing]
      BY <1>5 DEF TimingSignature, TimingInv, TimingTypes
    <2>2. TimingTypes'
      BY <1>1, <1>2, <2>1 DEF TimingInv, TimingTypes, Phases
    <2> QED  BY <1>3, <2>1, <2>2 DEF TimingInv, ProjectedIsALog, TimingIsOfRevision
  <1>6. CASE request' = [request EXCEPT !.pc = "summarize",
                           !.revision = TimingSignature, !.entries = log]
    <2>1. request' = [pc |-> "summarize", signature |-> request.signature,
                      revision |-> Len(log), entries |-> log,
                      timing |-> request.timing]
      BY <1>6 DEF TimingSignature, TimingInv, TimingTypes
    <2>2. TimingTypes'
      BY <1>1, <1>2, <2>1 DEF TimingInv, TimingTypes, Phases
    <2>3. \E n \in Len(log)..Len(log) : log = SubSeq(log, 1, n)
      BY <1>4
    <2> QED  BY <1>1, <1>3, <2>1, <2>2, <2>3
             DEF TimingInv, ProjectedIsALog, TimingIsOfRevision, LogOf
  <1> QED  BY <1>5, <1>6 DEF SignLog

LEMMA ParseKeeps ==
    ASSUME TimingInv, ParseLog
    PROVE  TimingInv'
  <1>1. UNCHANGED <<log, requests, timings>> /\ request.pc = "parse"
    BY DEF ParseLog
  <1>2. log \in Seq(Entries) /\ Len(log) \in Nat /\ request.revision \in 0..Len(log)
    BY DEF TimingInv, TimingTypes
  <1>3. request' = [pc |-> "summarize", signature |-> request.signature,
                    revision |-> request.revision, entries |-> log,
                    timing |-> request.timing]
    BY DEF ParseLog, TimingInv, TimingTypes
  <1>4. TimingTypes'
    BY <1>1, <1>2, <1>3 DEF TimingInv, TimingTypes, Phases
  <1>5. KeptIsOfItsLog'
    BY <1>1 DEF TimingInv, KeptIsOfItsLog, LogOf
  <1>6. log = SubSeq(log, 1, Len(log)) /\ Len(log) \in request.revision..Len(log)
    BY <1>2, WholeLog
  <1>7. \E n \in request.revision..Len(log) : log = SubSeq(log, 1, n)
    BY <1>6
  <1> QED  BY <1>1, <1>3, <1>4, <1>5, <1>7
           DEF TimingInv, ProjectedIsALog, TimingIsOfRevision, LogOf

\* A request that fails holds nothing.
LEMMA FailKeeps ==
    ASSUME TimingInv, FailTiming, UNCHANGED <<log, requests, timings>>
    PROVE  TimingInv'
  <1>1. log \in Seq(Entries) /\ Len(log) \in Nat
    BY DEF TimingInv, TimingTypes
  <1>2. request' = [pc |-> "failed", signature |-> 0, revision |-> 0,
                    entries |-> <<>>, timing |-> <<>>]
    BY DEF FailTiming, NoRequest
  <1>3. TimingTypes'
    BY <1>1, <1>2 DEF TimingInv, TimingTypes, Phases
  <1>4. KeptIsOfItsLog'
    BY DEF TimingInv, KeptIsOfItsLog, LogOf
  <1> QED  BY <1>2, <1>3, <1>4 DEF TimingInv, ProjectedIsALog, TimingIsOfRevision

LEMMA SummarizeKeeps ==
    ASSUME TimingInv, SummarizeLog
    PROVE  TimingInv'
  <1>1. /\ UNCHANGED <<log, requests, timings>> /\ request.pc = "summarize"
        /\ Len(log) = request.revision
    BY DEF SummarizeLog, SameRevision, TimingSignature
  <1>2. log \in Seq(Entries) /\ Len(log) \in Nat /\ request.revision \in 0..Len(log)
    BY DEF TimingInv, TimingTypes
  <1>3. KeptIsOfItsLog'
    BY <1>1 DEF TimingInv, KeptIsOfItsLog, LogOf
  <1>4. request' = [pc |-> "recheck", signature |-> request.signature,
                    revision |-> request.revision, entries |-> <<>>,
                    timing |-> Summarize(request.entries)]
    BY DEF SummarizeLog, TimingInv, TimingTypes
  <1>5. PICK n \in request.revision..Len(log) : request.entries = SubSeq(log, 1, n)
    BY <1>1 DEF TimingInv, ProjectedIsALog, LogOf
  <1>6. n = request.revision
    BY <1>1, <1>2, <1>5
  <1>7. TimingTypes'
    BY <1>1, <1>2, <1>4 DEF TimingInv, TimingTypes, Phases
  <1> QED  BY <1>1, <1>3, <1>4, <1>5, <1>6, <1>7
           DEF TimingInv, ProjectedIsALog, TimingIsOfRevision, LogOf

LEMMA RecheckKeeps ==
    ASSUME TimingInv, RecheckLog
    PROVE  TimingInv'
  <1>1. UNCHANGED <<log, requests, timings>> /\ request.pc = "recheck"
    BY DEF RecheckLog
  <1>2. log \in Seq(Entries) /\ Len(log) \in Nat
    BY DEF TimingInv, TimingTypes
  <1>3. KeptIsOfItsLog'
    BY <1>1 DEF TimingInv, KeptIsOfItsLog, LogOf
  <1>4. CASE SameRevision
    <2>1. request' = [pc |-> "store", signature |-> request.signature,
                      revision |-> request.revision, entries |-> request.entries,
                      timing |-> request.timing]
      BY <1>4 DEF RecheckLog, TimingInv, TimingTypes
    <2>2. TimingTypes'
      BY <1>1, <1>2, <2>1 DEF TimingInv, TimingTypes, Phases
    <2> QED  BY <1>1, <1>3, <2>1, <2>2
             DEF TimingInv, ProjectedIsALog, TimingIsOfRevision, LogOf
  <1>5. CASE ~SameRevision
    BY <1>1, <1>5, FailKeeps DEF RecheckLog
  <1> QED  BY <1>4, <1>5

LEMMA StoreKeeps ==
    ASSUME TimingInv, StoreTiming
    PROVE  TimingInv'
  <1>1. UNCHANGED <<log, requests>> /\ request.pc = "store"
    BY DEF StoreTiming
  <1>2. /\ log \in Seq(Entries) /\ Len(log) \in Nat
        /\ request.signature \in 0..Len(log) /\ request.revision \in 0..Len(log)
        /\ request.signature <= request.revision
    BY <1>1 DEF TimingInv, TimingTypes
  <1>3. request' = [pc |-> "done", signature |-> request.signature,
                    revision |-> request.revision, entries |-> request.entries,
                    timing |-> request.timing]
    BY DEF StoreTiming, TimingInv, TimingTypes
  <1>4. request.timing = Summarize(SubSeq(log, 1, request.revision))
    BY <1>1 DEF TimingInv, TimingIsOfRevision, LogOf
  <1>5. TimingTypes'
    BY <1>1, <1>2, <1>3 DEF TimingInv, TimingTypes, Phases
  <1>6. KeptIsOfItsLog'
    <2>1. CASE SameLog
      <3>1. timings' = [x \in {request.signature} |-> request.timing]
        BY <2>1 DEF StoreTiming, OnlyTiming
      <3>2. DOMAIN timings' = {request.signature}
            /\ timings'[request.signature] = request.timing
        BY <3>1
      \* The second signature is no other, as the log has not grown since the first.
      <3>3. request.revision = request.signature
        BY <1>2, <2>1 DEF SameLog, TimingSignature
      <3> QED  BY <1>1, <1>2, <1>4, <3>2, <3>3 DEF KeptIsOfItsLog, LogOf
    <2>2. CASE ~SameLog
      <3>1. timings' = timings
        BY <2>2 DEF StoreTiming
      <3> QED  BY <1>1, <3>1 DEF TimingInv, KeptIsOfItsLog, LogOf
    <2> QED  BY <2>1, <2>2
  <1> QED  BY <1>1, <1>3, <1>4, <1>5, <1>6
           DEF TimingInv, ProjectedIsALog, TimingIsOfRevision, LogOf

-----------------------------------------------------------------------------
(* The theorems.                                                           *)

LEMMA TimingBegins ==
    ASSUME TimingInit, MaxEntries \in Nat, MaxRequests \in Nat
    PROVE  TimingInv
  <1>1. log = <<>> /\ requests = 0 /\ timings = <<>>
    BY DEF TimingInit
  <1>2. request = [pc |-> "idle", signature |-> 0, revision |-> 0,
                   entries |-> <<>>, timing |-> <<>>]
    BY DEF TimingInit, NoRequest
  <1>3. TimingTypes
    BY <1>1, <1>2 DEF TimingTypes, Phases
  <1>4. KeptIsOfItsLog
    BY <1>1 DEF KeptIsOfItsLog
  <1> QED  BY <1>2, <1>3, <1>4 DEF TimingInv, ProjectedIsALog, TimingIsOfRevision

\* A stuttering step changes none of what the invariant speaks of.
LEMMA TimingStutters ==
    ASSUME TimingInv, UNCHANGED timingVars
    PROVE  TimingInv'
  BY DEF timingVars, TimingInv, TimingTypes, KeptIsOfItsLog, ProjectedIsALog,
         TimingIsOfRevision, LogOf

\* The invariant of what is projected, timed and kept: whatever is read at
\* whatever moment, it stands for the beginning of the log that its signature
\* names: what is read for that of the second signature, what is kept for that of
\* the first.
THEOREM TimingInvariance == TimingSpec => []TimingInv
  <1> USE TimingAssumption
  <1>1. TimingInit => TimingInv
    BY TimingBegins
  <1>2. TimingInv /\ [TimingNext]_timingVars => TimingInv'
    BY AppendKeeps, AskKeeps, SignKeeps, ParseKeeps, FailKeeps, SummarizeKeeps,
       RecheckKeeps, StoreKeeps, TimingStutters DEF TimingNext, SummarizeFails
  <1> QED  BY <1>1, <1>2, PTL DEF TimingSpec

\* A request and the cache keep their types, and one timing at most is kept of a
\* task (_TIMING_CACHE).
THEOREM TimingTypeCorrect == TimingSpec => []TimingTypeOK
  <1>1. TimingInv => TimingTypeOK
    <2> SUFFICES ASSUME TimingInv PROVE TimingTypeOK
      OBVIOUS
    <2>1. DOMAIN timings = {} \/ \E s \in 0..Len(log) : DOMAIN timings = {s}
      BY DEF TimingInv, KeptIsOfItsLog
    <2>2. Cardinality(DOMAIN timings) <= 1
      <3>1. CASE DOMAIN timings = {}
        BY <3>1, FS_EmptySet
      <3>2. ASSUME NEW s \in 0..Len(log), DOMAIN timings = {s}
            PROVE  Cardinality(DOMAIN timings) <= 1
        <4>1. Cardinality({s}) = 1
          BY FS_Singleton
        <4> QED  BY <3>2, <4>1
      <3> QED  BY <2>1, <3>1, <3>2
    <2> QED  BY <2>2, TimingAssumption DEF TimingInv, TimingTypes, TimingTypeOK, Phases
  <1> QED  BY <1>1, TimingInvariance, PTL

\* Whatever is kept is the timing of the log at its signature, although the log
\* may grow before it is signed again, before the projection, between the checks,
\* and before it is kept.  The checks of session_timing_summary compare with its
\* own signature; that nothing of a later log is kept is the last check of
\* _session_timing (project_timing.py:231).
THEOREM KeptTimingsHold == TimingSpec => []TimingsKeptHold
  <1>1. TimingInv => TimingsKeptHold
    BY DEF TimingInv, KeptIsOfItsLog, LogOf, TimingsKeptHold
  <1> QED  BY <1>1, TimingInvariance, PTL

\* The answer is the timing of one log the task had between the beginning of the
\* request and now, perhaps a later one than the request asked of.
AnswerIsOfOneLog ==
    request.pc = "done" =>
      \E n \in request.signature..Len(log) : request.timing = Summarize(LogOf(n))

\* Every answer, from the cache or computed, is the timing of the log at one
\* moment of its request, never of parts of two.
THEOREM AnswersHold == TimingSpec => []AnswerIsOfOneLog
  <1>1. TimingInv => AnswerIsOfOneLog
    <2> SUFFICES ASSUME TimingInv, request.pc = "done" PROVE AnswerIsOfOneLog
      BY DEF AnswerIsOfOneLog
    <2>1. request.timing = Summarize(LogOf(request.revision))
      BY DEF TimingInv, TimingIsOfRevision
    <2>2. request.revision \in request.signature..Len(log)
      BY DEF TimingInv, TimingTypes
    <2> QED  BY <2>1, <2>2 DEF AnswerIsOfOneLog
  <1> QED  BY <1>1, TimingInvariance, PTL

=============================================================================
