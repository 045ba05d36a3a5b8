----------------------- MODULE TurnProjection_proofs -----------------------
(***************************************************************************)
(* Proofs about parse_session and session_overview (TurnProjection), for   *)
(* logs of any length and any entries, any page that is asked for and any  *)
(* bounds of what is remembered.                                           *)
(*                                                                         *)
(* Good says what holds of the projection inside a handler too, with the   *)
(* records that the handler has changed but not yet tracked; Goes says how *)
(* two projections may differ, the later from the earlier; Opens names the *)
(* calls it may count for the first time.  Each helper and each handler is *)
(* shown to be a Step: it keeps the first and obeys the others.  At the    *)
(* end of an entry, the index has caught up.                               *)
(*                                                                         *)
(* A call may have several records, so the counts are those of accounts:   *)
(* every tool record is of the account of its call, or of its own if it    *)
(* has no call.  What is counted of a log changes by one account at a      *)
(* time, in the projection and in the overview.                            *)
(***************************************************************************)
EXTENDS TurnProjection, FiniteSetTheorems, SequenceTheorems, TLAPS

-----------------------------------------------------------------------------
(* Sequences of anything.                                                  *)

Elements(s) == {s[i] : i \in DOMAIN s}
IsSeq(s)    == s \in Seq(Elements(s))

LEMMA FunctionIsSeq ==
    ASSUME NEW S, NEW n \in Nat, NEW t \in [1..n -> S]
    PROVE  t \in Seq(S) /\ Len(t) = n
  OBVIOUS

LEMMA SeqIs ==
    ASSUME NEW S, NEW s \in Seq(S)
    PROVE  IsSeq(s)
  <1>1. Len(s) \in Nat /\ s \in [1..Len(s) -> S]
    OBVIOUS
  <1>2. s \in [1..Len(s) -> Elements(s)]
    BY <1>1 DEF Elements
  <1> QED  BY <1>1, <1>2 DEF IsSeq

LEMMA SeqDomain ==
    ASSUME NEW s, IsSeq(s)
    PROVE  DOMAIN s = 1..Len(s) /\ Len(s) \in Nat
  BY DEF IsSeq

LEMMA AppendAny ==
    ASSUME NEW s, IsSeq(s), NEW x
    PROVE  /\ IsSeq(Append(s, x)) /\ Len(Append(s, x)) = Len(s) + 1
           /\ Len(s) \in Nat
           /\ DOMAIN s = 1..Len(s) /\ DOMAIN Append(s, x) = 1..(Len(s) + 1)
           /\ \A i \in 1..Len(s) : Append(s, x)[i] = s[i]
           /\ Append(s, x)[Len(s) + 1] = x
  <1> DEFINE S == Elements(s) \cup {x}
  <1>1. s \in Seq(S)
    <2>1. Len(s) \in Nat /\ s \in [1..Len(s) -> Elements(s)]
      BY DEF IsSeq
    <2>2. s \in [1..Len(s) -> S]
      BY <2>1
    <2> QED  BY <2>1, <2>2
  <1>2. x \in S
    OBVIOUS
  <1> HIDE DEF S
  <1>3. Append(s, x) \in Seq(S)
    BY <1>1, <1>2
  <1>4. /\ Len(Append(s, x)) = Len(s) + 1 /\ Len(s) \in Nat
        /\ DOMAIN s = 1..Len(s) /\ DOMAIN Append(s, x) = 1..(Len(s) + 1)
        /\ \A i \in 1..Len(s) : Append(s, x)[i] = s[i]
        /\ Append(s, x)[Len(s) + 1] = x
    BY <1>1, <1>2
  <1> QED  BY <1>3, <1>4, SeqIs

LEMMA ExceptAny ==
    ASSUME NEW s, IsSeq(s), NEW i \in 1..Len(s), NEW x, NEW t, t = [s EXCEPT ![i] = x]
    PROVE  /\ IsSeq(t) /\ Len(t) = Len(s) /\ Len(s) \in Nat
           /\ DOMAIN s = 1..Len(s) /\ DOMAIN t = 1..Len(s) /\ t[i] = x
           /\ \A j \in 1..Len(s) : j # i => t[j] = s[j]
  <1> DEFINE S == Elements(s) \cup {x}
  <1>1. Len(s) \in Nat /\ s \in [1..Len(s) -> Elements(s)]
    BY DEF IsSeq
  <1>2. s \in [1..Len(s) -> S] /\ x \in S
    BY <1>1
  <1> HIDE DEF S
  <1>3. t \in [1..Len(s) -> S]
    BY <1>2
  <1>4. /\ DOMAIN s = 1..Len(s) /\ DOMAIN t = 1..Len(s) /\ t[i] = x
        /\ \A j \in 1..Len(s) : j # i => t[j] = s[j]
    BY <1>2
  <1>5. t \in Seq(S) /\ Len(t) = Len(s)
    BY <1>1, <1>3, FunctionIsSeq
  <1>6. IsSeq(t)
    BY <1>5, SeqIs
  <1> QED  BY <1>1, <1>4, <1>5, <1>6

LEMMA TailAny ==
    ASSUME NEW s, IsSeq(s), Len(s) > 0
    PROVE  /\ IsSeq(Tail(s)) /\ Len(Tail(s)) = Len(s) - 1
           /\ \A i \in 1..(Len(s) - 1) : Tail(s)[i] = s[i + 1]
  <1>1. s \in Seq(Elements(s)) /\ s # <<>>
    BY DEF IsSeq
  <1>2. Tail(s) \in Seq(Elements(s)) /\ Len(Tail(s)) = Len(s) - 1
        /\ \A i \in 1..(Len(s) - 1) : Tail(s)[i] = s[i + 1]
    BY <1>1, HeadTailProperties
  <1> QED  BY <1>2, SeqIs

\* Element i of s is x in t, and nothing else differs.
Replaced(s, t, i, x) ==
    Len(t) = Len(s) /\ t[i] = x /\ \A j \in 1..Len(s) : j # i => t[j] = s[j]

-----------------------------------------------------------------------------
(* A projection between two calls of a handler: its turns.                 *)

Fields == {"event", "paginated", "limit", "before", "active", "step", "after",
           "turns", "heap", "kept", "visible", "given", "owners", "tracked", "states",
           "lastRecord", "lastTurn", "pending", "tools", "failures",
           "compactions", "samples", "stored", "dirty", "refs", "names",
           "ambiguous"}
Shape(d) == DOMAIN d = Fields /\ d = [f \in Fields |-> d[f]]

TurnFields == {"id", "status", "steps", "records", "calls"}
IsTurn(t)  == DOMAIN t = TurnFields /\ t = [f \in TurnFields |-> t[f]] /\ t.steps \in Nat
              /\ t.status \in {"running", "complete", "error", "aborted"}

\* Nothing but some fields differs.
Same(d, e, F) == \A f \in Fields \ F : e[f] = d[f]
TurnParts     == {"turns", "active", "step", "after"}

\* At most the newest turn runs.
TurnsRun(d) ==
    /\ IsSeq(d.turns) /\ d.active \in BOOLEAN /\ d.step \in Nat
    /\ \A t \in 1..Len(d.turns) :
         /\ IsTurn(d.turns[t])
         /\ d.turns[t].status = "running" <=> d.active /\ t = Len(d.turns)

\* The current turn has the current step, and there is no step outside of a turn.
StepFits(d) ==
    IF d.active THEN Len(d.turns) > 0 /\ d.step <= d.turns[Len(d.turns)].steps
    ELSE d.step = 0

Running(d) == Shape(d) /\ TurnsRun(d) /\ StepFits(d)

\* What a handler does to turns: it adds some, and ends some, for good.
TurnsStay(d, e) ==
    /\ Len(d.turns) <= Len(e.turns)
    /\ \A t \in 1..Len(d.turns) :
         /\ d.turns[t].steps <= e.turns[t].steps
         /\ d.turns[t].status # "running" => e.turns[t].status = d.turns[t].status

\* And unless it counts usage, it attributes none.
UsageStays(d, e) ==
    /\ \A t \in 1..Len(d.turns) : e.turns[t].calls = d.turns[t].calls
    /\ \A t \in 1..Len(e.turns) : t \notin 1..Len(d.turns) => e.turns[t].calls = {}

TurnsGo(d, e) == TurnsStay(d, e) /\ UsageStays(d, e)

LEMMA RunningFacts ==
    ASSUME NEW d, Running(d)
    PROVE  /\ DOMAIN d.turns = 1..Len(d.turns) /\ Len(d.turns) \in Nat
           /\ d.active => Len(d.turns) > 0 /\ Len(d.turns) \in 1..Len(d.turns)
  <1>1. IsSeq(d.turns) /\ (d.active => Len(d.turns) > 0)
    BY DEF Running, TurnsRun, StepFits
  <1>2. DOMAIN d.turns = 1..Len(d.turns) /\ Len(d.turns) \in Nat
    BY <1>1, SeqDomain
  <1> QED  BY <1>1, <1>2

LEMMA TurnsStayOn ==
    ASSUME NEW d, NEW e, NEW f, Running(d), Running(e), Running(f),
           TurnsStay(d, e), TurnsStay(e, f)
    PROVE  TurnsStay(d, f)
  <1>1. Len(d.turns) \in Nat /\ Len(e.turns) \in Nat /\ Len(f.turns) \in Nat
    BY RunningFacts
  <1>2. Len(d.turns) <= Len(f.turns) /\ 1..Len(d.turns) \subseteq 1..Len(e.turns)
        /\ 1..Len(d.turns) \subseteq 1..Len(f.turns)
    BY <1>1 DEF TurnsStay
  <1>3. ASSUME NEW t \in 1..Len(d.turns)
        PROVE  /\ d.turns[t].steps <= f.turns[t].steps
               /\ d.turns[t].status # "running" => f.turns[t].status = d.turns[t].status
    <2>1. d.turns[t].steps \in Nat /\ e.turns[t].steps \in Nat /\ f.turns[t].steps \in Nat
      BY <1>2 DEF Running, TurnsRun, IsTurn
    <2>2. /\ d.turns[t].steps <= e.turns[t].steps
          /\ d.turns[t].status # "running" => e.turns[t].status = d.turns[t].status
      BY DEF TurnsStay
    <2>3. /\ e.turns[t].steps <= f.turns[t].steps
          /\ e.turns[t].status # "running" => f.turns[t].status = e.turns[t].status
      BY <1>2 DEF TurnsStay
    <2> QED  BY <2>1, <2>2, <2>3
  <1> QED  BY <1>2, <1>3 DEF TurnsStay

LEMMA TurnsGoOn ==
    ASSUME NEW d, NEW e, NEW f, Running(d), Running(e), Running(f),
           TurnsGo(d, e), TurnsGo(e, f)
    PROVE  TurnsGo(d, f)
  <1>1. TurnsStay(d, f)
    BY TurnsStayOn DEF TurnsGo
  <1>2. Len(d.turns) \in Nat /\ Len(e.turns) \in Nat /\ Len(d.turns) <= Len(e.turns)
    BY RunningFacts DEF TurnsGo, TurnsStay
  <1>3. 1..Len(d.turns) \subseteq 1..Len(e.turns)
    BY <1>2
  <1>4. UsageStays(d, f)
    BY <1>3 DEF TurnsGo, UsageStays
  <1> QED  BY <1>1, <1>4 DEF TurnsGo

LEMMA TurnsGoSame ==
    ASSUME NEW d, NEW e, Running(d), e.turns = d.turns
    PROVE  TurnsGo(d, e)
  <1>1. Len(d.turns) \in Nat
    BY RunningFacts
  <1>2. \A t \in 1..Len(d.turns) : d.turns[t].steps \in Nat
    BY DEF Running, TurnsRun, IsTurn
  <1> QED  BY <1>1, <1>2 DEF TurnsGo, TurnsStay, UsageStays

\* A change of a turn that keeps its status and, at least, its steps.
LEMMA TurnChanged ==
    ASSUME NEW d, Running(d), NEW n \in 1..Len(d.turns),
           NEW x, IsTurn(x), x.status = d.turns[n].status, d.turns[n].steps <= x.steps,
           NEW e, Shape(e), e.turns = [d.turns EXCEPT ![n] = x], e.active = d.active,
           e.step \in Nat, e.step = d.step \/ (d.active /\ n = Len(d.turns)),
           e.step <= x.steps \/ e.step = d.step
    PROVE  /\ Running(e) /\ TurnsStay(d, e) /\ Len(e.turns) = Len(d.turns)
           /\ x.calls = d.turns[n].calls => TurnsGo(d, e)
           /\ e.turns[n] = x /\ \A t \in 1..Len(d.turns) : t # n => e.turns[t] = d.turns[t]
  <1>1. IsSeq(d.turns) /\ Len(d.turns) \in Nat
    BY RunningFacts DEF Running, TurnsRun
  <1>2. /\ IsSeq(e.turns) /\ Len(e.turns) = Len(d.turns) /\ e.turns[n] = x
        /\ \A t \in 1..Len(d.turns) : t # n => e.turns[t] = d.turns[t]
    BY <1>1, ExceptAny
  <1>3. ASSUME NEW t \in 1..Len(d.turns)
        PROVE  /\ IsTurn(e.turns[t]) /\ e.turns[t].status = d.turns[t].status
               /\ d.turns[t].steps \in Nat
               /\ d.turns[t].steps <= e.turns[t].steps
    <2>1. IsTurn(d.turns[t])
      BY DEF Running, TurnsRun
    <2>2. CASE t = n
      BY <1>2, <2>1, <2>2 DEF IsTurn
    <2>3. CASE t # n
      BY <1>2, <2>1, <2>3 DEF IsTurn
    <2> QED  BY <2>2, <2>3
  <1>4. TurnsRun(e)
    <2>1. \A t \in 1..Len(d.turns) :
             d.turns[t].status = "running" <=> d.active /\ t = Len(d.turns)
      BY DEF Running, TurnsRun
    <2>2. d.active \in BOOLEAN
      BY DEF Running, TurnsRun
    <2> QED  BY <1>2, <1>3, <2>1, <2>2 DEF TurnsRun
  <1>5. StepFits(e)
    <2>1. CASE d.active
      <3>1. Len(d.turns) > 0 /\ d.step <= d.turns[Len(d.turns)].steps
        BY <2>1 DEF Running, StepFits
      <3>2. Len(d.turns) \in 1..Len(d.turns) /\ d.step \in Nat
        BY <1>1, <3>1 DEF Running, TurnsRun
      <3>3. e.turns[Len(d.turns)].steps \in Nat
        BY <1>3, <3>2 DEF IsTurn
      <3>4. d.turns[Len(d.turns)].steps <= e.turns[Len(d.turns)].steps
            /\ d.turns[Len(d.turns)].steps \in Nat
        BY <1>3, <3>2
      <3>5. e.step <= e.turns[Len(d.turns)].steps
        BY <1>2, <3>1, <3>2, <3>3, <3>4
      <3> QED  BY <1>2, <2>1, <3>1, <3>5 DEF StepFits
    <2>2. CASE ~d.active
      BY <2>2 DEF Running, StepFits
    <2> QED  BY <2>1, <2>2
  <1>6. TurnsStay(d, e)
    BY <1>1, <1>2, <1>3 DEF TurnsStay
  <1>7. x.calls = d.turns[n].calls => UsageStays(d, e)
    BY <1>2 DEF UsageStays
  <1> QED  BY <1>2, <1>4, <1>5, <1>6, <1>7 DEF Running, TurnsGo

LEMMA EnsureTurnGoes ==
    ASSUME NEW d, Running(d), NEW id, NEW e, e = EnsureTurn(d, id)
    PROVE  /\ Running(e) /\ TurnsGo(d, e) /\ Same(d, e, TurnParts)
           /\ e.active /\ e.step = d.step
  <1>1. CASE d.active
    <2> DEFINE n == Len(d.turns)
               x == [d.turns[n] EXCEPT !.id = IF @ = None THEN id ELSE @]
    <2>1. n \in 1..Len(d.turns)
      BY <1>1, RunningFacts
    <2>2. IsTurn(d.turns[n])
      BY <2>1 DEF Running, TurnsRun
    <2>3. /\ IsTurn(x) /\ x.status = d.turns[n].status
          /\ x.steps = d.turns[n].steps /\ x.calls = d.turns[n].calls
      BY <2>2 DEF IsTurn, TurnFields
    <2>4. e = [d EXCEPT !.turns = [d.turns EXCEPT ![n] = x]]
      BY <1>1 DEF EnsureTurn, Turn
    <2> HIDE DEF x
    <2>5. /\ Shape(e) /\ e.turns = [d.turns EXCEPT ![n] = x]
          /\ e.active = d.active /\ e.step = d.step /\ Same(d, e, TurnParts)
      BY <2>4 DEF Running, Shape, Fields, Same, TurnParts
    <2>6. d.step \in Nat /\ d.turns[n].steps \in Nat
      BY <2>2 DEF Running, TurnsRun, IsTurn
    <2>7. /\ d.turns[n].steps <= x.steps /\ e.step \in Nat
          /\ e.step <= x.steps \/ e.step = d.step
      BY <2>3, <2>5, <2>6
    <2>8. Running(e) /\ TurnsGo(d, e)
      <3> HIDE DEF n
      <3> QED  BY <2>1, <2>3, <2>5, <2>7, TurnChanged
    <2> QED  BY <1>1, <2>5, <2>8
  <1>2. CASE ~d.active
    <2>1. e = [d EXCEPT !.turns = Append(d.turns, NewTurn(id)), !.step = 0,
                        !.after = FALSE, !.active = TRUE]
      BY <1>2 DEF EnsureTurn
    <2>2. /\ Shape(e) /\ e.turns = Append(d.turns, NewTurn(id)) /\ e.step = 0
          /\ e.active = TRUE /\ Same(d, e, TurnParts)
      BY ZenonT(60), <2>1 DEF Running, Shape, Fields, Same, TurnParts
    <2>3. /\ IsTurn(NewTurn(id)) /\ NewTurn(id).status = "running" /\ NewTurn(id).steps = 0
          /\ NewTurn(id).calls = {}
      BY DEF IsTurn, NewTurn, TurnFields
    <2>4. /\ IsSeq(e.turns) /\ Len(e.turns) = Len(d.turns) + 1 /\ Len(d.turns) \in Nat
          /\ \A t \in 1..Len(d.turns) : e.turns[t] = d.turns[t]
          /\ e.turns[Len(d.turns) + 1] = NewTurn(id)
      BY <2>2, AppendAny DEF Running, TurnsRun
    <2>5. \A t \in 1..Len(d.turns) :
            IsTurn(d.turns[t]) /\ d.turns[t].status # "running"
      BY <1>2 DEF Running, TurnsRun
    <2>6. ASSUME NEW t \in 1..Len(e.turns)
          PROVE  /\ IsTurn(e.turns[t])
                 /\ e.turns[t].status = "running" <=> t = Len(e.turns)
      <3>1. CASE t = Len(d.turns) + 1
        BY <2>3, <2>4, <3>1
      <3>2. CASE t # Len(d.turns) + 1
        <4>1. t \in 1..Len(d.turns)
          BY <2>4, <3>2
        <4> QED  BY <2>4, <2>5, <3>2, <4>1
      <3> QED  BY <3>1, <3>2
    <2>7. TurnsRun(e)
      <3>0. e.active \in BOOLEAN
        BY <2>2, Zenon
      <3>1. e.active \in BOOLEAN /\ e.step \in Nat /\ IsSeq(e.turns)
        BY <2>2, <2>4, <3>0
      <3>2. \A t \in 1..Len(e.turns) :
              /\ IsTurn(e.turns[t])
              /\ e.turns[t].status = "running" <=> e.active /\ t = Len(e.turns)
        BY <2>2, <2>6, Zenon
      <3> QED  BY <3>1, <3>2 DEF TurnsRun
    <2>8. StepFits(e)
      BY <2>2, <2>3, <2>4 DEF StepFits
    <2>9. TurnsGo(d, e)
      <3>1. \A t \in 1..Len(d.turns) : d.turns[t].steps \in Nat
        BY <2>5 DEF IsTurn
      <3>2. Len(d.turns) <= Len(e.turns)
        BY <2>4
      <3>3. \A t \in 1..Len(d.turns) :
              /\ d.turns[t].steps <= e.turns[t].steps
              /\ e.turns[t].status = d.turns[t].status
        BY <2>4, <3>1
      <3>4. UsageStays(d, e)
        <4>1. \A t \in 1..Len(e.turns) : t \notin 1..Len(d.turns) => t = Len(d.turns) + 1
          BY <2>4
        <4> QED  BY <2>3, <2>4, <4>1 DEF UsageStays
      <3> QED  BY <3>2, <3>3, <3>4 DEF TurnsGo, TurnsStay
    <2>10. d.step = 0
      BY <1>2 DEF Running, StepFits
    <2> QED  BY <2>2, <2>7, <2>8, <2>9, <2>10 DEF Running
  <1> QED  BY <1>1, <1>2

LEMMA StepReached ==
    ASSUME NEW d, Shape(d), TurnsRun(d), Len(d.turns) > 0, NEW s \in Nat,
           d.active \/ d.step = 0,
           d.step <= s \/ StepFits(d), NEW e, e = AtStep(d, s)
    PROVE  /\ Running(e) /\ TurnsGo(d, e) /\ Same(d, e, {"turns"})
           /\ s <= e.turns[Turn(e)].steps /\ Turn(e) = Turn(d)
           /\ e.active = d.active /\ e.step = d.step
  <1> DEFINE n == Len(d.turns)
             m == Bigger(d.turns[n].steps, s)
             x == [d.turns[n] EXCEPT !.steps = m]
  <1>1. IsSeq(d.turns) /\ n \in 1..Len(d.turns) /\ n \in Nat /\ d.step \in Nat
    BY SeqDomain DEF TurnsRun
  <1>2. IsTurn(d.turns[n])
    BY <1>1 DEF TurnsRun
  <1>3. m \in Nat /\ s <= m /\ d.turns[n].steps <= m /\ d.turns[n].steps \in Nat
    BY <1>2 DEF Bigger, IsTurn
  <1>4. e = [d EXCEPT !.turns = [d.turns EXCEPT ![n] = x]]
    BY DEF AtStep, Turn
  <1> HIDE DEF m
  <1>5. /\ IsTurn(x) /\ x.status = d.turns[n].status /\ x.steps = m
        /\ x.calls = d.turns[n].calls
    BY <1>2, <1>3 DEF IsTurn, TurnFields
  <1> HIDE DEF x
  <1>6. /\ Shape(e) /\ e.turns = [d.turns EXCEPT ![n] = x] /\ Same(d, e, {"turns"})
        /\ e.active = d.active /\ e.step = d.step
    BY <1>4 DEF Shape, Fields, Same
  <1>7. /\ IsSeq(e.turns) /\ Len(e.turns) = n /\ e.turns[n] = x
        /\ \A t \in 1..n : t # n => e.turns[t] = d.turns[t]
    <2>1. n = Len(d.turns)
      OBVIOUS
    <2> HIDE DEF n
    <2>2. n \in 1..Len(d.turns)
      BY <1>1, <2>1
    <2>3. ASSUME NEW u, u = [d.turns EXCEPT ![n] = x]
          PROVE  /\ IsSeq(u) /\ Len(u) = Len(d.turns) /\ u[n] = x
                 /\ \A t \in 1..Len(d.turns) : t # n => u[t] = d.turns[t]
      BY <1>1, <2>2, <2>3, ExceptAny
    <2> QED  BY <1>6, <2>1, <2>3
  <1> HIDE DEF n
  <1>8. \A t \in 1..n : /\ IsTurn(d.turns[t])
                        /\ d.turns[t].status = "running" <=> d.active /\ t = n
    BY DEF TurnsRun, n
  <1>9. ASSUME NEW t \in 1..n
        PROVE  /\ IsTurn(e.turns[t]) /\ e.turns[t].status = d.turns[t].status
               /\ d.turns[t].steps <= e.turns[t].steps
               /\ e.turns[t].calls = d.turns[t].calls
    <2>1. IsTurn(d.turns[t])
      BY <1>8
    <2>2. CASE t = n
      BY <1>3, <1>5, <1>7, <2>2
    <2>3. CASE t # n
      <3>1. e.turns[t] = d.turns[t]
        BY <1>7, <2>3
      <3>2. d.turns[t].steps \in Nat
        BY <2>1 DEF IsTurn
      <3> QED  BY <2>1, <3>1, <3>2
    <2> QED  BY <2>2, <2>3
  <1>10. TurnsRun(e)
    <2>1. d.active \in BOOLEAN
      BY DEF TurnsRun
    <2>2. \A t \in 1..n : /\ IsTurn(e.turns[t])
                          /\ e.turns[t].status = "running" <=> d.active /\ t = n
      BY <1>8, <1>9
    <2> QED  BY <1>1, <1>6, <1>7, <2>1, <2>2 DEF TurnsRun
  <1>11. StepFits(e)
    <2>1. CASE d.active
      <3>1. d.step <= s \/ d.step <= d.turns[n].steps
        BY <2>1 DEF StepFits, n
      <3>2. d.step <= m
        BY <1>1, <1>3, <3>1
      <3> QED  BY <1>1, <1>5, <1>6, <1>7, <2>1, <3>2 DEF StepFits
    <2>2. CASE ~d.active
      BY <1>6, <2>2 DEF StepFits
    <2> QED  BY <2>1, <2>2
  <1>12. TurnsGo(d, e)
    BY <1>1, <1>7, <1>9 DEF TurnsGo, TurnsStay, UsageStays, n
  <1> QED  BY <1>3, <1>5, <1>6, <1>7, <1>10, <1>11, <1>12 DEF Running, Turn, n

LEMMA ModelStepGoes ==
    ASSUME NEW d, Running(d), NEW m, m = ModelStep(d)
    PROVE  /\ Running(m) /\ TurnsGo(d, m) /\ Same(d, m, TurnParts) /\ m.active
  <1> DEFINE e == EnsureTurn(d, None)
             s == IF e.step = 0 \/ e.after THEN e.step + 1 ELSE e.step
             o == [e EXCEPT !.step = s, !.after = FALSE]
  <1>1. Running(e) /\ TurnsGo(d, e) /\ Same(d, e, TurnParts) /\ e.active
    BY EnsureTurnGoes
  <1>2. m = AtStep(o, s)
    BY DEF ModelStep
  <1> HIDE DEF e
  <1>3. e.step \in Nat
    BY <1>1 DEF Running, TurnsRun
  <1>4. s \in Nat
    BY <1>3
  <1> HIDE DEF s
  <1>5. /\ Shape(o) /\ o.turns = e.turns /\ o.active = e.active /\ o.step = s
        /\ Same(e, o, TurnParts)
    BY <1>1 DEF Running, Shape, Fields, Same, TurnParts
  <1> HIDE DEF o
  <1>6. TurnsRun(o)
    BY <1>1, <1>4, <1>5 DEF Running, TurnsRun
  <1>7. Len(o.turns) > 0 /\ o.active /\ o.step <= s
    BY <1>1, <1>4, <1>5 DEF Running, StepFits
  <1>8. /\ Running(m) /\ TurnsGo(o, m) /\ Same(o, m, {"turns"}) /\ m.active = o.active
    BY <1>1, <1>2, <1>4, <1>5, <1>6, <1>7, StepReached
  <1>9. TurnsGo(e, m)
    BY <1>5, <1>8 DEF TurnsGo, TurnsStay, UsageStays
  <1>10. TurnsGo(d, m)
    BY <1>1, <1>8, <1>9, TurnsGoOn
  <1>11. Same(d, m, TurnParts)
    BY <1>1, <1>5, <1>8 DEF Same, TurnParts
  <1> QED  BY <1>1, <1>5, <1>8, <1>10, <1>11

\* The current turn ends, and keeps what else is known of it.
LEMMA CloseTurnGoes ==
    ASSUME NEW d, Running(d), d.active,
           NEW status \in {"complete", "error", "aborted"},
           NEW e, e = CloseTurn(d, status)
    PROVE  Running(e) /\ TurnsGo(d, e) /\ Same(d, e, TurnParts)
  <1> DEFINE n == Len(d.turns)
             x == [d.turns[n] EXCEPT !.status = status]
  <1>1. IsSeq(d.turns) /\ n \in 1..n /\ n \in Nat
    BY RunningFacts DEF Running, TurnsRun
  <1>2. \A t \in 1..n : /\ IsTurn(d.turns[t])
                        /\ d.turns[t].status = "running" <=> t = n
    BY DEF Running, TurnsRun
  <1>3. /\ IsTurn(x) /\ x.status = status /\ x.steps = d.turns[n].steps
        /\ x.calls = d.turns[n].calls
    <2>1. IsTurn(d.turns[n])
      BY <1>1, <1>2
    <2> QED  BY <2>1 DEF IsTurn, TurnFields
  <1>4. e = [d EXCEPT !.turns = [d.turns EXCEPT ![n] = x], !.active = FALSE,
                      !.step = 0, !.after = FALSE]
    BY DEF CloseTurn, Turn
  <1> HIDE DEF x
  <1>5. /\ Shape(e) /\ e.turns = [d.turns EXCEPT ![n] = x] /\ Same(d, e, TurnParts)
        /\ ~e.active /\ e.active \in BOOLEAN /\ e.step = 0
    BY <1>4 DEF Running, Shape, Fields, Same, TurnParts
  <1>6. /\ IsSeq(e.turns) /\ Len(e.turns) = n /\ e.turns[n] = x
        /\ \A t \in 1..n : t # n => e.turns[t] = d.turns[t]
    BY <1>1, <1>5, ExceptAny
  <1> HIDE DEF n
  <1>7. ASSUME NEW t \in 1..n
        PROVE  /\ IsTurn(e.turns[t]) /\ e.turns[t].status # "running"
               /\ d.turns[t].steps <= e.turns[t].steps
               /\ d.turns[t].status # "running" => e.turns[t].status = d.turns[t].status
               /\ e.turns[t].calls = d.turns[t].calls
    <2>1. CASE t = n
      <3>1. IsTurn(d.turns[n]) /\ d.turns[n].status = "running"
        BY <1>1, <1>2
      <3> QED  BY <1>3, <1>6, <2>1, <3>1 DEF IsTurn
    <2>2. CASE t # n
      <3>1. IsTurn(d.turns[t]) /\ d.turns[t].status # "running"
        BY <1>2, <2>2
      <3> QED  BY <1>6, <2>2, <3>1 DEF IsTurn
    <2> QED  BY <2>1, <2>2
  <1>8. TurnsRun(e)
    BY <1>5, <1>6, <1>7 DEF TurnsRun
  <1>9. StepFits(e)
    BY <1>5 DEF StepFits
  <1>10. TurnsGo(d, e)
    BY <1>1, <1>6, <1>7 DEF TurnsGo, TurnsStay, UsageStays, n
  <1> QED  BY <1>5, <1>8, <1>9, <1>10 DEF Running

LEMMA SupersedeGoes ==
    ASSUME NEW d, Running(d), NEW id, NEW e, e = Supersede(d, id)
    PROVE  Running(e) /\ TurnsGo(d, e) /\ Same(d, e, TurnParts)
  <1>1. CASE e = d
    BY <1>1, TurnsGoSame DEF Same
  <1>2. CASE d.active /\ e = CloseTurn(d, "aborted")
    BY <1>2, CloseTurnGoes
  <1> QED  BY <1>1, <1>2 DEF Supersede

-----------------------------------------------------------------------------
(* Bounded, least recently used first.                                     *)

\* A sequence of what is remembered of calls: once of each.
Distinct(s) == \A j, k \in 1..Len(s) : s[j].call = s[k].call => j = k

\* Sequence t is s without its i-th element.
Cut(s, t, i) ==
    /\ IsSeq(t) /\ Len(t) = Len(s) - 1
    /\ \A k \in 1..(Len(s) - 1) : /\ k < i => t[k] = s[k]
                                  /\ i <= k => t[k] = s[k + 1]

LEMMA DropIs ==
    ASSUME NEW s, IsSeq(s), NEW c, Find(s, c) # {}
    PROVE  \E i \in 1..Len(s) : s[i].call = c /\ Cut(s, Drop(s, c), i)
  <1>1. DOMAIN s = 1..Len(s) /\ Len(s) \in Nat /\ s \in Seq(Elements(s))
    BY SeqDomain DEF IsSeq
  <1>2. PICK i : i = CHOOSE j \in Find(s, c) : TRUE
    OBVIOUS
  <1>3. i \in 1..Len(s) /\ s[i].call = c
    BY <1>1, <1>2 DEF Find
  <1>4. Drop(s, c) = SubSeq(s, 1, i - 1) \o SubSeq(s, i + 1, Len(s))
    BY <1>2 DEF Drop, RemoveAt
  <1>5. Cut(s, Drop(s, c), i)
    <2> DEFINE S == Elements(s)
               a == SubSeq(s, 1, i - 1)
               b == SubSeq(s, i + 1, Len(s))
    <2>4. \A j \in 1..Len(s) : s[j] \in S
      BY <1>1
    <2> HIDE DEF S
    <2>5. /\ a \in Seq(S) /\ Len(a) = i - 1
          /\ b \in Seq(S) /\ Len(b) = Len(s) - i
          /\ \A k \in 1..(i - 1) : a[k] = s[k]
          /\ \A k \in 1..(Len(s) - i) : b[k] = s[i + k]
      <3>1. /\ a \in Seq(S) /\ Len(a) = IF 1 <= i - 1 THEN (i - 1) - 1 + 1 ELSE 0
            /\ \A k \in 1..((i - 1) - 1 + 1) : a[k] = s[1 + k - 1]
        <4>1. \A k \in 1..(i - 1) : s[k] \in S
          BY <1>1, <1>3, <2>4
        <4>2. 1 \in Int /\ i - 1 \in Int
          BY <1>1, <1>3
        <4> QED  BY <4>1, <4>2, SubSeqProperties
      <3>2. /\ b \in Seq(S)
            /\ Len(b) = IF i + 1 <= Len(s) THEN Len(s) - (i + 1) + 1 ELSE 0
            /\ \A k \in 1..(Len(s) - (i + 1) + 1) : b[k] = s[i + 1 + k - 1]
        <4>1. \A k \in (i + 1)..Len(s) : s[k] \in S
          BY <1>1, <1>3, <2>4
        <4>2. i + 1 \in Int /\ Len(s) \in Int
          BY <1>1, <1>3
        <4> QED  BY <4>1, <4>2, SubSeqProperties
      <3> HIDE DEF a, b
      <3>3. Len(a) = i - 1 /\ Len(b) = Len(s) - i
        <4>1. i \in Nat /\ Len(s) \in Nat /\ 1 <= i /\ i <= Len(s)
          BY <1>1, <1>3
        <4>2. Len(a) = IF 1 <= i - 1 THEN (i - 1) - 1 + 1 ELSE 0
          BY <3>1
        <4>3. Len(b) = IF i + 1 <= Len(s) THEN Len(s) - (i + 1) + 1 ELSE 0
          BY <3>2
        <4>4. Len(a) = i - 1
          BY <4>1, <4>2
        <4>5. Len(b) = Len(s) - i
          BY <4>1, <4>3
        <4> QED  BY <4>4, <4>5
      <3>4. ASSUME NEW k \in 1..(i - 1)
            PROVE  a[k] = s[k]
        <4>1. k \in 1..((i - 1) - 1 + 1) /\ 1 + k - 1 = k
          BY <1>1, <1>3
        <4> QED  BY <3>1, <4>1
      <3>5. ASSUME NEW k \in 1..(Len(s) - i)
            PROVE  b[k] = s[i + k]
        <4>1. k \in 1..(Len(s) - (i + 1) + 1) /\ i + 1 + k - 1 = i + k
          BY <1>1, <1>3
        <4> QED  BY <3>2, <4>1
      <3> QED  BY <3>1, <3>2, <3>3, <3>4, <3>5
    <2> HIDE DEF a, b
    <2>6. /\ a \o b \in Seq(S) /\ Len(a \o b) = Len(s) - 1
          /\ \A k \in 1..(Len(s) - 1) :
               (a \o b)[k] = IF k <= i - 1 THEN a[k] ELSE b[k - (i - 1)]
      <3>1. /\ a \o b \in Seq(S) /\ Len(a \o b) = Len(a) + Len(b)
            /\ \A k \in 1..(Len(a) + Len(b)) :
                 (a \o b)[k] = IF k <= Len(a) THEN a[k] ELSE b[k - Len(a)]
        BY <2>5, ConcatProperties
      <3> QED  BY <1>1, <1>3, <2>5, <3>1
    <2>7. ASSUME NEW k \in 1..(Len(s) - 1)
          PROVE  /\ k < i => (a \o b)[k] = s[k]
                 /\ i <= k => (a \o b)[k] = s[k + 1]
      <3>1. CASE k < i
        <4>1. k \in 1..(i - 1) /\ k <= i - 1
          BY <1>1, <1>3, <3>1
        <4> QED  BY <1>1, <1>3, <2>5, <2>6, <3>1, <4>1
      <3>2. CASE i <= k
        <4>1. k - (i - 1) \in 1..(Len(s) - i) /\ i + (k - (i - 1)) = k + 1 /\ ~(k <= i - 1)
          BY <1>1, <1>3, <3>2
        <4>2. (a \o b)[k] = b[k - (i - 1)]
          BY <2>6, <4>1
        <4> QED  BY SMTT(30), <1>1, <1>3, <2>5, <3>2, <4>1, <4>2
      <3> QED  BY <1>1, <1>3, <3>1, <3>2
    <2>8. Drop(s, c) = a \o b
      BY <1>4 DEF a, b
    <2>9. IsSeq(a \o b)
      BY <2>6, SeqIs
    <2> QED  BY <2>6, <2>7, <2>8, <2>9 DEF Cut
  <1> QED  BY <1>3, <1>5

LEMMA DropKeeps ==
    ASSUME NEW s, IsSeq(s), NEW c
    PROVE  /\ IsSeq(Drop(s, c)) /\ Len(Drop(s, c)) <= Len(s)
           /\ \A k \in 1..Len(Drop(s, c)) : \E j \in 1..Len(s) : Drop(s, c)[k] = s[j]
  <1>1. Len(s) \in Nat
    BY SeqDomain
  <1>2. CASE Find(s, c) = {}
    BY <1>1, <1>2 DEF Drop
  <1>3. CASE Find(s, c) # {}
    <2>1. PICK i \in 1..Len(s) : Cut(s, Drop(s, c), i)
      BY <1>3, DropIs
    <2>2. PICK t : t = Drop(s, c)
      OBVIOUS
    <2>3. IsSeq(t) /\ Len(t) = Len(s) - 1
      BY <2>1, <2>2 DEF Cut
    <2>4. ASSUME NEW k \in 1..(Len(s) - 1)
          PROVE  \E j \in 1..Len(s) : t[k] = s[j]
      <3>1. k \in 1..Len(s) /\ k + 1 \in 1..Len(s) /\ (k < i \/ i <= k)
        BY <1>1
      <3>2. t[k] = s[k] \/ t[k] = s[k + 1]
        BY <2>1, <2>2, <3>1 DEF Cut
      <3> QED  BY <3>1, <3>2
    <2> QED  BY <1>1, <2>2, <2>3, <2>4
  <1> QED  BY <1>2, <1>3

LEMMA PutKeeps ==
    ASSUME NEW s, IsSeq(s), Len(s) <= MaxTracked, NEW x
    PROVE  /\ IsSeq(Put(s, x)) /\ Len(Put(s, x)) <= MaxTracked
           /\ \A k \in 1..Len(Put(s, x)) :
                Put(s, x)[k] = x \/ \E j \in 1..Len(s) : Put(s, x)[k] = s[j]
  <1> DEFINE o == Drop(s, x.call)
             a == Append(o, x)
  <1>1. /\ IsSeq(o) /\ Len(o) <= Len(s)
        /\ \A k \in 1..Len(o) : \E j \in 1..Len(s) : o[k] = s[j]
    BY DropKeeps
  <1> HIDE DEF o
  <1>2. /\ IsSeq(a) /\ Len(a) = Len(o) + 1 /\ Len(o) \in Nat
        /\ \A k \in 1..Len(o) : a[k] = o[k]
        /\ a[Len(o) + 1] = x
    BY <1>1, AppendAny
  <1> HIDE DEF a
  <1>3. \A k \in 1..Len(a) : a[k] = x \/ \E j \in 1..Len(s) : a[k] = s[j]
    <2> SUFFICES ASSUME NEW k \in 1..Len(a), a[k] # x
                 PROVE  \E j \in 1..Len(s) : a[k] = s[j]
      OBVIOUS
    <2>1. k \in 1..Len(o)
      BY <1>2
    <2> QED  BY <1>1, <1>2, <2>1
  <1>4. MaxTracked \in Nat \ {0} /\ Len(s) \in Nat
    BY LimitsAssumption, SeqDomain
  <1>5. Put(s, x) = IF Len(a) > MaxTracked THEN Tail(a) ELSE a
    BY DEF Put, Newest, a, o
  <1>6. CASE Len(a) > MaxTracked
    <2>1. /\ IsSeq(Tail(a)) /\ Len(Tail(a)) = Len(a) - 1
          /\ \A k \in 1..(Len(a) - 1) : Tail(a)[k] = a[k + 1]
      BY <1>2, TailAny
    <2>2. Put(s, x) = Tail(a)
      BY <1>5, <1>6
    <2>3. Len(Tail(a)) <= MaxTracked
      BY <1>1, <1>2, <1>4, <2>1
    <2>4. ASSUME NEW k \in 1..Len(Tail(a))
          PROVE  Tail(a)[k] = x \/ \E j \in 1..Len(s) : Tail(a)[k] = s[j]
      <3>1. k \in 1..(Len(a) - 1) /\ k + 1 \in 1..Len(a)
        BY <1>2, <2>1
      <3>2. Tail(a)[k] = a[k + 1]
        BY <2>1, <3>1
      <3> QED  BY <1>3, <3>1, <3>2
    <2> QED  BY <2>1, <2>2, <2>3, <2>4
  <1>7. CASE ~(Len(a) > MaxTracked)
    BY <1>1, <1>2, <1>3, <1>4, <1>5, <1>7
  <1> QED  BY <1>6, <1>7

\* Whatever is in t was in s, or is x.
LEMMA PutHas ==
    ASSUME NEW s, IsSeq(s), Len(s) <= MaxTracked, NEW x, NEW t, t = Put(s, x)
    PROVE  /\ IsSeq(t) /\ Len(t) <= MaxTracked
           /\ \A k \in 1..Len(t) : t[k] = x \/ \E j \in 1..Len(s) : t[k] = s[j]
  BY PutKeeps

LEMMA FindIs ==
    ASSUME NEW s, IsSeq(s), NEW c
    PROVE  Find(s, c) # {} <=> \E k \in 1..Len(s) : s[k].call = c
  <1>1. DOMAIN s = 1..Len(s)
    BY SeqDomain
  <1> QED  BY <1>1 DEF Find

LEMMA GetIs ==
    ASSUME NEW s, IsSeq(s), NEW c, Find(s, c) # {}
    PROVE  \E k \in 1..Len(s) : Get(s, c) = s[k] /\ s[k].call = c
  <1>1. DOMAIN s = 1..Len(s)
    BY SeqDomain
  <1>2. PICK k : k = CHOOSE i \in Find(s, c) : TRUE
    OBVIOUS
  <1>3. k \in Find(s, c)
    BY <1>2
  <1> QED  BY <1>1, <1>2, <1>3 DEF Find, Get

LEMMA GetOnly ==
    ASSUME NEW s, IsSeq(s), Distinct(s), NEW k \in 1..Len(s)
    PROVE  Find(s, s[k].call) # {} /\ Get(s, s[k].call) = s[k]
  <1>1. Find(s, s[k].call) # {}
    BY FindIs
  <1>2. PICK j \in 1..Len(s) : Get(s, s[k].call) = s[j] /\ s[j].call = s[k].call
    BY <1>1, GetIs
  <1> QED  BY <1>1, <1>2 DEF Distinct

\* What is left without a call: all others.
LEMMA DropLeaves ==
    ASSUME NEW s, IsSeq(s), Distinct(s), NEW c, NEW t, t = Drop(s, c)
    PROVE  /\ IsSeq(t) /\ Distinct(t)
           /\ \A k \in 1..Len(t) : t[k].call # c
           /\ \A j \in 1..Len(s) : s[j].call # c => \E k \in 1..Len(t) : t[k] = s[j]
           /\ IF Find(s, c) = {} THEN Len(t) = Len(s) ELSE Len(t) = Len(s) - 1
  <1>1. Len(s) \in Nat
    BY SeqDomain
  <1>2. CASE Find(s, c) = {}
    <2>1. t = s
      BY <1>2 DEF Drop
    <2>2. \A k \in 1..Len(s) : s[k].call # c
      BY <1>2, FindIs
    <2> QED  BY <1>2, <2>1, <2>2
  <1>3. CASE Find(s, c) # {}
    <2>1. PICK i \in 1..Len(s) : s[i].call = c /\ Cut(s, t, i)
      BY <1>3, DropIs
    <2>2. IsSeq(t) /\ Len(t) = Len(s) - 1
      BY <2>1 DEF Cut
    <2>3. ASSUME NEW k \in 1..Len(t)
          PROVE  /\ k < i => t[k] = s[k]
                 /\ i <= k => t[k] = s[k + 1]
                 /\ k \in 1..Len(s) /\ k + 1 \in 1..Len(s)
      BY <1>1, <2>1, <2>2 DEF Cut
    <2>4. ASSUME NEW j \in 1..Len(s), NEW k \in 1..Len(s), s[j].call = s[k].call
          PROVE  j = k
      BY <2>4 DEF Distinct
    <2>5. ASSUME NEW k \in 1..Len(t)
          PROVE  t[k].call # c
      <3>1. CASE k < i
        BY <2>1, <2>3, <2>4, <3>1
      <3>2. CASE i <= k
        BY <2>1, <2>3, <2>4, <3>2
      <3> QED  BY <3>1, <3>2
    <2>6. ASSUME NEW j \in 1..Len(t), NEW k \in 1..Len(t), t[j].call = t[k].call
          PROVE  j = k
      <3>1. CASE j < i /\ k < i
        BY SMTT(30), <2>3, <2>4, <2>6, <3>1
      <3>2. CASE j < i /\ i <= k
        BY SMTT(30), <2>3, <2>4, <2>6, <3>2
      <3>3. CASE i <= j /\ k < i
        BY SMTT(30), <2>3, <2>4, <2>6, <3>3
      <3>4. CASE i <= j /\ i <= k
        BY SMTT(30), <2>3, <2>4, <2>6, <3>4
      <3> QED  BY <3>1, <3>2, <3>3, <3>4
    <2>7. ASSUME NEW j \in 1..Len(s), s[j].call # c
          PROVE  \E k \in 1..Len(t) : t[k] = s[j]
      <3>1. j # i
        BY <2>1, <2>7
      <3>2. CASE j < i
        <4>1. j \in 1..Len(t)
          BY <1>1, <2>2, <3>2
        <4> QED  BY <2>3, <3>2, <4>1
      <3>3. CASE i < j
        <4>1. j - 1 \in 1..Len(t) /\ i <= j - 1 /\ (j - 1) + 1 = j
          BY <1>1, <2>2, <3>3
        <4>2. t[j - 1] = s[j]
          BY <2>3, <4>1
        <4> QED  BY <4>1, <4>2
      <3> QED  BY <3>1, <3>2, <3>3
    <2> QED  BY <1>3, <2>2, <2>5, <2>6, <2>7 DEF Distinct
  <1> QED  BY <1>2, <1>3

\* What is remembered when x is: all there was of other calls.
IsPut(s, t, x) ==
    /\ Find(t, x.call) # {} /\ Get(t, x.call) = x
    /\ \A c : c # x.call /\ Find(s, c) # {} => Find(t, c) # {} /\ Get(t, c) = Get(s, c)

\* Unless a call too many is remembered, no other is forgotten.
LEMMA PutIs ==
    ASSUME NEW s, IsSeq(s), Distinct(s), Len(s) <= MaxTracked, NEW x, NEW t, t = Put(s, x)
    PROVE  /\ Distinct(t)
           /\ Find(s, x.call) # {} \/ Len(s) < MaxTracked => IsPut(s, t, x)
  <1> DEFINE o == Drop(s, x.call)
             a == Append(o, x)
             n == Len(o)
  <1>1. /\ IsSeq(o) /\ Distinct(o)
        /\ \A k \in 1..Len(o) : o[k].call # x.call
        /\ \A j \in 1..Len(s) : s[j].call # x.call => \E k \in 1..Len(o) : o[k] = s[j]
        /\ IF Find(s, x.call) = {} THEN Len(o) = Len(s) ELSE Len(o) = Len(s) - 1
    BY DropLeaves
  <1>2. t = IF Len(a) > MaxTracked THEN Tail(a) ELSE a
    BY DEF Put, Newest
  <1> HIDE DEF o
  <1>3. /\ IsSeq(a) /\ Len(a) = n + 1 /\ n \in Nat
        /\ \A k \in 1..n : a[k] = o[k]
        /\ a[n + 1] = x
    BY <1>1, AppendAny
  <1> HIDE DEF a, n
  <1>4. MaxTracked \in Nat \ {0} /\ Len(s) \in Nat
    BY LimitsAssumption, SeqDomain
  <1>5. ASSUME NEW j \in 1..(n + 1), NEW k \in 1..(n + 1), a[j].call = a[k].call
        PROVE  j = k
    <2>1. CASE j = n + 1 /\ k # n + 1
      <3>1. k \in 1..n
        BY <1>3, <2>1
      <3> QED  BY <1>1, <1>3, <1>5, <2>1, <3>1 DEF n
    <2>2. CASE j # n + 1 /\ k = n + 1
      <3>1. j \in 1..n
        BY <1>3, <2>2
      <3> QED  BY <1>1, <1>3, <1>5, <2>2, <3>1 DEF n
    <2>3. CASE j # n + 1 /\ k # n + 1
      <3>1. j \in 1..n /\ k \in 1..n
        BY <1>3, <2>3
      <3> QED  BY <1>1, <1>3, <1>5, <3>1 DEF Distinct, n
    <2> QED  BY <2>1, <2>2, <2>3
  <1>6. Distinct(a)
    BY <1>3, <1>5 DEF Distinct
  <1>7. Distinct(t)
    <2>1. CASE Len(a) > MaxTracked
      <3>1. /\ Len(Tail(a)) = n
            /\ \A k \in 1..n : Tail(a)[k] = a[k + 1]
        <4>1. Len(a) > 0 /\ (n + 1) - 1 = n
          BY <1>3
        <4> QED  BY <1>3, <4>1, TailAny
      <3>2. \A k \in 1..n : k + 1 \in 1..(n + 1)
        BY <1>3
      <3>3. ASSUME NEW j \in 1..n, NEW k \in 1..n, Tail(a)[j].call = Tail(a)[k].call
            PROVE  j = k
        <4>1. j + 1 = k + 1
          BY <1>5, <3>1, <3>2, <3>3
        <4> QED  BY <4>1
      <3> QED  BY <1>2, <2>1, <3>1, <3>3 DEF Distinct
    <2> QED  BY <1>2, <1>6, <2>1
  <1>8. ASSUME Find(s, x.call) # {} \/ Len(s) < MaxTracked
        PROVE  IsPut(s, t, x)
    <2>1. t = a
      <3>1. ~(Len(a) > MaxTracked)
        BY <1>1, <1>3, <1>4, <1>8 DEF n
      <3> QED  BY <1>2, <3>1
    <2>2. n + 1 \in 1..Len(a)
      BY <1>3
    <2>3. Find(a, x.call) # {} /\ Get(a, x.call) = x
      BY <1>3, <1>6, <2>2, GetOnly
    <2>4. ASSUME NEW c, c # x.call, Find(s, c) # {}
          PROVE  Find(a, c) # {} /\ Get(a, c) = Get(s, c)
      <3>1. PICK j \in 1..Len(s) : Get(s, c) = s[j] /\ s[j].call = c
        BY <2>4, GetIs
      <3>2. PICK k \in 1..Len(o) : o[k] = s[j]
        BY <1>1, <2>4, <3>1
      <3>3. k \in 1..Len(a) /\ a[k] = s[j]
        BY <1>3, <3>2 DEF n
      <3> QED  BY <1>3, <1>6, <3>1, <3>3, GetOnly
    <2> QED  BY <2>1, <2>3, <2>4 DEF IsPut
  <1> QED  BY <1>7, <1>8

\* As many as there are calls, at most.
LEMMA DistinctFits ==
    ASSUME NEW s, IsSeq(s), Distinct(s), NEW C, IsFiniteSet(C),
           \A k \in 1..Len(s) : s[k].call \in C
    PROVE  Len(s) <= Cardinality(C)
  <1> DEFINE f == [k \in 1..Len(s) |-> s[k].call]
  <1>1. Len(s) \in Nat
    BY SeqDomain
  <1>2. f \in Injection(1..Len(s), C)
    BY DEF Injection, IsInjective, Distinct
  <1>3. Cardinality(1..Len(s)) <= Cardinality(C)
    BY <1>2, FS_Injection
  <1>4. Cardinality(1..Len(s)) = Len(s)
    <2>1. PICK n \in Nat : n = Len(s)
      BY <1>1
    <2>2. Cardinality(1..n) = n
      BY FS_Interval
    <2> QED  BY <2>1, <2>2
  <1> QED  BY <1>3, <1>4

LEMMA TrackedIsOne ==
    ASSUME NEW d, IsSeq(d.tracked), NEW call, Tracked(d, call) # 0
    PROVE  \E k \in 1..Len(d.tracked) : /\ Tracked(d, call) = d.tracked[k].record
                                         /\ d.tracked[k].call = call
  <1>1. DOMAIN d.tracked = 1..Len(d.tracked)
    BY SeqDomain
  <1>2. Find(d.tracked, call) # {} /\ Tracked(d, call) = Get(d.tracked, call).record
    BY DEF Tracked, Known
  <1>3. PICK k : k = CHOOSE i \in Find(d.tracked, call) : TRUE
    OBVIOUS
  <1>4. k \in Find(d.tracked, call)
    BY <1>2, <1>3
  <1> QED  BY <1>1, <1>2, <1>3, <1>4 DEF Find, Get

-----------------------------------------------------------------------------
(* A projection between two calls of a handler: its records.               *)

RecordFields == {"turn", "step", "kind", "id", "call", "status", "counts", "failed",
                 "started", "ended", "took", "final", "error", "input", "output",
                 "outputFinal", "marker"}
Kinds        == {"user", "assistant", "reasoning", "tool", "subagent", "compaction"}

\* A record that failed says why.
IsRecord(r) ==
    /\ DOMAIN r = RecordFields /\ r = [f \in RecordFields |-> r[f]]
    /\ r.kind \in Kinds /\ r.status \in {"running", "complete", "error"}
    /\ r.status = "error" => r.error # "none"
    /\ r.step \in Nat

\* It is of a turn, and of a step that the turn has had.
RecordFits(r, d) ==
    /\ r.turn \in 1..Len(d.turns)
    /\ r.marker \/ r.step <= d.turns[r.turn].steps

\* What later entries may not take from a record.
RecordStays(r, s) ==
    /\ s.turn = r.turn /\ s.step = r.step /\ s.marker = r.marker
    /\ s.kind = r.kind /\ s.call = r.call
    /\ r.status # "running" => s.status # "running"
    /\ r.status = "error" => s.status = "error" /\ s.error = r.error
    /\ r.outputFinal => s.outputFinal /\ s.output = r.output
    /\ r.final => s.final
    /\ r.final /\ r.took # "measured" => s.took # "measured"

\* Every record fits; what is tracked, pending or awaits its usage exists.
Recorded(d) ==
    /\ IsSeq(d.heap)
    /\ \A i \in 1..Len(d.heap) : IsRecord(d.heap[i]) /\ RecordFits(d.heap[i], d)
    /\ d.pending \in 0..Len(d.heap) /\ d.lastRecord \in 0..Len(d.heap)
    /\ d.lastTurn \in 0..Len(d.turns)

\* Calls are remembered within their limit.
Remembers(d) ==
    /\ IsSeq(d.tracked) /\ Len(d.tracked) <= MaxTracked
    /\ IsSeq(d.states) /\ Len(d.states) <= MaxTracked
    /\ \A k \in 1..Len(d.tracked) : d.tracked[k].record \in 1..Len(d.heap)

\* The index has every record as it is, but for those it has yet to take and
\* some records X that a handler is changing.
Indexed(d, X) == \A i \in 1..Len(d.heap) :
                   i \in d.dirty \/ i \in X \/ d.stored[i] = d.heap[i]

\* As long as no identifier was repeated, no record got another one than its
\* entry says.
Unsalted(d) ==
    /\ d.ambiguous \in BOOLEAN
    /\ d.ambiguous \/ (d.visible \subseteq d.names
                       /\ \A i \in 1..Len(d.heap) : d.heap[i].id[1] # "salted")

\* Every usage sample is part of exactly one turn's usage.
Sampled(d) ==
    /\ d.samples \in Nat
    /\ \A t \in 1..Len(d.turns) : d.turns[t].calls \subseteq 1..d.samples
    /\ \A s \in 1..d.samples : \E t \in 1..Len(d.turns) : s \in d.turns[t].calls
    /\ \A t, u \in 1..Len(d.turns) : \A s \in d.turns[t].calls :
         s \in d.turns[u].calls => t = u

\* The page of the first n records: the last of it, and all of it.
PageEnd(d, n)   == IF d.before = 0 \/ n < d.before THEN n ELSE d.before - 1
OnPage(d, n, i) == i \in 1..n /\ i <= PageEnd(d, n) /\ i > PageEnd(d, n) - d.limit
PageOf(d, n)    == {i \in 1..n : OnPage(d, n, i)}

\* How many of the records S are of each turn that has some.
OwnersOf(S, h) == [t \in {h[i].turn : i \in S} |-> Cardinality({i \in S : h[i].turn = t})]

\* The page is kept in order, with the owners of its records.
KeptIs(d, n) ==
    /\ IsSeq(d.kept)
    /\ Len(d.kept) = IF PageEnd(d, n) < d.limit THEN PageEnd(d, n) ELSE d.limit
    /\ \A k \in 1..Len(d.kept) : d.kept[k] = PageEnd(d, n) - Len(d.kept) + k
OwnersAre(d, n) == d.owners = OwnersOf(PageOf(d, n), d.heap)
PageFits(d) ==
    /\ d.limit \in Nat \ {0} /\ d.before \in Nat
    /\ KeptIs(d, Len(d.heap)) /\ OwnersAre(d, Len(d.heap))

\* What an identifier says of its record: salt is the record's own, and only
\* entries that were read name records.
NameFits(id, i, event) ==
    /\ id[1] = "salted" => id[3] = i
    /\ id[1] = "event" => id[2] \in Nat /\ id[2] <= event

\* Names on the page of the first n records differ, but for those the log gave to
\* a compaction.  The others are known to be visible, or are those of compactions
\* that were renamed after the event.
NamesDiffer(d, n) ==
    \A i, j \in 1..n :
      OnPage(d, n, i) /\ OnPage(d, n, j) /\ d.heap[i].id = d.heap[j].id
        => i = j \/ d.heap[i].id \in d.given
KnownName(d, id) == id \in d.visible \/ id[1] = "event" \/ id \in d.given
NamesSeen(d, n) ==
    \A i \in 1..n : OnPage(d, n, i) => KnownName(d, d.heap[i].id)
NamesFit(d) ==
    /\ d.event \in Nat
    /\ \A i \in 1..Len(d.heap) : NameFits(d.heap[i].id, i, d.event)
    /\ NamesDiffer(d, Len(d.heap)) /\ NamesSeen(d, Len(d.heap))

\* The tools among the records, the calls that have a name, what each record is
\* counted as, and what failed.
ToolsOf(h)    == {i \in 1..Len(h) : h[i].kind = "tool"}
NamedOf(h)    == {h[i].call : i \in {j \in ToolsOf(h) : h[j].call # NoCall}}
Account(h, i) == IF h[i].call = NoCall THEN <<"record", i>> ELSE <<"call", h[i].call>>
AccountsOf(h) == {Account(h, i) : i \in ToolsOf(h)}
FailedOf(h)   == {Account(h, i) : i \in {j \in ToolsOf(h) : h[j].status = "error"}}

\* Where it is noted that the call of record i counts and has failed: in the state
\* of the call, if it has a name.
BookOf(h, s, i) == IF h[i].call = NoCall THEN h[i] ELSE Get(s, h[i].call)
Booked(h, s, i) ==
    /\ h[i].call # NoCall => Find(s, h[i].call) # {}
    /\ BookOf(h, s, i).counts = TRUE
    /\ BookOf(h, s, i).failed = IF Account(h, i) \in FailedOf(h) THEN TRUE ELSE FALSE

BooksAgree(h, s, tools, failures) ==
    /\ tools = Cardinality(AccountsOf(h)) /\ failures = Cardinality(FailedOf(h))
    /\ \A i \in ToolsOf(h) : Booked(h, s, i)

\* Every call has one state at most, and as long as no state was forgotten, what is
\* counted is what is on record.
StateFields         == {"call", "counts", "failed"}
IsState(y)          == DOMAIN y = StateFields /\ y = [f \in StateFields |-> y[f]]
IsStateOf(y, h)     == IsState(y) /\ y.call \in NamedOf(h)
TrackedIsTool(k, h) == k.call # NoCall /\ h[k.record].kind = "tool" /\ h[k.record].call = k.call
Counted(d) ==
    /\ Distinct(d.states)
    /\ \A k \in 1..Len(d.states) : IsStateOf(d.states[k], d.heap)
    /\ \A k \in 1..Len(d.tracked) : TrackedIsTool(d.tracked[k], d.heap)
    /\ Cardinality(NamedOf(d.heap)) <= MaxTracked
         => BooksAgree(d.heap, d.states, d.tools, d.failures)

Good(d, X) == /\ Running(d) /\ Recorded(d) /\ Remembers(d) /\ Indexed(d, X) /\ Unsalted(d)
              /\ Sampled(d) /\ PageFits(d) /\ NamesFit(d) /\ Counted(d)

-----------------------------------------------------------------------------
(* What is counted.                                                        *)

LEMMA AccountIs ==
    ASSUME NEW h, NEW g, NEW i, NEW j
    PROVE  Account(h, i) = Account(g, j) <=>
             h[i].call = g[j].call /\ (h[i].call = NoCall => i = j)
  <1>1. <<"record", i>> = <<"record", j>> <=> i = j
    BY Zenon
  <1>2. <<"record", i>>[1] = "record" /\ <<"record", j>>[1] = "record"
    OBVIOUS
  <1>3. <<"call", h[i].call>>[1] = "call" /\ <<"call", g[j].call>>[1] = "call"
    OBVIOUS
  <1>4. <<"call", h[i].call>> = <<"call", g[j].call>> <=> h[i].call = g[j].call
    BY Zenon
  <1>5. CASE h[i].call = NoCall /\ g[j].call = NoCall
    BY <1>1, <1>5 DEF Account
  <1>6. CASE h[i].call # NoCall /\ g[j].call # NoCall
    BY <1>4, <1>6 DEF Account
  <1>7. CASE h[i].call = NoCall /\ g[j].call # NoCall
    BY <1>2, <1>3, <1>7 DEF Account
  <1>8. CASE h[i].call # NoCall /\ g[j].call = NoCall
    BY <1>2, <1>3, <1>8 DEF Account
  <1> QED  BY <1>5, <1>6, <1>7, <1>8

LEMMA BooksFinite ==
    ASSUME NEW h, IsSeq(h)
    PROVE  /\ IsFiniteSet(NamedOf(h)) /\ IsFiniteSet(AccountsOf(h))
           /\ IsFiniteSet(FailedOf(h)) /\ FailedOf(h) \subseteq AccountsOf(h)
  <1>1. IsFiniteSet(1..Len(h))
    <2>1. Len(h) \in Nat
      BY SeqDomain
    <2> QED  BY <2>1, FS_Interval
  <1>2. IsFiniteSet(ToolsOf(h))
    BY <1>1, FS_Subset DEF ToolsOf
  <1> DEFINE N == {j \in ToolsOf(h) : h[j].call # NoCall}
             E == {j \in ToolsOf(h) : h[j].status = "error"}
             f == [i \in N |-> h[i].call]
             a == [i \in ToolsOf(h) |-> Account(h, i)]
  <1>3. IsFiniteSet(N)
    BY <1>2, FS_Subset
  <1>4. IsFiniteSet(NamedOf(h))
    <2>1. f \in Surjection(N, NamedOf(h))
      BY DEF Surjection, NamedOf
    <2> QED  BY <1>3, <2>1, FS_Surjection
  <1>5. IsFiniteSet(AccountsOf(h))
    <2>1. a \in Surjection(ToolsOf(h), AccountsOf(h))
      BY DEF Surjection, AccountsOf
    <2> QED  BY <1>2, <2>1, FS_Surjection
  <1>6. FailedOf(h) \subseteq AccountsOf(h)
    BY DEF FailedOf, AccountsOf
  <1>7. IsFiniteSet(FailedOf(h))
    BY <1>5, <1>6, FS_Subset
  <1> QED  BY <1>4, <1>5, <1>6, <1>7

\* A tool of a call is a tool of its account.
LEMMA AccountsAre ==
    ASSUME NEW h, NEW i \in ToolsOf(h)
    PROVE  /\ Account(h, i) \in AccountsOf(h)
           /\ h[i].call # NoCall => h[i].call \in NamedOf(h)
           /\ h[i].status = "error" => Account(h, i) \in FailedOf(h)
  BY DEF AccountsOf, NamedOf, FailedOf

\* What is noted of record i of h is noted of record j of g.
LEMMA BookedStays ==
    ASSUME NEW h, NEW s, NEW i, Booked(h, s, i), NEW g, NEW t, NEW j,
           g[j].call = h[i].call,
           Account(g, j) \in FailedOf(g) <=> Account(h, i) \in FailedOf(h),
           h[i].call = NoCall => g[j].counts = h[i].counts /\ g[j].failed = h[i].failed,
           h[i].call # NoCall => /\ Find(t, h[i].call) # {}
                                 /\ Get(t, h[i].call) = Get(s, h[i].call)
    PROVE  Booked(g, t, j)
  <1>1. CASE h[i].call = NoCall
    <2>1. BookOf(h, s, i) = h[i] /\ BookOf(g, t, j) = g[j]
      BY <1>1 DEF BookOf
    <2> QED  BY <1>1, <2>1 DEF Booked
  <1>2. CASE h[i].call # NoCall
    <2>1. BookOf(h, s, i) = Get(s, h[i].call) /\ BookOf(g, t, j) = Get(t, h[i].call)
      BY <1>2 DEF BookOf
    <2> QED  BY <1>2, <2>1 DEF Booked
  <1> QED  BY <1>1, <1>2

\* What a change of a record leaves of it, if it is not for the books.
SameAccount(r, x) ==
    /\ x.kind = r.kind /\ x.call = r.call /\ x.counts = r.counts /\ x.failed = r.failed
    /\ x.status = "error" <=> r.status = "error"

LEMMA AccountsStay ==
    ASSUME NEW h, NEW g, Len(g) = Len(h), \A i \in 1..Len(h) : SameAccount(h[i], g[i])
    PROVE  /\ ToolsOf(g) = ToolsOf(h) /\ NamedOf(g) = NamedOf(h)
           /\ AccountsOf(g) = AccountsOf(h) /\ FailedOf(g) = FailedOf(h)
           /\ \A i \in 1..Len(h) : Account(g, i) = Account(h, i)
  <1>1. ToolsOf(g) = ToolsOf(h)
    BY DEF ToolsOf, SameAccount
  <1>2. \A i \in 1..Len(h) : Account(g, i) = Account(h, i)
    BY DEF Account, SameAccount
  <1>3. \A i \in ToolsOf(h) : i \in 1..Len(h)
    BY DEF ToolsOf
  <1>4. NamedOf(g) = NamedOf(h)
    BY <1>1, <1>3 DEF NamedOf, SameAccount
  <1>5. AccountsOf(g) = AccountsOf(h)
    BY <1>1, <1>2, <1>3 DEF AccountsOf
  <1>6. {i \in ToolsOf(g) : g[i].status = "error"} = {i \in ToolsOf(h) : h[i].status = "error"}
    BY <1>1, <1>3 DEF SameAccount
  <1>7. FailedOf(g) = FailedOf(h)
    BY <1>2, <1>3, <1>6 DEF FailedOf
  <1> QED  BY <1>1, <1>2, <1>4, <1>5, <1>7

LEMMA CountedStays ==
    ASSUME NEW d, Counted(d), Remembers(d), NEW e, Len(e.heap) = Len(d.heap),
           \A i \in 1..Len(d.heap) : SameAccount(d.heap[i], e.heap[i]),
           e.states = d.states, e.tracked = d.tracked, e.tools = d.tools,
           e.failures = d.failures
    PROVE  Counted(e)
  <1>1. /\ ToolsOf(e.heap) = ToolsOf(d.heap) /\ NamedOf(e.heap) = NamedOf(d.heap)
        /\ AccountsOf(e.heap) = AccountsOf(d.heap) /\ FailedOf(e.heap) = FailedOf(d.heap)
        /\ \A i \in 1..Len(d.heap) : Account(e.heap, i) = Account(d.heap, i)
    BY AccountsStay
  <1>2. ASSUME BooksAgree(d.heap, d.states, d.tools, d.failures)
        PROVE  BooksAgree(e.heap, e.states, e.tools, e.failures)
    <2>1. ASSUME NEW i \in ToolsOf(d.heap)
          PROVE  Booked(e.heap, e.states, i)
      <3>1. Booked(d.heap, d.states, i)
        BY <1>2 DEF BooksAgree
      <3>2. i \in 1..Len(d.heap) /\ SameAccount(d.heap[i], e.heap[i])
        BY DEF ToolsOf
      <3>3. d.heap[i].call # NoCall => Find(d.states, d.heap[i].call) # {}
        BY <3>1 DEF Booked
      <3>4. PICK h, g, s : h = d.heap /\ g = e.heap /\ s = d.states
        OBVIOUS
      <3>5. Booked(g, s, i)
        <4>1. Booked(h, s, i) /\ g[i].call = h[i].call
              /\ (Account(g, i) \in FailedOf(g) <=> Account(h, i) \in FailedOf(h))
          BY <1>1, <3>1, <3>2, <3>4 DEF SameAccount
        <4>2. h[i].call = NoCall => g[i].counts = h[i].counts /\ g[i].failed = h[i].failed
          BY <3>2, <3>4 DEF SameAccount
        <4>3. h[i].call # NoCall => /\ Find(s, h[i].call) # {}
                                    /\ Get(s, h[i].call) = Get(s, h[i].call)
          BY <3>3, <3>4
        <4> QED  BY <4>1, <4>2, <4>3, BookedStays
      <3> QED  BY <3>4, <3>5
    <2> QED  BY <1>1, <1>2, <2>1 DEF BooksAgree
  <1>3. \A k \in 1..Len(d.tracked) : TrackedIsTool(d.tracked[k], e.heap)
    BY DEF Counted, Remembers, TrackedIsTool, SameAccount
  <1>4. \A k \in 1..Len(d.states) : IsStateOf(d.states[k], e.heap)
    BY <1>1 DEF Counted, IsStateOf
  <1> QED  BY <1>1, <1>2, <1>3, <1>4 DEF Counted

\* Record n, a tool, fails: its call is counted as failed unless it was, and that is
\* noted in t where s had the state of the call.
Noted(k, call) == k.call = call /\ k.counts = TRUE
Fails(h, n, x, s, t, failures, fs) ==
    /\ x.kind = "tool" /\ x.call = h[n].call /\ x.counts = h[n].counts
    /\ x.status = "error"
    /\ Account(h, n) \in FailedOf(h) =>
         t = s /\ fs = failures /\ (h[n].call = NoCall => x.failed = h[n].failed)
    /\ Account(h, n) \notin FailedOf(h) =>
         /\ fs = failures + 1
         /\ h[n].call = NoCall => t = s /\ x.failed = TRUE
         /\ h[n].call # NoCall => \E k : Noted(k, h[n].call) /\ k.failed = TRUE /\ IsPut(s, t, k)

LEMMA BooksFail ==
    ASSUME NEW h, IsSeq(h), NEW s, NEW tools, NEW failures, BooksAgree(h, s, tools, failures),
           NEW n \in ToolsOf(h), NEW x, NEW g, Replaced(h, g, n, x),
           NEW t, NEW fs, Fails(h, n, x, s, t, failures, fs)
    PROVE  BooksAgree(g, t, tools, fs) /\ NamedOf(g) = NamedOf(h)
  <1>1. /\ Len(g) = Len(h) /\ g[n] = x /\ n \in 1..Len(h) /\ h[n].kind = "tool"
        /\ \A i \in 1..Len(h) : i # n => g[i] = h[i]
    BY DEF Replaced, ToolsOf
  <1>2. \A i \in 1..Len(h) : g[i].kind = h[i].kind /\ g[i].call = h[i].call
                             /\ g[i].counts = h[i].counts
    BY <1>1 DEF Fails
  <1>3. ToolsOf(g) = ToolsOf(h) /\ \A i \in ToolsOf(h) : i \in 1..Len(h)
    BY <1>1, <1>2 DEF ToolsOf
  <1>4. \A i \in 1..Len(h) : Account(g, i) = Account(h, i)
    BY <1>2 DEF Account
  <1>5. NamedOf(g) = NamedOf(h)
    BY <1>2, <1>3 DEF NamedOf
  <1>6. AccountsOf(g) = AccountsOf(h)
    BY <1>3, <1>4 DEF AccountsOf
  <1>7. FailedOf(g) = FailedOf(h) \cup {Account(h, n)}
    <2>1. {i \in ToolsOf(g) : g[i].status = "error"}
            = {i \in ToolsOf(h) : h[i].status = "error"} \cup {n}
      BY <1>1, <1>3 DEF Fails
    <2>2. FailedOf(g) = {Account(h, i) : i \in {j \in ToolsOf(g) : g[j].status = "error"}}
      BY <1>3, <1>4 DEF FailedOf
    <2> QED  BY <2>1, <2>2 DEF FailedOf
  <1>8. IsFiniteSet(FailedOf(h)) /\ Cardinality(FailedOf(h)) \in Nat
    BY BooksFinite, FS_CardinalityType
  <1>9. fs = Cardinality(FailedOf(g))
    <2>1. CASE Account(h, n) \in FailedOf(h)
      <3>1. FailedOf(g) = FailedOf(h)
        BY <1>7, <2>1
      <3> QED  BY <2>1, <3>1 DEF Fails, BooksAgree
    <2>2. CASE Account(h, n) \notin FailedOf(h)
      <3>1. Cardinality(FailedOf(h) \cup {Account(h, n)}) = Cardinality(FailedOf(h)) + 1
        BY <1>8, <2>2, FS_AddElement
      <3> QED  BY <1>7, <2>2, <3>1 DEF Fails, BooksAgree
    <2> QED  BY <2>1, <2>2
  <1>10. ASSUME NEW i \in ToolsOf(h)
         PROVE  Booked(g, t, i)
    <2>1. Booked(h, s, i) /\ Booked(h, s, n) /\ i \in 1..Len(h)
      BY <1>3 DEF BooksAgree
    <2>2. CASE Account(h, n) \in FailedOf(h)
      <3>1. FailedOf(g) = FailedOf(h) /\ t = s
        BY <1>7, <2>2 DEF Fails
      <3>2. g[i].call = h[i].call /\ (Account(g, i) \in FailedOf(g) <=> Account(h, i) \in FailedOf(h))
        BY <1>2, <1>4, <2>1, <3>1
      <3>3. h[i].call = NoCall => g[i].counts = h[i].counts /\ g[i].failed = h[i].failed
        BY <1>1, <1>2, <2>1, <2>2 DEF Fails
      <3>4. h[i].call # NoCall => Find(t, h[i].call) # {} /\ Get(t, h[i].call) = Get(s, h[i].call)
        BY <2>1, <3>1 DEF Booked
      <3> QED  BY <2>1, <3>2, <3>3, <3>4, BookedStays
    <2>3. CASE Account(h, n) \notin FailedOf(h)
      <3>1. CASE Account(h, i) = Account(h, n)
        <4>1. h[i].call = h[n].call /\ (h[i].call = NoCall => i = n)
          BY <3>1, AccountIs
        <4>2. Account(g, i) \in FailedOf(g)
          BY <1>4, <1>7, <2>1, <3>1
        <4>3. CASE h[i].call = NoCall
          <5>1. i = n /\ BookOf(g, t, i) = x
            BY <1>1, <1>2, <4>1, <4>3 DEF BookOf
          <5>2. x.failed = TRUE
            BY <2>3, <4>1, <4>3 DEF Fails
          <5>3. x.counts = TRUE
            BY <2>1, <4>3, <5>1 DEF Booked, BookOf, Fails
          <5>4. g[i].call = NoCall
            BY <1>2, <2>1, <4>3
          <5> QED  BY <4>2, <5>1, <5>2, <5>3, <5>4 DEF Booked
        <4>4. CASE h[i].call # NoCall
          <5>1. PICK k : Noted(k, h[n].call) /\ k.failed = TRUE /\ IsPut(s, t, k)
            BY <2>3, <4>1, <4>4 DEF Fails
          <5>2. Find(t, h[n].call) # {} /\ Get(t, h[n].call) = k
            BY <5>1 DEF IsPut, Noted
          <5>3. g[i].call = h[n].call
            BY <1>2, <2>1, <4>1
          <5>4. BookOf(g, t, i) = k
            BY <4>1, <4>4, <5>2, <5>3 DEF BookOf
          <5> QED  BY <4>2, <5>1, <5>2, <5>3, <5>4 DEF Booked, Noted
        <4> QED  BY <4>3, <4>4
      <3>2. CASE Account(h, i) # Account(h, n)
        <4>1. i # n /\ (h[i].call # NoCall => h[i].call # h[n].call)
          BY <3>2, AccountIs
        <4>2. g[i] = h[i] /\ (Account(g, i) \in FailedOf(g) <=> Account(h, i) \in FailedOf(h))
          BY <1>1, <1>4, <1>7, <2>1, <3>2, <4>1
        <4>3. h[i].call # NoCall => Find(t, h[i].call) # {} /\ Get(t, h[i].call) = Get(s, h[i].call)
          <5> SUFFICES ASSUME h[i].call # NoCall
                       PROVE  Find(t, h[i].call) # {} /\ Get(t, h[i].call) = Get(s, h[i].call)
            OBVIOUS
          <5>1. Find(s, h[i].call) # {} /\ h[i].call # h[n].call
            BY <2>1, <4>1 DEF Booked
          <5>2. CASE h[n].call = NoCall
            BY <2>3, <5>1, <5>2 DEF Fails
          <5>3. CASE h[n].call # NoCall
            <6>1. PICK k : Noted(k, h[n].call) /\ IsPut(s, t, k)
              BY <2>3, <5>3 DEF Fails
            <6> QED  BY <5>1, <6>1 DEF IsPut, Noted
          <5> QED  BY <5>2, <5>3
        <4>4. g[i].call = h[i].call /\ g[i].counts = h[i].counts /\ g[i].failed = h[i].failed
          BY <4>2
        <4> QED  BY <2>1, <4>2, <4>3, <4>4, BookedStays
      <3> QED  BY <3>1, <3>2
    <2> QED  BY <2>2, <2>3
  <1> QED  BY <1>3, <1>5, <1>6, <1>9, <1>10 DEF BooksAgree

\* A record x more.
Longer(h, g, x) ==
    /\ IsSeq(h) /\ IsSeq(g) /\ Len(g) = Len(h) + 1 /\ g[Len(g)] = x
    /\ \A i \in 1..Len(h) : g[i] = h[i]

LEMMA LongerIs ==
    ASSUME NEW h, NEW g, NEW x, Longer(h, g, x)
    PROVE  /\ Len(h) \in Nat /\ 1..Len(h) \subseteq 1..Len(g) /\ Len(g) \in 1..Len(g)
           /\ Len(g) \notin 1..Len(h)
           /\ \A i \in 1..Len(g) : i # Len(g) => i \in 1..Len(h)
  <1>1. Len(h) \in Nat /\ Len(g) = Len(h) + 1
    BY SeqDomain DEF Longer
  <1> QED  BY <1>1

LEMMA AccountsGrow ==
    ASSUME NEW h, NEW g, NEW x, Longer(h, g, x)
    PROVE  /\ x.kind # "tool" => /\ ToolsOf(g) = ToolsOf(h) /\ NamedOf(g) = NamedOf(h)
                                 /\ AccountsOf(g) = AccountsOf(h)
           /\ x.kind = "tool" => /\ ToolsOf(g) = ToolsOf(h) \cup {Len(g)}
                                 /\ AccountsOf(g) = AccountsOf(h) \cup {Account(g, Len(g))}
           /\ NamedOf(h) \subseteq NamedOf(g)
           /\ x.kind = "tool" /\ x.call # NoCall => NamedOf(g) = NamedOf(h) \cup {x.call}
           /\ x.kind = "tool" /\ x.call = NoCall => NamedOf(g) = NamedOf(h)
           /\ x.status # "error" => FailedOf(g) = FailedOf(h)
           /\ \A i \in ToolsOf(h) : i \in 1..Len(h) /\ Account(g, i) = Account(h, i)
           /\ x.call = NoCall => Account(g, Len(g)) \notin AccountsOf(h)
           /\ x.call # NoCall => (Account(g, Len(g)) \in AccountsOf(h) <=> x.call \in NamedOf(h))
  <1> DEFINE n == Len(g)
  <1>1. /\ 1..Len(h) \subseteq 1..n /\ n \in 1..n /\ n \notin 1..Len(h)
        /\ \A i \in 1..n : i # n => i \in 1..Len(h)
    BY LongerIs
  <1>2. g[n] = x /\ \A i \in 1..Len(h) : g[i] = h[i]
    BY DEF Longer
  <1>3. \A i \in ToolsOf(h) : i \in 1..Len(h) /\ g[i] = h[i] /\ Account(g, i) = Account(h, i)
    BY <1>2 DEF ToolsOf, Account
  <1> HIDE DEF n
  <1>4. x.kind # "tool" => ToolsOf(g) = ToolsOf(h)
    BY <1>1, <1>2 DEF ToolsOf, n
  <1>5. x.kind = "tool" => ToolsOf(g) = ToolsOf(h) \cup {n}
    BY <1>1, <1>2 DEF ToolsOf, n
  <1>6. ToolsOf(g) = ToolsOf(h) \/ (x.kind = "tool" /\ ToolsOf(g) = ToolsOf(h) \cup {n})
    BY <1>4, <1>5
  <1>7. x.kind # "tool" => NamedOf(g) = NamedOf(h) /\ AccountsOf(g) = AccountsOf(h)
    BY <1>3, <1>4 DEF NamedOf, AccountsOf
  <1>8. x.kind = "tool" => AccountsOf(g) = AccountsOf(h) \cup {Account(g, n)}
    BY <1>3, <1>5 DEF AccountsOf
  <1>9. x.kind = "tool" /\ x.call # NoCall => NamedOf(g) = NamedOf(h) \cup {x.call}
    <2> SUFFICES ASSUME x.kind = "tool", x.call # NoCall
                 PROVE  NamedOf(g) = NamedOf(h) \cup {x.call}
      OBVIOUS
    <2>1. {j \in ToolsOf(g) : g[j].call # NoCall} = {j \in ToolsOf(h) : h[j].call # NoCall} \cup {n}
      BY <1>2, <1>3, <1>5
    <2> QED  BY <1>2, <1>3, <2>1 DEF NamedOf
  <1>10. x.kind = "tool" /\ x.call = NoCall => NamedOf(g) = NamedOf(h)
    <2> SUFFICES ASSUME x.kind = "tool", x.call = NoCall
                 PROVE  NamedOf(g) = NamedOf(h)
      OBVIOUS
    <2>1. {j \in ToolsOf(g) : g[j].call # NoCall} = {j \in ToolsOf(h) : h[j].call # NoCall}
      BY <1>2, <1>3, <1>5
    <2> QED  BY <1>3, <2>1 DEF NamedOf
  <1>11. x.status # "error" => FailedOf(g) = FailedOf(h)
    <2> SUFFICES ASSUME x.status # "error"
                 PROVE  FailedOf(g) = FailedOf(h)
      OBVIOUS
    <2>1. {j \in ToolsOf(g) : g[j].status = "error"} = {j \in ToolsOf(h) : h[j].status = "error"}
      BY <1>2, <1>3, <1>6
    <2> QED  BY <1>3, <2>1 DEF FailedOf
  <1>12. x.call = NoCall => Account(g, n) \notin AccountsOf(h)
    <2>1. \A i \in ToolsOf(h) : Account(h, i) = Account(g, n) =>
                                  h[i].call = g[n].call /\ (h[i].call = NoCall => i = n)
      BY AccountIs
    <2> QED  BY <1>1, <1>2, <1>3, <2>1 DEF AccountsOf
  <1>13. x.call # NoCall => (Account(g, n) \in AccountsOf(h) <=> x.call \in NamedOf(h))
    <2>1. \A i \in ToolsOf(h) : Account(h, i) = Account(g, n) <=>
                                  h[i].call = g[n].call /\ (h[i].call = NoCall => i = n)
      BY AccountIs
    <2> QED  BY <1>2, <2>1 DEF AccountsOf, NamedOf
  <1> QED  BY <1>3, <1>4, <1>5, <1>7, <1>8, <1>9, <1>10, <1>11, <1>12, <1>13 DEF n

\* Record x is added: a call that is new counts, and that is noted in t.
Adds(h, x, s, t, tools, ts) ==
    /\ x.status # "error"
    /\ x.kind # "tool" => t = s /\ ts = tools
    /\ x.kind = "tool" /\ x.call = NoCall =>
         t = s /\ ts = tools + 1 /\ x.counts = TRUE /\ x.failed = FALSE
    /\ x.kind = "tool" /\ x.call # NoCall =>
         \E k : /\ Noted(k, x.call) /\ IsPut(s, t, k)
                /\ x.call \in NamedOf(h) => ts = tools /\ k.failed = Get(s, x.call).failed
                /\ x.call \notin NamedOf(h) => ts = tools + 1 /\ k.failed = FALSE

LEMMA BooksAdd ==
    ASSUME NEW h, NEW s, NEW tools, NEW failures, BooksAgree(h, s, tools, failures),
           NEW x, NEW g, Longer(h, g, x), NEW t, NEW ts, Adds(h, x, s, t, tools, ts)
    PROVE  BooksAgree(g, t, ts, failures)
  <1> DEFINE n == Len(g)
  <1>1. /\ x.kind # "tool" => ToolsOf(g) = ToolsOf(h) /\ AccountsOf(g) = AccountsOf(h)
        /\ x.kind = "tool" => /\ ToolsOf(g) = ToolsOf(h) \cup {n}
                              /\ AccountsOf(g) = AccountsOf(h) \cup {Account(g, n)}
        /\ FailedOf(g) = FailedOf(h)
        /\ \A i \in ToolsOf(h) : i \in 1..Len(h) /\ Account(g, i) = Account(h, i)
        /\ x.call = NoCall => Account(g, n) \notin AccountsOf(h)
        /\ x.call # NoCall => (Account(g, n) \in AccountsOf(h) <=> x.call \in NamedOf(h))
    BY AccountsGrow DEF Adds
  <1>2. g[n] = x /\ \A i \in 1..Len(h) : g[i] = h[i]
    BY DEF Longer
  <1> HIDE DEF n
  <1>3. /\ IsFiniteSet(AccountsOf(h)) /\ Cardinality(AccountsOf(h)) \in Nat
        /\ FailedOf(h) \subseteq AccountsOf(h)
    BY BooksFinite, FS_CardinalityType DEF Longer
  <1>4. ts = Cardinality(AccountsOf(g))
    <2>1. CASE x.kind # "tool"
      BY <1>1, <2>1 DEF Adds, BooksAgree
    <2>2. CASE x.kind = "tool" /\ Account(g, n) \in AccountsOf(h)
      <3>1. AccountsOf(g) = AccountsOf(h) /\ x.call # NoCall /\ x.call \in NamedOf(h)
        BY <1>1, <2>2
      <3> QED  BY <2>2, <3>1 DEF Adds, BooksAgree
    <2>3. CASE x.kind = "tool" /\ Account(g, n) \notin AccountsOf(h)
      <3>1. Cardinality(AccountsOf(h) \cup {Account(g, n)}) = Cardinality(AccountsOf(h)) + 1
        BY <1>3, <2>3, FS_AddElement
      <3>2. ts = tools + 1
        BY <1>1, <2>3 DEF Adds
      <3> QED  BY <1>1, <2>3, <3>1, <3>2 DEF BooksAgree
    <2> QED  BY <2>1, <2>2, <2>3
  <1>5. ASSUME NEW i \in ToolsOf(h)
        PROVE  Booked(g, t, i)
    <2>1. Booked(h, s, i)
      BY DEF BooksAgree
    <2>2. g[i] = h[i] /\ (Account(g, i) \in FailedOf(g) <=> Account(h, i) \in FailedOf(h))
      BY <1>1, <1>2
    <2>3. CASE h[i].call = NoCall \/ x.kind # "tool" \/ x.call = NoCall
      <3>1. t = s \/ h[i].call = NoCall
        BY <2>3 DEF Adds
      <3>2. h[i].call # NoCall => Find(t, h[i].call) # {} /\ Get(t, h[i].call) = Get(s, h[i].call)
        BY <2>1, <3>1 DEF Booked
      <3>3. g[i].call = h[i].call /\ g[i].counts = h[i].counts /\ g[i].failed = h[i].failed
        BY <2>2
      <3> QED  BY <2>1, <2>2, <3>2, <3>3, BookedStays
    <2>4. CASE h[i].call # NoCall /\ x.kind = "tool" /\ x.call # NoCall
      <3>1. PICK k : /\ Noted(k, x.call) /\ IsPut(s, t, k)
                     /\ x.call \in NamedOf(h) => k.failed = Get(s, x.call).failed
        BY <2>4 DEF Adds
      <3>2. CASE h[i].call = x.call
        <4>1. x.call \in NamedOf(h)
          BY <2>4, <3>2, AccountsAre
        <4>2. Find(t, x.call) # {} /\ Get(t, x.call) = k
          BY <3>1 DEF IsPut, Noted
        <4>3. BookOf(g, t, i) = k /\ BookOf(h, s, i) = Get(s, x.call)
          BY <2>2, <2>4, <3>2, <4>2 DEF BookOf
        <4>4. g[i].call = x.call
          BY <2>2, <3>2
        <4> QED  BY <2>1, <2>2, <3>1, <4>1, <4>2, <4>3, <4>4 DEF Booked, Noted
      <3>3. CASE h[i].call # x.call
        <4>1. Find(s, h[i].call) # {}
          BY <2>1, <2>4 DEF Booked
        <4>2. Find(t, h[i].call) # {} /\ Get(t, h[i].call) = Get(s, h[i].call)
          BY <3>1, <3>3, <4>1 DEF IsPut, Noted
        <4>3. g[i].call = h[i].call /\ g[i].counts = h[i].counts /\ g[i].failed = h[i].failed
          BY <2>2
        <4> QED  BY <2>1, <2>2, <4>2, <4>3, BookedStays
      <3> QED  BY <3>2, <3>3
    <2> QED  BY <2>3, <2>4
  <1>6. x.kind = "tool" => Booked(g, t, n)
    <2> SUFFICES ASSUME x.kind = "tool"
                 PROVE  Booked(g, t, n)
      OBVIOUS
    <2>1. CASE x.call = NoCall
      <3>1. Account(g, n) \notin FailedOf(g)
        BY <1>1, <1>3, <2>1
      <3>2. BookOf(g, t, n) = x
        BY <1>2, <2>1 DEF BookOf
      <3> QED  BY <1>2, <2>1, <3>1, <3>2 DEF Adds, Booked
    <2>2. CASE x.call # NoCall
      <3>1. PICK k : /\ Noted(k, x.call) /\ IsPut(s, t, k)
                     /\ x.call \in NamedOf(h) => k.failed = Get(s, x.call).failed
                     /\ x.call \notin NamedOf(h) => k.failed = FALSE
        BY <2>2 DEF Adds
      <3>2. Find(t, x.call) # {} /\ BookOf(g, t, n) = k
        BY <1>2, <2>2, <3>1 DEF IsPut, Noted, BookOf
      <3>3. CASE x.call \in NamedOf(h)
        <4>1. PICK i \in ToolsOf(h) : h[i].call = x.call
          BY <3>3 DEF NamedOf
        <4>2. Booked(h, s, i) /\ Account(h, i) = Account(g, n)
          BY <1>2, <2>2, <4>1, AccountIs DEF BooksAgree
        <4>3. BookOf(h, s, i) = Get(s, x.call)
          BY <2>2, <4>1 DEF BookOf
        <4> QED  BY <1>1, <1>2, <3>1, <3>2, <3>3, <4>2, <4>3 DEF Booked, Noted
      <3>4. CASE x.call \notin NamedOf(h)
        <4>1. Account(g, n) \notin FailedOf(g)
          BY <1>1, <1>3, <2>2, <3>4
        <4> QED  BY <1>2, <3>1, <3>2, <3>4, <4>1 DEF Booked, Noted
      <3> QED  BY <3>3, <3>4
    <2> QED  BY <2>1, <2>2
  <1>7. failures = Cardinality(FailedOf(g))
    BY <1>1 DEF BooksAgree
  <1>8. \A i \in ToolsOf(g) : Booked(g, t, i)
    BY <1>1, <1>5, <1>6
  <1> QED  BY <1>4, <1>7, <1>8 DEF BooksAgree

-----------------------------------------------------------------------------
(* Pages.                                                                  *)

\* The records S of one turn, and what adding and dropping one of them does.
OfTurn(S, h, t) == {i \in S : h[i].turn = t}
Less(o, out)    == IF o[out] > 1 THEN [o EXCEPT ![out] = @ - 1]
                   ELSE [t \in DOMAIN o \ {out} |-> o[t]]
More(o, turn)   == [t \in DOMAIN o \cup {turn} |->
                      (IF t \in DOMAIN o THEN o[t] ELSE 0) + (IF t = turn THEN 1 ELSE 0)]

\* S is T but for p.
Without(S, T, p) == p \in T /\ \A i : i \in S <=> i \in T /\ i # p

LEMMA OwnersIs ==
    ASSUME NEW S, NEW h, NEW o, o = OwnersOf(S, h)
    PROVE  /\ \A t : t \in DOMAIN o <=> OfTurn(S, h, t) # {}
           /\ \A t \in DOMAIN o : o[t] = Cardinality(OfTurn(S, h, t))
           /\ o = [t \in DOMAIN o |-> o[t]]
  <1>1. DOMAIN o = {h[i].turn : i \in S} /\ o = [t \in DOMAIN o |-> o[t]]
    BY DEF OwnersOf
  <1>2. \A t \in DOMAIN o : o[t] = Cardinality(OfTurn(S, h, t))
    BY DEF OwnersOf, OfTurn
  <1>3. \A t : t \in DOMAIN o <=> OfTurn(S, h, t) # {}
    BY <1>1 DEF OfTurn
  <1> QED  BY <1>1, <1>2, <1>3

\* Two counts of owners that agree are the same.
LEMMA OwnersAgree ==
    ASSUME NEW o, NEW p, o = [t \in DOMAIN o |-> o[t]], p = [t \in DOMAIN p |-> p[t]],
           \A t : t \in DOMAIN o <=> t \in DOMAIN p, \A t \in DOMAIN p : o[t] = p[t]
    PROVE  o = p
  <1>1. DOMAIN o = DOMAIN p
    OBVIOUS
  <1> QED  BY <1>1

LEMMA OwnersLess ==
    ASSUME NEW S, IsFiniteSet(S), NEW h, NEW p, NEW out, out = h[p].turn,
           NEW o, o = OwnersOf(S, h), NEW T, Without(T, S, p)
    PROVE  Less(o, out) = OwnersOf(T, h)
  <1>1. PICK q : q = OwnersOf(T, h)
    OBVIOUS
  <1>2. PICK l : l = Less(o, out)
    OBVIOUS
  <1> DEFINE C(t) == OfTurn(S, h, t)
             D(t) == OfTurn(T, h, t)
  <1>3. /\ \A t : t \in DOMAIN o <=> C(t) # {}
        /\ \A t \in DOMAIN o : o[t] = Cardinality(C(t))
        /\ o = [t \in DOMAIN o |-> o[t]]
    BY OwnersIs
  <1>4. /\ \A t : t \in DOMAIN q <=> D(t) # {}
        /\ \A t \in DOMAIN q : q[t] = Cardinality(D(t))
        /\ q = [t \in DOMAIN q |-> q[t]]
    BY <1>1, OwnersIs
  <1>5. /\ \A t : t # out => D(t) = C(t)
        /\ D(out) = C(out) \ {p} /\ p \in C(out) /\ C(out) \subseteq S
    BY DEF OfTurn, Without
  <1> HIDE DEF C, D
  <1>6. IsFiniteSet(C(out))
    BY <1>5, FS_Subset
  <1>7. PICK E, n, m : E = C(out) /\ n = Cardinality(E) /\ m = Cardinality(E \ {p})
    OBVIOUS
  <1>8. m = n - 1 /\ n \in Nat /\ m \in Nat /\ IsFiniteSet(E \ {p})
    <2>1. IsFiniteSet(E) /\ p \in E
      BY <1>5, <1>6, <1>7
    <2>2. IsFiniteSet(E \ {p}) /\ Cardinality(E \ {p}) = Cardinality(E) - 1
      BY <2>1, FS_RemoveElement
    <2> QED  BY <1>7, <2>1, <2>2, FS_CardinalityType
  <1>9. D(out) = {} <=> m = 0
    BY <1>5, <1>7, <1>8, FS_EmptySet
  <1>10. out \in DOMAIN o /\ o[out] = n
    BY <1>3, <1>5, <1>7
  <1>11. CASE n > 1
    <2>1. l = [o EXCEPT ![out] = o[out] - 1]
      BY <1>2, <1>10, <1>11 DEF Less
    <2>2. DOMAIN l = DOMAIN o /\ l[out] = m /\ \A t \in DOMAIN o : t # out => l[t] = o[t]
      BY <1>8, <1>10, <2>1
    <2>3. l = [t \in DOMAIN l |-> l[t]]
      BY <2>1
    <2>4. out \in DOMAIN q /\ q[out] = m
      <3>1. D(out) = E \ {p}
        BY <1>5, <1>7
      <3>2. D(out) # {} /\ Cardinality(D(out)) = m
        BY <1>7, <1>8, <1>9, <1>11, <3>1
      <3> QED  BY <1>4, <3>2
    <2>5. \A t : t # out => (t \in DOMAIN q <=> t \in DOMAIN o)
      BY <1>3, <1>4, <1>5
    <2>6. \A t : t \in DOMAIN l <=> t \in DOMAIN q
      BY <1>10, <2>2, <2>4, <2>5
    <2>7. \A t \in DOMAIN q : l[t] = q[t]
      <3> SUFFICES ASSUME NEW t \in DOMAIN q, t # out PROVE l[t] = q[t]
        BY <2>2, <2>4
      <3>1. t \in DOMAIN o /\ l[t] = o[t]
        BY <2>2, <2>5
      <3> QED  BY <1>3, <1>4, <1>5, <3>1
    <2> QED  BY <1>1, <1>2, <1>4, <2>3, <2>6, <2>7, OwnersAgree
  <1>12. CASE ~(n > 1)
    <2>1. l = [t \in DOMAIN o \ {out} |-> o[t]]
      BY <1>2, <1>10, <1>12 DEF Less
    <2>2. DOMAIN l = DOMAIN o \ {out} /\ l = [t \in DOMAIN l |-> l[t]]
          /\ \A t \in DOMAIN l : l[t] = o[t]
      BY <2>1
    <2>3. m = 0
      BY <1>8, <1>12
    <2>4. \A t : t \in DOMAIN l <=> t \in DOMAIN q
      <3> SUFFICES ASSUME NEW t PROVE t \in DOMAIN l <=> t \in DOMAIN q
        OBVIOUS
      <3>1. CASE t = out
        BY <1>4, <1>9, <2>2, <2>3, <3>1
      <3>2. CASE t # out
        BY <1>3, <1>4, <1>5, <2>2, <3>2
      <3> QED  BY <3>1, <3>2
    <2>5. \A t \in DOMAIN q : l[t] = q[t]
      <3> SUFFICES ASSUME NEW t \in DOMAIN q PROVE l[t] = q[t]
        OBVIOUS
      <3>1. t # out /\ t \in DOMAIN o /\ l[t] = o[t]
        BY <2>2, <2>4
      <3> QED  BY <1>3, <1>4, <1>5, <3>1
    <2> QED  BY <1>1, <1>2, <1>4, <2>2, <2>4, <2>5, OwnersAgree
  <1> QED  BY <1>11, <1>12

LEMMA OwnersMore ==
    ASSUME NEW S, IsFiniteSet(S), NEW h, NEW p, NEW turn, turn = h[p].turn,
           NEW o, o = OwnersOf(S, h), NEW T, Without(S, T, p)
    PROVE  More(o, turn) = OwnersOf(T, h)
  <1>1. PICK q : q = OwnersOf(T, h)
    OBVIOUS
  <1>2. PICK l : l = More(o, turn)
    OBVIOUS
  <1> DEFINE C(t) == OfTurn(S, h, t)
             D(t) == OfTurn(T, h, t)
  <1>3. /\ \A t : t \in DOMAIN o <=> C(t) # {}
        /\ \A t \in DOMAIN o : o[t] = Cardinality(C(t))
        /\ o = [t \in DOMAIN o |-> o[t]]
    BY OwnersIs
  <1>4. /\ \A t : t \in DOMAIN q <=> D(t) # {}
        /\ \A t \in DOMAIN q : q[t] = Cardinality(D(t))
        /\ q = [t \in DOMAIN q |-> q[t]]
    BY <1>1, OwnersIs
  <1>5. /\ \A t : t # turn => D(t) = C(t)
        /\ D(turn) = C(turn) \cup {p} /\ p \notin C(turn) /\ \A t : C(t) \subseteq S
    BY DEF OfTurn, Without
  <1> HIDE DEF C, D
  <1>6. \A t : IsFiniteSet(C(t))
    BY <1>5, FS_Subset
  <1>7. PICK E, n : E = C(turn) /\ n = Cardinality(E)
    OBVIOUS
  <1>8. IsFiniteSet(E) /\ n \in Nat /\ Cardinality(E \cup {p}) = n + 1
    BY <1>5, <1>6, <1>7, FS_AddElement, FS_CardinalityType
  <1>9. DOMAIN l = DOMAIN o \cup {turn} /\ l = [t \in DOMAIN l |-> l[t]]
        /\ \A t \in DOMAIN l : l[t] = (IF t \in DOMAIN o THEN o[t] ELSE 0)
                                         + (IF t = turn THEN 1 ELSE 0)
    BY <1>2 DEF More
  <1>10. \A t \in DOMAIN o : o[t] \in Nat
    BY <1>3, <1>6, FS_CardinalityType
  <1>11. turn \in DOMAIN q /\ q[turn] = n + 1
    BY <1>4, <1>5, <1>7, <1>8
  <1>12. l[turn] = n + 1
    <2>1. CASE turn \in DOMAIN o
      BY <1>3, <1>7, <1>8, <1>9, <2>1
    <2>2. CASE turn \notin DOMAIN o
      <3>1. E = {} /\ n = 0
        BY <1>3, <1>7, <1>8, <2>2, FS_EmptySet
      <3> QED  BY <1>9, <2>2, <3>1
    <2> QED  BY <2>1, <2>2
  <1>13. \A t : t # turn => (t \in DOMAIN q <=> t \in DOMAIN o)
    BY <1>3, <1>4, <1>5
  <1>14. \A t : t \in DOMAIN l <=> t \in DOMAIN q
    BY <1>9, <1>11, <1>13
  <1>15. \A t \in DOMAIN q : l[t] = q[t]
    <2> SUFFICES ASSUME NEW t \in DOMAIN q, t # turn PROVE l[t] = q[t]
      BY <1>11, <1>12
    <2>1. t \in DOMAIN o /\ t \in DOMAIN l
      BY <1>13, <1>14
    <2>2. l[t] = o[t]
      BY <1>9, <1>10, <2>1
    <2> QED  BY <1>3, <1>4, <1>5, <2>1, <2>2
  <1> QED  BY <1>1, <1>2, <1>4, <1>9, <1>14, <1>15, OwnersAgree

LEMMA OwnersSame ==
    ASSUME NEW S, NEW h, NEW g, \A i \in S : g[i].turn = h[i].turn
    PROVE  OwnersOf(S, g) = OwnersOf(S, h)
  <1>1. PICK q, o : q = OwnersOf(S, g) /\ o = OwnersOf(S, h)
    OBVIOUS
  <1>2. \A t : OfTurn(S, g, t) = OfTurn(S, h, t)
    BY DEF OfTurn
  <1>3. /\ \A t : t \in DOMAIN o <=> OfTurn(S, h, t) # {}
        /\ \A t \in DOMAIN o : o[t] = Cardinality(OfTurn(S, h, t))
        /\ o = [t \in DOMAIN o |-> o[t]]
    BY <1>1, OwnersIs
  <1>4. /\ \A t : t \in DOMAIN q <=> OfTurn(S, g, t) # {}
        /\ \A t \in DOMAIN q : q[t] = Cardinality(OfTurn(S, g, t))
        /\ q = [t \in DOMAIN q |-> q[t]]
    BY <1>1, OwnersIs
  <1>5. (\A t : t \in DOMAIN q <=> t \in DOMAIN o) /\ \A t \in DOMAIN o : q[t] = o[t]
    BY <1>2, <1>3, <1>4
  <1> QED  BY <1>1, <1>3, <1>4, <1>5, OwnersAgree

\* What is kept of a record on the page.
LEMMA RetainIs ==
    ASSUME NEW d, Shape(d), NEW i, NEW e, e = Retain(d, i)
    PROVE  /\ Shape(e) /\ Same(d, e, {"kept", "visible", "owners"})
           /\ e.visible \subseteq d.visible \cup {d.heap[i].id}
  <1>1. CASE d.before # 0 /\ i >= d.before
    <2>1. e = d
      BY <1>1 DEF Retain
    <2> QED  BY <2>1 DEF Same
  <1>2. CASE ~(d.before # 0 /\ i >= d.before)
    <2>1. PICK k, v, o :
            /\ e = [d EXCEPT !.kept = k, !.visible = v, !.owners = o]
            /\ v = (IF Len(d.kept) = d.limit
                    THEN d.visible \ {d.heap[Head(d.kept)].id} ELSE d.visible)
                     \cup {d.heap[i].id}
      BY <1>2, Zenon DEF Retain
    <2>2. Shape(e) /\ Same(d, e, {"kept", "visible", "owners"}) /\ e.visible = v
      BY <2>1 DEF Shape, Fields, Same
    <2> QED  BY <2>1, <2>2
  <1> QED  BY <1>1, <1>2

LEMMA PageIsFinite ==
    ASSUME NEW d, NEW n \in Nat
    PROVE  IsFiniteSet(PageOf(d, n))
  <1>1. IsFiniteSet(1..n)
    BY FS_Interval
  <1>2. PageOf(d, n) \subseteq 1..n
    BY DEF PageOf
  <1> QED  BY <1>1, <1>2, FS_Subset

\* A record past the page leaves it as it is.
LEMMA PagePassed ==
    ASSUME NEW d, d.limit \in Nat \ {0}, d.before \in Nat, NEW n \in Nat,
           d.before # 0, n + 1 >= d.before
    PROVE  /\ PageEnd(d, n + 1) = PageEnd(d, n)
           /\ \A i : OnPage(d, n + 1, i) <=> OnPage(d, n, i)
  <1>1. PageEnd(d, n + 1) = d.before - 1 /\ PageEnd(d, n) = d.before - 1
    BY DEF PageEnd
  <1> QED  BY <1>1 DEF OnPage

\* One before its end is its newest.
LEMMA PageMoves ==
    ASSUME NEW d, d.limit \in Nat \ {0}, d.before \in Nat, NEW n \in Nat,
           ~(d.before # 0 /\ n + 1 >= d.before)
    PROVE  /\ PageEnd(d, n + 1) = n + 1 /\ PageEnd(d, n) = n
           /\ \A i : OnPage(d, n + 1, i) <=>
                       i = n + 1 \/ (OnPage(d, n, i) /\ i # n + 1 - d.limit)
           /\ OnPage(d, n, n + 1 - d.limit) <=> d.limit <= n
  <1>1. PageEnd(d, n + 1) = n + 1 /\ PageEnd(d, n) = n
    BY DEF PageEnd
  <1> QED  BY <1>1 DEF OnPage

\* What a full page drops for one more record.
Full(d)       == Len(d.kept) = d.limit
KeptLess(d)   == IF Full(d) THEN Tail(d.kept) ELSE d.kept
OwnersKept(d) == IF Full(d) THEN Less(d.owners, d.heap[Head(d.kept)].turn) ELSE d.owners
NamesKept(d)  == IF Full(d) THEN d.visible \ {d.heap[Head(d.kept)].id} ELSE d.visible

LEMMA RetainSets ==
    ASSUME NEW d, Shape(d), NEW i, ~(d.before # 0 /\ i >= d.before),
           NEW e, e = Retain(d, i)
    PROVE  /\ Shape(e) /\ Same(d, e, {"kept", "visible", "owners"})
           /\ e.kept = Append(KeptLess(d), i)
           /\ e.owners = More(OwnersKept(d), d.heap[i].turn)
           /\ e.visible = NamesKept(d) \cup {d.heap[i].id}
  <1> DEFINE out  == d.heap[Head(d.kept)].turn
             less == IF ~(Len(d.kept) = d.limit) THEN d.owners
                     ELSE IF d.owners[out] > 1 THEN [d.owners EXCEPT ![out] = @ - 1]
                     ELSE [t \in DOMAIN d.owners \ {out} |-> d.owners[t]]
             turn == d.heap[i].turn
  <1>1. PICK k, v, o :
          /\ k = Append(IF Len(d.kept) = d.limit THEN Tail(d.kept) ELSE d.kept, i)
          /\ v = (IF Len(d.kept) = d.limit THEN d.visible \ {d.heap[Head(d.kept)].id}
                  ELSE d.visible) \cup {d.heap[i].id}
          /\ o = [t \in DOMAIN less \cup {turn} |->
                    (IF t \in DOMAIN less THEN less[t] ELSE 0) + (IF t = turn THEN 1 ELSE 0)]
    OBVIOUS
  <1>2. e = [d EXCEPT !.kept = k, !.visible = v, !.owners = o]
    BY <1>1, Zenon DEF Retain
  <1>3. less = OwnersKept(d)
    BY Zenon DEF OwnersKept, Less, Full
  <1>4. o = More(less, turn)
    BY <1>1 DEF More
  <1>5. /\ Shape(e) /\ Same(d, e, {"kept", "visible", "owners"})
        /\ e.kept = k /\ e.visible = v /\ e.owners = o
    BY <1>2 DEF Shape, Fields, Same
  <1>6. k = Append(KeptLess(d), i)
    BY <1>1 DEF KeptLess, Full
  <1>7. v = NamesKept(d) \cup {d.heap[i].id}
    BY <1>1 DEF NamesKept, Full
  <1> HIDE DEF less, out, turn
  <1> QED  BY <1>3, <1>4, <1>5, <1>6, <1>7 DEF out, turn

\* s is the last l numbers up to n.
LatestOf(s, l, n) ==
    /\ IsSeq(s) /\ Len(s) = (IF n < l THEN n ELSE l)
    /\ \A k \in 1..Len(s) : s[k] = n - Len(s) + k

LEMMA LastFacts ==
    ASSUME NEW s, NEW l \in Nat \ {0}, NEW n \in Nat, LatestOf(s, l, n)
    PROVE  /\ Len(s) = l <=> l <= n
           /\ l <= n => Head(s) = n + 1 - l
  <1>1. Len(s) = l <=> l <= n
    BY DEF LatestOf
  <1>2. ASSUME l <= n PROVE Head(s) = n + 1 - l
    <2>1. Len(s) = l /\ 1 \in 1..Len(s)
      BY <1>1, <1>2
    <2>2. s[1] = n - l + 1
      BY <2>1 DEF LatestOf
    <2> QED  BY <2>2
  <1> QED  BY <1>1, <1>2

LEMMA LastTail ==
    ASSUME NEW s, NEW l \in Nat \ {0}, NEW n \in Nat, l <= n, LatestOf(s, l, n)
    PROVE  /\ IsSeq(Tail(s)) /\ Len(Tail(s)) = l - 1
           /\ \A k \in 1..(l - 1) : Tail(s)[k] = n - (l - 1) + k
  <1>1. IsSeq(s) /\ Len(s) = l
    BY LastFacts DEF LatestOf
  <1>2. Len(s) > 0
    BY <1>1
  <1>3. IsSeq(Tail(s)) /\ Len(Tail(s)) = l - 1 /\ \A k \in 1..(l - 1) : Tail(s)[k] = s[k + 1]
    BY <1>1, <1>2, TailAny
  <1>4. ASSUME NEW k \in 1..(l - 1) PROVE Tail(s)[k] = n - (l - 1) + k
    <2>1. k + 1 \in 1..l
      OBVIOUS
    <2>2. s[k + 1] = n - l + (k + 1)
      BY <1>1, <2>1 DEF LatestOf
    <2> QED  BY <1>3, <2>2
  <1> QED  BY <1>3, <1>4

LEMMA LastAppend ==
    ASSUME NEW w, IsSeq(w), NEW l \in Nat \ {0}, NEW n \in Nat, NEW m \in Nat,
           Len(w) = m, m = (IF n < l THEN n ELSE l - 1),
           \A k \in 1..m : w[k] = n - m + k, NEW q, q = n + 1
    PROVE  LatestOf(Append(w, q), l, q)
  <1>1. PICK t : t = Append(w, q)
    OBVIOUS
  <1>2. /\ IsSeq(t) /\ Len(t) = m + 1
        /\ \A k \in 1..m : t[k] = w[k]
        /\ t[m + 1] = q
    BY <1>1, AppendAny
  <1>3. ASSUME NEW k \in 1..(m + 1) PROVE t[k] = q - (m + 1) + k
    <2>1. CASE k = m + 1
      BY <1>2, <2>1
    <2>2. CASE k # m + 1
      <3>1. k \in 1..m
        BY <2>2
      <3>2. t[k] = n - m + k
        BY <1>2, <3>1
      <3> QED  BY <3>2
    <2> QED  BY <2>1, <2>2
  <1>4. m + 1 = (IF q < l THEN q ELSE l)
    OBVIOUS
  <1>5. Len(t) = (IF q < l THEN q ELSE l)
    BY <1>2, <1>4
  <1> HIDE <1>1
  <1>6. LatestOf(t, l, q)
    BY <1>2, <1>3, <1>5 DEF LatestOf
  <1> QED  BY <1>1, <1>6

\* A record that joins the page, in the place of the oldest if the page is full.
LEMMA RetainKept ==
    ASSUME NEW d, Shape(d), d.limit \in Nat \ {0}, d.before \in Nat,
           NEW n \in Nat, KeptIs(d, n), OwnersAre(d, n),
           NEW e, e = Retain(d, n + 1)
    PROVE  KeptIs(e, n + 1) /\ OwnersAre(e, n + 1)
  <1>1. CASE d.before # 0 /\ n + 1 >= d.before
    <2>1. e = d
      BY <1>1 DEF Retain
    <2>2. /\ PageEnd(d, n + 1) = PageEnd(d, n)
          /\ \A i : OnPage(d, n + 1, i) <=> OnPage(d, n, i)
      BY <1>1, PagePassed
    <2>3. PageOf(d, n + 1) = PageOf(d, n)
      BY <2>2 DEF PageOf, OnPage
    <2> QED  BY <2>1, <2>2, <2>3 DEF KeptIs, OwnersAre
  <1>2. CASE ~(d.before # 0 /\ n + 1 >= d.before)
    <2> DEFINE w == KeptLess(d)
               p == Head(d.kept)
    <2>1. /\ PageEnd(d, n + 1) = n + 1 /\ PageEnd(d, n) = n
          /\ \A i : OnPage(d, n + 1, i) <=>
                      i = n + 1 \/ (OnPage(d, n, i) /\ i # n + 1 - d.limit)
          /\ OnPage(d, n, n + 1 - d.limit) <=> d.limit <= n
      BY <1>2, PageMoves
    <2>2. /\ Shape(e) /\ Same(d, e, {"kept", "visible", "owners"})
          /\ e.kept = Append(w, n + 1)
          /\ e.owners = More(OwnersKept(d), d.heap[n + 1].turn)
      BY <1>2, RetainSets
    <2>3. e.before = d.before /\ e.limit = d.limit /\ e.heap = d.heap
      BY <2>2 DEF Same, Fields
    <2>4. PageEnd(e, n + 1) = n + 1 /\ \A i : OnPage(e, n + 1, i) <=> OnPage(d, n + 1, i)
      BY <2>1, <2>3 DEF PageEnd, OnPage
    <2>5. LatestOf(d.kept, d.limit, n)
      BY <2>1 DEF KeptIs, LatestOf
    <2>6. Full(d) <=> d.limit <= n
      BY <2>5, LastFacts DEF Full
    <2>7. Full(d) => p = n + 1 - d.limit
      BY <2>5, <2>6, LastFacts
    <2>8. PICK l, q : l = d.limit /\ q = n + 1
      OBVIOUS
    <2>9. LatestOf(e.kept, l, q)
      <3>1. CASE Full(d)
        <4>1. l <= n /\ LatestOf(d.kept, l, n) /\ l \in Nat \ {0}
          BY <2>5, <2>6, <2>8, <3>1
        <4>2. PICK m : m = l - 1
          OBVIOUS
        <4>3. PICK s : s = Tail(d.kept)
          OBVIOUS
        <4>4. /\ IsSeq(s) /\ Len(s) = m /\ m \in Nat
              /\ \A k \in 1..m : s[k] = n - m + k
          <5>1. /\ IsSeq(Tail(d.kept)) /\ Len(Tail(d.kept)) = l - 1
                /\ \A k \in 1..(l - 1) : Tail(d.kept)[k] = n - (l - 1) + k
            BY <4>1, LastTail
          <5>2. m \in Nat
            BY <4>1, <4>2
          <5> QED  BY <4>2, <4>3, <5>1, <5>2
        <4>5. m = (IF n < l THEN n ELSE l - 1)
          BY <4>1, <4>2
        <4>6. LatestOf(Append(s, q), l, q)
          BY <2>8, <4>1, <4>4, <4>5, LastAppend
        <4>7. e.kept = Append(s, q)
          BY <2>2, <2>8, <3>1, <4>3 DEF KeptLess
        <4> QED  BY <4>6, <4>7
      <3>2. CASE ~Full(d)
        <4>1. n < l /\ LatestOf(d.kept, l, n) /\ l \in Nat \ {0}
          BY <2>5, <2>6, <2>8, <3>2
        <4>2. PICK s : s = d.kept
          OBVIOUS
        <4>3. /\ IsSeq(s) /\ Len(s) = n
              /\ \A k \in 1..n : s[k] = n - n + k
          BY <4>1, <4>2 DEF LatestOf
        <4>4. n = (IF n < l THEN n ELSE l - 1)
          BY <4>1
        <4>5. LatestOf(Append(s, q), l, q)
          BY <2>8, <4>1, <4>3, <4>4, LastAppend
        <4>6. e.kept = Append(s, q)
          BY <2>2, <2>8, <3>2, <4>2 DEF KeptLess
        <4> QED  BY <4>5, <4>6
      <3> QED  BY <3>1, <3>2
    <2>10. KeptIs(e, n + 1)
      <3> HIDE DEF w, p
      <3> QED  BY <2>3, <2>4, <2>8, <2>9 DEF KeptIs, LatestOf
    <2> HIDE DEF w
    <2>11. OwnersAre(e, n + 1)
      <3> DEFINE P == PageOf(d, n)
                 at == n + 1
      <3>1. PICK R : R = PageOf(e, at)
        OBVIOUS
      <3>2. PICK Q : Q = {i \in P : i # n + 1 - d.limit}
        OBVIOUS
      <3>3. IsFiniteSet(P) /\ IsFiniteSet(Q)
        <4>1. IsFiniteSet(P) /\ Q \subseteq P
          BY <3>2, PageIsFinite
        <4> QED  BY <4>1, FS_Subset
      <3>4. \A i : i \in P <=> OnPage(d, n, i)
        BY DEF PageOf, OnPage
      <3>5. \A i : i \in R <=> i = at \/ (i \in P /\ i # n + 1 - d.limit)
        BY <2>1, <2>4, <3>1, <3>4 DEF PageOf, OnPage
      <3>6. Without(Q, R, at)
        <4>1. at \notin P
          BY <3>4 DEF OnPage
        <4>2. \A i : i \in Q <=> i \in P /\ i # n + 1 - d.limit
          BY <3>2
        <4> HIDE DEF P, at
        <4> QED  BY <3>5, <4>1, <4>2 DEF Without
      <3>7. PICK left : left = OwnersKept(d)
        OBVIOUS
      <3>8. left = OwnersOf(Q, d.heap)
        <4>1. CASE Full(d)
          <5>1. Without(Q, P, p)
            BY <2>1, <2>6, <2>7, <3>2, <3>4, <4>1 DEF Without
          <5>2. d.owners = OwnersOf(P, d.heap)
            BY DEF OwnersAre
          <5>3. left = Less(d.owners, d.heap[p].turn)
            BY <3>7, <4>1 DEF OwnersKept
          <5>4. PICK h, o, out : h = d.heap /\ o = d.owners /\ out = d.heap[p].turn
            OBVIOUS
          <5> HIDE DEF P, p
          <5>5. Less(o, out) = OwnersOf(Q, h)
            BY <3>3, <5>1, <5>2, <5>4, OwnersLess
          <5> QED  BY <5>3, <5>4, <5>5
        <4>2. CASE ~Full(d)
          <5>1. Q = P
            BY <2>1, <2>6, <3>2, <3>4, <4>2
          <5> QED  BY <3>7, <4>2, <5>1 DEF OwnersAre, OwnersKept
        <4> QED  BY <4>1, <4>2
      <3>9. PICK h, turn : h = d.heap /\ turn = d.heap[at].turn
        OBVIOUS
      <3> HIDE DEF at, P, p
      <3>10. More(left, turn) = OwnersOf(R, h)
        BY <3>3, <3>6, <3>8, <3>9, OwnersMore
      <3>11. e.owners = More(left, turn)
        BY <2>2, <3>7, <3>9 DEF at
      <3> QED  BY <2>3, <3>1, <3>9, <3>10, <3>11 DEF OwnersAre, at
    <2> QED  BY <2>10, <2>11
  <1> QED  BY <1>1, <1>2

\* Its name is one that the page did not have, or one given to a compaction.
LEMMA RetainNames ==
    ASSUME NEW d, Shape(d), d.limit \in Nat \ {0}, d.before \in Nat,
           NEW n \in Nat, KeptIs(d, n), NamesDiffer(d, n), NamesSeen(d, n),
           \A i \in 1..n : OnPage(d, n, i) => d.heap[i].id # d.heap[n + 1].id
                                                \/ d.heap[i].id \in d.given,
           NEW e, e = Retain(d, n + 1)
    PROVE  NamesDiffer(e, n + 1) /\ NamesSeen(e, n + 1)
  <1>1. CASE d.before # 0 /\ n + 1 >= d.before
    <2>1. e = d
      BY <1>1 DEF Retain
    <2>2. \A i : OnPage(d, n + 1, i) <=> OnPage(d, n, i)
      BY <1>1, PagePassed
    <2>3. \A i : OnPage(d, n, i) => i \in 1..n
      BY DEF OnPage
    <2> QED  BY <2>1, <2>2, <2>3 DEF NamesDiffer, NamesSeen, KnownName
  <1>2. CASE ~(d.before # 0 /\ n + 1 >= d.before)
    <2> DEFINE p == Head(d.kept)
    <2>1. /\ PageEnd(d, n) = n
          /\ \A i : OnPage(d, n + 1, i) <=>
                      i = n + 1 \/ (OnPage(d, n, i) /\ i # n + 1 - d.limit)
          /\ OnPage(d, n, n + 1 - d.limit) <=> d.limit <= n
      BY <1>2, PageMoves
    <2>2. /\ Same(d, e, {"kept", "visible", "owners"})
          /\ e.visible = NamesKept(d) \cup {d.heap[n + 1].id}
      BY <1>2, RetainSets
    <2>3. e.before = d.before /\ e.limit = d.limit /\ e.heap = d.heap /\ e.given = d.given
      BY <2>2 DEF Same, Fields
    <2>4. \A i : OnPage(e, n + 1, i) <=> OnPage(d, n + 1, i)
      BY <2>3 DEF PageEnd, OnPage
    <2>5. Full(d) => p = n + 1 - d.limit /\ OnPage(d, n, p)
      <3> SUFFICES ASSUME Full(d) PROVE p = n + 1 - d.limit /\ OnPage(d, n, p)
        OBVIOUS
      <3>1. /\ IsSeq(d.kept) /\ Len(d.kept) = (IF n < d.limit THEN n ELSE d.limit)
            /\ \A k \in 1..Len(d.kept) : d.kept[k] = n - Len(d.kept) + k
        BY <2>1 DEF KeptIs
      <3>2. Len(d.kept) = d.limit /\ 1 \in 1..Len(d.kept) /\ d.limit <= n
        BY <3>1 DEF Full
      <3>3. d.kept[1] = n - d.limit + 1
        BY <3>1, <3>2
      <3>4. p = d.kept[1]
        BY <3>1, <3>2 DEF IsSeq
      <3>5. p = n + 1 - d.limit
        BY <3>3, <3>4
      <3> QED  BY <2>1, <3>2, <3>5
    <2>6. \A i : OnPage(d, n, i) => i \in 1..n
      BY DEF OnPage
    <2>7. NamesDiffer(e, n + 1)
      <3> SUFFICES ASSUME NEW i \in 1..(n + 1), NEW j \in 1..(n + 1),
                          OnPage(e, n + 1, i), OnPage(e, n + 1, j),
                          d.heap[i].id = d.heap[j].id, d.heap[i].id \notin d.given
                   PROVE  i = j
        BY <2>3 DEF NamesDiffer
      <3>1. (i = n + 1 \/ OnPage(d, n, i)) /\ (j = n + 1 \/ OnPage(d, n, j))
        BY <2>1, <2>4
      <3> QED  BY <2>6, <3>1 DEF NamesDiffer
    <2>8. NamesSeen(e, n + 1)
      <3> SUFFICES ASSUME NEW i \in 1..(n + 1), OnPage(e, n + 1, i),
                          d.heap[i].id[1] # "event", d.heap[i].id \notin d.given
                   PROVE  d.heap[i].id \in e.visible
        BY <2>3 DEF NamesSeen, KnownName
      <3>1. CASE i = n + 1
        BY <2>2, <3>1
      <3>2. CASE i # n + 1
        <4>1. OnPage(d, n, i) /\ i # n + 1 - d.limit /\ i \in 1..n
          BY <2>1, <2>4, <2>6, <3>2
        <4>2. d.heap[i].id \in d.visible
          BY <4>1 DEF NamesSeen, KnownName
        <4>3. Full(d) => d.heap[i].id # d.heap[p].id
          BY <2>5, <2>6, <4>1 DEF NamesDiffer
        <4> QED  BY <2>2, <4>2, <4>3 DEF NamesKept
      <3> QED  BY <3>1, <3>2
    <2> QED  BY <2>7, <2>8
  <1> QED  BY <1>1, <1>2

\* The page and its names stay if nothing they depend on changes.
LEMMA PageStays ==
    ASSUME NEW d, PageFits(d), NamesFit(d), NEW e, e.heap = d.heap, e.kept = d.kept,
           e.owners = d.owners, e.visible = d.visible, e.limit = d.limit,
           e.before = d.before, e.event = d.event, d.given \subseteq e.given
    PROVE  PageFits(e) /\ NamesFit(e)
  <1>1. \A n : PageEnd(e, n) = PageEnd(d, n)
    BY DEF PageEnd
  <1>2. \A n, i : OnPage(e, n, i) <=> OnPage(d, n, i)
    BY <1>1 DEF OnPage
  <1>3. \A n : PageOf(e, n) = PageOf(d, n)
    BY <1>2 DEF PageOf
  <1>4. PageFits(e)
    BY <1>1, <1>3 DEF PageFits, KeptIs, OwnersAre
  <1>5. NamesFit(e)
    BY <1>2 DEF NamesFit, NamesDiffer, NamesSeen, KnownName
  <1> QED  BY <1>4, <1>5

\* What is to be a name, and what a name turns out to be.
OtherName(id)  == id[1] \notin {"salted", "event"}
EventIsNew(d)       == \A i \in 1..Len(d.heap) : d.heap[i].id # AtEvent(d)
NewName(d, id) == id = AtEvent(d) /\ EventIsNew(d)
MayName(d, id) == OtherName(id) \/ NewName(d, id)

\* What a record may be renamed to.
Renames(d, id) == NewName(d, id) \/ (OtherName(id) /\ id \in d.given)

LEMMA AtEventIs ==
    ASSUME NEW d
    PROVE  AtEvent(d)[1] = "event" /\ AtEvent(d)[2] = d.event
  BY DEF AtEvent

LEMMA NamesAre ==
    ASSUME NEW d, NEW id, MayName(d, id)
    PROVE  id[1] # "salted"
  BY AtEventIs DEF MayName, OtherName, NewName

\* The event that is read names a record only once.
LEMMA NamedAtEvent ==
    ASSUME NEW d, EventIsNew(d), NEW a, a.heap = d.heap, a.event = d.event
    PROVE  EventIsNew(a) /\ MayName(a, AtEvent(d))
  BY DEF EventIsNew, MayName, NewName, AtEvent

\* And an item is named after it, or by the log.
LEMMA NamedByItem ==
    ASSUME NEW d, EventIsNew(d), NEW e
    PROVE  MayName(d, ItemId(d, e))
  <1>1. CASE e.call = None
    BY <1>1 DEF ItemId, MayName, NewName
  <1>2. CASE e.call # None
    BY <1>2 DEF ItemId, MayName, OtherName
  <1> QED  BY <1>1, <1>2

LEMMA NamedLater ==
    ASSUME NEW d, NEW id, MayName(d, id), NEW a, a.heap = d.heap, a.event = d.event
    PROVE  MayName(a, id)
  BY DEF EventIsNew, MayName, NewName, AtEvent

LEMMA SaltIs ==
    ASSUME NEW d, NEW id, NEW x, x = <<"salted", id, Len(d.heap) + 1>>
    PROVE  x[1] = "salted" /\ x[3] = Len(d.heap) + 1
  OBVIOUS

\* A new record gets a name that no other on the page has.
LEMMA NameIsNew ==
    ASSUME NEW d, NamesFit(d), Len(d.heap) \in Nat, NEW id, MayName(d, id),
           NEW x, x = RecordId(d, id), NEW n, n = Len(d.heap) + 1
    PROVE  /\ NameFits(x, n, d.event)
           /\ \A i \in 1..Len(d.heap) : OnPage(d, Len(d.heap), i)
                                           => d.heap[i].id # x \/ d.heap[i].id \in d.given
  <1>1. CASE id \in d.visible
    <2>1. x[1] = "salted" /\ x[3] = n
      BY <1>1, SaltIs DEF RecordId
    <2>2. \A i \in 1..Len(d.heap) : d.heap[i].id # x
      <3> SUFFICES ASSUME NEW i \in 1..Len(d.heap), d.heap[i].id = x PROVE FALSE
        OBVIOUS
      <3>1. NameFits(d.heap[i].id, i, d.event)
        BY DEF NamesFit
      <3>2. x[3] = i
        BY <2>1, <3>1 DEF NameFits
      <3> QED  BY <2>1, <3>2
    <2> QED  BY <2>1, <2>2 DEF NameFits
  <1>2. CASE id \notin d.visible
    <2>1. x = id
      BY <1>2 DEF RecordId
    <2>2. d.event \in Nat
      BY DEF NamesFit
    <2>3. NameFits(x, n, d.event)
      <3>1. CASE OtherName(id)
        BY <2>1, <3>1 DEF OtherName, NameFits
      <3>2. CASE NewName(d, id)
        <4>1. x[1] = "event" /\ x[2] = d.event
          BY <2>1, <3>2, AtEventIs DEF NewName
        <4> QED  BY <2>2, <4>1 DEF NameFits
      <3> QED  BY <3>1, <3>2 DEF MayName
    <2>4. ASSUME NEW i \in 1..Len(d.heap), OnPage(d, Len(d.heap), i),
                 d.heap[i].id \notin d.given
          PROVE  d.heap[i].id # x
      <3>1. CASE NewName(d, id)
        BY <2>1, <3>1 DEF NewName, EventIsNew
      <3>2. CASE OtherName(id)
        <4>1. d.heap[i].id \in d.visible \/ d.heap[i].id[1] = "event"
          BY <2>4 DEF NamesFit, NamesSeen, KnownName
        <4> QED  BY <1>2, <2>1, <3>2, <4>1 DEF OtherName
      <3> QED  BY <3>1, <3>2 DEF MayName
    <2> QED  BY <2>3, <2>4
  <1> QED  BY <1>1, <1>2

\* g is d with one more record, named by what the entry says.
OneLonger(d, g, id) ==
    /\ Shape(g) /\ Len(d.heap) \in Nat /\ Len(g.heap) = Len(d.heap) + 1
    /\ \A i \in 1..Len(d.heap) : g.heap[i] = d.heap[i]
    /\ g.heap[Len(g.heap)].id = RecordId(d, id)
    /\ g.kept = d.kept /\ g.owners = d.owners /\ g.visible = d.visible
    /\ g.limit = d.limit /\ g.before = d.before /\ g.event = d.event
    /\ g.given = d.given

\* The page takes the new record.
LEMMA PageGrows ==
    ASSUME NEW d, PageFits(d), NamesFit(d), NEW id, MayName(d, id),
           NEW g, OneLonger(d, g, id), NEW f, f = Retain(g, Len(g.heap))
    PROVE  PageFits(f) /\ NamesFit(f)
  <1>1. PICK m, n : m = Len(d.heap) /\ n = m + 1
    OBVIOUS
  <1>2. /\ Shape(g) /\ m \in Nat /\ Len(g.heap) = n /\ n \in Nat
        /\ \A i \in 1..m : g.heap[i] = d.heap[i]
        /\ g.heap[n].id = RecordId(d, id)
        /\ g.kept = d.kept /\ g.owners = d.owners /\ g.visible = d.visible
        /\ g.limit = d.limit /\ g.before = d.before /\ g.event = d.event
        /\ g.given = d.given
    BY <1>1 DEF OneLonger
  <1>3. \A k : PageEnd(g, k) = PageEnd(d, k)
    BY <1>2 DEF PageEnd
  <1>4. \A k, i : OnPage(g, k, i) <=> OnPage(d, k, i)
    BY <1>2, <1>3 DEF OnPage
  <1>5. \A k : PageOf(g, k) = PageOf(d, k)
    BY <1>4 DEF PageOf
  <1>6. g.limit \in Nat \ {0} /\ g.before \in Nat
    BY <1>2 DEF PageFits
  <1>7. KeptIs(g, m)
    BY <1>1, <1>2, <1>3 DEF PageFits, KeptIs
  <1>8. OwnersAre(g, m)
    <2>1. PICK S, h, k : S = PageOf(d, m) /\ h = d.heap /\ k = g.heap
      OBVIOUS
    <2>2. \A i \in S : k[i].turn = h[i].turn
      BY <1>2, <2>1 DEF PageOf
    <2>3. OwnersOf(S, k) = OwnersOf(S, h)
      BY <2>2, OwnersSame
    <2>4. d.owners = OwnersOf(PageOf(d, m), d.heap)
      BY <1>1 DEF PageFits, OwnersAre
    <2> QED  BY <1>2, <1>5, <2>1, <2>3, <2>4 DEF OwnersAre
  <1>9. NamesDiffer(g, m) /\ NamesSeen(g, m)
    <2>1. \A i \in 1..m : g.heap[i].id = d.heap[i].id
      BY <1>2
    <2>2. NamesDiffer(d, m) /\ NamesSeen(d, m)
      BY <1>1 DEF NamesFit
    <2>3. NamesDiffer(g, m)
      BY <1>2, <1>4, <2>1, <2>2 DEF NamesDiffer
    <2>4. NamesSeen(g, m)
      BY <1>2, <1>4, <2>1, <2>2 DEF NamesSeen, KnownName
    <2> QED  BY <2>3, <2>4
  <1>10. PICK x : x = RecordId(d, id)
    OBVIOUS
  <1>11. /\ NameFits(x, n, d.event)
         /\ \A i \in 1..m : OnPage(d, m, i) => d.heap[i].id # x \/ d.heap[i].id \in d.given
    BY <1>1, <1>2, <1>10, NameIsNew
  <1>12. \A i \in 1..m : OnPage(g, m, i) => g.heap[i].id # g.heap[m + 1].id
                                              \/ g.heap[i].id \in g.given
    BY <1>1, <1>2, <1>4, <1>10, <1>11
  <1>13. f = Retain(g, m + 1)
    BY <1>1, <1>2
  <1>14. KeptIs(f, m + 1) /\ OwnersAre(f, m + 1)
    BY <1>2, <1>6, <1>7, <1>8, <1>13, RetainKept
  <1>15. NamesDiffer(f, m + 1) /\ NamesSeen(f, m + 1)
    BY <1>2, <1>6, <1>7, <1>9, <1>12, <1>13, RetainNames
  <1>16. Same(g, f, {"kept", "visible", "owners"})
    BY <1>2, <1>13, RetainIs
  <1>17. f.heap = g.heap /\ f.limit = g.limit /\ f.before = g.before /\ f.event = g.event
    BY <1>16 DEF Same, Fields
  <1>18. PageFits(f)
    BY <1>1, <1>2, <1>6, <1>14, <1>17 DEF PageFits
  <1>19. ASSUME NEW i \in 1..n PROVE NameFits(f.heap[i].id, i, f.event)
    <2>1. CASE i = n
      BY <1>2, <1>10, <1>11, <1>17, <2>1
    <2>2. CASE i # n
      <3>1. i \in 1..m
        BY <1>1, <1>2, <2>2
      <3> QED  BY <1>1, <1>2, <1>17, <3>1 DEF NamesFit
    <2> QED  BY <2>1, <2>2
  <1>20. f.event \in Nat
    BY <1>2, <1>17 DEF NamesFit
  <1>21. NamesFit(f)
    BY <1>1, <1>2, <1>15, <1>17, <1>19, <1>20 DEF NamesFit
  <1> QED  BY <1>18, <1>21

\* One record changes, and keeps its turn; its name too, or the item renames it.
LEMMA PageAmended ==
    ASSUME NEW d, PageFits(d), NamesFit(d), Len(d.heap) \in Nat, NEW n \in 1..Len(d.heap),
           NEW x, x.turn = d.heap[n].turn, x.id = d.heap[n].id \/ Renames(d, x.id),
           NEW e, Len(e.heap) = Len(d.heap), e.heap[n] = x,
           \A i \in 1..Len(d.heap) : i # n => e.heap[i] = d.heap[i],
           e.kept = d.kept, e.owners = d.owners, e.visible = d.visible,
           e.limit = d.limit, e.before = d.before, e.event = d.event, e.given = d.given
    PROVE  PageFits(e) /\ NamesFit(e)
  <1>1. PICK m : m = Len(d.heap)
    OBVIOUS
  <1>2. \A k : PageEnd(e, k) = PageEnd(d, k)
    BY DEF PageEnd
  <1>3. \A k, i : OnPage(e, k, i) <=> OnPage(d, k, i)
    BY <1>2 DEF OnPage
  <1>4. \A k : PageOf(e, k) = PageOf(d, k)
    BY <1>3 DEF PageOf
  <1>5. KeptIs(e, m)
    BY <1>1, <1>2 DEF PageFits, KeptIs
  <1>6. OwnersAre(e, m)
    <2>1. PICK S, h, k : S = PageOf(d, m) /\ h = d.heap /\ k = e.heap
      OBVIOUS
    <2>2. \A i \in S : k[i].turn = h[i].turn
      BY <1>1, <2>1 DEF PageOf
    <2>3. OwnersOf(S, k) = OwnersOf(S, h)
      BY <2>2, OwnersSame
    <2>4. d.owners = OwnersOf(PageOf(d, m), d.heap)
      BY <1>1 DEF PageFits, OwnersAre
    <2> QED  BY <1>4, <2>1, <2>3, <2>4 DEF OwnersAre
  <1>7. PageFits(e)
    BY <1>1, <1>5, <1>6 DEF PageFits
  <1>8. NewName(d, x.id) =>
          /\ x.id[1] = "event" /\ x.id[2] = d.event
          /\ \A i \in 1..m : d.heap[i].id # x.id
    BY <1>1, AtEventIs DEF NewName, EventIsNew
  <1>9. d.event \in Nat
    BY DEF NamesFit
  <1>10. ASSUME NEW i \in 1..m PROVE NameFits(e.heap[i].id, i, e.event)
    <2>1. NameFits(d.heap[i].id, i, d.event)
      BY <1>1 DEF NamesFit
    <2>2. CASE e.heap[i].id = d.heap[i].id
      BY <2>1, <2>2
    <2>3. CASE e.heap[i].id # d.heap[i].id
      <3>1. i = n /\ (NewName(d, x.id) \/ OtherName(x.id))
        BY <1>1, <2>3 DEF Renames
      <3> QED  BY <1>1, <1>8, <1>9, <3>1 DEF NameFits, OtherName
    <2> QED  BY <2>2, <2>3
  <1>11. NamesDiffer(e, m)
    <2> SUFFICES ASSUME NEW i \in 1..m, NEW j \in 1..m, OnPage(d, m, i), OnPage(d, m, j),
                        e.heap[i].id = e.heap[j].id, e.heap[i].id \notin d.given
                 PROVE  i = j
      BY <1>3 DEF NamesDiffer
    <2>1. CASE x.id = d.heap[n].id
      <3>1. d.heap[i].id = d.heap[j].id
        BY <1>1, <2>1
      <3> QED  BY <1>1, <3>1 DEF NamesFit, NamesDiffer
    <2>2. CASE NewName(d, x.id)
      <3>1. i = n \/ j = n => i = j
        BY <1>1, <1>8, <2>2
      <3>2. i # n /\ j # n => i = j
        BY <1>1 DEF NamesFit, NamesDiffer
      <3> QED  BY <3>1, <3>2
    <2>3. CASE x.id \in d.given
      <3>1. i # n /\ j # n
        BY <1>1, <2>3
      <3>2. d.heap[i].id = d.heap[j].id /\ d.heap[i].id \notin d.given
        BY <1>1, <3>1
      <3> QED  BY <1>1, <3>2 DEF NamesFit, NamesDiffer
    <2> QED  BY <2>1, <2>2, <2>3 DEF Renames
  <1>12. NamesSeen(e, m)
    <2> SUFFICES ASSUME NEW i \in 1..m, OnPage(d, m, i)
                 PROVE  KnownName(e, e.heap[i].id)
      BY <1>3 DEF NamesSeen
    <2>1. KnownName(d, d.heap[i].id)
      BY <1>1 DEF NamesFit, NamesSeen
    <2>2. CASE e.heap[i].id = d.heap[i].id
      BY <2>1, <2>2 DEF KnownName
    <2>3. CASE e.heap[i].id # d.heap[i].id
      <3>1. i = n /\ Renames(d, x.id)
        BY <1>1, <2>3
      <3> QED  BY <1>1, <1>8, <3>1 DEF Renames, KnownName
    <2> QED  BY <2>2, <2>3
  <1>13. NamesFit(e)
    BY <1>1, <1>9, <1>10, <1>11, <1>12 DEF NamesFit
  <1> QED  BY <1>7, <1>13

-----------------------------------------------------------------------------
(* What a step does to all this.                                           *)

\* What a handler does to records.
RecordsGo(d, e) ==
    /\ Len(d.heap) <= Len(e.heap)
    /\ \A i \in 1..Len(d.heap) : RecordStays(d.heap[i], e.heap[i])

SameCall(d, e) == \A f \in {"paginated", "limit", "before", "event"} : e[f] = d[f]

Goes(d, e) == TurnsStay(d, e) /\ RecordsGo(d, e) /\ SameCall(d, e)

LEMMA GoodFacts ==
    ASSUME NEW d, NEW X, Good(d, X)
    PROVE  /\ Running(d) /\ Shape(d)
           /\ DOMAIN d.turns = 1..Len(d.turns) /\ Len(d.turns) \in Nat
           /\ DOMAIN d.heap = 1..Len(d.heap) /\ Len(d.heap) \in Nat
           /\ \A i \in 1..Len(d.heap) : IsRecord(d.heap[i]) /\ RecordFits(d.heap[i], d)
  <1>1. Running(d) /\ Shape(d)
    BY DEF Good, Running
  <1>2. IsSeq(d.heap) /\ \A i \in 1..Len(d.heap) : IsRecord(d.heap[i]) /\ RecordFits(d.heap[i], d)
    BY DEF Good, Recorded
  <1> QED  BY <1>1, <1>2, SeqDomain, RunningFacts

LEMMA GoesOn ==
    ASSUME NEW d, NEW e, NEW f, NEW X, NEW Y, NEW Z, Good(d, X), Good(e, Y), Good(f, Z),
           Goes(d, e), Goes(e, f)
    PROVE  Goes(d, f)
  <1>1. TurnsStay(d, f)
    BY GoodFacts, TurnsStayOn DEF Goes
  <1>2. Len(d.heap) \in Nat /\ Len(e.heap) \in Nat /\ Len(f.heap) \in Nat
    BY GoodFacts
  <1>3. Len(d.heap) <= Len(f.heap) /\ 1..Len(d.heap) \subseteq 1..Len(e.heap)
    BY <1>2 DEF Goes, RecordsGo
  <1>4. ASSUME NEW i \in 1..Len(d.heap)
        PROVE  RecordStays(d.heap[i], f.heap[i])
    <2>1. RecordStays(d.heap[i], e.heap[i])
      BY DEF Goes, RecordsGo
    <2>2. RecordStays(e.heap[i], f.heap[i])
      BY <1>3 DEF Goes, RecordsGo
    <2> QED  BY <2>1, <2>2 DEF RecordStays
  <1>5. SameCall(d, f)
    BY DEF Goes, SameCall
  <1> QED  BY <1>1, <1>3, <1>4, <1>5 DEF Goes, RecordsGo

LEMMA StaysItself ==
    ASSUME NEW r
    PROVE  RecordStays(r, r)
  BY DEF RecordStays

\* A record still fits when turns went on.
LEMMA StillFits ==
    ASSUME NEW r, IsRecord(r), NEW d, NEW e, Running(d), Running(e), TurnsStay(d, e),
           RecordFits(r, d)
    PROVE  RecordFits(r, e)
  <1>1. Len(d.turns) \in Nat /\ Len(e.turns) \in Nat /\ Len(d.turns) <= Len(e.turns)
    BY RunningFacts DEF TurnsStay
  <1>2. r.turn \in 1..Len(d.turns) /\ r.turn \in 1..Len(e.turns)
    BY <1>1 DEF RecordFits
  <1>3. d.turns[r.turn].steps \in Nat /\ e.turns[r.turn].steps \in Nat /\ r.step \in Nat
    BY <1>2 DEF Running, TurnsRun, IsTurn, IsRecord
  <1>4. d.turns[r.turn].steps <= e.turns[r.turn].steps
    BY <1>2 DEF TurnsStay
  <1> QED  BY <1>2, <1>3, <1>4 DEF RecordFits

\* Samples stay where they are.
LEMMA StillSampled ==
    ASSUME NEW d, NEW e, Running(d), Running(e), TurnsGo(d, e), Sampled(d),
           e.samples = d.samples
    PROVE  Sampled(e)
  <1>1. Len(d.turns) \in Nat /\ Len(e.turns) \in Nat /\ Len(d.turns) <= Len(e.turns)
    BY RunningFacts DEF TurnsGo, TurnsStay
  <1>2. 1..Len(d.turns) \subseteq 1..Len(e.turns)
    BY <1>1
  <1>3. \A t \in 1..Len(e.turns) :
          \/ t \in 1..Len(d.turns) /\ e.turns[t].calls = d.turns[t].calls
          \/ e.turns[t].calls = {}
    BY DEF TurnsGo, UsageStays
  <1> QED  BY <1>2, <1>3 DEF Sampled, TurnsGo, UsageStays

\* Steps that concern only turns.
LEMMA TurnsAlone ==
    ASSUME NEW d, NEW X, Good(d, X), NEW e, Running(e), TurnsGo(d, e),
           Same(d, e, TurnParts)
    PROVE  Good(e, X) /\ Goes(d, e) /\ e.heap = d.heap
  <1>1. /\ e.heap = d.heap /\ e.pending = d.pending /\ e.lastRecord = d.lastRecord
        /\ e.lastTurn = d.lastTurn /\ e.tracked = d.tracked /\ e.states = d.states
        /\ e.dirty = d.dirty /\ e.stored = d.stored /\ e.ambiguous = d.ambiguous
        /\ e.visible = d.visible /\ e.names = d.names /\ SameCall(d, e)
        /\ e.samples = d.samples /\ e.tools = d.tools /\ e.failures = d.failures
        /\ e.kept = d.kept /\ e.owners = d.owners /\ e.limit = d.limit
        /\ e.before = d.before /\ e.event = d.event /\ e.given = d.given
    BY DEF Same, TurnParts, Fields, SameCall
  <1>2. Len(d.turns) \in Nat /\ Len(e.turns) \in Nat /\ Len(d.turns) <= Len(e.turns)
    BY GoodFacts, RunningFacts DEF TurnsGo, TurnsStay
  <1>3. \A i \in 1..Len(d.heap) : IsRecord(d.heap[i]) /\ RecordFits(d.heap[i], e)
    BY GoodFacts, StillFits DEF TurnsGo
  <1>4. Recorded(e)
    <2>1. e.lastTurn \in 0..Len(e.turns)
      BY <1>1, <1>2 DEF Good, Recorded
    <2> QED  BY <1>1, <1>3, <2>1 DEF Good, Recorded
  <1>5. Remembers(e) /\ Indexed(e, X) /\ Unsalted(e)
    BY <1>1 DEF Good, Remembers, Indexed, Unsalted
  <1>6. RecordsGo(d, e)
    BY <1>1, GoodFacts, StaysItself DEF RecordsGo
  <1>7. Sampled(e)
    BY <1>1, StillSampled DEF Good
  <1>8. PageFits(e) /\ NamesFit(e)
    BY <1>1, PageStays DEF Good
  <1>9. Counted(e)
    BY <1>1 DEF Good, Counted
  <1> QED  BY <1>1, <1>4, <1>5, <1>6, <1>7, <1>8, <1>9 DEF Good, Goes, TurnsGo

Others == {"compactions", "refs", "after", "lastRecord", "lastTurn",
           "pending"}

\* Steps that concern neither turns nor records.
LEMMA OthersAlone ==
    ASSUME NEW d, NEW X, Good(d, X), NEW e, Shape(e),
           Same(d, e, Others),
           e.pending \in 0..Len(d.heap), e.lastRecord \in 0..Len(d.heap),
           e.lastTurn \in 0..Len(d.turns)
    PROVE  Good(e, X) /\ Goes(d, e) /\ e.heap = d.heap
  <1>1. /\ e.heap = d.heap /\ e.turns = d.turns /\ e.active = d.active
        /\ e.step = d.step /\ e.tracked = d.tracked /\ e.states = d.states
        /\ e.dirty = d.dirty /\ e.stored = d.stored /\ e.ambiguous = d.ambiguous
        /\ e.visible = d.visible /\ e.names = d.names /\ SameCall(d, e)
        /\ e.samples = d.samples /\ e.tools = d.tools /\ e.failures = d.failures
        /\ e.kept = d.kept /\ e.owners = d.owners /\ e.limit = d.limit
        /\ e.before = d.before /\ e.event = d.event /\ e.given = d.given
    BY DEF Same, Others, Fields, SameCall
  <1>2. Running(e)
    BY <1>1 DEF Good, Running, TurnsRun, StepFits
  <1>3. TurnsGo(d, e)
    BY <1>1, GoodFacts, TurnsGoSame
  <1>4. Recorded(e)
    BY <1>1 DEF Good, Recorded, RecordFits
  <1>5. Remembers(e) /\ Indexed(e, X) /\ Unsalted(e)
    BY <1>1 DEF Good, Remembers, Indexed, Unsalted
  <1>6. RecordsGo(d, e)
    BY <1>1, GoodFacts, StaysItself DEF RecordsGo
  <1>7. Sampled(e)
    BY <1>1 DEF Good, Sampled
  <1>8. PageFits(e) /\ NamesFit(e)
    BY <1>1, PageStays DEF Good
  <1>9. Counted(e)
    BY <1>1 DEF Good, Counted
  <1> QED  BY <1>1, <1>2, <1>3, <1>4, <1>5, <1>6, <1>7, <1>8, <1>9 DEF Good, Goes, TurnsGo

\* An update of one element, named for the lemmas that are about it.
SetAt(s, i, x) == [s EXCEPT ![i] = x]

Touches == {"heap", "dirty", "refs", "failures", "states"}

\* Record n becomes x.
Changed(d, e, n, x) ==
    /\ IsRecord(x) /\ RecordStays(d.heap[n], x)
    /\ x.id = d.heap[n].id \/ Renames(d, x.id)
    /\ Shape(e) /\ e.heap = SetAt(d.heap, n, x) /\ Same(d, e, Touches)
    /\ d.dirty \subseteq e.dirty /\ IsSeq(e.states) /\ Len(e.states) <= MaxTracked

\* What the index is to take now (dirty) or later (Y).
Takes(e, X, n, Y) == X \cup {n} \subseteq Y \cup e.dirty

\* It is as it was for the books.
LEMMA StillCounted ==
    ASSUME NEW d, NEW X, Good(d, X), NEW n \in 1..Len(d.heap), NEW x, NEW e,
           e.heap = SetAt(d.heap, n, x), Same(d, e, Touches), SameAccount(d.heap[n], x),
           e.states = d.states, e.failures = d.failures
    PROVE  Counted(e)
  <1>1. e.tracked = d.tracked /\ e.tools = d.tools
    BY DEF Same, Touches, Fields
  <1>2. IsSeq(d.heap) /\ Counted(d) /\ Remembers(d)
    BY DEF Good, Recorded
  <1>3. /\ Len(e.heap) = Len(d.heap) /\ e.heap[n] = x
        /\ \A i \in 1..Len(d.heap) : i # n => e.heap[i] = d.heap[i]
    BY <1>2, ExceptAny DEF SetAt
  <1>4. \A i \in 1..Len(d.heap) : SameAccount(d.heap[i], e.heap[i])
    BY <1>3 DEF SameAccount
  <1> QED  BY <1>1, <1>2, <1>3, <1>4, CountedStays

\* A change of one record, which the index is to take now or later.
LEMMA RecordChanged ==
    ASSUME NEW d, NEW X, Good(d, X), NEW n \in 1..Len(d.heap), NEW x, NEW e,
           Changed(d, e, n, x), Counted(e), NEW Y, Takes(e, X, n, Y)
    PROVE  Good(e, Y) /\ Goes(d, e) /\ Replaced(d.heap, e.heap, n, x)
  <1>1. /\ e.turns = d.turns /\ e.active = d.active /\ e.step = d.step
        /\ e.pending = d.pending /\ e.lastRecord = d.lastRecord
        /\ e.lastTurn = d.lastTurn /\ e.tracked = d.tracked
        /\ e.stored = d.stored /\ e.ambiguous = d.ambiguous
        /\ e.visible = d.visible /\ e.names = d.names /\ SameCall(d, e)
        /\ e.samples = d.samples
        /\ e.kept = d.kept /\ e.owners = d.owners /\ e.limit = d.limit
        /\ e.before = d.before /\ e.event = d.event /\ e.given = d.given
    BY DEF Changed, Same, Touches, Fields, SameCall
  <1>2. IsSeq(d.heap)
    BY DEF Good, Recorded
  <1>3. /\ IsSeq(e.heap) /\ Len(e.heap) = Len(d.heap) /\ e.heap[n] = x
        /\ \A i \in 1..Len(d.heap) : i # n => e.heap[i] = d.heap[i]
    BY <1>2, ExceptAny DEF SetAt, Changed
  <1>4. \A i \in 1..Len(d.heap) : IsRecord(d.heap[i]) /\ RecordFits(d.heap[i], d)
    BY GoodFacts
  <1>5. Running(e)
    BY <1>1 DEF Changed, Good, Running, TurnsRun, StepFits
  <1>6. TurnsGo(d, e)
    BY <1>1, GoodFacts, TurnsGoSame
  <1>7. ASSUME NEW i \in 1..Len(d.heap)
        PROVE  /\ IsRecord(e.heap[i]) /\ RecordFits(e.heap[i], e)
               /\ RecordStays(d.heap[i], e.heap[i])
    <2>1. CASE i = n
      <3>1. RecordFits(d.heap[n], d)
        BY <1>4
      <3> QED  BY <1>1, <1>3, <2>1, <3>1 DEF Changed, RecordFits, RecordStays
    <2>2. CASE i # n
      BY <1>1, <1>3, <1>4, <2>2, StaysItself DEF RecordFits
    <2> QED  BY <2>1, <2>2
  <1>8. Recorded(e)
    BY <1>1, <1>3, <1>7 DEF Good, Recorded
  <1>9. Remembers(e)
    BY <1>1, <1>3 DEF Changed, Good, Remembers
  <1>10. Indexed(e, Y)
    <2> SUFFICES ASSUME NEW i \in 1..Len(d.heap), i \notin e.dirty, i \notin Y
                 PROVE  e.stored[i] = e.heap[i]
      BY <1>3 DEF Indexed
    <2>1. i # n /\ i \notin X /\ i \notin d.dirty
      BY DEF Changed, Takes
    <2> QED  BY <1>1, <1>3, <2>1 DEF Good, Indexed
  <1>11. Unsalted(e)
    <2>1. CASE d.ambiguous
      BY <1>1, <2>1 DEF Good, Unsalted
    <2>2. CASE ~d.ambiguous
      <3>1. \A i \in 1..Len(d.heap) : d.heap[i].id[1] # "salted"
        BY <2>2 DEF Good, Unsalted
      <3>2. \A i \in 1..Len(d.heap) : e.heap[i].id[1] # "salted"
        BY <1>3, <3>1, NamesAre DEF Changed, Renames, MayName
      <3> QED  BY <1>1, <1>3, <2>2, <3>2 DEF Changed, Good, Unsalted
    <2> QED  BY <2>1, <2>2
  <1>12. RecordsGo(d, e)
    BY <1>3, <1>7, GoodFacts DEF RecordsGo
  <1>13. Sampled(e)
    BY <1>1 DEF Good, Sampled
  <1>14. PageFits(e) /\ NamesFit(e)
    <2>1. x.turn = d.heap[n].turn /\ (x.id = d.heap[n].id \/ Renames(d, x.id))
      BY DEF Changed, RecordStays
    <2>2. Len(d.heap) \in Nat /\ PageFits(d) /\ NamesFit(d)
      BY GoodFacts DEF Good
    <2> QED  BY <1>1, <1>3, <2>1, <2>2, PageAmended
  <1> QED  BY <1>1, <1>3, <1>5, <1>6, <1>8, <1>9, <1>10, <1>11, <1>12, <1>13, <1>14
           DEF Changed, Good, Goes, TurnsGo, Replaced

-----------------------------------------------------------------------------
(* add_record.                                                             *)

DraftFields == {"kind", "id", "step", "status", "call", "input", "counted",
                "started", "inherited"}

\* A tool that is not to be counted is one more record of a call.
Countable(d, r) ==
    r.kind = "tool" => r.counted = TRUE \/ (r.call # NoCall /\ r.call \in NamedOf(d.heap))

\* What handlers pass: a record of the current step, if it is not a marker.
IsDraft(r, d) ==
    /\ Countable(d, r)
    /\ DOMAIN r = DraftFields /\ r = [f \in DraftFields |-> r[f]]
    /\ r.kind \in Kinds /\ r.status \in {"running", "complete"}
    /\ MayName(d, r.id) /\ r.step \in Nat
    /\ r.inherited \/ r.step = 0 \/ (d.active /\ r.step <= d.turns[Len(d.turns)].steps)

LEMMA IdentifyIs ==
    ASSUME NEW d, Shape(d), NEW id, NEW call, NEW e, e = Identify(d, id, call)
    PROVE  /\ Shape(e) /\ Same(d, e, {"ambiguous", "names"})
           /\ id \in e.names /\ d.names \subseteq e.names
           /\ d.ambiguous \in BOOLEAN => e.ambiguous \in BOOLEAN
           /\ e.ambiguous \/ (~d.ambiguous /\ id \notin d.names)
  <1> DEFINE new == {id} \cup (IF call = NoCall THEN {} ELSE {<<"call id", call>>})
             b   == d.ambiguous \/ new \cap d.names # {}
  <1>1. id \in new
    OBVIOUS
  <1>2. e = [d EXCEPT !.ambiguous = b, !.names = d.names \cup new]
    BY DEF Identify
  <1>3. b \/ (~d.ambiguous /\ id \notin d.names)
    BY <1>1
  <1>4. d.ambiguous \in BOOLEAN => b \in BOOLEAN
    OBVIOUS
  <1> HIDE DEF new, b
  <1>5. Shape(e) /\ Same(d, e, {"ambiguous", "names"})
        /\ e.ambiguous = b /\ e.names = d.names \cup new
    BY <1>2 DEF Shape, Fields, Same
  <1> QED  BY <1>1, <1>3, <1>4, <1>5

\* What add_record leaves before the page: d with a record of the draft r.
IsCall(r)   == r.kind = "tool" /\ r.call # NoCall
OldState(d, r) == IF Known(d.states, r.call) THEN Get(d.states, r.call)
                  ELSE [call |-> r.call, counts |-> FALSE, failed |-> FALSE]
NewState(d, r) == [OldState(d, r) EXCEPT !.counts = @ \/ r.counted]
NewRecord(d, r) ==
    [turn |-> Turn(d), step |-> r.step, kind |-> r.kind, id |-> RecordId(d, r.id),
     call |-> r.call, status |-> r.status, counts |-> CountsAsTool(d, r),
     failed |-> IsCall(r) /\ OldState(d, r).failed, started |-> r.started,
     ended |-> IF r.status = "running" THEN 0 ELSE d.event,
     took |-> "none", final |-> FALSE, error |-> "none",
     input |-> r.input, output |-> 0, outputFinal |-> FALSE,
     marker |-> r.inherited]
CountedTurn(t) == [t EXCEPT !.records = @ + 1]
NewTracked(d, r) == [call |-> r.call, record |-> Len(d.heap) + 1]

Appended(d, r) ==
    [d EXCEPT !.heap = Append(@, NewRecord(d, r)),
              !.states = IF ~IsCall(r) THEN @ ELSE Put(@, NewState(d, r)),
              !.tracked = IF ~IsCall(r) THEN @ ELSE Put(@, NewTracked(d, r)),
              !.tools = IF CountsAsTool(d, r) THEN @ + 1 ELSE @,
              !.compactions = IF r.kind = "compaction" THEN @ + 1 ELSE @,
              !.turns = [@ EXCEPT ![Turn(d)] = CountedTurn(d.turns[Turn(d)])]]

LEMMA AddRecordIs ==
    ASSUME NEW d0, NEW r, NEW d,
           d = Identify(EnsureTurn(d0, None), r.id, IF r.inherited THEN NoCall ELSE r.call)
    PROVE  AddRecord(d0, r) = Retain(Track(Appended(d, r), Len(d.heap) + 1), Len(d.heap) + 1)
  BY SMTT(30) DEF AddRecord, Appended, NewRecord, NewState, OldState, IsCall, NewTracked, CountedTurn

\* What is noted of the draft's call.
Entered(d, r, e) ==
    /\ e.failures = d.failures
    /\ ~IsCall(r) => e.states = d.states /\ e.tracked = d.tracked
    /\ IsCall(r) => /\ e.states = Put(d.states, NewState(d, r))
                    /\ e.tracked = Put(d.tracked, NewTracked(d, r))
    /\ CountsAsTool(d, r) => e.tools = d.tools + 1
    /\ ~CountsAsTool(d, r) => e.tools = d.tools

AppendFits(d, r, e) ==
    /\ Shape(e) /\ e.heap = Append(d.heap, NewRecord(d, r)) /\ Entered(d, r, e)
    /\ e.turns = [d.turns EXCEPT ![Turn(d)] = CountedTurn(d.turns[Turn(d)])]
    /\ Same(d, e, {"heap", "states", "tracked", "tools", "compactions", "turns"})

LEMMA AppendedIs ==
    ASSUME NEW d, Shape(d), NEW r, NEW e, e = Appended(d, r)
    PROVE  AppendFits(d, r, e)
  BY ZenonT(60) DEF Appended, AppendFits, Entered, Shape, Fields, Same

IsNew(x, r, d) ==
    /\ DOMAIN x = RecordFields /\ x = [f \in RecordFields |-> x[f]]
    /\ x.turn = Turn(d) /\ x.step = r.step /\ x.kind = r.kind
    /\ x.id = RecordId(d, r.id) /\ x.call = r.call /\ x.status = r.status
    /\ x.error = "none" /\ x.final = FALSE /\ x.outputFinal = FALSE
    /\ x.output = 0 /\ x.input = r.input /\ x.started = r.started
    /\ x.took = "none" /\ x.marker = r.inherited
    /\ CountsAsTool(d, r) => x.counts = TRUE
    /\ ~IsCall(r) => x.failed = FALSE

LEMMA NewRecordIs ==
    ASSUME NEW d, NEW r, NEW x, x = NewRecord(d, r)
    PROVE  IsNew(x, r, d)
  BY DEF NewRecord, RecordFields, IsNew

\* The state y of a call that has one more record, in place of what s has.
StateGoes(s, r, y) ==
    /\ IsState(y) /\ y.call = r.call
    /\ r.counted = TRUE => y.counts = TRUE
    /\ Known(s, r.call) => /\ y.failed = Get(s, r.call).failed
                           /\ Get(s, r.call).counts = TRUE => y.counts = TRUE
    /\ ~Known(s, r.call) => y.failed = FALSE

LEMMA NewStateIs ==
    ASSUME NEW d, NEW r, NEW y, y = NewState(d, r),
           Known(d.states, r.call) => IsState(Get(d.states, r.call)),
           Known(d.states, r.call) => Get(d.states, r.call).call = r.call
    PROVE  StateGoes(d.states, r, y)
  <1>1. PICK o : o = OldState(d, r)
    OBVIOUS
  <1>2. IsState(o) /\ o.call = r.call
    BY <1>1 DEF OldState, IsState, StateFields
  <1>3. y = [o EXCEPT !.counts = @ \/ r.counted]
    BY <1>1 DEF NewState
  <1>4. IsState(y) /\ y.call = o.call /\ y.failed = o.failed /\ y.counts = (o.counts \/ r.counted)
    BY <1>2, <1>3 DEF IsState, StateFields
  <1>5. /\ r.counted = TRUE => y.counts = TRUE
        /\ o.counts = TRUE => y.counts = TRUE
    BY <1>4
  <1>6. Known(d.states, r.call) => o = Get(d.states, r.call)
    BY <1>1 DEF OldState
  <1>7. ~Known(d.states, r.call) => o.failed = FALSE
    BY <1>1 DEF OldState
  <1> QED  BY <1>2, <1>4, <1>5, <1>6, <1>7 DEF StateGoes

\* With a record of the draft r, what is counted is what is on record.
LEMMA CountedGrows ==
    ASSUME NEW d, Counted(d), Remembers(d), NEW r, Countable(d, r), r.status # "error",
           NEW x, IsNew(x, r, d), NEW f, Entered(d, r, f), Longer(d.heap, f.heap, x)
    PROVE  Counted(f)
  <1> DEFINE h == d.heap
             g == f.heap
             s == d.states
             t == f.states
  <1>1. /\ x.kind = r.kind /\ x.call = r.call /\ x.status # "error"
        /\ CountsAsTool(d, r) => x.counts = TRUE
        /\ ~IsCall(r) => x.failed = FALSE
    BY DEF IsNew
  <1>2. /\ NamedOf(h) \subseteq NamedOf(g)
        /\ IsCall(r) => NamedOf(g) = NamedOf(h) \cup {r.call}
        /\ ~IsCall(r) => NamedOf(g) = NamedOf(h)
    BY <1>1, AccountsGrow DEF IsCall
  <1>3. Len(h) \in Nat /\ Len(g) = Len(h) + 1 /\ g[Len(g)] = x /\ \A i \in 1..Len(h) : g[i] = h[i]
    BY LongerIs DEF Longer
  <1>4. /\ Distinct(s) /\ IsSeq(s) /\ Len(s) <= MaxTracked
        /\ \A k \in 1..Len(s) : IsStateOf(s[k], h)
        /\ IsSeq(d.tracked) /\ Len(d.tracked) <= MaxTracked
        /\ \A k \in 1..Len(d.tracked) : d.tracked[k].record \in 1..Len(h)
                                        /\ TrackedIsTool(d.tracked[k], h)
    BY DEF Counted, Remembers
  <1>5. /\ \A k \in 1..Len(s) : IsStateOf(s[k], g)
        /\ \A k \in 1..Len(d.tracked) : TrackedIsTool(d.tracked[k], g)
    BY <1>2, <1>3, <1>4 DEF IsStateOf, TrackedIsTool
  <1>6. IsFiniteSet(NamedOf(h)) /\ IsFiniteSet(NamedOf(g))
        /\ Cardinality(NamedOf(h)) \in Nat /\ Cardinality(NamedOf(g)) \in Nat
    BY BooksFinite, FS_CardinalityType DEF Longer
  <1>7. Cardinality(NamedOf(h)) <= Cardinality(NamedOf(g))
    BY <1>2, <1>6, FS_Subset
  <1>8. MaxTracked \in Nat
    BY LimitsAssumption
  <1>9. Cardinality(NamedOf(g)) <= MaxTracked => BooksAgree(h, s, d.tools, d.failures)
    BY <1>6, <1>7, <1>8 DEF Counted
  <1>10. f.failures = d.failures
    BY DEF Entered
  <1>11. CASE ~IsCall(r)
    <2>1. t = s /\ f.tracked = d.tracked
      BY <1>11 DEF Entered
    <2>2. Adds(h, x, s, t, d.tools, f.tools)
      <3>1. CASE r.kind # "tool"
        BY <1>1, <2>1, <3>1 DEF Adds, Entered, CountsAsTool
      <3>2. CASE r.kind = "tool"
        <4>1. r.call = NoCall /\ r.counted = TRUE
          BY <1>11, <3>2 DEF IsCall, Countable
        <4>2. CountsAsTool(d, r)
          BY <3>2, <4>1 DEF CountsAsTool, Known
        <4>3. f.tools = d.tools + 1
          BY <4>2 DEF Entered
        <4> QED  BY <1>1, <1>11, <2>1, <3>2, <4>1, <4>2, <4>3 DEF Adds
      <3> QED  BY <3>1, <3>2
    <2>3. Cardinality(NamedOf(g)) <= MaxTracked => BooksAgree(g, t, f.tools, f.failures)
      BY <1>9, <1>10, <2>2, BooksAdd
    <2> QED  BY <1>4, <1>5, <2>1, <2>3 DEF Counted
  <1>12. CASE IsCall(r)
    <2>1. PICK y, w : y = NewState(d, r) /\ w = NewTracked(d, r)
      OBVIOUS
    <2>2. t = Put(s, y) /\ f.tracked = Put(d.tracked, w)
      BY <1>12, <2>1 DEF Entered
    <2>3. r.kind = "tool" /\ r.call # NoCall
      BY <1>12 DEF IsCall
    <2>4. Known(s, r.call) => IsState(Get(s, r.call)) /\ Get(s, r.call).call = r.call
                              /\ r.call \in NamedOf(h)
      BY <1>4, GetIs DEF Known, IsStateOf
    <2>5. /\ IsState(y) /\ y.call = r.call
          /\ r.counted = TRUE => y.counts = TRUE
          /\ Known(s, r.call) => /\ y.failed = Get(s, r.call).failed
                                 /\ Get(s, r.call).counts = TRUE => y.counts = TRUE
          /\ ~Known(s, r.call) => y.failed = FALSE
      <3>1. StateGoes(d.states, r, y)
        BY <2>1, <2>4, NewStateIs
      <3> QED  BY <3>1 DEF StateGoes
    <2>6. Distinct(t) /\ (Find(s, y.call) # {} \/ Len(s) < MaxTracked => IsPut(s, t, y))
      BY <1>4, <2>2, PutIs
    <2>7. \A k \in 1..Len(t) : IsStateOf(t[k], g)
      <3>1. IsStateOf(y, g)
        BY <1>2, <1>12, <2>5 DEF IsStateOf
      <3>2. \A k \in 1..Len(t) : t[k] = y \/ \E j \in 1..Len(s) : t[k] = s[j]
        BY <1>4, <2>2, PutHas
      <3> QED  BY <1>5, <3>1, <3>2
    <2>8. \A k \in 1..Len(f.tracked) : TrackedIsTool(f.tracked[k], g)
      <3>1. w.call = r.call /\ w.record = Len(g)
        BY <1>3, <2>1 DEF NewTracked
      <3>2. TrackedIsTool(w, g)
        BY <1>1, <1>3, <2>3, <3>1 DEF TrackedIsTool
      <3>3. \A k \in 1..Len(f.tracked) : f.tracked[k] = w
                                         \/ \E j \in 1..Len(d.tracked) : f.tracked[k] = d.tracked[j]
        BY <1>4, <2>2, PutHas
      <3> QED  BY <1>5, <3>2, <3>3
    <2>9. ASSUME Cardinality(NamedOf(g)) <= MaxTracked
          PROVE  BooksAgree(g, t, f.tools, f.failures)
      <3>1. BooksAgree(h, s, d.tools, d.failures)
        BY <1>9, <2>9
      <3>2. CASE r.call \in NamedOf(h)
        <4>1. PICK i \in ToolsOf(h) : h[i].call = r.call
          BY <3>2 DEF NamedOf
        <4>2. Booked(h, s, i)
          BY <3>1 DEF BooksAgree
        <4>3. Known(s, r.call) /\ Get(s, r.call).counts = TRUE
          BY <2>3, <4>1, <4>2 DEF Booked, BookOf, Known
        <4>4. ~CountsAsTool(d, r)
          BY <4>3 DEF CountsAsTool
        <4>5. f.tools = d.tools
          BY <4>4 DEF Entered
        <4>6. IsPut(s, t, y)
          BY <2>5, <2>6, <4>3 DEF Known
        <4>7. Noted(y, x.call) /\ y.failed = Get(s, x.call).failed
          BY <1>1, <2>5, <4>3 DEF Noted
        <4>8. Adds(h, x, s, t, d.tools, f.tools)
          BY <1>1, <2>3, <3>2, <4>5, <4>6, <4>7 DEF Adds
        <4> QED  BY <1>10, <3>1, <4>8, BooksAdd
      <3>3. CASE r.call \notin NamedOf(h)
        <4>1. ~Known(s, r.call) /\ r.counted = TRUE
          BY <2>3, <2>4, <3>3 DEF Countable
        <4>2. CountsAsTool(d, r)
          BY <2>3, <4>1 DEF CountsAsTool
        <4>3. f.tools = d.tools + 1
          BY <4>2 DEF Entered
        <4>4. Len(s) < MaxTracked
          <5>1. Cardinality(NamedOf(h) \cup {r.call}) = Cardinality(NamedOf(h)) + 1
            BY <1>6, <3>3, FS_AddElement
          <5>2. \A k \in 1..Len(s) : s[k].call \in NamedOf(h)
            BY <1>4 DEF IsStateOf
          <5>3. Len(s) <= Cardinality(NamedOf(h))
            BY <1>4, <1>6, <5>2, DistinctFits
          <5>4. Len(s) \in Nat
            BY <1>4, SeqDomain
          <5>5. Cardinality(NamedOf(g)) = Cardinality(NamedOf(h)) + 1
            BY <1>2, <1>12, <5>1
          <5> QED  BY <1>6, <1>8, <2>9, <5>3, <5>4, <5>5
        <4>5. IsPut(s, t, y)
          BY <2>6, <4>4
        <4>6. Noted(y, x.call) /\ y.failed = FALSE
          BY <1>1, <2>5, <4>1 DEF Noted
        <4>7. Adds(h, x, s, t, d.tools, f.tools)
          BY <1>1, <2>3, <3>3, <4>3, <4>5, <4>6 DEF Adds
        <4> QED  BY <1>10, <3>1, <4>7, BooksAdd
      <3> QED  BY <3>2, <3>3
    <2> QED  BY <2>6, <2>7, <2>8, <2>9 DEF Counted
  <1> QED  BY <1>11, <1>12

\* A projection with one more record.
Grown(d, f) ==
    /\ f.active /\ Len(f.heap) = Len(d.heap) + 1
    /\ \A i \in 1..Len(d.heap) : f.heap[i] = d.heap[i]
    /\ Len(f.heap) \in f.dirty /\ d.dirty \subseteq f.dirty
    /\ f.pending = d.pending /\ f.lastRecord = d.lastRecord
    /\ f.lastTurn = d.lastTurn

\* And what of the draft the new record shows.
Added(d, f, r) ==
    /\ Grown(d, f) /\ f.step = d.step
    /\ f.heap[Len(f.heap)].turn = Len(f.turns)
    /\ f.heap[Len(f.heap)].marker = r.inherited
    /\ f.heap[Len(f.heap)].kind = r.kind
    /\ f.heap[Len(f.heap)].call = r.call
    /\ f.heap[Len(f.heap)].status = r.status
    /\ f.heap[Len(f.heap)].final = FALSE
    /\ f.heap[Len(f.heap)].outputFinal = FALSE

LEMMA AddRecordGoes ==
    ASSUME NEW d0, NEW X, Good(d0, X), NEW r, IsDraft(r, d0), NEW f, f = AddRecord(d0, r)
    PROVE  Good(f, X) /\ Goes(d0, f) /\ Added(d0, f, r)
  <1> DEFINE d1 == EnsureTurn(d0, None)
             d  == Identify(d1, r.id, IF r.inherited THEN NoCall ELSE r.call)
             n  == Len(d.heap) + 1
  <1>1. /\ Running(d1) /\ TurnsGo(d0, d1) /\ Same(d0, d1, TurnParts)
        /\ d1.active /\ d1.step = d0.step
    BY GoodFacts, EnsureTurnGoes
  <1>2. Good(d1, X) /\ Goes(d0, d1) /\ d1.heap = d0.heap
    BY <1>1, TurnsAlone
  <1>3. d1.ambiguous \in BOOLEAN
    BY <1>2 DEF Good, Unsalted
  <1>4. /\ Shape(d) /\ Same(d1, d, {"ambiguous", "names"})
        /\ r.id \in d.names /\ d1.names \subseteq d.names /\ d.ambiguous \in BOOLEAN
        /\ d.ambiguous \/ (~d1.ambiguous /\ r.id \notin d1.names)
    BY <1>1, <1>3, IdentifyIs DEF Running
  <1>5. f = Retain(Track(Appended(d, r), n), n)
    BY AddRecordIs
  <1> HIDE DEF d1, d
  <1>6. /\ d.turns = d1.turns /\ d.active = d1.active /\ d.step = d1.step
        /\ d.heap = d1.heap /\ d.tracked = d1.tracked /\ d.states = d1.states
        /\ d.pending = d1.pending /\ d.lastRecord = d1.lastRecord
        /\ d.lastTurn = d1.lastTurn /\ d.dirty = d1.dirty /\ d.stored = d1.stored
        /\ d.visible = d1.visible /\ SameCall(d1, d) /\ d.samples = d1.samples
        /\ d.kept = d1.kept /\ d.owners = d1.owners /\ d.given = d1.given
    BY <1>4 DEF Same, Fields, SameCall
  <1>0. PICK e, x : e = Appended(d, r) /\ x = NewRecord(d, r)
    OBVIOUS
  <1>N. IsNew(x, r, d)
    BY <1>0, NewRecordIs
  <1> DEFINE t == Len(d1.turns)
             u == CountedTurn(d1.turns[t])
             g == Track(e, n)
  <1>A. AppendFits(d, r, e)
    BY <1>0, <1>4, AppendedIs
  <1> DEFINE st == e.states
             tr == e.tracked
             w  == NewTracked(d, r)
  <1>7. /\ Shape(e) /\ e.heap = Append(d1.heap, x)
        /\ st = d1.states \/ st = Put(d1.states, NewState(d, r))
        /\ tr = d1.tracked \/ tr = Put(d1.tracked, w)
        /\ Entered(d, r, e)
        /\ e.turns = [d1.turns EXCEPT ![t] = u]
        /\ Same(d, e, {"heap", "states", "tracked", "tools", "compactions", "turns"})
    BY <1>0, <1>A, <1>6 DEF AppendFits, Entered, Turn
  <1>8. Shape(g) /\ g.dirty = e.dirty \cup {n} /\ Same(e, g, {"dirty", "refs"})
    BY <1>7 DEF Track, Shape, Fields, Same
  <1>9. /\ Shape(f) /\ Same(g, f, {"kept", "visible", "owners"})
        /\ f.visible \subseteq g.visible \cup {g.heap[n].id}
    BY <1>0, <1>5, <1>8, RetainIs
  <1> HIDE DEF g
  <1>10. /\ f.heap = Append(d1.heap, x) /\ f.states = st /\ f.tracked = tr
         /\ f.turns = [d1.turns EXCEPT ![t] = u]
         /\ f.active = d1.active /\ f.step = d1.step
         /\ f.pending = d1.pending /\ f.lastRecord = d1.lastRecord
         /\ f.lastTurn = d1.lastTurn /\ f.dirty = d1.dirty \cup {n}
         /\ f.stored = d1.stored /\ f.names = d.names /\ f.ambiguous = d.ambiguous
         /\ g.visible = d1.visible /\ g.heap = f.heap /\ f.samples = d1.samples
         /\ f.tools = e.tools /\ f.failures = e.failures
    BY SMTT(60), <1>6, <1>7, <1>8, <1>9 DEF Same, Fields
  <1>11. SameCall(d1, f)
    BY <1>6, <1>7, <1>8, <1>9 DEF Same, Fields, SameCall
  <1>12. IsSeq(d1.heap) /\ Len(d1.heap) \in Nat /\ n = Len(d1.heap) + 1
    BY <1>2, <1>6, GoodFacts DEF Good, Recorded
  <1> HIDE DEF n
  <1>13. /\ IsSeq(f.heap) /\ Len(f.heap) = n /\ f.heap[n] = x
         /\ \A i \in 1..Len(d1.heap) : f.heap[i] = d1.heap[i]
    BY <1>10, <1>12, AppendAny
  <1>14. t \in 1..Len(d1.turns) /\ Len(d1.turns) \in Nat
    BY <1>1, RunningFacts
  <1>15. IsTurn(d1.turns[t])
    BY <1>1, <1>14 DEF Running, TurnsRun
  <1>16. /\ IsTurn(u) /\ u.status = d1.turns[t].status /\ u.steps = d1.turns[t].steps
         /\ u.calls = d1.turns[t].calls
    BY <1>15 DEF IsTurn, TurnFields, CountedTurn
  <1> HIDE DEF u
  <1>17. u.steps \in Nat /\ d1.turns[t].steps <= u.steps /\ d1.step \in Nat
    BY <1>1, <1>15, <1>16 DEF IsTurn, Running, TurnsRun
  <1>18. Running(f) /\ TurnsGo(d1, f) /\ Len(f.turns) = Len(d1.turns)
    <2> HIDE DEF t
    <2>1. f.step \in Nat /\ f.step = d1.step /\ Shape(f) /\ f.active = d1.active
          /\ f.turns = [d1.turns EXCEPT ![t] = u]
      BY <1>9, <1>10, <1>17
    <2>2. u.status = d1.turns[t].status /\ d1.turns[t].steps <= u.steps /\ IsTurn(u)
          /\ u.calls = d1.turns[t].calls
      BY <1>16, <1>17
    <2>3. Running(d1) /\ t \in 1..Len(d1.turns)
      BY <1>1, <1>14
    <2> QED  BY <2>1, <2>2, <2>3, TurnChanged
  <1>19. x.status # "error" /\ IsRecord(x) /\ x.turn = t
    <2>1. r.status \in {"running", "complete"} /\ r.kind \in Kinds /\ r.step \in Nat
      BY DEF IsDraft
    <2>2. x.turn = t
      BY <1>N, <1>6 DEF IsNew, Turn
    <2> QED  BY <1>N, <2>1, <2>2 DEF IsNew, IsRecord
  <1>20. RecordFits(x, f)
    <2>1. CASE r.inherited
      BY <1>N, <1>14, <1>18, <1>19, <2>1 DEF IsNew, RecordFits
    <2>2. CASE r.step = 0
      <3>1. f.turns[t].steps \in Nat
        BY <1>14, <1>18 DEF Running, TurnsRun, IsTurn
      <3>2. x.step = 0
        BY <1>N, <2>2 DEF IsNew
      <3> QED  BY <1>14, <1>18, <1>19, <3>1, <3>2 DEF RecordFits
    <2>3. CASE d0.active /\ r.step <= d0.turns[Len(d0.turns)].steps
      <3>1. Running(d0) /\ Len(d0.turns) \in 1..Len(d0.turns)
        BY <2>3, GoodFacts, RunningFacts
      <3>2. Len(d0.turns) = t
        <4>1. d1 = [d0 EXCEPT !.turns[Turn(d0)].id = IF @ = None THEN None ELSE @]
          BY <2>3 DEF d1, EnsureTurn
        <4>2. PICK z : d1 = [d0 EXCEPT !.turns = [d0.turns EXCEPT ![Turn(d0)] = z]]
          BY <4>1
        <4>3. d1.turns = [d0.turns EXCEPT ![Turn(d0)] = z]
          BY <3>1, <4>2 DEF Running, Shape, Fields
        <4>4. IsSeq(d0.turns)
          BY <3>1 DEF Running, TurnsRun
        <4> QED  BY <3>1, <4>3, <4>4, ExceptAny DEF Turn
      <3>3. d0.turns[t].steps <= f.turns[t].steps /\ t \in 1..Len(d0.turns)
        <4>1. Running(d1) /\ Running(d0) /\ TurnsGo(d0, f)
          BY <1>1, <1>18, <3>1, TurnsGoOn
        <4> QED  BY <3>1, <3>2, <4>1 DEF TurnsGo, TurnsStay
      <3>4. d0.turns[t].steps \in Nat /\ f.turns[t].steps \in Nat
        BY <1>14, <1>18, <3>1, <3>3 DEF Running, TurnsRun, IsTurn
      <3>5. x.step = r.step /\ r.step \in Nat
        BY <1>N DEF IsNew, IsDraft
      <3>6. x.step <= f.turns[t].steps
        <4> HIDE DEF t
        <4> QED  BY <2>3, <3>2, <3>3, <3>4, <3>5
      <3> QED  BY <1>14, <1>18, <1>19, <3>6 DEF RecordFits
    <2> QED  BY <2>1, <2>2, <2>3 DEF IsDraft
  <1>21. ASSUME NEW i \in 1..n
         PROVE  IsRecord(f.heap[i]) /\ RecordFits(f.heap[i], f)
    <2>1. CASE i = n
      BY <1>13, <1>19, <1>20, <2>1
    <2>2. CASE i # n
      <3>1. i \in 1..Len(d1.heap)
        BY <1>12, <2>2
      <3>2. IsRecord(d1.heap[i]) /\ RecordFits(d1.heap[i], d1)
        BY <1>2, <3>1, GoodFacts
      <3>3. RecordFits(d1.heap[i], f)
        BY <1>1, <1>18, <3>2, StillFits DEF TurnsGo
      <3> QED  BY <1>13, <3>1, <3>2, <3>3
    <2> QED  BY <2>1, <2>2
  <1>22. Recorded(f)
    <2>1. d1.pending \in 0..Len(d1.heap) /\ d1.lastRecord \in 0..Len(d1.heap)
          /\ d1.lastTurn \in 0..Len(d1.turns)
      BY <1>2 DEF Good, Recorded
    <2>2. f.pending \in 0..Len(f.heap) /\ f.lastRecord \in 0..Len(f.heap)
      BY <1>10, <1>12, <1>13, <2>1
    <2> QED  BY <1>10, <1>13, <1>18, <1>21, <2>1, <2>2 DEF Recorded
  <1>23. Remembers(f)
    <2>1. /\ IsSeq(d1.tracked) /\ Len(d1.tracked) <= MaxTracked
          /\ IsSeq(d1.states) /\ Len(d1.states) <= MaxTracked
          /\ \A k \in 1..Len(d1.tracked) : d1.tracked[k].record \in 1..Len(d1.heap)
      BY <1>2 DEF Good, Remembers
    <2>2. IsSeq(st) /\ Len(st) <= MaxTracked
      BY <1>7, <2>1, PutKeeps
    <2>3. tr = d1.tracked \/ tr = Put(d1.tracked, w)
      BY <1>7
    <2>4. w.record = n
      BY DEF n, NewTracked
    <2> HIDE DEF w, tr
    <2>5. n \in 1..n /\ 1..Len(d1.heap) \subseteq 1..n
      BY <1>12
    <2>6. /\ IsSeq(tr) /\ Len(tr) <= MaxTracked
          /\ \A k \in 1..Len(tr) : tr[k] = w \/ \E j \in 1..Len(d1.tracked) : tr[k] = d1.tracked[j]
      BY <2>1, <2>3, PutKeeps
    <2>7. \A k \in 1..Len(tr) : tr[k].record \in 1..n
      BY <2>1, <2>4, <2>5, <2>6
    <2> QED  BY <1>10, <1>13, <2>2, <2>6, <2>7 DEF Remembers
  <1>24. Indexed(f, X)
    <2> SUFFICES ASSUME NEW i \in 1..n, i \notin f.dirty, i \notin X
                 PROVE  f.stored[i] = f.heap[i]
      BY <1>13 DEF Indexed
    <2>1. i \in 1..Len(d1.heap) /\ i \notin d1.dirty
      BY <1>10, <1>12
    <2> QED  BY <1>2, <1>10, <1>13, <2>1 DEF Good, Indexed
  <1>25. Unsalted(f)
    <2>1. f.ambiguous \in BOOLEAN
      BY <1>4, <1>10
    <2>2. CASE f.ambiguous
      BY <2>1, <2>2 DEF Unsalted
    <2>3. CASE ~f.ambiguous
      <3>1. ~d1.ambiguous /\ r.id \notin d1.names
        BY <1>4, <1>10, <2>3
      <3>2. /\ d1.visible \subseteq d1.names
            /\ \A i \in 1..Len(d1.heap) : d1.heap[i].id[1] # "salted"
        BY <1>2, <3>1 DEF Good, Unsalted
      <3>3. x.id = r.id
        BY <1>N, <1>6, <3>1, <3>2 DEF IsNew, RecordId
      <3>4. f.visible \subseteq f.names
        BY <1>4, <1>9, <1>10, <1>13, <3>2, <3>3
      <3>5. ASSUME NEW i \in 1..n PROVE f.heap[i].id[1] # "salted"
        <4>1. CASE i = n
          BY <1>13, <3>3, <4>1, NamesAre DEF IsDraft
        <4>2. CASE i # n
          <5>1. i \in 1..Len(d1.heap)
            BY <1>12, <4>2
          <5> QED  BY <1>13, <3>2, <5>1
        <4> QED  BY <4>1, <4>2
      <3> QED  BY <1>13, <2>1, <3>4, <3>5 DEF Unsalted
    <2> QED  BY <2>2, <2>3
  <1>S. Sampled(f)
    BY <1>1, <1>2, <1>10, <1>18, StillSampled DEF Good
  <1>P. PageFits(f) /\ NamesFit(f)
    <2>1. d1.heap = d0.heap /\ d1.event = d0.event
      BY <1>1 DEF Same, TurnParts, Fields
    <2>2. PICK id : id = r.id
      OBVIOUS
    <2>3. MayName(d1, id)
      BY <2>1, <2>2 DEF IsDraft, MayName, NewName, EventIsNew, AtEvent
    <2>4. /\ g.kept = d1.kept /\ g.owners = d1.owners /\ g.visible = d1.visible
          /\ g.limit = d1.limit /\ g.before = d1.before /\ g.event = d1.event
          /\ g.given = d1.given
      BY <1>6, <1>7, <1>8, <1>10 DEF Same, Fields, SameCall
    <2>5. x.id = RecordId(d1, id)
      BY <1>N, <1>6, <2>2 DEF IsNew, RecordId
    <2>6. OneLonger(d1, g, id)
      BY <1>8, <1>10, <1>12, <1>13, <2>4, <2>5 DEF OneLonger
    <2>7. f = Retain(g, Len(g.heap))
      BY <1>0, <1>5, <1>10, <1>13 DEF g
    <2> QED  BY <1>2, <2>3, <2>6, <2>7, PageGrows DEF Good
  <1>C. Counted(f)
    <2>1. d.tools = d1.tools /\ d.failures = d1.failures /\ d1.heap = d0.heap
      BY <1>1, <1>4 DEF Same, TurnParts, Fields
    <2>2. Counted(d) /\ Remembers(d)
      BY <1>2, <1>6, <2>1 DEF Good, Counted, Remembers
    <2>3. Countable(d, r) /\ r.status # "error"
      BY <1>6, <2>1 DEF IsDraft, Countable
    <2>4. Entered(d, r, f)
      BY <1>7, <1>10 DEF Entered
    <2>5. Longer(d.heap, f.heap, x)
      BY <1>6, <1>12, <1>13 DEF Longer
    <2> QED  BY <1>N, <2>2, <2>3, <2>4, <2>5, CountedGrows
  <1>26. Good(f, X)
    BY <1>18, <1>22, <1>23, <1>24, <1>25, <1>S, <1>P, <1>C DEF Good
  <1>27. Goes(d1, f)
    <2>1. RecordsGo(d1, f)
      BY <1>12, <1>13, StaysItself DEF RecordsGo
    <2> QED  BY <1>11, <1>18, <2>1 DEF Goes, TurnsGo
  <1>28. Goes(d0, f)
    BY <1>2, <1>26, <1>27, GoesOn
  <1>29. /\ d1.pending = d0.pending /\ d1.lastRecord = d0.lastRecord
         /\ d1.lastTurn = d0.lastTurn /\ d1.dirty = d0.dirty
    BY <1>1 DEF Same, TurnParts, Fields
  <1>30. f.active /\ f.step = d0.step
    BY <1>1, <1>10
  <1>31. Len(f.heap) = Len(d0.heap) + 1 /\ \A i \in 1..Len(d0.heap) : f.heap[i] = d0.heap[i]
    BY <1>2, <1>12, <1>13
  <1>32. f.heap[Len(f.heap)].turn = Len(f.turns)
    BY <1>13, <1>18, <1>19
  <1>33. /\ f.heap[Len(f.heap)].marker = r.inherited
         /\ f.heap[Len(f.heap)].kind = r.kind
         /\ f.heap[Len(f.heap)].call = r.call
         /\ f.heap[Len(f.heap)].status = r.status
         /\ f.heap[Len(f.heap)].final = FALSE
         /\ f.heap[Len(f.heap)].outputFinal = FALSE
    BY <1>N, <1>13 DEF IsNew
  <1>34. Len(f.heap) \in f.dirty /\ d0.dirty \subseteq f.dirty
    BY <1>10, <1>13, <1>29
  <1>35. /\ f.pending = d0.pending /\ f.lastRecord = d0.lastRecord
         /\ f.lastTurn = d0.lastTurn
    BY <1>10, <1>29
  <1> QED  BY <1>26, <1>28, <1>30, <1>31, <1>32, <1>33, <1>34, <1>35
           DEF Added, Grown

-----------------------------------------------------------------------------
(* How a record changes.                                                   *)

\* One record changed, and the index knows.
Touched(d, e, i) ==
    /\ Same(d, e, Touches) /\ Len(e.heap) = Len(d.heap)
    /\ \A j \in 1..Len(d.heap) : j # i => e.heap[j] = d.heap[j]
    /\ d.dirty \subseteq e.dirty /\ i \in e.dirty

\* Record i becomes x, and one call may have become the latest.
Changes(d, e, i, x) ==
    /\ IsRecord(x) /\ RecordStays(d.heap[i], x) /\ x.id = d.heap[i].id
    /\ Shape(e) /\ e.heap = SetAt(d.heap, i, x) /\ Same(d, e, Touches)
    /\ e.dirty = d.dirty \cup {i}
    /\ e.states = d.states \/ \E y : e.states = Put(d.states, y)

LEMMA ChangeGoes ==
    ASSUME NEW d, NEW X, Good(d, X), NEW i \in 1..Len(d.heap), NEW x, NEW e,
           Changes(d, e, i, x), Counted(e)
    PROVE  /\ Good(e, X \ {i}) /\ Goes(d, e) /\ Touched(d, e, i)
           /\ Replaced(d.heap, e.heap, i, x)
  <1>1. IsSeq(d.states) /\ Len(d.states) <= MaxTracked
    BY DEF Good, Remembers
  <1>2. IsSeq(e.states) /\ Len(e.states) <= MaxTracked
    BY <1>1, PutKeeps DEF Changes
  <1>3. X \cup {i} \subseteq (X \ {i}) \cup e.dirty /\ d.dirty \subseteq e.dirty
    BY DEF Changes
  <1>6. Takes(e, X, i, X \ {i})
    BY <1>3 DEF Takes
  <1>4. Changed(d, e, i, x)
    BY <1>2, <1>3 DEF Changed, Changes
  <1>5. Good(e, X \ {i}) /\ Goes(d, e) /\ Replaced(d.heap, e.heap, i, x)
    BY <1>6, <1>4, RecordChanged
  <1> QED  BY <1>3, <1>5 DEF Replaced, Touched, Changes

LEMMA TouchedTwice ==
    ASSUME NEW d, NEW e, NEW f, NEW i, Touched(d, e, i), Touched(e, f, i)
    PROVE  Touched(d, f, i)
  <1>1. Same(d, f, Touches)
    BY DEF Touched, Same
  <1> QED  BY <1>1 DEF Touched

AsFailed(r, new, message) ==
    [r EXCEPT !.status = "error", !.failed = r.failed \/ new,
              !.error = IF r.error = "none" THEN message ELSE r.error]
AsComplete(r) == [r EXCEPT !.status = "complete"]

\* What a record is of, a change that ends it does not touch.
LEMMA EndedRecord ==
    ASSUME NEW r, IsRecord(r), NEW at, NEW x, x = [r EXCEPT !.ended = at]
    PROVE  IsRecord(x) /\ RecordStays(r, x) /\ SameAccount(r, x) /\ x.id = r.id
  BY DEF IsRecord, RecordFields, RecordStays, SameAccount

LEMMA FinishTimingGoes ==
    ASSUME NEW d, NEW X, Good(d, X), NEW i \in 1..Len(d.heap),
           NEW e, e = FinishTiming(d, i)
    PROVE  Good(e, X \ {i}) /\ Goes(d, e) /\ Touched(d, e, i)
  <1>1. Shape(d) /\ IsRecord(d.heap[i])
    BY GoodFacts
  <1>2. PICK x : x = [d.heap[i] EXCEPT !.ended = d.event]
    OBVIOUS
  <1>3. /\ IsRecord(x) /\ RecordStays(d.heap[i], x) /\ x.id = d.heap[i].id
        /\ SameAccount(d.heap[i], x)
    BY <1>1, <1>2, EndedRecord
  <1>4. e = [Track(d, i) EXCEPT !.heap = [Track(d, i).heap EXCEPT ![i] =
                                   [Track(d, i).heap[i] EXCEPT !.ended = d.event]]]
    BY DEF FinishTiming
  <1>5. Shape(Track(d, i)) /\ Track(d, i).heap = d.heap /\ Track(d, i).dirty = d.dirty \cup {i}
        /\ Same(d, Track(d, i), {"dirty", "refs"})
    BY <1>1 DEF Track, Shape, Fields, Same
  <1> HIDE DEF Track
  <1>6. /\ Shape(e) /\ e.heap = SetAt(d.heap, i, x) /\ Same(d, e, Touches)
        /\ e.dirty = d.dirty \cup {i} /\ e.states = d.states /\ e.failures = d.failures
    <2> DEFINE t == Track(d, i)
    <2>1. e = [t EXCEPT !.heap = SetAt(d.heap, i, x)]
      BY <1>2, <1>4, <1>5 DEF SetAt
    <2>2. /\ Shape(t) /\ t.heap = d.heap /\ t.dirty = d.dirty \cup {i}
          /\ Same(d, t, {"dirty", "refs"})
      BY <1>5
    <2> HIDE DEF t
    <2> QED  BY <2>1, <2>2 DEF Shape, Fields, Same, Touches
  <1>7. Changes(d, e, i, x)
    BY <1>3, <1>6 DEF Changes
  <1>8. Counted(e)
    BY <1>3, <1>6, StillCounted
  <1> QED  BY <1>7, <1>8, ChangeGoes

LEMMA FailedRecord ==
    ASSUME NEW r, IsRecord(r), NEW new, NEW message, message # "none",
           NEW x, x = AsFailed(r, new, message)
    PROVE  /\ IsRecord(x) /\ RecordStays(r, x) /\ x.id = r.id
           /\ x.status = "error" /\ x.counts = r.counts /\ x.failed = (r.failed \/ new)
  BY DEF AsFailed, IsRecord, RecordFields, RecordStays

\* What a failure of record i, a tool that becomes x, leaves to count.
Notes(d, i, x, st, fs) ==
    /\ x.kind = "tool" /\ x.call = d.heap[i].call /\ x.counts = d.heap[i].counts
    /\ x.status = "error"
    /\ st = d.states \/ \E k : st = Put(d.states, k) /\ IsStateOf(k, d.heap)
                                /\ k.call = x.call /\ Known(d.states, x.call)
    /\ BooksAgree(d.heap, d.states, d.tools, d.failures)
         => Fails(d.heap, i, x, d.states, st, d.failures, fs)

LEMMA FailureCounted ==
    ASSUME NEW d, Counted(d), Remembers(d), IsSeq(d.heap), NEW i \in 1..Len(d.heap),
           d.heap[i].kind = "tool", NEW x, NEW e, Notes(d, i, x, e.states, e.failures),
           Replaced(d.heap, e.heap, i, x), e.tracked = d.tracked, e.tools = d.tools
    PROVE  Counted(e)
  <1>1. i \in ToolsOf(d.heap)
    BY DEF ToolsOf
  <1>2. /\ Len(e.heap) = Len(d.heap)
        /\ \A j \in 1..Len(d.heap) : /\ e.heap[j].kind = d.heap[j].kind
                                     /\ e.heap[j].call = d.heap[j].call
    BY DEF Replaced, Notes
  <1>3. ToolsOf(e.heap) = ToolsOf(d.heap) /\ \A j \in ToolsOf(d.heap) : j \in 1..Len(d.heap)
    BY <1>2 DEF ToolsOf
  <1>4. NamedOf(e.heap) = NamedOf(d.heap)
    BY <1>2, <1>3 DEF NamedOf
  <1>5. /\ Distinct(d.states) /\ IsSeq(d.states) /\ Len(d.states) <= MaxTracked
        /\ \A k \in 1..Len(d.states) : IsStateOf(d.states[k], e.heap)
    BY <1>4 DEF Counted, Remembers, IsStateOf
  <1>6. Distinct(e.states) /\ \A k \in 1..Len(e.states) : IsStateOf(e.states[k], e.heap)
    <2>1. CASE e.states = d.states
      BY <1>5, <2>1
    <2>2. CASE e.states # d.states
      <3>1. PICK k : e.states = Put(d.states, k) /\ IsStateOf(k, e.heap)
        BY <1>4, <2>2 DEF Notes, IsStateOf
      <3>2. Distinct(e.states)
        BY <1>5, <3>1, PutIs
      <3>3. \A m \in 1..Len(e.states) : e.states[m] = k
                                        \/ \E j \in 1..Len(d.states) : e.states[m] = d.states[j]
        BY <1>5, <3>1, PutKeeps
      <3> QED  BY <1>5, <3>1, <3>2, <3>3
    <2> QED  BY <2>1, <2>2
  <1>7. ASSUME NEW k \in 1..Len(d.tracked)
        PROVE  TrackedIsTool(d.tracked[k], e.heap)
    <2>1. TrackedIsTool(d.tracked[k], d.heap) /\ d.tracked[k].record \in 1..Len(d.heap)
      BY DEF Counted, Remembers
    <2> QED  BY <1>2, <2>1 DEF TrackedIsTool
  <1>8. ASSUME BooksAgree(d.heap, d.states, d.tools, d.failures)
        PROVE  BooksAgree(e.heap, e.states, e.tools, e.failures)
    <2>1. Fails(d.heap, i, x, d.states, e.states, d.failures, e.failures)
      BY <1>8 DEF Notes
    <2> QED  BY <1>1, <1>8, <2>1, BooksFail
  <1> QED  BY <1>4, <1>6, <1>7, <1>8 DEF Counted

LEMMA KnownIsNamed ==
    ASSUME NEW d, Counted(d), Remembers(d), NEW c, Known(d.states, c)
    PROVE  c # NoCall /\ c \in NamedOf(d.heap) /\ IsStateOf(Get(d.states, c), d.heap)
           /\ Get(d.states, c).call = c
  <1>1. c # NoCall /\ Find(d.states, c) # {} /\ IsSeq(d.states)
    BY DEF Known, Remembers
  <1>2. PICK k \in 1..Len(d.states) : Get(d.states, c) = d.states[k] /\ d.states[k].call = c
    BY <1>1, GetIs
  <1>3. IsStateOf(d.states[k], d.heap)
    BY DEF Counted
  <1> QED  BY <1>1, <1>2, <1>3 DEF IsStateOf

LEMMA MarkErrorGoes ==
    ASSUME NEW d, NEW X, Good(d, X), NEW i \in 1..Len(d.heap), d.heap[i].kind = "tool",
           NEW message, message # "none", NEW e, e = MarkError(d, i, message)
    PROVE  Good(e, X \ {i}) /\ Goes(d, e) /\ Touched(d, e, i)
  <1> DEFINE r      == d.heap[i]
             known  == Known(d.states, r.call)
             state  == Get(d.states, r.call)
             counts == IF known THEN state.counts ELSE r.counts
             failed == IF known THEN state.failed ELSE r.failed
             new    == counts /\ ~failed
             k      == [state EXCEPT !.failed = TRUE]
             t      == Track(d, i)
  <1>1. Shape(d) /\ IsRecord(r)
    BY GoodFacts
  <1>2. PICK x : x = AsFailed(r, new, message)
    OBVIOUS
  <1>V. PICK v : v = new
    OBVIOUS
  <1>3. /\ IsRecord(x) /\ RecordStays(r, x) /\ x.id = r.id
        /\ x.status = "error" /\ x.counts = r.counts /\ x.failed = (r.failed \/ v)
    <2>1. x = AsFailed(r, v, message)
      <3> HIDE DEF r, new
      <3> QED  BY <1>2, <1>V
    <2> HIDE DEF r, new
    <2> QED  BY <1>1, <2>1, FailedRecord
  <1>4. Shape(t) /\ t.heap = d.heap /\ t.dirty = d.dirty \cup {i}
        /\ Same(d, t, {"dirty", "refs"})
    BY <1>1 DEF Track, Shape, Fields, Same
  <1>5. t.failures = d.failures /\ t.states = d.states
    BY <1>4 DEF Same, Fields
  <1>6. e = [t EXCEPT !.heap = SetAt(t.heap, i, x),
                      !.failures = IF new THEN t.failures + 1 ELSE t.failures,
                      !.states = IF new /\ known THEN Put(t.states, k) ELSE t.states]
    BY <1>2 DEF MarkError, SetAt, AsFailed
  <1>7. PICK fs, st : /\ fs = IF new THEN t.failures + 1 ELSE t.failures
                      /\ st = IF new /\ known THEN Put(t.states, k) ELSE t.states
    OBVIOUS
  <1>8. st = d.states \/ \E y : st = Put(d.states, y)
    BY <1>5, <1>7
  <1>9. e = [t EXCEPT !.heap = SetAt(t.heap, i, x), !.failures = fs, !.states = st]
    BY <1>6, <1>7
  <1> HIDE DEF t
  <1>10. /\ Shape(e) /\ e.heap = SetAt(d.heap, i, x) /\ Same(d, e, Touches)
         /\ e.dirty = d.dirty \cup {i} /\ e.states = st /\ e.failures = fs
    <2> HIDE DEF r, new, known, state, counts, failed, k
    <2>1. PICK hp : hp = SetAt(t.heap, i, x)
      OBVIOUS
    <2>2. e = [t EXCEPT !.heap = hp, !.failures = fs, !.states = st]
      BY <1>9, <2>1
    <2>3. /\ Shape(e) /\ e.heap = hp /\ e.states = st /\ e.dirty = t.dirty
          /\ Same(t, e, Touches) /\ e.failures = fs
      BY <1>4, <2>2 DEF Shape, Fields, Same, Touches
    <2>4. Same(d, e, Touches)
      BY <1>4, <2>3 DEF Fields, Same, Touches
    <2> QED  BY <1>4, <2>1, <2>3, <2>4
  <1>11. Changes(d, e, i, x)
    BY <1>3, <1>8, <1>10 DEF Changes
  <1>12. Counted(d) /\ Remembers(d) /\ IsSeq(d.heap)
    BY DEF Good, Recorded
  <1>13. known => /\ r.call # NoCall /\ IsStateOf(state, d.heap) /\ state.call = r.call
    BY <1>12, KnownIsNamed
  <1>14. known => /\ IsStateOf(k, d.heap) /\ k.call = r.call /\ k.counts = state.counts
                  /\ k.failed = TRUE
    <2> HIDE DEF known, state, r
    <2> QED  BY <1>13 DEF IsStateOf, IsState, StateFields
  <1>15. x.kind = "tool" /\ x.call = r.call
    BY <1>3 DEF RecordStays
  <1>16. st = d.states \/ \E y : st = Put(d.states, y) /\ IsStateOf(y, d.heap)
                                 /\ y.call = x.call /\ Known(d.states, x.call)
    <2>1. (new /\ known) \/ st = d.states
      BY <1>5, <1>7
    <2>2. new /\ known => st = Put(d.states, k)
      BY <1>5, <1>7
    <2>3. known => Known(d.states, x.call)
      BY <1>15
    <2> HIDE DEF new, known, k, r
    <2> QED  BY <1>14, <1>15, <2>1, <2>2, <2>3
  <1>17. ASSUME BooksAgree(d.heap, d.states, d.tools, d.failures)
         PROVE  Fails(d.heap, i, x, d.states, st, d.failures, fs)
    <2> DEFINE a == Account(d.heap, i)
    <2>1. Booked(d.heap, d.states, i)
      BY <1>17 DEF BooksAgree, ToolsOf
    <2>2. known <=> r.call # NoCall
      BY <2>1 DEF Booked, Known
    <2>3. counts = TRUE /\ failed = IF a \in FailedOf(d.heap) THEN TRUE ELSE FALSE
      <3>1. BookOf(d.heap, d.states, i) = IF known THEN state ELSE r
        BY <2>2 DEF BookOf
      <3> HIDE DEF known, state, r
      <3> QED  BY <2>1, <3>1 DEF Booked
    <2>4. new <=> a \notin FailedOf(d.heap)
      <3> HIDE DEF counts, failed, a
      <3> QED  BY <2>3
    <2>5. /\ new => fs = d.failures + 1
          /\ ~new => fs = d.failures /\ st = d.states
          /\ new /\ known => st = Put(d.states, k)
          /\ ~known => st = d.states
      <3> HIDE DEF new, known, k
      <3> QED  BY <1>5, <1>7
    <2>6. new => v = TRUE
      <3> HIDE DEF new
      <3> QED  BY <1>V
    <2>7. ~new => v = FALSE
      <3> HIDE DEF counts, failed
      <3>1. new \in BOOLEAN
        OBVIOUS
      <3> HIDE DEF new
      <3> QED  BY <1>V, <3>1
    <2>8. a \notin FailedOf(d.heap) => x.failed = TRUE
      <3> HIDE DEF new, a, r
      <3> QED  BY <1>3, <2>4, <2>6
    <2>9. a \in FailedOf(d.heap) /\ r.call = NoCall => x.failed = r.failed
      <3>1. r.call = NoCall => failed = r.failed
        BY <2>2
      <3> HIDE DEF new, a, r, failed
      <3> QED  BY <1>3, <2>3, <2>4, <2>7, <3>1
    <2>10. known => IsPut(d.states, Put(d.states, k), k) /\ Noted(k, r.call) /\ k.failed = TRUE
      <3> SUFFICES ASSUME known
                   PROVE  IsPut(d.states, Put(d.states, k), k) /\ Noted(k, r.call) /\ k.failed = TRUE
        OBVIOUS
      <3>1. IsSeq(d.states) /\ Len(d.states) <= MaxTracked /\ Distinct(d.states)
        BY <1>12 DEF Remembers, Counted
      <3>2. Find(d.states, r.call) # {} /\ state.counts = TRUE
        BY <2>3 DEF Known
      <3>3. k.call = r.call /\ k.counts = state.counts /\ k.failed = TRUE
        BY <1>14
      <3>4. PICK q, z : q = k /\ z = Put(d.states, q)
        OBVIOUS
      <3> HIDE DEF k, state, r, known
      <3>5. IsPut(d.states, z, q)
        BY <3>1, <3>2, <3>3, <3>4, PutIs
      <3> QED  BY <3>2, <3>3, <3>4, <3>5 DEF Noted
    <2> HIDE DEF new, known, state, counts, failed, k, a
    <2>11. a \in FailedOf(d.heap) => st = d.states /\ fs = d.failures
      BY <2>4, <2>5
    <2>12. a \notin FailedOf(d.heap) => fs = d.failures + 1 /\ (r.call = NoCall => st = d.states)
      BY <2>2, <2>4, <2>5
    <2>13. a \notin FailedOf(d.heap) /\ r.call # NoCall =>
             \E q : Noted(q, r.call) /\ q.failed = TRUE /\ IsPut(d.states, st, q)
      BY <2>2, <2>4, <2>5, <2>10
    <2> QED  BY <1>3, <1>15, <2>8, <2>9, <2>11, <2>12, <2>13 DEF Fails, a
  <1>18. Counted(e)
    <2>1. Notes(d, i, x, e.states, e.failures)
      <3> HIDE DEF new, known, state, counts, failed, k
      <3> QED  BY <1>3, <1>10, <1>15, <1>16, <1>17 DEF Notes
    <2>2. Replaced(d.heap, e.heap, i, x)
      BY <1>10, <1>12, ExceptAny DEF Replaced, SetAt
    <2>3. e.tracked = d.tracked /\ e.tools = d.tools
      BY <1>10 DEF Same, Touches, Fields
    <2> QED  BY <1>12, <2>1, <2>2, <2>3, FailureCounted
  <1> QED  BY <1>11, <1>18, ChangeGoes

\* What a result says, an authoritative one outlives.
LEMMA FinishedStays ==
    ASSUME NEW r, IsRecord(r), NEW event, NEW took, NEW output, NEW final,
           NEW x, x = Finished(r, event, took, output, final)
    PROVE  /\ IsRecord(x) /\ RecordStays(r, x) /\ SameAccount(r, x) /\ x.id = r.id
           /\ x.status = r.status
  <1> DEFINE free == final \/ ~r.final
             a == IF free THEN event ELSE r.ended
             b == IF took # "none" /\ free THEN IF took = "some" THEN "reported" ELSE "none"
                  ELSE IF took = "none" /\ ~r.final /\ r.started THEN "measured"
                  ELSE r.took
             f == r.final \/ final
             o == IF output /\ ~r.outputFinal THEN event ELSE r.output
             p == r.outputFinal \/ (output /\ final)
  <1>1. x = [r EXCEPT !.ended = a, !.took = b, !.final = f, !.output = o, !.outputFinal = p]
    BY DEF Finished
  <1>2. /\ r.final => f
        /\ r.outputFinal => p /\ o = r.output
        /\ r.final /\ r.took # "measured" => b # "measured"
    OBVIOUS
  <1> HIDE DEF a, b, f, o, p
  <1>3. /\ DOMAIN x = RecordFields /\ x = [g \in RecordFields |-> x[g]]
        /\ x.took = b /\ x.final = f /\ x.output = o /\ x.outputFinal = p
        /\ x.turn = r.turn /\ x.step = r.step /\ x.marker = r.marker /\ x.kind = r.kind
        /\ x.status = r.status /\ x.error = r.error /\ x.id = r.id
        /\ x.call = r.call /\ x.counts = r.counts /\ x.failed = r.failed
    BY <1>1 DEF IsRecord, RecordFields
  <1>4. IsRecord(x) /\ SameAccount(r, x)
    BY <1>3 DEF IsRecord, SameAccount
  <1> QED  BY <1>2, <1>3, <1>4 DEF RecordStays

LEMMA CompletedRecord ==
    ASSUME NEW r, IsRecord(r), r.status # "error",
           NEW x, x = AsComplete(r)
    PROVE  IsRecord(x) /\ RecordStays(r, x) /\ SameAccount(r, x) /\ x.id = r.id
  BY DEF AsComplete, IsRecord, RecordFields, RecordStays, SameAccount

LEMMA FinishToolGoes ==
    ASSUME NEW d, NEW X, Good(d, X), NEW i \in 1..Len(d.heap), d.heap[i].kind = "tool",
           NEW failed, NEW took, NEW output, NEW final,
           NEW f, f = FinishTool(d, i, failed, took, output, final)
    PROVE  Good(f, X \ {i}) /\ Goes(d, f) /\ Touched(d, f, i)
  <1> DEFINE t == Track(d, i)
  <1>1. Shape(d) /\ IsRecord(d.heap[i])
    BY GoodFacts
  <1>2. PICK x : x = Finished(d.heap[i], d.event, took, output, final)
    OBVIOUS
  <1>3. /\ IsRecord(x) /\ RecordStays(d.heap[i], x) /\ x.id = d.heap[i].id
        /\ x.status = d.heap[i].status /\ SameAccount(d.heap[i], x)
    BY <1>1, <1>2, FinishedStays
  <1>4. Shape(t) /\ t.heap = d.heap /\ t.dirty = d.dirty \cup {i}
        /\ Same(d, t, {"dirty", "refs"})
    BY <1>1 DEF Track, Shape, Fields, Same
  <1>5. PICK e : e = [t EXCEPT !.heap = [t.heap EXCEPT ![i] =
                                           Finished(t.heap[i], d.event, took, output, final)]]
    OBVIOUS
  <1>6. f = IF failed \/ e.heap[i].status = "error"
            THEN MarkError(e, i, IF final THEN "completion" ELSE "result")
            ELSE [e EXCEPT !.heap[i].status = "complete"]
    BY <1>5 DEF FinishTool
  <1> HIDE DEF t
  <1>7. e = [t EXCEPT !.heap = SetAt(d.heap, i, x)]
    BY <1>2, <1>4, <1>5 DEF SetAt
  <1>8. /\ Shape(e) /\ e.heap = SetAt(d.heap, i, x) /\ Same(d, e, Touches)
        /\ e.dirty = d.dirty \cup {i} /\ e.states = d.states /\ e.failures = d.failures
    BY <1>4, <1>7 DEF Shape, Fields, Same, Touches
  <1>9. Good(e, X \ {i}) /\ Goes(d, e) /\ Touched(d, e, i) /\ e.heap[i] = x
    <2>1. Changes(d, e, i, x)
      BY <1>3, <1>8 DEF Changes
    <2>0. Counted(e)
      BY <1>3, <1>8, StillCounted
    <2>2. Good(e, X \ {i})
      BY <2>0, <2>1, ChangeGoes
    <2>3. Goes(d, e) /\ Touched(d, e, i)
      BY <2>0, <2>1, ChangeGoes
    <2>4. Replaced(d.heap, e.heap, i, x)
      BY <2>0, <2>1, ChangeGoes
    <2> QED  BY <2>2, <2>3, <2>4 DEF Replaced
  <1>10. (X \ {i}) \ {i} = X \ {i} /\ i \in 1..Len(e.heap) /\ e.heap[i].kind = "tool"
    BY <1>3, <1>9 DEF Touched, SameAccount
  <1>11. CASE failed \/ e.heap[i].status = "error"
    <2>1. PICK m : m = IF final THEN "completion" ELSE "result"
      OBVIOUS
    <2>2. m # "none" /\ f = MarkError(e, i, m)
      BY <1>6, <1>11, <2>1
    <2>3. Good(f, X \ {i}) /\ Goes(e, f) /\ Touched(e, f, i)
      BY <1>9, <1>10, <2>2, MarkErrorGoes
    <2> QED  BY <1>9, <2>3, GoesOn, TouchedTwice
  <1>12. CASE ~(failed \/ e.heap[i].status = "error")
    <2>1. PICK z : z = AsComplete(x)
      OBVIOUS
    <2>2. IsRecord(z) /\ RecordStays(x, z) /\ z.id = x.id /\ SameAccount(x, z)
      BY <1>3, <1>9, <1>12, <2>1, CompletedRecord
    <2>3. f = [e EXCEPT !.heap = SetAt(e.heap, i, z)]
      BY <1>6, <1>9, <1>12, <2>1 DEF SetAt, AsComplete
    <2>4. /\ Shape(f) /\ f.heap = SetAt(e.heap, i, z) /\ Same(e, f, Touches)
          /\ f.dirty = e.dirty /\ f.states = e.states /\ f.failures = e.failures
      BY <1>8, <2>3 DEF Shape, Fields, Same, Touches
    <2>5. f.dirty = e.dirty \cup {i}
      BY <1>9, <2>4 DEF Touched
    <2>6. Good(f, X \ {i}) /\ Goes(e, f) /\ Touched(e, f, i)
      <3>1. Changes(e, f, i, z)
        BY <1>9, <2>2, <2>4, <2>5 DEF Changes
      <3>2. Counted(f)
        BY <1>9, <1>10, <2>2, <2>4, StillCounted
      <3> QED  BY <1>9, <1>10, <3>1, <3>2, ChangeGoes
    <2> QED  BY <1>9, <2>6, GoesOn, TouchedTwice
  <1> QED  BY <1>11, <1>12

-----------------------------------------------------------------------------
(* What accounts there are.                                                *)

\* The account of the next tool record, if it is of this call.
AccountIn(d, call) ==
    IF call = NoCall THEN <<"record", Len(d.heap) + 1>> ELSE <<"call", call>>

\* From d to e no account was opened but those of A.
Opens(d, e, A) == AccountsOf(e.heap) \subseteq AccountsOf(d.heap) \cup A

LEMMA OpensOn ==
    ASSUME NEW d, NEW e, NEW f, NEW A, Opens(d, e, A), Opens(e, f, A)
    PROVE  Opens(d, f, A)
  BY DEF Opens

LEMMA OpensNone ==
    ASSUME NEW d, NEW e, NEW A, e.heap = d.heap
    PROVE  Opens(d, e, A)
  BY DEF Opens

LEMMA OpensWider ==
    ASSUME NEW d, NEW e, NEW A, Opens(d, e, {})
    PROVE  Opens(d, e, A)
  BY DEF Opens

\* A record stays on its account.
LEMMA AccountsRemain ==
    ASSUME NEW d, NEW X, Good(d, X), NEW e, NEW Y, Good(e, Y), Goes(d, e),
           NEW a \in AccountsOf(d.heap)
    PROVE  a \in AccountsOf(e.heap)
  <1>1. PICK i \in ToolsOf(d.heap) : a = Account(d.heap, i)
    BY DEF AccountsOf
  <1>2. i \in 1..Len(d.heap) /\ i \in 1..Len(e.heap)
    BY GoodFacts DEF Goes, RecordsGo, ToolsOf
  <1>3. e.heap[i].kind = d.heap[i].kind /\ e.heap[i].call = d.heap[i].call
    BY <1>2 DEF Goes, RecordsGo, RecordStays
  <1>4. i \in ToolsOf(e.heap) /\ Account(e.heap, i) = a
    BY <1>1, <1>2, <1>3 DEF ToolsOf, Account
  <1> QED  BY <1>4 DEF AccountsOf

\* Where no record was added, no account was opened.
LEMMA SameAccounts ==
    ASSUME NEW d, NEW X, Good(d, X), NEW e, Goes(d, e), Len(e.heap) = Len(d.heap)
    PROVE  Opens(d, e, {})
  <1>1. ASSUME NEW i \in ToolsOf(e.heap)
        PROVE  Account(e.heap, i) \in AccountsOf(d.heap)
    <2>1. i \in 1..Len(d.heap) /\ e.heap[i].kind = "tool"
      BY DEF ToolsOf
    <2>2. e.heap[i].kind = d.heap[i].kind /\ e.heap[i].call = d.heap[i].call
      BY <2>1 DEF Goes, RecordsGo, RecordStays
    <2>3. i \in ToolsOf(d.heap) /\ Account(e.heap, i) = Account(d.heap, i)
      BY <2>1, <2>2 DEF ToolsOf, Account
    <2> QED  BY <2>3 DEF AccountsOf
  <1>2. AccountsOf(e.heap) \subseteq AccountsOf(d.heap)
    BY <1>1 DEF AccountsOf
  <1> QED  BY <1>2 DEF Opens

\* A new record opens the account of its call, if it is a tool.
MayOpen(d, r, A) == r.kind = "tool" => AccountIn(d, r.call) \in A

LEMMA AddedOpens ==
    ASSUME NEW d, NEW X, Good(d, X), NEW r, NEW f, Added(d, f, r), NEW A, MayOpen(d, r, A)
    PROVE  /\ Opens(d, f, A)
           /\ r.kind = "tool" => AccountIn(d, r.call) \in AccountsOf(f.heap)
  <1> DEFINE n == Len(d.heap) + 1
  <1>1. Len(d.heap) \in Nat /\ Len(f.heap) = n /\ f.heap[n].kind = r.kind
        /\ f.heap[n].call = r.call /\ \A i \in 1..Len(d.heap) : f.heap[i] = d.heap[i]
    BY GoodFacts DEF Added, Grown
  <1>2. Account(f.heap, n) = AccountIn(d, r.call)
    BY <1>1 DEF Account, AccountIn
  <1>3. n \in 1..Len(f.heap)
    BY <1>1
  <1>4. ASSUME NEW i \in ToolsOf(f.heap)
        PROVE  Account(f.heap, i) \in AccountsOf(d.heap) \cup A
    <2>1. CASE i = n
      <3>1. r.kind = "tool"
        BY <1>1, <2>1 DEF ToolsOf
      <3> QED  BY <1>2, <2>1, <3>1 DEF MayOpen
    <2>2. CASE i # n
      <3>1. i \in 1..Len(d.heap)
        BY <1>1, <2>2 DEF ToolsOf
      <3>2. i \in ToolsOf(d.heap) /\ Account(f.heap, i) = Account(d.heap, i)
        BY <1>1, <3>1 DEF ToolsOf, Account
      <3> QED  BY <3>2 DEF AccountsOf
    <2> QED  BY <2>1, <2>2
  <1>5. Opens(d, f, A)
    BY <1>4 DEF Opens, AccountsOf
  <1>6. ASSUME r.kind = "tool"
        PROVE  AccountIn(d, r.call) \in AccountsOf(f.heap)
    <2>1. n \in ToolsOf(f.heap)
      BY <1>1, <1>3, <1>6 DEF ToolsOf
    <2> QED  BY <1>2, <2>1 DEF AccountsOf
  <1> QED  BY <1>5, <1>6

-----------------------------------------------------------------------------
(* Results, and the markers of late ones.                                  *)

LEMMA GoodWider ==
    ASSUME NEW d, NEW X, Good(d, X), NEW Y, X \subseteq Y
    PROVE  Good(d, Y)
  BY DEF Good, Indexed

MarkerDraft(r, n) ==
    [Draft("tool", <<"late", r.call, n>>) EXCEPT
       !.step = r.step, !.status = "running", !.call = r.call, !.input = r.input,
       !.counted = FALSE, !.inherited = TRUE]
AsMarker(q, r) ==
    [q EXCEPT !.took = r.took, !.ended = r.ended, !.final = r.final,
              !.started = r.started, !.output = r.output, !.outputFinal = r.outputFinal]

LEMMA MarkerDraftIs ==
    ASSUME NEW d, NEW r, IsRecord(r), r.call # NoCall, r.call \in NamedOf(d.heap),
           NEW n, NEW k, k = MarkerDraft(r, n)
    PROVE  IsDraft(k, d) /\ k.status = "running" /\ k.kind = "tool"
  <1>1. k = [kind |-> "tool", id |-> <<"late", r.call, n>>, step |-> r.step,
             status |-> "running", call |-> r.call, input |-> r.input,
             counted |-> FALSE, started |-> TRUE, inherited |-> TRUE]
    BY DEF MarkerDraft, Draft
  <1>2. <<"late", r.call, n>>[1] \notin {"salted", "event"}
    OBVIOUS
  <1>3. k.id = <<"late", r.call, n>> /\ k.kind = "tool" /\ k.status = "running"
        /\ k.step = r.step /\ k.inherited /\ k.call = r.call
    BY <1>1
  <1>4. DOMAIN k = DraftFields /\ k = [f \in DraftFields |-> k[f]]
    BY <1>1 DEF DraftFields
  <1>5. MayName(d, k.id)
    BY <1>2, <1>3 DEF MayName, OtherName
  <1>6. Countable(d, k)
    BY <1>3 DEF Countable
  <1> QED  BY <1>3, <1>4, <1>5, <1>6 DEF IsDraft, IsRecord, Kinds

LEMMA MarkerRecord ==
    ASSUME NEW q, IsRecord(q), q.status = "running", q.final = FALSE,
           q.outputFinal = FALSE, NEW r, NEW x, x = AsMarker(q, r)
    PROVE  IsRecord(x) /\ RecordStays(q, x) /\ SameAccount(q, x) /\ x.id = q.id
  BY DEF AsMarker, IsRecord, RecordFields, RecordStays, SameAccount

LEMMA AddMarkerGoes ==
    ASSUME NEW d, NEW X, Good(d, X), NEW i \in 1..Len(d.heap), d.heap[i].kind = "tool",
           d.heap[i].call # NoCall, NEW g, g = AddMarker(d, i)
    PROVE  /\ Good(g, X) /\ Goes(d, g) /\ Grown(d, g) /\ g.heap[Len(g.heap)].kind = "tool"
           /\ Opens(d, g, {})
  <1> DEFINE r == d.heap[i]
             k == MarkerDraft(r, Len(d.heap) + 1)
             n == Len(d.heap) + 1
  <1>1. IsRecord(r) /\ Len(d.heap) \in Nat
    BY GoodFacts
  <1>2. PICK e : e = AddRecord(d, k)
    OBVIOUS
  <1>0. r.call \in NamedOf(d.heap)
    BY AccountsAre DEF ToolsOf
  <1>3. IsDraft(k, d) /\ k.status = "running" /\ k.kind = "tool"
    <2>1. PICK m, kk : m = Len(d.heap) + 1 /\ kk = MarkerDraft(r, m)
      OBVIOUS
    <2>2. kk = k
      BY <2>1
    <2> HIDE DEF r, k
    <2>3. IsDraft(kk, d) /\ kk.status = "running" /\ kk.kind = "tool"
      <3>1. r.call # NoCall
        BY DEF r
      <3> QED  BY <1>0, <1>1, <2>1, <3>1, MarkerDraftIs
    <2> QED  BY <2>2, <2>3
  <1>4. Good(e, X) /\ Goes(d, e) /\ Added(d, e, k)
    <2> HIDE DEF k
    <2> QED  BY <1>2, <1>3, AddRecordGoes
  <1>5. Grown(d, e) /\ Len(e.heap) = n /\ n \in 1..Len(e.heap)
        /\ e.heap[n].status = "running" /\ e.heap[n].final = FALSE
        /\ e.heap[n].outputFinal = FALSE /\ n \in e.dirty /\ e.heap[n].kind = "tool"
    BY <1>1, <1>3, <1>4 DEF Added, Grown
  <1>6. Shape(e) /\ IsRecord(e.heap[n])
    BY <1>4, <1>5, GoodFacts
  <1>7. PICK x : x = AsMarker(e.heap[n], r)
    OBVIOUS
  <1>8. /\ IsRecord(x) /\ RecordStays(e.heap[n], x) /\ x.id = e.heap[n].id
        /\ SameAccount(e.heap[n], x)
    BY <1>5, <1>6, <1>7, MarkerRecord
  <1>9. PICK t : t = Inherit(Track(e, n), n, i)
    OBVIOUS
  <1>10. PICK rf : t = [Track(e, n) EXCEPT !.refs = rf]
    BY <1>9 DEF Inherit
  <1>11. Shape(t) /\ Same(e, t, {"dirty", "refs"}) /\ t.dirty = e.dirty \cup {n}
    <2>1. PICK u : u = Track(e, n)
      OBVIOUS
    <2>2. Shape(u) /\ Same(e, u, {"dirty", "refs"}) /\ u.dirty = e.dirty \cup {n}
      BY <1>6, <2>1 DEF Track, Shape, Same, Fields
    <2>3. t = [u EXCEPT !.refs = rf]
      BY <1>10, <2>1
    <2> QED  BY <2>2, <2>3 DEF Shape, Same, Fields
  <1>12. g = [t EXCEPT !.heap = [t.heap EXCEPT ![n] = AsMarker(t.heap[n], r)]]
    BY <1>2, <1>9 DEF AddMarker, MarkerDraft, AsMarker, LastRecord
  <1> HIDE DEF n, k, r
  <1>13. t.heap = e.heap /\ t.states = e.states /\ t.failures = e.failures
    BY <1>11 DEF Same, Fields
  <1>14. PICK hp : hp = SetAt(e.heap, n, x) /\ g = [t EXCEPT !.heap = hp]
    BY <1>7, <1>12, <1>13 DEF SetAt
  <1>15. /\ Shape(g) /\ g.heap = hp /\ Same(t, g, {"heap"})
         /\ g.dirty = t.dirty /\ g.states = t.states /\ g.failures = t.failures
    BY <1>11, <1>14 DEF Shape, Same, Fields
  <1>16. Same(e, g, Touches)
    BY <1>11, <1>15 DEF Same, Fields, Touches
  <1>17. Changes(e, g, n, x)
    BY <1>8, <1>11, <1>13, <1>14, <1>15, <1>16 DEF Changes
  <1>24. Counted(g)
    BY <1>4, <1>5, <1>8, <1>13, <1>14, <1>15, <1>16, StillCounted
  <1>18. Good(g, X \ {n}) /\ Goes(e, g) /\ Touched(e, g, n) /\ Replaced(e.heap, g.heap, n, x)
    BY <1>4, <1>5, <1>17, <1>24, ChangeGoes
  <1>25. g.heap[Len(g.heap)].kind = "tool"
    BY <1>5, <1>8, <1>18 DEF Replaced, SameAccount
  <1>26. Opens(d, g, {})
    <2>1. k.call = r.call
      BY DEF k, MarkerDraft, Draft
    <2>2. PICK a : a = AccountIn(d, r.call)
      OBVIOUS
    <2>3. a \in AccountsOf(d.heap)
      <3>1. i \in ToolsOf(d.heap) /\ a = Account(d.heap, i)
        BY <2>2 DEF ToolsOf, AccountIn, Account, r
      <3> QED  BY <3>1, AccountsAre
    <2>4. MayOpen(d, k, {a})
      BY <2>1, <2>2 DEF MayOpen
    <2>5. Opens(d, e, {a})
      <3>1. PICK A : A = {a}
        OBVIOUS
      <3>2. MayOpen(d, k, A)
        BY <2>4, <3>1
      <3> QED  BY <1>4, <3>1, <3>2, AddedOpens
    <2>6. Opens(d, e, {})
      BY <2>3, <2>5 DEF Opens
    <2>7. Opens(e, g, {})
      <3>1. Len(g.heap) = Len(e.heap)
        BY <1>18 DEF Touched
      <3> QED  BY <1>4, <1>18, <3>1, SameAccounts
    <2> QED  BY <2>6, <2>7, OpensOn
  <1>19. Good(g, X)
    BY <1>18, GoodWider
  <1>20. Goes(d, g)
    BY <1>4, <1>18, GoesOn
  <1>21. /\ g.active = e.active /\ g.pending = e.pending
         /\ g.lastRecord = e.lastRecord /\ g.lastTurn = e.lastTurn
    BY <1>16 DEF Same, Fields, Touches
  <1>22. Len(g.heap) = Len(e.heap) /\ e.dirty \subseteq g.dirty
         /\ \A j \in 1..Len(e.heap) : j # n => g.heap[j] = e.heap[j]
    BY <1>18 DEF Touched
  <1>23. 1..Len(d.heap) \subseteq 1..Len(e.heap) /\ n \notin 1..Len(d.heap)
    BY <1>1, <1>5 DEF n
  <1> QED  BY <1>5, <1>19, <1>20, <1>21, <1>22, <1>23, <1>25, <1>26 DEF Grown

\* What a result leaves alone, and the record that shows it.
Resulted(d, f, i) ==
    /\ Ended(d, i) \in f.dirty /\ Ended(d, i) \in 1..Len(f.heap)
    /\ f.pending = d.pending /\ f.lastRecord = d.lastRecord
    /\ f.lastTurn = d.lastTurn

\* A tool, and if a marker is to be made, one of a named call.
IsTool(d, i) == d.heap[i].kind = "tool" /\ (Late(d, i) => d.heap[i].call # NoCall)

LEMMA TouchedLeaves ==
    ASSUME NEW d, NEW f, NEW i, Touched(d, f, i)
    PROVE  /\ f.pending = d.pending /\ f.lastRecord = d.lastRecord
           /\ f.lastTurn = d.lastTurn /\ f.active = d.active /\ f.step = d.step
           /\ f.turns = d.turns
  BY DEF Touched, Same, Fields, Touches

LEMMA ResultGoes ==
    ASSUME NEW d, NEW X, Good(d, X), NEW i \in 1..Len(d.heap), IsTool(d, i),
           NEW failed, NEW took, NEW output, NEW final,
           NEW f, f = Result(d, i, failed, took, output, final)
    PROVE  Good(f, X \ {i}) /\ Goes(d, f) /\ Resulted(d, f, i) /\ Opens(d, f, {})
  <1>1. CASE Late(d, i)
    <2>1. PICK e : e = AddMarker(d, i)
      OBVIOUS
    <2>2. PICK g : g = FinishTool(e, i, failed, took, output, final)
      OBVIOUS
    <2>3. f = FinishTool(g, Len(e.heap), failed, took, output, final)
      BY <1>1, <2>1, <2>2 DEF Result, LastRecord
    <2>4. /\ Good(e, X) /\ Goes(d, e) /\ Grown(d, e) /\ e.heap[Len(e.heap)].kind = "tool"
          /\ Opens(d, e, {})
      BY <1>1, <2>1, AddMarkerGoes DEF IsTool
    <2>5. Len(d.heap) \in Nat /\ Len(e.heap) = Len(d.heap) + 1 /\ Len(e.heap) \in Nat
      BY <2>4, GoodFacts DEF Grown
    <2>6. i \in 1..Len(e.heap) /\ e.heap[i].kind = "tool"
      BY <2>4, <2>5 DEF Grown, IsTool
    <2>7. Good(g, X \ {i}) /\ Goes(e, g) /\ Touched(e, g, i)
      BY <2>2, <2>4, <2>6, FinishToolGoes
    <2>8. Len(g.heap) = Len(e.heap) /\ Len(e.heap) \in 1..Len(g.heap)
          /\ g.heap[Len(e.heap)].kind = "tool"
      <3>1. Len(g.heap) = Len(e.heap) /\ Len(e.heap) \in 1..Len(e.heap)
        BY <2>5, <2>7 DEF Touched
      <3>2. RecordStays(e.heap[Len(e.heap)], g.heap[Len(e.heap)])
        BY <2>7, <3>1 DEF Goes, RecordsGo
      <3> QED  BY <2>4, <3>1, <3>2 DEF RecordStays
    <2> DEFINE n == Len(e.heap)
               Y == X \ {i}
    <2>9. /\ Good(g, Y) /\ n \in 1..Len(g.heap) /\ g.heap[n].kind = "tool"
          /\ f = FinishTool(g, n, failed, took, output, final)
      BY <2>3, <2>7, <2>8
    <2> HIDE DEF n, Y
    <2>10. Good(f, Y \ {n}) /\ Goes(g, f) /\ Touched(g, f, n)
      BY <2>9, FinishToolGoes
    <2>11. Good(f, Y)
      BY <2>10, GoodWider
    <2>12. Goes(d, g)
      BY <2>4, <2>7, GoesOn
    <2>13. Goes(d, f)
      BY <2>9, <2>11, <2>12, <2>10, GoesOn
    <2>14. Ended(d, i) = n
      BY <1>1, <2>5 DEF Ended, LastRecord, n
    <2>15. n \in f.dirty /\ n \in 1..Len(f.heap)
      BY <2>9, <2>10 DEF Touched
    <2>16. /\ f.pending = d.pending /\ f.lastRecord = d.lastRecord
           /\ f.lastTurn = d.lastTurn
      BY <2>4, <2>7, <2>10, TouchedLeaves DEF Grown
    <2>17. Opens(d, f, {})
      <3>1. Len(g.heap) = Len(e.heap) /\ Len(f.heap) = Len(g.heap)
        BY <2>7, <2>10 DEF Touched
      <3>2. Opens(e, g, {}) /\ Opens(g, f, {})
        BY <2>4, <2>7, <2>9, <2>10, <3>1, SameAccounts
      <3> QED  BY <2>4, <3>2, OpensOn
    <2> QED  BY <2>11, <2>13, <2>14, <2>15, <2>16, <2>17 DEF Resulted, Y
  <1>2. CASE ~Late(d, i)
    <2>1. f = FinishTool(d, i, failed, took, output, final)
      BY <1>2 DEF Result
    <2>2. Good(f, X \ {i}) /\ Goes(d, f) /\ Touched(d, f, i)
      BY <2>1, FinishToolGoes DEF IsTool
    <2>3. Ended(d, i) = i
      BY <1>2 DEF Ended
    <2>4. i \in f.dirty /\ i \in 1..Len(f.heap)
      BY <2>2 DEF Touched
    <2>5. /\ f.pending = d.pending /\ f.lastRecord = d.lastRecord
          /\ f.lastTurn = d.lastTurn
      BY <2>2, TouchedLeaves
    <2>6. Opens(d, f, {})
      <3>1. Len(f.heap) = Len(d.heap)
        BY <2>2 DEF Touched
      <3> QED  BY <2>2, <3>1, SameAccounts
    <2> QED  BY <2>2, <2>3, <2>4, <2>5, <2>6 DEF Resulted
  <1> QED  BY <1>1, <1>2

LEMMA SpeakGoes ==
    ASSUME NEW d, NEW X, Good(d, X), NEW i \in 1..Len(d.heap),
           NEW e, e = SpeakIfNew(d, i)
    PROVE  Good(e, X) /\ Goes(d, e) /\ e.heap = d.heap
  <1>1. CASE e = d
    <2>1. TurnsGo(d, d)
      BY GoodFacts, TurnsGoSame
    <2>2. RecordsGo(d, d)
      BY GoodFacts, StaysItself DEF RecordsGo
    <2> QED  BY <1>1, <2>1, <2>2 DEF Goes, TurnsGo, SameCall
  <1>2. CASE e = Speak(d, i)
    <2>1. PICK t : t = IF InDeque(d, d.heap[i].turn) THEN d.heap[i].turn ELSE 0
      OBVIOUS
    <2>2. e = [d EXCEPT !.lastRecord = i, !.lastTurn = t]
      BY <1>2, <2>1 DEF Speak
    <2>3. RecordFits(d.heap[i], d) /\ Shape(d) /\ Len(d.turns) \in Nat
      BY GoodFacts
    <2>4. t \in 0..Len(d.turns)
      BY <2>1, <2>3 DEF RecordFits
    <2>5. /\ Shape(e) /\ e.lastRecord = i /\ e.lastTurn = t /\ e.pending = d.pending
          /\ Same(d, e, {"lastRecord", "lastTurn"})
      BY ZenonT(60), <2>2, <2>3 DEF Shape, Same, Fields
    <2>6. Same(d, e, Others)
      BY <2>5 DEF Same, Others
    <2>7. e.pending \in 0..Len(d.heap) /\ e.lastRecord \in 0..Len(d.heap)
      BY <2>5, GoodFacts DEF Good, Recorded
    <2> QED  BY <2>4, <2>5, <2>6, <2>7, OthersAlone
  <1> QED  BY <1>1, <1>2 DEF SpeakIfNew

-----------------------------------------------------------------------------
(* The handlers.                                                           *)

\* Of the accounts a step opens, all are in A.
Step(d, e, A) == Good(e, {}) /\ Goes(d, e) /\ Opens(d, e, A)

LEMMA StepOn ==
    ASSUME NEW A, NEW d, Good(d, {}), NEW e, Step(d, e, A), NEW f, Step(e, f, A)
    PROVE  Step(d, f, A)
  BY GoesOn, OpensOn DEF Step

LEMMA StepStays ==
    ASSUME NEW A, NEW d, Good(d, {})
    PROVE  Step(d, d, A)
  <1>1. TurnsGo(d, d)
    BY GoodFacts, TurnsGoSame
  <1>2. RecordsGo(d, d)
    BY GoodFacts, StaysItself DEF RecordsGo
  <1> QED  BY <1>1, <1>2, OpensNone DEF Step, Goes, TurnsGo, SameCall

\* A step of turns alone leaves the rest.
TurnStep(d, e) == Step(d, e, {}) /\ Same(d, e, TurnParts)

LEMMA TurnStepIs ==
    ASSUME NEW d, Good(d, {}), NEW e, Running(e), TurnsGo(d, e), Same(d, e, TurnParts)
    PROVE  TurnStep(d, e)
  BY TurnsAlone, OpensNone DEF TurnStep, Step

LEMMA TurnStepLeaves ==
    ASSUME NEW d, NEW e, TurnStep(d, e)
    PROVE  /\ e.heap = d.heap /\ e.pending = d.pending /\ e.event = d.event
           /\ e.tracked = d.tracked /\ e.lastRecord = d.lastRecord
  BY DEF TurnStep, Same, TurnParts, Fields

LEMMA EnsureTurnSteps ==
    ASSUME NEW d, Good(d, {}), NEW id, NEW e, e = EnsureTurn(d, id)
    PROVE  TurnStep(d, e) /\ e.active /\ e.step = d.step
  BY GoodFacts, EnsureTurnGoes, TurnStepIs

LEMMA SupersedeSteps ==
    ASSUME NEW d, Good(d, {}), NEW id, NEW e, e = Supersede(d, id)
    PROVE  TurnStep(d, e)
  BY GoodFacts, SupersedeGoes, TurnStepIs

LEMMA ModelStepSteps ==
    ASSUME NEW d, Good(d, {}), NEW e, e = ModelStep(d)
    PROVE  TurnStep(d, e) /\ e.active
  BY GoodFacts, ModelStepGoes, TurnStepIs

LEMMA AtStepSteps ==
    ASSUME NEW d, Good(d, {}), d.active, NEW s \in Nat, d.step <= s,
           NEW e, e = AtStep(d, s)
    PROVE  TurnStep(d, e) /\ e.active
  <1>1. Running(d) /\ Shape(d) /\ TurnsRun(d) /\ Len(d.turns) > 0
    BY GoodFacts DEF Running, StepFits
  <1>2. Running(e) /\ TurnsGo(d, e) /\ Same(d, e, {"turns"}) /\ e.active = d.active
    BY <1>1, StepReached
  <1>3. Same(d, e, TurnParts)
    BY <1>2 DEF Same, TurnParts
  <1> QED  BY <1>2, <1>3, TurnStepIs

\* A step of neither turns nor records.
LEMMA OtherSteps ==
    ASSUME NEW A, NEW d, Good(d, {}), NEW e, Shape(e), Same(d, e, Others),
           e.pending \in 0..Len(d.heap), e.lastRecord \in 0..Len(d.heap),
           e.lastTurn \in 0..Len(d.turns)
    PROVE  Step(d, e, A) /\ e.heap = d.heap
  BY OthersAlone, OpensNone DEF Step

LEMMA GoodBounds ==
    ASSUME NEW d, Good(d, {})
    PROVE  /\ Shape(d) /\ d.pending \in 0..Len(d.heap) /\ d.lastRecord \in 0..Len(d.heap)
           /\ d.lastTurn \in 0..Len(d.turns) /\ d.step \in Nat /\ d.active \in BOOLEAN
           /\ Len(d.heap) \in Nat /\ Len(d.turns) \in Nat
  BY GoodFacts DEF Good, Recorded, Running, TurnsRun

LEMMA AfterSteps ==
    ASSUME NEW A, NEW d, Good(d, {}), NEW b, NEW e, e = [d EXCEPT !.after = b]
    PROVE  Step(d, e, A)
  <1>1. Shape(d)
    BY GoodBounds
  <1>2. Shape(e) /\ Same(d, e, {"after"})
    BY <1>1 DEF Shape, Same, Fields
  <1>3. Same(d, e, Others) /\ e.pending = d.pending /\ e.lastRecord = d.lastRecord
        /\ e.lastTurn = d.lastTurn
    BY <1>2 DEF Same, Others, Fields
  <1> QED  BY <1>2, <1>3, GoodBounds, OtherSteps

\* From one entry to the next, only the event is another.
Follows(d, e) ==
    /\ TurnsStay(d, e) /\ RecordsGo(d, e)
    /\ \A f \in {"paginated", "limit", "before"} : e[f] = d[f]

LEMMA EventSteps ==
    ASSUME NEW d, Good(d, {}), NEW b \in Nat, d.event < b, NEW e, e = [d EXCEPT !.event = b]
    PROVE  /\ Good(e, {}) /\ EventIsNew(e) /\ e.event = b /\ e.dirty = d.dirty
           /\ \A f : Goes(e, f) => Follows(d, f)
  <1>1. Shape(d) /\ PageFits(d) /\ NamesFit(d)
    BY GoodBounds DEF Good
  <1>2. Shape(e) /\ Same(d, e, {"event"}) /\ e.event = b
    BY <1>1 DEF Shape, Same, Fields
  <1>3. /\ e.turns = d.turns /\ e.active = d.active /\ e.step = d.step /\ e.heap = d.heap
        /\ e.pending = d.pending /\ e.lastRecord = d.lastRecord
        /\ e.lastTurn = d.lastTurn /\ e.tracked = d.tracked /\ e.states = d.states
        /\ e.dirty = d.dirty /\ e.stored = d.stored /\ e.ambiguous = d.ambiguous
        /\ e.visible = d.visible /\ e.names = d.names /\ e.samples = d.samples
        /\ e.kept = d.kept /\ e.owners = d.owners /\ e.paginated = d.paginated
        /\ e.limit = d.limit /\ e.before = d.before /\ e.given = d.given
        /\ e.tools = d.tools /\ e.failures = d.failures
    BY <1>2 DEF Same, Fields
  <1>4. Running(e)
    BY <1>2, <1>3 DEF Good, Running, TurnsRun, StepFits
  <1>5. Recorded(e) /\ Remembers(e) /\ Indexed(e, {}) /\ Unsalted(e) /\ Sampled(e)
    BY <1>3 DEF Good, Recorded, RecordFits, Remembers, Indexed, Unsalted, Sampled
  <1>6. PICK c : c = d.event
    OBVIOUS
  <1>7. c \in Nat /\ c < b /\ \A i \in 1..Len(d.heap) : NameFits(d.heap[i].id, i, c)
    BY <1>1, <1>6 DEF NamesFit
  <1>8. ASSUME NEW i \in 1..Len(d.heap)
        PROVE  NameFits(d.heap[i].id, i, b) /\ d.heap[i].id # AtEvent(e)
    <2>1. PICK id : id = d.heap[i].id
      OBVIOUS
    <2>2. NameFits(id, i, c)
      BY <1>7, <2>1
    <2>3. id[1] = "event" => id[2] \in Nat /\ id[2] <= b /\ id[2] # b
      BY <1>7, <2>2 DEF NameFits
    <2>4. NameFits(id, i, b)
      BY <2>2, <2>3 DEF NameFits
    <2>5. AtEvent(e)[1] = "event" /\ AtEvent(e)[2] = b
      BY <1>2, AtEventIs
    <2> QED  BY <2>1, <2>3, <2>4, <2>5
  <1>9. EventIsNew(e)
    BY <1>3, <1>8 DEF EventIsNew
  <1>11. PageFits(e)
    BY <1>1, <1>3 DEF PageFits, KeptIs, OwnersAre, PageOf, OnPage, PageEnd
  <1>12. NamesDiffer(e, Len(e.heap)) /\ NamesSeen(e, Len(e.heap))
    BY <1>1, <1>3 DEF NamesFit, NamesDiffer, NamesSeen, KnownName, OnPage, PageEnd
  <1>13. NamesFit(e)
    BY <1>2, <1>3, <1>8, <1>12 DEF NamesFit
  <1>14. \A f : Goes(e, f) => Follows(d, f)
    BY <1>3 DEF Goes, Follows, TurnsStay, RecordsGo, SameCall
  <1>15. Counted(e)
    BY <1>3 DEF Good, Counted
  <1> QED  BY <1>15, <1>2, <1>3, <1>4, <1>5, <1>9, <1>11, <1>13, <1>14 DEF Good

LEMMA PendingSteps ==
    ASSUME NEW A, NEW d, Good(d, {}), NEW i \in 0..Len(d.heap),
           NEW e, e = [d EXCEPT !.pending = i]
    PROVE  Step(d, e, A) /\ e.pending = i /\ e.heap = d.heap
  <1>1. Shape(d)
    BY GoodBounds
  <1>2. Shape(e) /\ Same(d, e, {"pending"}) /\ e.pending = i
    BY <1>1 DEF Shape, Same, Fields
  <1>3. Same(d, e, Others) /\ e.lastRecord = d.lastRecord /\ e.lastTurn = d.lastTurn
    BY <1>2 DEF Same, Others, Fields
  <1> QED  BY <1>2, <1>3, GoodBounds, OtherSteps

LEMMA SpokenSteps ==
    ASSUME NEW A, NEW d, Good(d, {}), NEW i \in 0..Len(d.heap), NEW t \in 0..Len(d.turns),
           NEW e, e = [d EXCEPT !.lastRecord = i, !.lastTurn = t]
    PROVE  Step(d, e, A)
  <1>1. Shape(d)
    BY GoodBounds
  <1>2. /\ Shape(e) /\ Same(d, e, {"lastRecord", "lastTurn"})
        /\ e.lastRecord = i /\ e.lastTurn = t
    BY <1>1 DEF Shape, Same, Fields
  <1>3. Same(d, e, Others) /\ e.pending = d.pending
    BY <1>2 DEF Same, Others, Fields
  <1> QED  BY <1>2, <1>3, GoodBounds, OtherSteps

\* A draft of the current step.
IsDraftOf(r, kind, id, step) ==
    /\ DOMAIN r = DraftFields /\ r = [f \in DraftFields |-> r[f]]
    /\ r.kind = kind /\ r.status \in {"running", "complete"}
    /\ r.id = id /\ r.step = step

LEMMA DraftOf ==
    ASSUME NEW d, Good(d, {}), NEW kind \in Kinds, NEW id, MayName(d, id),
           NEW step \in Nat, step = 0 \/ (d.active /\ step <= d.turns[Len(d.turns)].steps),
           NEW r, IsDraftOf(r, kind, id, step), r.counted = TRUE \/ Countable(d, r)
    PROVE  IsDraft(r, d)
  BY DEF IsDraft, IsDraftOf, Countable

LEMMA StepOpen ==
    ASSUME NEW d, Good(d, {})
    PROVE  /\ d.step \in Nat
           /\ d.step = 0 \/ (d.active /\ d.step <= d.turns[Len(d.turns)].steps)
  BY DEF Good, Running, StepFits, TurnsRun

LEMMA AddSteps ==
    ASSUME NEW A, NEW d, Good(d, {}), NEW r, IsDraft(r, d),
           MayOpen(d, r, A), NEW f, f = AddRecord(d, r)
    PROVE  /\ Step(d, f, A) /\ Added(d, f, r)
           /\ r.kind = "tool" => AccountIn(d, r.call) \in AccountsOf(f.heap)
  <1>1. Good(f, {}) /\ Goes(d, f) /\ Added(d, f, r)
    BY AddRecordGoes
  <1> QED  BY <1>1, AddedOpens DEF Step

LEMMA AddedIs ==
    ASSUME NEW d, Good(d, {}), NEW r, NEW f, Added(d, f, r)
    PROVE  /\ f.active /\ f.step = d.step /\ Len(f.heap) = Len(d.heap) + 1
           /\ Len(f.heap) \in 1..Len(f.heap) /\ Len(f.heap) \in Nat
           /\ f.pending = d.pending
  BY GoodBounds DEF Added, Grown

LEMMA UserMessageSteps ==
    ASSUME NEW A, NEW d, Good(d, {}), EventIsNew(d), NEW e, NEW f, f = UserMessage(d, e)
    PROVE  Step(d, f, A)
  <1>1. PICK a : a = EnsureTurn(d, None)
    OBVIOUS
  <1>2. PICK r : r = Draft("user", AtEvent(d))
    OBVIOUS
  <1>3. PICK b : b = AddRecord(a, r)
    OBVIOUS
  <1>4. f = AtStep(b, d.step)
    BY <1>1, <1>2, <1>3 DEF UserMessage
  <1>5. TurnStep(d, a) /\ a.active /\ a.step = d.step
    BY <1>1, EnsureTurnSteps
  <1>6. Good(a, {}) /\ Step(d, a, A)
    BY <1>5 DEF TurnStep, Step, Opens
  <1>7. MayName(a, AtEvent(d))
    BY <1>5, TurnStepLeaves, NamedAtEvent
  <1>8. IsDraftOf(r, "user", AtEvent(d), 0) /\ r.counted = TRUE
    BY <1>2 DEF IsDraftOf, Draft, DraftFields
  <1>9. IsDraft(r, a)
    BY <1>6, <1>7, <1>8, DraftOf DEF Kinds
  <1>10. Step(a, b, A) /\ Added(a, b, r)
    BY <1>3, <1>6, <1>8, <1>9, AddSteps DEF MayOpen, IsDraftOf
  <1>11. Good(b, {}) /\ b.active /\ b.step = d.step /\ d.step \in Nat /\ b.step <= d.step
    BY <1>5, <1>6, <1>10, AddedIs, GoodBounds DEF Step
  <1>12. TurnStep(b, f)
    BY <1>4, <1>11, AtStepSteps
  <1>13. Step(b, f, A)
    BY <1>12 DEF TurnStep, Step, Opens
  <1>14. Step(a, f, A)
    BY <1>6, <1>10, <1>13, StepOn
  <1> QED  BY <1>6, <1>14, StepOn

\* Notes, and what they leave.
LEMMA NoteSteps ==
    ASSUME NEW A, NEW d, Good(d, {}), NEW id, MayName(d, id), NEW kind \in Kinds,
           kind # "tool", NEW f, f = Note(d, id, kind)
    PROVE  /\ Step(d, f, A) /\ Len(f.heap) \in 1..Len(f.heap) /\ Len(f.heap) \in Nat
           /\ f.active /\ f.pending = d.pending
  <1>1. PICK r : r = [Draft(kind, id) EXCEPT !.step = d.step]
    OBVIOUS
  <1>2. f = AddRecord(d, r)
    BY <1>1 DEF Note
  <1>4. IsDraftOf(r, kind, id, d.step) /\ r.counted = TRUE
    BY <1>1 DEF IsDraftOf, Draft, DraftFields
  <1>5. IsDraft(r, d)
    BY <1>4, DraftOf, StepOpen
  <1>6. Step(d, f, A) /\ Added(d, f, r)
    BY <1>2, <1>4, <1>5, AddSteps DEF MayOpen, IsDraftOf
  <1> QED  BY <1>6, AddedIs

LEMMA AgentMessageSteps ==
    ASSUME NEW A, NEW d, Good(d, {}), EventIsNew(d), NEW e, NEW f, f = AgentMessage(d, e)
    PROVE  Step(d, f, A)
  <1>1. PICK a, id : a = EnsureTurn(d, e.turn) /\ id = ItemId(d, e)
    OBVIOUS
  <1>2. f = Note(a, id, "subagent")
    BY <1>1 DEF AgentMessage
  <1>3. Step(d, a, A) /\ Good(a, {}) /\ MayName(a, id)
    BY <1>1, EnsureTurnSteps, TurnStepLeaves, NamedByItem, NamedLater DEF TurnStep, Step, Opens
  <1>4. "subagent" \in Kinds /\ "subagent" # "tool"
    BY DEF Kinds
  <1>5. Step(a, f, A)
    BY <1>2, <1>3, <1>4, NoteSteps
  <1> QED  BY <1>3, <1>5, StepOn

LEMMA ModelOutputSteps ==
    ASSUME NEW A, NEW d, Good(d, {}), NEW id, MayName(d, id), NEW kind \in Kinds,
           kind # "tool", NEW f, f = ModelOutput(d, id, kind)
    PROVE  Step(d, f, A) /\ Len(f.heap) \in 1..Len(f.heap)
  <1>1. PICK m : m = ModelStep(d)
    OBVIOUS
  <1>2. PICK k : k = [Draft(kind, id) EXCEPT !.step = m.step]
    OBVIOUS
  <1>3. PICK r : r = AddRecord(m, k)
    OBVIOUS
  <1>4. f = [r EXCEPT !.lastRecord = Len(r.heap), !.lastTurn = Len(r.turns)]
    BY <1>1, <1>2, <1>3 DEF ModelOutput, LastRecord, Turn
  <1>5. Step(d, m, A) /\ Good(m, {})
    BY <1>1, ModelStepSteps DEF TurnStep, Step, Opens
  <1>6. MayName(m, id)
    BY <1>1, ModelStepSteps, TurnStepLeaves, NamedLater
  <1>7. IsDraftOf(k, kind, id, m.step) /\ k.counted = TRUE
    BY <1>2 DEF IsDraftOf, Draft, DraftFields
  <1>8. IsDraft(k, m)
    BY <1>5, <1>6, <1>7, DraftOf, StepOpen
  <1>9. Step(m, r, A) /\ Added(m, r, k)
    BY <1>3, <1>5, <1>7, <1>8, AddSteps DEF MayOpen, IsDraftOf
  <1>10. Good(r, {}) /\ Shape(r) /\ Len(r.heap) \in 0..Len(r.heap)
         /\ Len(r.turns) \in 0..Len(r.turns)
    BY <1>9, GoodBounds DEF Step
  <1>11. Step(r, f, A)
    BY <1>4, <1>10, SpokenSteps
  <1>12. Step(d, r, A)
    BY <1>5, <1>9, StepOn
  <1>13. Step(d, f, A)
    BY <1>11, <1>12, StepOn
  <1>14. f.heap = r.heap
    BY <1>4, <1>10 DEF Shape, Fields
  <1> QED  BY <1>5, <1>9, <1>13, <1>14, AddedIs

LEMMA SpeakSteps ==
    ASSUME NEW A, NEW d, Good(d, {}), NEW i \in 1..Len(d.heap), NEW e, e = SpeakIfNew(d, i)
    PROVE  Step(d, e, A)
  BY SpeakGoes, OpensNone DEF Step

LEMMA ToolNamed ==
    ASSUME NEW d, NEW call
    PROVE  OtherName(ToolId(d, call))
  BY DEF ToolId, OtherName

LEMMA ToolCallSteps ==
    ASSUME NEW A, NEW d, Good(d, {}), NEW call, AccountIn(d, call) \in A,
           NEW f, f = ToolCall(d, call)
    PROVE  Step(d, f, A) /\ AccountIn(d, call) \in AccountsOf(f.heap)
  <1>1. PICK m : m = ModelStep(d)
    OBVIOUS
  <1>2. PICK k : k = [Draft("tool", ToolId(d, call)) EXCEPT
               !.step = m.step, !.status = "running", !.call = call,
               !.input = d.event]
    OBVIOUS
  <1>3. PICK r : r = AddRecord(m, k)
    OBVIOUS
  <1>4. f = SpeakIfNew(r, Len(r.heap))
    BY <1>1, <1>2, <1>3 DEF ToolCall, LastRecord
  <1>5. Step(d, m, A) /\ Good(m, {})
    BY <1>1, ModelStepSteps DEF TurnStep, Step, Opens
  <1>6. IsDraftOf(k, "tool", ToolId(d, call), m.step) /\ k.counted = TRUE
    BY <1>2 DEF IsDraftOf, Draft, DraftFields
  <1>7. IsDraft(k, m)
    BY <1>5, <1>6, ToolNamed, DraftOf, StepOpen DEF Kinds, MayName
  <1>11. k.kind = "tool" /\ AccountIn(m, k.call) = AccountIn(d, call)
    <2>1. m.heap = d.heap
      BY <1>1, ModelStepSteps, TurnStepLeaves
    <2>2. k.kind = "tool" /\ k.call = call
      BY <1>2 DEF Draft
    <2> QED  BY <2>1, <2>2 DEF AccountIn
  <1>8. Step(m, r, A) /\ Added(m, r, k) /\ AccountIn(d, call) \in AccountsOf(r.heap)
    BY <1>3, <1>5, <1>7, <1>11, AddSteps DEF MayOpen
  <1>9. Good(r, {}) /\ Len(r.heap) \in 1..Len(r.heap)
    BY <1>5, <1>8, AddedIs DEF Step
  <1>10. Step(r, f, A)
    BY <1>4, <1>9, SpeakSteps
  <1>12. AccountIn(d, call) \in AccountsOf(f.heap)
    BY <1>8, <1>9, <1>10, AccountsRemain DEF Step
  <1> QED  BY <1>5, <1>8, <1>10, <1>12, StepOn

\* A record that is tracked is of its call; the last is not far from itself.
LEMMA TrackedIs ==
    ASSUME NEW d, Good(d, {}), NEW call, Tracked(d, call) # 0
    PROVE  /\ Tracked(d, call) \in 1..Len(d.heap) /\ IsTool(d, Tracked(d, call))
           /\ AccountIn(d, call) \in AccountsOf(d.heap)
  <1>1. /\ IsSeq(d.tracked)
        /\ \A k \in 1..Len(d.tracked) : d.tracked[k].record \in 1..Len(d.heap)
                                        /\ TrackedIsTool(d.tracked[k], d.heap)
    BY DEF Good, Remembers, Counted
  <1>2. PICK k \in 1..Len(d.tracked) : /\ Tracked(d, call) = d.tracked[k].record
                                        /\ d.tracked[k].call = call
    BY <1>1, TrackedIsOne
  <1>3. PICK i \in 1..Len(d.heap) : i = Tracked(d, call)
    BY <1>1, <1>2
  <1>4. d.heap[i].kind = "tool" /\ d.heap[i].call = call /\ call # NoCall
    BY <1>1, <1>2, <1>3 DEF TrackedIsTool
  <1>5. i \in ToolsOf(d.heap) /\ AccountIn(d, call) = Account(d.heap, i)
    BY <1>4 DEF ToolsOf, AccountIn, Account
  <1> QED  BY <1>3, <1>4, <1>5, AccountsAre DEF IsTool

LEMMA LastIsTool ==
    ASSUME NEW d, Good(d, {}), Len(d.heap) \in 1..Len(d.heap),
           d.heap[Len(d.heap)].kind = "tool"
    PROVE  IsTool(d, Len(d.heap))
  <1>1. Len(d.heap) \in Nat /\ MinRecords \in Nat \ {0}
    BY GoodFacts, LimitsAssumption
  <1>2. ~Late(d, Len(d.heap))
    BY <1>1 DEF Late, LastRecord
  <1> QED  BY <1>2 DEF IsTool

LEMMA RecordFor ==
    ASSUME NEW A, NEW d, Good(d, {}), NEW call, AccountIn(d, call) \in A,
           NEW b, b = WithRecord(d, call)
    PROVE  /\ Step(d, b, A) /\ RecordOf(d, call) \in 1..Len(b.heap)
           /\ IsTool(b, RecordOf(d, call)) /\ AccountIn(d, call) \in AccountsOf(b.heap)
  <1>1. CASE Tracked(d, call) # 0
    <2>1. b = d /\ RecordOf(d, call) = Tracked(d, call)
      BY <1>1 DEF WithRecord, RecordOf
    <2> QED  BY <1>1, <2>1, TrackedIs, StepStays
  <1>2. CASE Tracked(d, call) = 0
    <2>1. PICK id : id = IF call = NoCall THEN <<"result at", d.event>>
                         ELSE <<"result", call>>
      OBVIOUS
    <2>2. PICK k : k = [Draft("tool", id) EXCEPT
                 !.step = d.step, !.status = "running", !.call = call,
                 !.counted = ~Known(d.states, call), !.started = FALSE]
      OBVIOUS
    <2>3. b = AddRecord(d, k) /\ RecordOf(d, call) = Len(d.heap) + 1
      BY <1>2, <2>1, <2>2 DEF WithRecord, RecordOf, LastRecord
    <2>4. MayName(d, id)
      BY <2>1 DEF MayName, OtherName
    <2>5. IsDraftOf(k, "tool", id, d.step)
      BY <2>2 DEF IsDraftOf, Draft, DraftFields
    <2>8. Countable(d, k)
      <3>1. k.call = call /\ (~Known(d.states, call) => k.counted = TRUE)
        BY <2>2 DEF Draft
      <3>2. Known(d.states, call) => call # NoCall /\ call \in NamedOf(d.heap)
        BY KnownIsNamed DEF Good
      <3> QED  BY <3>1, <3>2 DEF Countable
    <2>6. IsDraft(k, d)
      BY <2>4, <2>5, <2>8, DraftOf, StepOpen DEF Kinds
    <2>12. k.kind = "tool" /\ k.call = call
      BY <2>2 DEF Draft
    <2>7. Step(d, b, A) /\ Added(d, b, k) /\ AccountIn(d, call) \in AccountsOf(b.heap)
      BY <2>3, <2>6, <2>12, AddSteps DEF MayOpen
    <2>9. Len(b.heap) \in 1..Len(b.heap) /\ RecordOf(d, call) = Len(b.heap)
      BY <2>3, <2>7, AddedIs
    <2>10. Good(b, {}) /\ b.heap[Len(b.heap)].kind = "tool"
      BY <2>5, <2>7 DEF Step, Added, IsDraftOf
    <2>11. IsTool(b, Len(b.heap))
      BY <2>9, <2>10, LastIsTool
    <2> QED  BY <2>7, <2>9, <2>11
  <1> QED  BY <1>1, <1>2

LEMMA ResultSteps ==
    ASSUME NEW A, NEW d, Good(d, {}), NEW i \in 1..Len(d.heap), IsTool(d, i),
           NEW failed, NEW took, NEW output, NEW final,
           NEW f, f = Result(d, i, failed, took, output, final)
    PROVE  Step(d, f, A)
  <1>1. Good(f, {} \ {i}) /\ Goes(d, f) /\ Opens(d, f, {})
    BY ResultGoes
  <1>2. {} \ {i} = {}
    OBVIOUS
  <1> QED  BY <1>1, <1>2, OpensWider DEF Step

\* A step that opens the account of a call, if it is not open.
AccountsFor(d, f, call, A) == Step(d, f, A) /\ AccountIn(d, call) \in AccountsOf(f.heap)

LEMMA OutputSteps ==
    ASSUME NEW A, NEW d, Good(d, {}), NEW call, AccountIn(d, call) \in A, NEW failed,
           NEW b, b = WithRecord(d, call),
           NEW r, r = Result(b, RecordOf(d, call), failed, "none", TRUE, FALSE),
           NEW f, f = [r EXCEPT !.after = TRUE]
    PROVE  AccountsFor(d, f, call, A)
  <1>1. /\ Step(d, b, A) /\ RecordOf(d, call) \in 1..Len(b.heap) /\ IsTool(b, RecordOf(d, call))
        /\ AccountIn(d, call) \in AccountsOf(b.heap)
    BY RecordFor
  <1>2. Good(b, {})
    BY <1>1 DEF Step
  <1>3. Step(b, r, A)
    BY <1>1, <1>2, ResultSteps
  <1>7. Step(d, r, A)
    BY <1>1, <1>3, StepOn
  <1>4. Step(d, r, A) /\ Good(r, {})
    BY <1>7 DEF Step
  <1>5. Step(r, f, A)
    BY <1>4, AfterSteps
  <1>6. AccountIn(d, call) \in AccountsOf(f.heap)
    <2>1. Step(b, f, A)
      BY <1>2, <1>3, <1>5, StepOn
    <2>2. Good(f, {}) /\ Goes(b, f)
      BY <2>1 DEF Step
    <2> QED  BY <1>1, <1>2, <2>2, AccountsRemain
  <1>8. Step(d, f, A)
    BY <1>4, <1>5, StepOn
  <1> QED  BY <1>6, <1>8 DEF AccountsFor

LEMMA ToolOutputSteps ==
    ASSUME NEW A, NEW d, Good(d, {}), NEW e, NEW call, AccountIn(d, call) \in A,
           NEW f, f = ToolOutput(d, e, call)
    PROVE  Step(d, f, A) /\ AccountIn(d, call) \in AccountsOf(f.heap)
  <1>1. PICK b : b = WithRecord(d, call)
    OBVIOUS
  <1>2. PICK failed : failed = (e.failed \/ b.heap[RecordOf(d, call)].status = "error")
    OBVIOUS
  <1>3. PICK r : r = Result(b, RecordOf(d, call), failed, "none", TRUE, FALSE)
    OBVIOUS
  <1>4. f = [r EXCEPT !.after = TRUE]
    BY <1>1, <1>2, <1>3 DEF ToolOutput
  <1>5. AccountsFor(d, f, call, A)
    BY <1>1, <1>3, <1>4, OutputSteps
  <1> QED  BY <1>5 DEF AccountsFor

LEMMA SearchOutputSteps ==
    ASSUME NEW A, NEW d, Good(d, {}), NEW e, NEW call, AccountIn(d, call) \in A,
           NEW f, f = SearchOutput(d, e, call)
    PROVE  Step(d, f, A) /\ AccountIn(d, call) \in AccountsOf(f.heap)
  <1>1. PICK b : b = WithRecord(d, call)
    OBVIOUS
  <1>2. PICK failed : failed = e.failed
    OBVIOUS
  <1>3. PICK r : r = Result(b, RecordOf(d, call), failed, "none", TRUE, FALSE)
    OBVIOUS
  <1>4. f = [r EXCEPT !.after = TRUE]
    BY <1>1, <1>2, <1>3 DEF SearchOutput
  <1>5. AccountsFor(d, f, call, A)
    BY <1>1, <1>3, <1>4, OutputSteps
  <1> QED  BY <1>5 DEF AccountsFor

-----------------------------------------------------------------------------
(* terminal_tool.                                                          *)

\* Where the record of an unknown call goes.
Opened(d) == IF d.step = 0 THEN ModelStep(d) ELSE AtStep(EnsureTurn(d, None), d.step)

\* The record of an unknown call is made, in the current or a new step.
LEMMA CreatedSteps ==
    ASSUME NEW A, NEW d, Good(d, {}), NEW o,
           o = Opened(d),
           NEW k, NEW id, OtherName(id), IsDraftOf(k, "tool", id, o.step), Countable(d, k),
           AccountIn(d, k.call) \in A,
           NEW c, c = AddRecord(o, k)
    PROVE  /\ Step(d, c, A) /\ Len(c.heap) \in 1..Len(c.heap)
           /\ c.heap[Len(c.heap)].kind = "tool" /\ AccountIn(d, k.call) \in AccountsOf(c.heap)
  <1>1. TurnStep(d, o)
    <2>1. CASE d.step = 0
      BY <2>1, ModelStepSteps DEF Opened
    <2>2. CASE d.step # 0
      <3>1. PICK a : a = EnsureTurn(d, None)
        OBVIOUS
      <3>2. TurnStep(d, a) /\ a.active /\ a.step = d.step
        BY <3>1, EnsureTurnSteps
      <3>3. Good(a, {}) /\ d.step \in Nat /\ a.step <= d.step /\ o = AtStep(a, d.step)
        BY <2>2, <3>1, <3>2, GoodBounds DEF TurnStep, Step, Opens, Opened
      <3>4. TurnStep(a, o)
        BY <3>2, <3>3, AtStepSteps
      <3>5. Step(d, o, {})
        <4>1. Step(d, a, {}) /\ Step(a, o, {})
          BY <3>2, <3>4 DEF TurnStep
        <4> QED  BY <4>1, StepOn
      <3>6. Same(d, o, TurnParts)
        BY <3>2, <3>4 DEF TurnStep, Same
      <3> QED  BY <3>5, <3>6 DEF TurnStep, Step, Opens
    <2> QED  BY <2>1, <2>2
  <1>2. Step(d, o, A) /\ Good(o, {})
    BY <1>1 DEF TurnStep, Step, Opens
  <1>5. Countable(o, k)
    BY <1>1 DEF TurnStep, Same, TurnParts, Fields, Countable
  <1>3. IsDraft(k, o)
    BY <1>2, <1>5, DraftOf, StepOpen DEF Kinds, MayName
  <1>7. AccountIn(o, k.call) = AccountIn(d, k.call)
    BY <1>1, TurnStepLeaves DEF AccountIn
  <1>8. k.kind = "tool"
    BY DEF IsDraftOf
  <1>4. Step(o, c, A) /\ Added(o, c, k) /\ AccountIn(d, k.call) \in AccountsOf(c.heap)
    BY <1>2, <1>3, <1>7, <1>8, AddSteps DEF MayOpen
  <1>6. c.heap[Len(c.heap)].kind = "tool"
    BY <1>4 DEF Added, IsDraftOf
  <1> QED  BY <1>2, <1>4, <1>6, AddedIs, StepOn

\* A known record learns when it began and what it was asked.
AsFound(r, timed, event) ==
    [r EXCEPT !.started = r.started \/ timed,
              !.input = IF r.input = 0 THEN event ELSE r.input]
AsUntimed(r) == [r EXCEPT !.took = "none"]
Untimed(r, n) == [r EXCEPT !.heap = SetAt(r.heap, n, AsUntimed(r.heap[n]))]
AsNamed(r, id) == [r EXCEPT !.id = id]

LEMMA FoundRecord ==
    ASSUME NEW r, IsRecord(r), NEW timed, NEW event, NEW x, x = AsFound(r, timed, event)
    PROVE  IsRecord(x) /\ RecordStays(r, x) /\ SameAccount(r, x) /\ x.id = r.id
  BY DEF AsFound, IsRecord, RecordFields, RecordStays, SameAccount

LEMMA UntimedRecord ==
    ASSUME NEW r, IsRecord(r), NEW x, x = AsUntimed(r)
    PROVE  IsRecord(x) /\ RecordStays(r, x) /\ SameAccount(r, x) /\ x.id = r.id
  BY DEF AsUntimed, IsRecord, RecordFields, RecordStays, SameAccount

LEMMA NamedRecord ==
    ASSUME NEW r, IsRecord(r), NEW id, NEW x, x = AsNamed(r, id)
    PROVE  IsRecord(x) /\ RecordStays(r, x) /\ SameAccount(r, x) /\ x.id = id
  BY DEF AsNamed, IsRecord, RecordFields, RecordStays, SameAccount

\* A change that only the record itself shows.
LEMMA Amended ==
    ASSUME NEW d, NEW X, Good(d, X), NEW i \in 1..Len(d.heap),
           NEW x, IsRecord(x), RecordStays(d.heap[i], x), SameAccount(d.heap[i], x),
           x.id = d.heap[i].id \/ Renames(d, x.id),
           NEW e, NEW h, h = SetAt(d.heap, i, x), e = [d EXCEPT !.heap = h]
    PROVE  /\ Good(e, X \cup {i}) /\ Goes(d, e) /\ Replaced(d.heap, e.heap, i, x)
           /\ Same(d, e, {"heap"})
  <1>1. Shape(d) /\ IsSeq(d.states) /\ Len(d.states) <= MaxTracked
    BY GoodFacts DEF Good, Remembers
  <1>2. Shape(e) /\ e.heap = h /\ Same(d, e, {"heap"})
    BY <1>1 DEF Shape, Same, Fields
  <1>3. Same(d, e, Touches) /\ e.dirty = d.dirty /\ e.states = d.states
        /\ e.failures = d.failures
    BY <1>2 DEF Same, Touches, Fields
  <1>4. Changed(d, e, i, x)
    BY <1>1, <1>2, <1>3 DEF Changed
  <1>7. Counted(e)
    BY <1>2, <1>3, StillCounted
  <1> DEFINE Y == X \cup {i}
  <1>5. Takes(e, X, i, Y)
    BY DEF Takes
  <1> HIDE DEF Y
  <1>6. Good(e, Y) /\ Goes(d, e) /\ Replaced(d.heap, e.heap, i, x)
    BY <1>4, <1>5, <1>7, RecordChanged
  <1> QED  BY <1>2, <1>6 DEF Y

\* A result is shown, and spoken.
LEMMA ShownSteps ==
    ASSUME NEW A, NEW r, Good(r, {}), NEW n \in 1..Len(r.heap), n \in r.dirty,
           NEW t, t = r \/ t = Untimed(r, n), NEW s, s = SpeakIfNew(t, n)
    PROVE  Step(r, s, A)
  <1>1. Step(r, t, A) /\ n \in 1..Len(t.heap)
    <2>1. CASE t = r
      BY <2>1, StepStays
    <2>2. CASE t = Untimed(r, n)
      <3>1. PICK x : x = AsUntimed(r.heap[n])
        OBVIOUS
      <3>2. PICK h : h = SetAt(r.heap, n, x)
        OBVIOUS
      <3>3. t = [r EXCEPT !.heap = h]
        BY <2>2, <3>1, <3>2 DEF Untimed
      <3>4. IsRecord(r.heap[n]) /\ Shape(r)
        BY GoodFacts
      <3>5. /\ IsRecord(x) /\ RecordStays(r.heap[n], x) /\ x.id = r.heap[n].id
            /\ SameAccount(r.heap[n], x)
        BY <3>1, <3>4, UntimedRecord
      <3>6. IsSeq(r.states) /\ Len(r.states) <= MaxTracked
        BY DEF Good, Remembers
      <3>7. Shape(t) /\ t.heap = h /\ Same(r, t, {"heap"})
        BY <3>3, <3>4 DEF Shape, Same, Fields
      <3>8. Same(r, t, Touches) /\ t.dirty = r.dirty /\ t.states = r.states
            /\ t.failures = r.failures
        BY <3>7 DEF Same, Touches, Fields
      <3>9. Changed(r, t, n, x)
        BY <3>2, <3>5, <3>6, <3>7, <3>8 DEF Changed
      <3>10. Takes(t, {}, n, {})
        BY <3>8 DEF Takes
      <3>12. Counted(t)
        BY <3>2, <3>5, <3>7, <3>8, StillCounted
      <3>11. Good(t, {}) /\ Goes(r, t) /\ Replaced(r.heap, t.heap, n, x)
        BY <3>9, <3>10, <3>12, RecordChanged
      <3>13. Opens(r, t, {})
        <4>1. Len(t.heap) = Len(r.heap)
          BY <3>11 DEF Replaced
        <4> QED  BY <3>11, <4>1, SameAccounts
      <3> QED  BY <3>11, <3>13, OpensWider DEF Step, Replaced
    <2> QED  BY <2>1, <2>2
  <1>2. Good(t, {})
    BY <1>1 DEF Step
  <1>3. Step(t, s, A)
    BY <1>1, <1>2, SpeakSteps
  <1> QED  BY <1>1, <1>3, StepOn

LEMMA TerminalToolSteps ==
    ASSUME NEW A, NEW d, Good(d, {}), NEW e, NEW call, AccountIn(d, call) \in A, NEW id, OtherName(id),
           NEW f, f = TerminalTool(d, e, call, id)
    PROVE  Step(d, f, A) /\ AccountIn(d, call) \in AccountsOf(f.heap)
  <1> DEFINE old == Tracked(d, call)
             o == IF d.step = 0 THEN ModelStep(d) ELSE AtStep(EnsureTurn(d, None), d.step)
             k == [Draft("tool", id) EXCEPT
                     !.step = o.step, !.status = "running", !.call = call,
                     !.input = d.event,
                     !.counted = Known(d.states, call)
                                   => ~Get(d.states, call).counts,
                     !.started = e.timed \/ e.took = "some"]
             c == AddRecord(o, k)
             x == AsFound(d.heap[old], e.timed, d.event)
             h == SetAt(d.heap, old, x)
             g == [d EXCEPT !.heap = h]
             b == IF old = 0 THEN c ELSE g
             i == IF old = 0 THEN Len(c.heap) ELSE old
             p == e.kind # "hosted"
             r == Result(b, i, e.failed, e.took, p, TRUE)
             u == Untimed(r, Ended(b, i))
             t == IF old = 0 /\ ~e.timed /\ e.took # "some" THEN u ELSE r
             s == SpeakIfNew(t, Ended(b, i))
  <1>1. f = [s EXCEPT !.after = TRUE]
    BY DEF TerminalTool, AsFound, SetAt, Untimed, AsUntimed, LastRecord
  <1>2. o = Opened(d)
    BY DEF Opened
  <1>3. IsDraftOf(k, "tool", id, o.step)
    <2> HIDE DEF o
    <2> QED  BY DEF IsDraftOf, Draft, DraftFields
  <1>18. k.call = call
    <2> HIDE DEF o
    <2> QED  BY DEF Draft
  <1>0. Countable(d, k)
    <2>1. k.call = call /\ (~Known(d.states, call) => k.counted = TRUE)
      <3> HIDE DEF o
      <3> QED  BY DEF Draft
    <2>2. Known(d.states, call) => call # NoCall /\ call \in NamedOf(d.heap)
      BY KnownIsNamed DEF Good
    <2> HIDE DEF k
    <2> QED  BY <2>1, <2>2 DEF Countable
  <1>4. c = AddRecord(o, k) /\ x = AsFound(d.heap[old], e.timed, d.event)
        /\ old = Tracked(d, call)
    OBVIOUS
  <1>5. h = SetAt(d.heap, old, x) /\ g = [d EXCEPT !.heap = h]
    OBVIOUS
  <1>6. b = (IF old = 0 THEN c ELSE g) /\ i = IF old = 0 THEN Len(c.heap) ELSE old
    OBVIOUS
  <1>7. r = Result(b, i, e.failed, e.took, p, TRUE)
    OBVIOUS
  <1>8. s = SpeakIfNew(t, Ended(b, i))
    OBVIOUS
  <1>9. t = r \/ t = Untimed(r, Ended(b, i))
    <2> HIDE DEF r, b, i, old
    <2> QED  OBVIOUS
  <1> HIDE DEF old, o, k, c, x, h, g, b, i, p, r, u, t, s
  <1>10. /\ i \in 1..Len(b.heap) /\ Good(b, {i}) /\ Goes(d, b) /\ IsTool(b, i)
         /\ Opens(d, b, A) /\ AccountIn(d, call) \in AccountsOf(b.heap)
    <2>1. CASE old = 0
      <3>1. IsDraftOf(k, "tool", id, o.step)
        BY <1>3
      <3>2. /\ Step(d, c, A) /\ Len(c.heap) \in 1..Len(c.heap)
            /\ c.heap[Len(c.heap)].kind = "tool" /\ AccountIn(d, call) \in AccountsOf(c.heap)
        BY SMTT(30), <1>0, <1>2, <1>4, <1>18, <3>1, CreatedSteps
      <3>3. b = c /\ i = Len(c.heap)
        BY <1>6, <2>1
      <3>4. Good(c, {}) /\ {} \subseteq {i}
        BY <3>2 DEF Step
      <3>5. Good(c, {i})
        BY <3>4, GoodWider
      <3>6. IsTool(c, Len(c.heap))
        BY <3>2, <3>4, LastIsTool
      <3> QED  BY <3>2, <3>3, <3>5, <3>6 DEF Step
    <2>2. CASE old # 0
      <3>3. old \in 1..Len(d.heap) /\ i = old /\ b = g /\ IsTool(d, old)
        BY <1>4, <1>6, <2>2, TrackedIs
      <3>4. IsRecord(d.heap[old])
        BY <3>3, GoodFacts
      <3>5. /\ IsRecord(x) /\ RecordStays(d.heap[old], x) /\ x.id = d.heap[old].id
            /\ SameAccount(d.heap[old], x)
        BY <1>4, <3>4, FoundRecord
      <3>6. Good(g, {} \cup {old}) /\ Goes(d, g) /\ Replaced(d.heap, g.heap, old, x)
        BY <1>5, <3>3, <3>5, Amended
      <3>7. {} \cup {old} = {i} /\ i \in 1..Len(g.heap)
        BY <3>3, <3>6 DEF Replaced
      <3>8. IsTool(g, old)
        BY <3>3, <3>5, <3>6 DEF Replaced, SameAccount, IsTool, Late, LastRecord
      <3>9. Opens(d, g, {})
        <4>1. Len(g.heap) = Len(d.heap)
          BY <3>6 DEF Replaced
        <4> QED  BY <3>6, <4>1, SameAccounts
      <3>10. AccountIn(d, call) \in AccountsOf(d.heap)
        BY <1>4, <2>2, TrackedIs
      <3>11. AccountIn(d, call) \in AccountsOf(g.heap)
        BY <3>6, <3>10, AccountsRemain
      <3> QED  BY <3>3, <3>6, <3>7, <3>8, <3>9, <3>11, OpensWider
    <2> QED  BY <2>1, <2>2
  <1>11. Good(r, {i} \ {i}) /\ Goes(b, r) /\ Resulted(b, r, i) /\ Opens(b, r, {})
    <2> DEFINE X == {i}
               p1 == e.failed
               p2 == e.took
               p4 == TRUE
    <2>1. Good(b, X) /\ i \in 1..Len(b.heap) /\ IsTool(b, i)
      BY <1>10
    <2>2. r = Result(b, i, p1, p2, p, p4)
      BY <1>7
    <2> HIDE DEF X, p1, p2, p4
    <2>3. Good(r, X \ {i}) /\ Goes(b, r) /\ Resulted(b, r, i) /\ Opens(b, r, {})
      BY <2>1, <2>2, ResultGoes
    <2> QED  BY <2>3 DEF X
  <1>12. {i} \ {i} = {}
    OBVIOUS
  <1>13. /\ Good(r, {}) /\ Goes(b, r)
         /\ Ended(b, i) \in r.dirty /\ Ended(b, i) \in 1..Len(r.heap)
    BY <1>11, <1>12 DEF Resulted
  <1>14. Step(r, s, A)
    BY <1>8, <1>9, <1>13, ShownSteps
  <1>15. Good(s, {}) /\ Step(s, f, A)
    BY <1>1, <1>14, AfterSteps DEF Step
  <1>16. Step(r, f, A)
    BY <1>13, <1>14, <1>15, StepOn
  <1>17. Goes(d, r)
    BY <1>10, <1>13, GoesOn
  <1>19. Good(f, {}) /\ Goes(r, f) /\ Opens(r, f, A)
    BY <1>16 DEF Step
  <1>20. Opens(d, r, A)
    BY <1>10, <1>11, OpensWider, OpensOn
  <1>21. AccountIn(d, call) \in AccountsOf(r.heap)
    BY <1>10, <1>13, AccountsRemain
  <1>22. AccountIn(d, call) \in AccountsOf(f.heap)
    BY <1>13, <1>19, <1>21, AccountsRemain
  <1>23. Goes(d, f)
    BY <1>13, <1>17, <1>19, GoesOn
  <1> QED  BY <1>19, <1>20, <1>22, <1>23, OpensOn DEF Step

-----------------------------------------------------------------------------
(* Compactions, items, usage.                                              *)

LEMMA CompactedSteps ==
    ASSUME NEW A, NEW d, Good(d, {}), NEW id, MayName(d, id), NEW f, f = Compacted(d, id)
    PROVE  Step(d, f, A) /\ f.pending \in 1..Len(f.heap)
  <1>1. PICK r : r = Note(d, id, "compaction")
    OBVIOUS
  <1>2. f = [r EXCEPT !.pending = Len(r.heap)]
    BY <1>1 DEF Compacted, LastRecord
  <1>3. "compaction" \in Kinds /\ "compaction" # "tool"
    BY DEF Kinds
  <1>4. Step(d, r, A) /\ Len(r.heap) \in 1..Len(r.heap) /\ Len(r.heap) \in Nat
    BY <1>1, <1>3, NoteSteps
  <1>5. Good(r, {}) /\ Len(r.heap) \in 0..Len(r.heap)
    BY <1>4 DEF Step
  <1>6. Step(r, f, A) /\ f.pending = Len(r.heap) /\ f.heap = r.heap
    BY ZenonT(60), <1>2, <1>5, PendingSteps
  <1> QED  BY <1>4, <1>6, StepOn

\* The end of a compaction that is pending.
LEMMA CompactionEnds ==
    ASSUME NEW b, NEW i \in 1..Len(b.heap), NEW X, X \subseteq {i}, Good(b, X),
           NEW t, t = FinishTiming(b, i), NEW f, f = [t EXCEPT !.pending = 0]
    PROVE  Good(f, {}) /\ Goes(b, f) /\ Opens(b, f, {})
  <1>1. Good(t, X \ {i}) /\ Goes(b, t) /\ Touched(b, t, i)
    BY FinishTimingGoes
  <1>2. X \ {i} = {}
    OBVIOUS
  <1>3. Good(t, {}) /\ 0 \in 0..Len(t.heap)
    <2>1. Good(t, {})
      BY <1>1, <1>2
    <2>2. Len(t.heap) \in Nat
      BY <2>1, GoodBounds
    <2> QED  BY <2>1, <2>2
  <1> DEFINE A == {}
  <1> HIDE DEF A
  <1>4. Step(t, f, A)
    BY <1>3, PendingSteps
  <1>5. Opens(b, t, {})
    <2>1. Len(t.heap) = Len(b.heap)
      BY <1>1 DEF Touched
    <2> QED  BY <1>1, <2>1, SameAccounts
  <1>6. Opens(b, f, {})
    BY <1>4, <1>5, OpensOn DEF Step, A
  <1> QED  BY <1>1, <1>3, <1>4, <1>6, GoesOn DEF Step

LEMMA PendingIs ==
    ASSUME NEW d, Good(d, {}), PendingHere(d)
    PROVE  d.pending \in 1..Len(d.heap)
  BY GoodBounds DEF PendingHere

LEMMA ContextCompactedSteps ==
    ASSUME NEW A, NEW d, Good(d, {}), EventIsNew(d), NEW e, NEW f, f = ContextCompacted(d, e)
    PROVE  Step(d, f, A)
  <1>0. PICK id : id = AtEvent(d)
    OBVIOUS
  <1>1. PICK b : b = IF PendingHere(d) THEN d ELSE Compacted(d, id)
    OBVIOUS
  <1>2. PICK t : t = FinishTiming(b, b.pending)
    OBVIOUS
  <1>3. f = [t EXCEPT !.pending = 0]
    BY <1>0, <1>1, <1>2 DEF ContextCompacted
  <1>4. Step(d, b, A) /\ b.pending \in 1..Len(b.heap)
    <2>1. CASE PendingHere(d)
      BY <1>1, <2>1, PendingIs, StepStays
    <2>2. CASE ~PendingHere(d)
      <3>1. MayName(d, id)
        BY <1>0 DEF MayName, NewName
      <3> QED  BY <1>1, <2>2, <3>1, CompactedSteps
    <2> QED  BY <2>1, <2>2
  <1>5. Good(b, {}) /\ {} \subseteq {b.pending}
    BY <1>4 DEF Step
  <1>6. Good(f, {}) /\ Goes(b, f) /\ Opens(b, f, {})
    BY <1>2, <1>3, <1>4, <1>5, CompactionEnds
  <1> QED  BY <1>4, <1>5, <1>6, GoesOn, OpensWider, OpensOn DEF Step

\* Names that the log gives are noted.
WithGiven(d, G) == [d EXCEPT !.given = G]

LEMMA GivenSteps ==
    ASSUME NEW d, Good(d, {}), NEW G, d.given \subseteq G, NEW e, e = WithGiven(d, G)
    PROVE  /\ Good(e, {}) /\ Goes(d, e) /\ e.heap = d.heap /\ e.event = d.event
           /\ e.given = G /\ e.pending = d.pending
  <1>1. Shape(d)
    BY GoodBounds
  <1>2. Shape(e) /\ Same(d, e, {"given"}) /\ e.given = G
    BY <1>1 DEF WithGiven, Shape, Same, Fields
  <1>3. /\ e.turns = d.turns /\ e.active = d.active /\ e.step = d.step /\ e.heap = d.heap
        /\ e.pending = d.pending /\ e.lastRecord = d.lastRecord
        /\ e.lastTurn = d.lastTurn /\ e.tracked = d.tracked /\ e.states = d.states
        /\ e.dirty = d.dirty /\ e.stored = d.stored /\ e.ambiguous = d.ambiguous
        /\ e.visible = d.visible /\ e.names = d.names /\ e.samples = d.samples
        /\ e.kept = d.kept /\ e.owners = d.owners /\ SameCall(d, e)
        /\ e.limit = d.limit /\ e.before = d.before /\ e.event = d.event
        /\ e.tools = d.tools /\ e.failures = d.failures
    BY <1>2 DEF Same, Fields, SameCall
  <1>4. Running(e)
    BY <1>2, <1>3 DEF Good, Running, TurnsRun, StepFits
  <1>5. Recorded(e) /\ Remembers(e) /\ Indexed(e, {}) /\ Unsalted(e) /\ Sampled(e)
    BY <1>3 DEF Good, Recorded, RecordFits, Remembers, Indexed, Unsalted, Sampled
  <1>6. PageFits(e) /\ NamesFit(e)
    BY <1>2, <1>3, PageStays DEF Good
  <1>7. Counted(e)
    BY <1>3 DEF Good, Counted
  <1>8. TurnsStay(d, e) /\ RecordsGo(d, e)
    <2>1. TurnsGo(d, e)
      BY <1>3, GoodFacts, TurnsGoSame
    <2>2. RecordsGo(d, e)
      BY <1>3, GoodFacts, StaysItself DEF RecordsGo
    <2> QED  BY <2>1, <2>2 DEF TurnsGo
  <1> QED  BY <1>2, <1>3, <1>4, <1>5, <1>6, <1>7, <1>8 DEF Good, Goes

Only(X, i) == X = {i}

\* A record is renamed, by the log or after the event.
LEMMA RenameSteps ==
    ASSUME NEW d, Good(d, {}), EventIsNew(d), NEW i \in 1..Len(d.heap), NEW e,
           NEW g, g = Rename(d, i, e), NEW X, Only(X, i)
    PROVE  /\ Good(g, X) /\ Goes(d, g) /\ g.pending = d.pending
           /\ Len(g.heap) = Len(d.heap)
  <1>1. PICK id, G : id = ItemId(d, e) /\ G = IF e.call = None THEN d.given ELSE d.given \cup {id}
    OBVIOUS
  <1>2. PICK c : c = WithGiven(d, G)
    OBVIOUS
  <1>3. d.given \subseteq G
    BY <1>1
  <1>4. /\ Good(c, {}) /\ Goes(d, c) /\ c.heap = d.heap /\ c.event = d.event
        /\ c.given = G /\ c.pending = d.pending
    BY <1>2, <1>3, GivenSteps
  <1>5. PICK x, h : x = AsNamed(c.heap[i], id) /\ h = SetAt(c.heap, i, x)
    OBVIOUS
  <1>6. g = [c EXCEPT !.heap = h]
    <2>1. Shape(d)
      BY GoodBounds
    <2>2. g = [d EXCEPT !.heap = h, !.given = G]
      BY <1>1, <1>4, <1>5 DEF Rename, AsNamed, SetAt
    <2>3. Shape(c)
      BY <1>4, GoodBounds
    <2> QED  BY <1>2, <2>1, <2>2, <2>3 DEF WithGiven, Shape, Fields
  <1>7. i \in 1..Len(c.heap) /\ IsRecord(c.heap[i])
    BY <1>4, GoodFacts
  <1>8. /\ IsRecord(x) /\ RecordStays(c.heap[i], x) /\ x.id = id
        /\ SameAccount(c.heap[i], x)
    BY <1>5, <1>7, NamedRecord
  <1>9. Renames(c, id)
    <2>1. CASE e.call = None
      <3>1. id = AtEvent(d) /\ EventIsNew(c) /\ AtEvent(c) = AtEvent(d)
        BY <1>1, <1>4, <2>1, NamedAtEvent DEF ItemId, AtEvent
      <3> QED  BY <3>1 DEF Renames, NewName
    <2>2. CASE e.call # None
      BY <1>1, <1>4, <2>2 DEF ItemId, Renames, OtherName
    <2> QED  BY <2>1, <2>2
  <1>10. /\ Good(g, {} \cup {i}) /\ Goes(c, g) /\ Replaced(c.heap, g.heap, i, x)
         /\ Same(c, g, {"heap"})
    BY ZenonT(60), <1>4, <1>5, <1>6, <1>7, <1>8, <1>9, Amended
  <1>11. Good(g, X)
    <2>1. {} \cup {i} = X
      BY DEF Only
    <2> QED  BY <1>10, <2>1
  <1>12. g.pending = c.pending
    BY <1>10 DEF Same, Fields
  <1>13. Goes(d, g)
    BY <1>4, <1>10, <1>11, GoesOn
  <1> QED  BY <1>4, <1>10, <1>11, <1>12, <1>13 DEF Replaced

LEMMA CompactionItemSteps ==
    ASSUME NEW A, NEW d, Good(d, {}), EventIsNew(d), NEW e, NEW f, f = CompactionItem(d, e)
    PROVE  Step(d, f, A)
  <1>1. PICK id, i, g : id = ItemId(d, e) /\ i = d.pending /\ g = Rename(d, i, e)
    OBVIOUS
  <1>2. PICK b : b = IF PendingHere(d) THEN g ELSE Compacted(d, id)
    OBVIOUS
  <1>3. PICK t : t = FinishTiming(b, b.pending)
    OBVIOUS
  <1>F. f = [t EXCEPT !.pending = 0]
    BY <1>1, <1>2, <1>3 DEF CompactionItem
  <1>4. CASE PendingHere(d)
    <2>1. i \in 1..Len(d.heap)
      BY <1>1, <1>4, PendingIs
    <2>X. PICK X : Only(X, i)
      BY DEF Only
    <2>2. /\ Good(g, X) /\ Goes(d, g) /\ g.pending = i
          /\ Len(g.heap) = Len(d.heap)
      BY <1>1, <2>1, <2>X, RenameSteps
    <2>3. b = g /\ t = FinishTiming(b, i) /\ i \in 1..Len(b.heap) /\ X \subseteq {i}
      BY <1>2, <1>3, <1>4, <2>1, <2>2, <2>X DEF Only
    <2>4. Good(f, {}) /\ Goes(b, f) /\ Opens(b, f, {})
      BY <1>F, <2>2, <2>3, CompactionEnds
    <2>5. Opens(d, b, {})
      BY <2>2, <2>3, SameAccounts
    <2> QED  BY <2>2, <2>3, <2>4, <2>5, GoesOn, OpensWider, OpensOn DEF Step
  <1>5. CASE ~PendingHere(d)
    <2>0. MayName(d, id)
      BY <1>1, NamedByItem
    <2>1. Step(d, b, A) /\ b.pending \in 1..Len(b.heap)
      BY <1>2, <1>5, <2>0, CompactedSteps
    <2>2. Good(b, {}) /\ {} \subseteq {b.pending}
      BY <2>1 DEF Step
    <2>3. Good(f, {}) /\ Goes(b, f) /\ Opens(b, f, {})
      BY <1>3, <1>F, <2>1, <2>2, CompactionEnds
    <2> QED  BY <2>1, <2>2, <2>3, GoesOn, OpensWider, OpensOn DEF Step
  <1> QED  BY <1>4, <1>5

LEMMA TimedSteps ==
    ASSUME NEW A, NEW d, Good(d, {}), Len(d.heap) \in 1..Len(d.heap), NEW f, f = Timed(d)
    PROVE  Step(d, f, A)
  <1>1. f = FinishTiming(d, Len(d.heap))
    BY DEF Timed, LastRecord
  <1>2. Good(f, {} \ {Len(d.heap)}) /\ Goes(d, f) /\ Touched(d, f, Len(d.heap))
    BY <1>1, FinishTimingGoes
  <1>3. {} \ {Len(d.heap)} = {}
    OBVIOUS
  <1>4. Opens(d, f, {})
    <2>1. Len(f.heap) = Len(d.heap)
      BY <1>2 DEF Touched
    <2> QED  BY <1>2, <2>1, SameAccounts
  <1> QED  BY <1>2, <1>3, <1>4, OpensWider DEF Step

LEMMA CallNamed ==
    ASSUME NEW d, NEW e
    PROVE  OtherName(CallOf(d, e))
  BY DEF CallOf, NoCall, None, OtherName

LEMMA CompletedItemSteps ==
    ASSUME NEW A, NEW d0, Good(d0, {}), EventIsNew(d0), NEW e, e.kind \in Items,
           NEW call, call = CallOf(d0, e), e.kind = "item_tool" => AccountIn(d0, call) \in A,
           NEW f, f = CompletedItem(d0, e)
    PROVE  /\ Step(d0, f, A)
           /\ e.kind = "item_tool" => AccountIn(d0, call) \in AccountsOf(f.heap)
  <1>1. PICK a : a = Supersede(d0, e.turn)
    OBVIOUS
  <1>2. PICK d : d = EnsureTurn(a, e.turn)
    OBVIOUS
  <1>3. Step(d0, a, A) /\ Good(a, {})
    BY <1>1, SupersedeSteps DEF TurnStep, Step, Opens
  <1>4. Step(a, d, A) /\ Good(d, {})
    BY <1>2, <1>3, EnsureTurnSteps DEF TurnStep, Step, Opens
  <1>5. /\ Step(d0, d, A) /\ EventIsNew(d)
        /\ AccountIn(d0, call) = AccountIn(d, call) /\ call = CallOf(d, e)
    <2>1. TurnStep(d0, a) /\ TurnStep(a, d)
      BY <1>1, <1>2, <1>3, SupersedeSteps, EnsureTurnSteps
    <2>2. EventIsNew(d)
      BY <2>1, TurnStepLeaves, NamedAtEvent
    <2>3. d.heap = d0.heap /\ d.event = d0.event
      BY <2>1, TurnStepLeaves
    <2>4. AccountIn(d0, call) = AccountIn(d, call) /\ call = CallOf(d, e)
      BY <2>3 DEF AccountIn, CallOf
    <2> QED  BY <1>3, <1>4, <2>2, <2>4, StepOn
  <1>I. PICK id : id = ItemId(d, e) /\ MayName(d, id)
    BY <1>5, NamedByItem
  <1>6. f = CASE e.kind = "item_user"  -> Timed(AddRecord(d, Draft("user", id)))
         [] e.kind = "item_note"  -> Timed(Note(d, id, "assistant"))
         [] e.kind = "item_model" -> Timed(ModelOutput(d, id, "assistant"))
         [] e.kind = "item_compaction" -> CompactionItem(d, e)
         [] e.kind = "item_tool"  -> ToolItem(d, e, CallOf(d, e))
         [] OTHER                 -> d
    BY <1>1, <1>2, <1>I DEF CompletedItem
  <1>7. /\ Step(d, f, A)
        /\ e.kind = "item_tool" => AccountIn(d, call) \in AccountsOf(f.heap)
    <2>1. CASE e.kind = "item_user"
      <3>1. PICK r : r = Draft("user", id)
        OBVIOUS
      <3>2. PICK b : b = AddRecord(d, r)
        OBVIOUS
      <3>3. f = Timed(b)
        BY <1>6, <2>1, <3>1, <3>2
      <3>5. IsDraftOf(r, "user", id, 0) /\ r.counted = TRUE
        BY <3>1 DEF IsDraftOf, Draft, DraftFields
      <3>6. IsDraft(r, d)
        BY <1>4, <1>I, <3>5, DraftOf DEF Kinds
      <3>7. Step(d, b, A) /\ Added(d, b, r)
        BY <1>4, <3>2, <3>5, <3>6, AddSteps DEF MayOpen, IsDraftOf
      <3>8. Good(b, {}) /\ Len(b.heap) \in 1..Len(b.heap)
        BY <1>4, <3>7, AddedIs DEF Step
      <3>9. Step(b, f, A)
        BY <3>3, <3>8, TimedSteps
      <3> QED  BY <1>4, <2>1, <3>7, <3>9, StepOn
    <2>2. CASE e.kind = "item_note"
      <3>1. PICK b : b = Note(d, id, "assistant")
        OBVIOUS
      <3>2. f = Timed(b)
        BY <1>6, <2>2, <3>1
      <3>3. "assistant" \in Kinds /\ "assistant" # "tool"
        BY DEF Kinds
      <3>4. Step(d, b, A) /\ Len(b.heap) \in 1..Len(b.heap)
        BY <1>4, <1>I, <3>1, <3>3, NoteSteps
      <3>5. Good(b, {})
        BY <3>4 DEF Step
      <3>6. Step(b, f, A)
        BY <3>2, <3>4, <3>5, TimedSteps
      <3> QED  BY <1>4, <2>2, <3>4, <3>6, StepOn
    <2>3. CASE e.kind = "item_model"
      <3>1. PICK b : b = ModelOutput(d, id, "assistant")
        OBVIOUS
      <3>2. f = Timed(b)
        BY <1>6, <2>3, <3>1
      <3>3. "assistant" \in Kinds /\ "assistant" # "tool"
        BY DEF Kinds
      <3>4. Step(d, b, A) /\ Len(b.heap) \in 1..Len(b.heap)
        BY <1>4, <1>I, <3>1, <3>3, ModelOutputSteps
      <3>5. Good(b, {})
        BY <3>4 DEF Step
      <3>6. Step(b, f, A)
        BY <3>2, <3>4, <3>5, TimedSteps
      <3> QED  BY <1>4, <2>3, <3>4, <3>6, StepOn
    <2>4. CASE e.kind = "item_compaction"
      <3>1. f = CompactionItem(d, e)
        BY <1>6, <2>4
      <3> QED  BY <1>4, <1>5, <2>4, <3>1, CompactionItemSteps
    <2>5. CASE e.kind = "item_tool"
      <3>1. f = TerminalTool(d, e, call, call)
        BY <1>5, <1>6, <2>5 DEF ToolItem
      <3>2. OtherName(call)
        BY CallNamed
      <3>3. AccountIn(d, call) \in A
        BY <1>5, <2>5
      <3> QED  BY <1>4, <3>1, <3>2, <3>3, TerminalToolSteps
    <2>6. CASE e.kind = "item_other"
      <3>1. f = d
        BY <1>6, <2>6
      <3> QED  BY <1>4, <2>6, <3>1, StepStays
    <2> QED  BY <2>1, <2>2, <2>3, <2>4, <2>5, <2>6 DEF Items
  <1> QED  BY <1>5, <1>7, StepOn

CalledTurn(t, n) == [t EXCEPT !.calls = @ \cup {n}]

\* The next sample becomes part of one turn's usage.
LEMMA SampleAdded ==
    ASSUME NEW d, Sampled(d), NEW e, e.samples = d.samples + 1,
           NEW n \in 1..Len(d.turns), Len(e.turns) = Len(d.turns),
           e.turns[n].calls = d.turns[n].calls \cup {e.samples},
           \A t \in 1..Len(d.turns) : t # n => e.turns[t] = d.turns[t]
    PROVE  Sampled(e)
  <1>1. d.samples \in Nat /\ e.samples \in Nat /\ 1..e.samples = 1..d.samples \cup {e.samples}
        /\ e.samples \notin 1..d.samples
    BY DEF Sampled
  <1>2. \A t \in 1..Len(e.turns) : e.turns[t].calls \subseteq 1..e.samples
    BY <1>1 DEF Sampled
  <1>3. \A s \in 1..e.samples : \E t \in 1..Len(e.turns) : s \in e.turns[t].calls
    <2> SUFFICES ASSUME NEW s \in 1..e.samples
                 PROVE  \E t \in 1..Len(e.turns) : s \in e.turns[t].calls
      OBVIOUS
    <2>1. CASE s = e.samples
      BY <2>1
    <2>2. CASE s # e.samples
      <3>1. PICK t \in 1..Len(d.turns) : s \in d.turns[t].calls
        BY <1>1, <2>2 DEF Sampled
      <3>2. d.turns[t].calls \subseteq e.turns[t].calls
        OBVIOUS
      <3> QED  BY <3>1, <3>2
    <2> QED  BY <2>1, <2>2
  <1>4. ASSUME NEW t \in 1..Len(d.turns), NEW u \in 1..Len(d.turns),
               NEW s \in e.turns[t].calls, s \in e.turns[u].calls
        PROVE  t = u
    <2>1. CASE s = e.samples
      <3>1. \A v \in 1..Len(d.turns) : d.turns[v].calls \subseteq 1..d.samples
        BY DEF Sampled
      <3>2. \A v \in 1..Len(d.turns) : v # n => s \notin e.turns[v].calls
        BY <1>1, <2>1, <3>1
      <3>3. t = n /\ u = n
        BY <1>4, <3>2
      <3> QED  BY <3>3
    <2>2. CASE s # e.samples
      <3>1. \A v \in 1..Len(d.turns) : s \in e.turns[v].calls => s \in d.turns[v].calls
        BY <2>2
      <3>2. s \in d.turns[t].calls /\ s \in d.turns[u].calls
        BY <1>4, <3>1
      <3>3. \A v, w \in 1..Len(d.turns) : \A q \in d.turns[v].calls :
              q \in d.turns[w].calls => v = w
        BY DEF Sampled
      <3> QED  BY <3>2, <3>3
    <2> QED  BY <2>1, <2>2
  <1> QED  BY <1>1, <1>2, <1>3, <1>4 DEF Sampled

LEMMA TokenCountSteps ==
    ASSUME NEW A, NEW d, Good(d, {}), NEW f, f = TokenCount(d)
    PROVE  Step(d, f, A)
  <1>1. PICK n : n = IF d.lastTurn # 0 THEN d.lastTurn ELSE Turn(d)
    OBVIOUS
  <1>2. CASE n = 0
    <2>1. f = d
      BY <1>1, <1>2 DEF TokenCount
    <2> QED  BY <2>1, StepStays
  <1>3. CASE n # 0
    <2>1. n \in 1..Len(d.turns) /\ Running(d) /\ Shape(d)
      BY <1>1, <1>3, GoodBounds, GoodFacts DEF Turn
    <2>2. IsTurn(d.turns[n])
      BY <2>1 DEF Running, TurnsRun
    <2>3. PICK m : m = d.samples + 1
      OBVIOUS
    <2>4. PICK x : x = CalledTurn(d.turns[n], m)
      OBVIOUS
    <2>5. /\ IsTurn(x) /\ x.status = d.turns[n].status /\ x.steps = d.turns[n].steps
          /\ x.calls = d.turns[n].calls \cup {m}
      BY <2>2, <2>4 DEF IsTurn, TurnFields, CalledTurn
    <2>6. PICK u : u = [d.turns EXCEPT ![n] = x]
      OBVIOUS
    <2>7. f = [d EXCEPT !.turns = u, !.samples = m, !.lastRecord = 0, !.lastTurn = 0]
      BY <1>1, <1>3, <2>3, <2>4, <2>6 DEF TokenCount, CalledTurn
    <2>8. /\ Shape(f) /\ Same(d, f, {"turns", "samples", "lastRecord", "lastTurn"})
          /\ f.turns = u /\ f.samples = m /\ f.lastRecord = 0 /\ f.lastTurn = 0
      BY ZenonT(60), <2>1, <2>7 DEF Shape, Same, Fields
    <2>9. /\ f.active = d.active /\ f.step = d.step /\ f.heap = d.heap
          /\ f.pending = d.pending /\ f.tracked = d.tracked /\ f.states = d.states
          /\ f.dirty = d.dirty /\ f.stored = d.stored /\ f.ambiguous = d.ambiguous
          /\ f.visible = d.visible /\ f.names = d.names /\ SameCall(d, f)
          /\ f.kept = d.kept /\ f.owners = d.owners /\ f.limit = d.limit
          /\ f.before = d.before /\ f.event = d.event /\ f.given = d.given
          /\ f.tools = d.tools /\ f.failures = d.failures
      BY <2>8 DEF Same, Fields, SameCall
    <2>10. x.steps \in Nat /\ d.turns[n].steps <= x.steps /\ f.step \in Nat
           /\ f.turns = [d.turns EXCEPT ![n] = x]
      BY <2>5, <2>6, <2>8, <2>9, GoodBounds DEF IsTurn
    <2>11. /\ Running(f) /\ TurnsStay(d, f) /\ Len(f.turns) = Len(d.turns)
           /\ f.turns[n] = x /\ \A t \in 1..Len(d.turns) : t # n => f.turns[t] = d.turns[t]
      BY <2>1, <2>5, <2>8, <2>9, <2>10, TurnChanged
    <2>12. Sampled(f)
      BY <2>1, <2>3, <2>5, <2>8, <2>11, SampleAdded DEF Good
    <2>13. Recorded(f)
      <3>1. \A i \in 1..Len(d.heap) : IsRecord(d.heap[i]) /\ RecordFits(d.heap[i], f)
        BY <2>1, <2>11, GoodFacts, StillFits
      <3>2. 0 \in 0..Len(d.heap) /\ 0 \in 0..Len(d.turns) /\ d.pending \in 0..Len(d.heap)
        BY GoodBounds
      <3> QED  BY <2>8, <2>9, <2>11, <3>1, <3>2 DEF Good, Recorded
    <2>14. Remembers(f) /\ Indexed(f, {}) /\ Unsalted(f)
      BY <2>9 DEF Good, Remembers, Indexed, Unsalted
    <2>15. RecordsGo(d, f)
      BY <2>9, GoodFacts, StaysItself DEF RecordsGo
    <2>16. PageFits(f) /\ NamesFit(f)
      BY <2>9, PageStays DEF Good
    <2>17. Counted(f)
      BY <2>9 DEF Good, Counted
    <2>18. Opens(d, f, A)
      BY <2>9, OpensNone
    <2> QED  BY <2>9, <2>11, <2>12, <2>13, <2>14, <2>15, <2>16, <2>17, <2>18 DEF Step, Good, Goes
  <1> QED  BY <1>2, <1>3

LEMMA TaskStartedSteps ==
    ASSUME NEW A, NEW d, Good(d, {}), NEW e, NEW f, f = TaskStarted(d, e)
    PROVE  Step(d, f, A)
  <1>1. PICK a : a = Supersede(d, e.turn)
    OBVIOUS
  <1>2. f = EnsureTurn(a, e.turn)
    BY <1>1 DEF TaskStarted
  <1>3. Step(d, a, A) /\ Good(a, {})
    BY <1>1, SupersedeSteps DEF TurnStep, Step, Opens
  <1>4. Step(a, f, A)
    BY <1>2, <1>3, EnsureTurnSteps DEF TurnStep, Step, Opens
  <1> QED  BY <1>3, <1>4, StepOn

LEMMA TaskEndedSteps ==
    ASSUME NEW A, NEW d, Good(d, {}), NEW e, NEW f, f = TaskEnded(d, e)
    PROVE  Step(d, f, A)
  <1>1. PICK a : a = Supersede(d, e.turn)
    OBVIOUS
  <1>2. PICK b : b = EnsureTurn(a, e.turn)
    OBVIOUS
  <1>3. PICK st : st = IF e.kind = "abort" THEN "aborted"
                       ELSE IF e.failed THEN "error" ELSE "complete"
    OBVIOUS
  <1>4. f = CloseTurn(b, st)
    BY <1>1, <1>2, <1>3 DEF TaskEnded
  <1>5. Step(d, a, A) /\ Good(a, {})
    BY <1>1, SupersedeSteps DEF TurnStep, Step, Opens
  <1>6. Step(a, b, A) /\ Good(b, {}) /\ b.active
    BY <1>2, <1>5, EnsureTurnSteps DEF TurnStep, Step, Opens
  <1>7. st \in {"complete", "error", "aborted"}
    BY <1>3
  <1>8. Running(f) /\ TurnsGo(b, f) /\ Same(b, f, TurnParts)
    BY <1>4, <1>6, <1>7, GoodFacts, CloseTurnGoes
  <1>9. Step(b, f, A)
    BY <1>6, <1>8, TurnStepIs DEF TurnStep, Step, Opens
  <1> QED  BY <1>5, <1>6, <1>9, StepOn

-----------------------------------------------------------------------------
(* An entry, and the flush after it.                                       *)

\* The handlers that are about no call, and those that are.
Plain(d, e, f) ==
    \/ f = d
    \/ f = TaskStarted(d, e) \/ f = TaskEnded(d, e) \/ f = TokenCount(d)
    \/ f = UserMessage(d, e) \/ f = Note(d, ItemId(d, e), "subagent")
    \/ f = InterAgent(d, e) \/ f = AgentMessage(d, e)
    \/ f = ModelOutput(d, ItemId(d, e), "reasoning")
    \/ f = Compaction(d, e) \/ f = Compacted(d, AtEvent(d)) \/ f = ContextCompacted(d, e)
Calling(d, e, call, f) ==
    \/ f = ToolCall(d, call) \/ f = ToolOutput(d, e, call)
    \/ f = SearchOutput(d, e, call) \/ f = HostedTool(d, e, call)
    \/ f = EndEvent(d, e, call)

LEMMA HandlersAre ==
    ASSUME NEW d, NEW e, NEW f, f = Handle(d, e)
    PROVE  \/ ~NamesCall(e, d.paginated) /\ Plain(d, e, f)
           \/ e.kind \in Items /\ f = CompletedItem(d, e)
           \/ NamesCall(e, d.paginated) /\ Calling(d, e, CallOf(d, e), f)
  <1>1. CASE Skipped(e, d.paginated)
    <2>1. f = d
      BY <1>1 DEF Handle
    <2>2. ~NamesCall(e, d.paginated)
      BY <1>1 DEF Skipped, NamesCall, LegacyEvents, ResponseItems
    <2> QED  BY <2>1, <2>2 DEF Plain
  <1>2. CASE ~Skipped(e, d.paginated)
    <2>1. \/ f = d /\ e.kind \notin Items \cup CallEntries
          \/ e.kind \in TurnEvents \cup {"usage"} /\ f = HandleTurn(d, e)
          \/ e.kind \in Items /\ f = CompletedItem(d, e)
          \/ e.kind \in Messages /\ f = HandleMessage(d, e)
          \/ e.kind \in CallEntries /\ f = HandleCall(d, e)
          \/ e.kind \in Compactions /\ f = HandleCompaction(d, e)
      BY <1>2 DEF Handle
    <2>2. CASE e.kind \in TurnEvents \cup {"usage"} /\ f = HandleTurn(d, e)
      <3>1. f = TaskStarted(d, e) \/ f = TaskEnded(d, e) \/ f = TokenCount(d)
        BY <2>2 DEF HandleTurn, TurnEvents
      <3>2. ~NamesCall(e, d.paginated)
        BY <2>2 DEF NamesCall, TurnEvents, CallEntries
      <3> QED  BY <3>1, <3>2 DEF Plain
    <2>3. CASE e.kind \in Messages /\ f = HandleMessage(d, e)
      <3>1. \/ f = UserMessage(d, e) \/ f = Note(d, ItemId(d, e), "subagent")
            \/ f = InterAgent(d, e) \/ f = AgentMessage(d, e)
            \/ f = ModelOutput(d, ItemId(d, e), "reasoning")
        BY <2>3 DEF HandleMessage, Messages
      <3>2. ~NamesCall(e, d.paginated)
        BY <2>3 DEF NamesCall, Messages, CallEntries
      <3> QED  BY <3>1, <3>2 DEF Plain
    <2>4. CASE e.kind \in CallEntries /\ f = HandleCall(d, e)
      <3>1. Calling(d, e, CallOf(d, e), f)
        BY <2>4 DEF HandleCall, CallEntries, Calling
      <3>2. NamesCall(e, d.paginated)
        BY <1>2, <2>4 DEF NamesCall, Skipped, CallEntries, LegacyEvents, ResponseItems
      <3> QED  BY <3>1, <3>2
    <2>5. CASE e.kind \in Compactions /\ f = HandleCompaction(d, e)
      <3>1. \/ f = Compaction(d, e) \/ f = Compacted(d, AtEvent(d))
            \/ f = ContextCompacted(d, e)
        BY <2>5 DEF HandleCompaction, Compactions
      <3>2. ~NamesCall(e, d.paginated)
        BY <2>5 DEF NamesCall, Compactions, CallEntries
      <3> QED  BY <3>1, <3>2 DEF Plain
    <2>6. CASE f = d /\ e.kind \notin Items \cup CallEntries
      <3>1. ~NamesCall(e, d.paginated)
        BY <2>6 DEF NamesCall, Items
      <3> QED  BY <2>6, <3>1 DEF Plain
    <2> QED  BY <2>1, <2>2, <2>3, <2>4, <2>5, <2>6
  <1> QED  BY <1>1, <1>2

LEMMA PlainSteps ==
    ASSUME NEW A, NEW d, Good(d, {}), EventIsNew(d), NEW e, NEW f, Plain(d, e, f)
    PROVE  Step(d, f, A)
  <1>1. CASE f = d \/ f = TaskStarted(d, e) \/ f = TaskEnded(d, e) \/ f = TokenCount(d)
    BY <1>1, StepStays, TaskStartedSteps, TaskEndedSteps, TokenCountSteps
  <1>2. CASE f = UserMessage(d, e)
    BY <1>2, UserMessageSteps
  <1>I. PICK id : id = ItemId(d, e) /\ MayName(d, id)
    BY NamedByItem
  <1>3. CASE f = Note(d, ItemId(d, e), "subagent") \/ f = InterAgent(d, e) \/ f = Compaction(d, e)
    <2>1. /\ "subagent" \in Kinds /\ "compaction" \in Kinds
          /\ "subagent" # "tool" /\ "compaction" # "tool"
      BY DEF Kinds
    <2> QED  BY <1>3, <1>I, <2>1, NoteSteps DEF InterAgent, Compaction
  <1>4. CASE f = AgentMessage(d, e)
    BY <1>4, AgentMessageSteps
  <1>5. CASE f = ModelOutput(d, ItemId(d, e), "reasoning")
    <2>1. "reasoning" \in Kinds /\ "reasoning" # "tool"
      BY DEF Kinds
    <2> QED  BY <1>5, <1>I, <2>1, ModelOutputSteps
  <1>6. CASE f = Compacted(d, AtEvent(d))
    <2>1. PICK k : k = AtEvent(d) /\ MayName(d, k)
      BY DEF MayName, NewName
    <2> QED  BY <1>6, <2>1, CompactedSteps
  <1>7. CASE f = ContextCompacted(d, e)
    BY <1>7, ContextCompactedSteps
  <1> QED  BY <1>1, <1>2, <1>3, <1>4, <1>5, <1>6, <1>7 DEF Plain

LEMMA CallingSteps ==
    ASSUME NEW A, NEW d, Good(d, {}), EventIsNew(d), NEW e, NEW call,
           AccountIn(d, call) \in A, NEW f, Calling(d, e, call, f)
    PROVE  Step(d, f, A) /\ AccountIn(d, call) \in AccountsOf(f.heap)
  <1>1. CASE f = ToolCall(d, call)
    BY <1>1, ToolCallSteps
  <1>2. CASE f = ToolOutput(d, e, call) \/ f = SearchOutput(d, e, call)
    BY <1>2, ToolOutputSteps, SearchOutputSteps
  <1>3. CASE f = HostedTool(d, e, call) \/ f = EndEvent(d, e, call)
    <2>1. PICK id : id = ToolId(d, call)
      OBVIOUS
    <2>2. f = TerminalTool(d, e, call, id)
      BY <1>3, <2>1 DEF HostedTool, EndEvent
    <2>3. OtherName(id)
      BY <2>1, ToolNamed
    <2> QED  BY <2>2, <2>3, TerminalToolSteps
  <1> QED  BY <1>1, <1>2, <1>3 DEF Calling

\* An entry opens the account of the call it names, and no other.
LEMMA HandleSteps ==
    ASSUME NEW A, NEW d, Good(d, {}), EventIsNew(d), NEW e, NEW call, call = CallOf(d, e),
           NamesCall(e, d.paginated) => AccountIn(d, call) \in A,
           NEW f, f = Handle(d, e)
    PROVE  /\ Step(d, f, A)
           /\ NamesCall(e, d.paginated) => AccountIn(d, call) \in AccountsOf(f.heap)
  <1>1. \/ ~NamesCall(e, d.paginated) /\ Plain(d, e, f)
        \/ e.kind \in Items /\ f = CompletedItem(d, e)
        \/ NamesCall(e, d.paginated) /\ Calling(d, e, call, f)
    BY HandlersAre
  <1>2. CASE ~NamesCall(e, d.paginated) /\ Plain(d, e, f)
    BY <1>2, PlainSteps
  <1>3. CASE e.kind \in Items /\ f = CompletedItem(d, e)
    <2>1. NamesCall(e, d.paginated) <=> e.kind = "item_tool"
      BY <1>3 DEF NamesCall, Items, CallEntries
    <2> QED  BY <1>3, <2>1, CompletedItemSteps
  <1>4. CASE NamesCall(e, d.paginated) /\ Calling(d, e, call, f)
    BY <1>4, CallingSteps
  <1> QED  BY <1>1, <1>2, <1>3, <1>4

\* Between entries the index has every record.
Between(d) == Good(d, {}) /\ d.dirty = {} /\ d.stored = d.heap

LEMMA FlushSteps ==
    ASSUME NEW A, NEW d, Good(d, {}), NEW e, e = Flush(d)
    PROVE  Step(d, e, A) /\ Between(e) /\ e.heap = d.heap
  <1>1. PICK s : s = [i \in DOMAIN d.heap |-> IF i \in d.dirty THEN d.heap[i] ELSE d.stored[i]]
    OBVIOUS
  <1>2. e = [d EXCEPT !.stored = s, !.dirty = {}]
    BY <1>1 DEF Flush
  <1>3. Shape(d) /\ DOMAIN d.heap = 1..Len(d.heap) /\ IsSeq(d.heap)
    BY GoodFacts DEF Good, Recorded
  <1>4. /\ Shape(e) /\ Same(d, e, {"stored", "dirty"}) /\ e.stored = s /\ e.dirty = {}
    BY <1>2, <1>3 DEF Shape, Same, Fields
  <1>5. s = d.heap
    <2>1. \A i \in 1..Len(d.heap) : s[i] = d.heap[i]
      BY <1>1, <1>3 DEF Good, Indexed
    <2>2. DOMAIN s = 1..Len(d.heap) /\ s = [i \in 1..Len(d.heap) |-> s[i]]
      BY <1>1, <1>3
    <2>3. d.heap = [i \in 1..Len(d.heap) |-> d.heap[i]]
      BY <1>3 DEF IsSeq
    <2> QED  BY <2>1, <2>2, <2>3
  <1>6. /\ e.turns = d.turns /\ e.heap = d.heap /\ e.active = d.active /\ e.step = d.step
        /\ e.pending = d.pending /\ e.lastRecord = d.lastRecord
        /\ e.lastTurn = d.lastTurn /\ e.tracked = d.tracked /\ e.states = d.states
        /\ e.ambiguous = d.ambiguous /\ e.visible = d.visible /\ e.names = d.names
        /\ SameCall(d, e) /\ e.samples = d.samples
        /\ e.kept = d.kept /\ e.owners = d.owners /\ e.limit = d.limit
        /\ e.before = d.before /\ e.event = d.event /\ e.given = d.given
        /\ e.tools = d.tools /\ e.failures = d.failures
    BY <1>4 DEF Same, Fields, SameCall
  <1>7. Running(e) /\ Recorded(e) /\ Remembers(e) /\ Unsalted(e)
    BY SMTT(30), <1>4, <1>6 DEF Good, Running, TurnsRun, StepFits, Recorded, RecordFits, Remembers,
                      Unsalted
  <1>8. Indexed(e, {}) /\ e.stored = e.heap
    BY <1>4, <1>5, <1>6 DEF Indexed
  <1>S. Sampled(e)
    BY <1>6 DEF Good, Sampled
  <1>9. Step(d, d, A)
    BY StepStays
  <1>O. Opens(d, e, A)
    BY <1>6, OpensNone
  <1>10. Goes(d, e)
    BY <1>6, <1>9 DEF Step, Goes, TurnsStay, RecordsGo
  <1>P. PageFits(e) /\ NamesFit(e)
    BY <1>6, PageStays DEF Good
  <1>C. Counted(e)
    BY <1>6 DEF Good, Counted
  <1> QED  BY <1>C, <1>O, <1>4, <1>6, <1>7, <1>8, <1>10, <1>S, <1>P DEF Step, Good, Between

\* The account of the call that the n-th entry is about, if it is about one.
EntryAccount(d, n, e) ==
    IF e.call # None THEN <<"call", <<"call", e.call>>>>
    ELSE IF e.kind = "item_tool" THEN <<"call", <<"item", n>>>>
    ELSE <<"record", Len(d.heap) + 1>>

\* What accounts there are after the n-th entry.
Accounted(d, n, e, f) ==
    AccountsOf(f.heap) = AccountsOf(d.heap)
                           \cup (IF NamesCall(e, d.paginated) THEN {EntryAccount(d, n, e)}
                                 ELSE {})

LEMMA EntryAccountIs ==
    ASSUME NEW d, NEW a, a.heap = d.heap, NEW n, a.event = n, NEW e
    PROVE  AccountIn(a, CallOf(a, e)) = EntryAccount(d, n, e)
  <1>1. \A c, k : <<"call", c>> # NoCall /\ <<"item", k>> # NoCall
    BY DEF NoCall, None
  <1> QED  BY <1>1 DEF AccountIn, CallOf, EntryAccount

LEMMA ProjectSteps ==
    ASSUME NEW d, Between(d), NEW n \in Nat, d.event < n, NEW e, NEW f, f = Project(d, n, e)
    PROVE  Between(f) /\ Follows(d, f) /\ f.event = n /\ Accounted(d, n, e, f)
  <1>1. PICK a : a = [d EXCEPT !.event = n]
    OBVIOUS
  <1>2. PICK b : b = Handle(a, e)
    OBVIOUS
  <1>3. f = Flush(b)
    BY <1>1, <1>2 DEF Project
  <1>4. Good(a, {}) /\ EventIsNew(a) /\ a.event = n
    BY <1>1, EventSteps DEF Between
  <1>10. a.heap = d.heap /\ a.paginated = d.paginated
    <2>1. Shape(d)
      BY GoodBounds DEF Between
    <2> QED  BY <1>1, <2>1 DEF Shape, Fields
  <1>11. PICK call : call = CallOf(a, e)
    OBVIOUS
  <1>12. AccountIn(a, call) = EntryAccount(d, n, e)
    BY <1>4, <1>10, <1>11, EntryAccountIs
  <1>13. PICK A : A = IF NamesCall(e, a.paginated) THEN {AccountIn(a, call)} ELSE {}
    OBVIOUS
  <1>14. NamesCall(e, a.paginated) => AccountIn(a, call) \in A
    BY <1>13
  <1>5. /\ Step(a, b, A) /\ Good(b, {})
        /\ NamesCall(e, a.paginated) => AccountIn(a, call) \in AccountsOf(b.heap)
    BY <1>2, <1>4, <1>11, <1>14, HandleSteps DEF Step
  <1>6. Step(b, f, A) /\ Between(f) /\ f.heap = b.heap
    BY <1>3, <1>5, FlushSteps
  <1>7. Goes(a, f)
    BY <1>4, <1>5, <1>6, StepOn DEF Step
  <1>8. Follows(d, f)
    BY <1>1, <1>7, EventSteps DEF Between
  <1>9. f.event = n
    BY <1>4, <1>7 DEF Goes, SameCall
  <1>15. Accounted(d, n, e, f)
    <2>1. AccountsOf(f.heap) \subseteq AccountsOf(d.heap) \cup A
      BY <1>5, <1>6, <1>10 DEF Step, Opens
    <2>2. AccountsOf(d.heap) \subseteq AccountsOf(f.heap)
      <3>1. \A x \in AccountsOf(a.heap) : x \in AccountsOf(b.heap)
        BY <1>4, <1>5, AccountsRemain DEF Step
      <3> QED  BY <1>6, <1>10, <3>1
    <2>3. A \subseteq AccountsOf(f.heap)
      BY <1>5, <1>6, <1>13
    <2>4. AccountsOf(f.heap) = AccountsOf(d.heap) \cup A
      BY <2>1, <2>2, <2>3
    <2> QED  BY <1>10, <1>12, <1>13, <2>4 DEF Accounted
  <1> QED  BY <1>6, <1>8, <1>9, <1>15

-----------------------------------------------------------------------------
(* The overview.                                                           *)

OverviewFields == {"turns", "active", "id", "tools", "seen"}
IsOverview(o) ==
    /\ DOMAIN o = OverviewFields /\ o = [f \in OverviewFields |-> o[f]]
    /\ o.turns \in Nat /\ o.tools \in Nat

\* An entry is of one turn and one tool call at most.
OneMore(o, p) ==
    /\ p.turns = o.turns \/ p.turns = o.turns + 1
    /\ p.tools = o.tools \/ p.tools = o.tools + 1

LEMMA EnsureOverviewTurnIs ==
    ASSUME NEW o, IsOverview(o), NEW id, NEW p, p = EnsureOverviewTurn(o, id)
    PROVE  /\ IsOverview(p) /\ p.tools = o.tools /\ p.seen = o.seen
           /\ p.turns = o.turns \/ p.turns = o.turns + 1
  <1>0. PICK t \in Nat : t = o.turns + 1
    BY DEF IsOverview
  <1>1. CASE ~o.active
    <2>1. p = [o EXCEPT !.turns = t, !.active = TRUE, !.id = id]
      BY <1>0, <1>1 DEF EnsureOverviewTurn
    <2>2. IsOverview(p) /\ p.turns = t /\ p.tools = o.tools /\ p.seen = o.seen
      BY <2>1 DEF IsOverview, OverviewFields
    <2> QED  BY <1>0, <2>2
  <1>2. CASE o.active /\ id # None /\ o.id \notin {None, id}
    <2>1. p = [o EXCEPT !.turns = t, !.id = id]
      BY <1>0, <1>2 DEF EnsureOverviewTurn
    <2>2. IsOverview(p) /\ p.turns = t /\ p.tools = o.tools /\ p.seen = o.seen
      BY <2>1 DEF IsOverview, OverviewFields
    <2> QED  BY <1>0, <2>2
  <1>3. CASE o.active /\ ~(id # None /\ o.id \notin {None, id})
    <2>1. p = [o EXCEPT !.id = id] \/ p = o
      BY <1>3 DEF EnsureOverviewTurn
    <2> QED  BY <2>1 DEF IsOverview, OverviewFields
  <1> QED  BY <1>1, <1>2, <1>3

\* A call is counted, and remembered if it has a name.
Tallied(o, p, call) ==
    IF call = None THEN p.tools = o.tools + 1 /\ p.seen = o.seen
    ELSE /\ p.seen = Put(o.seen, [call |-> call])
         /\ p.tools = IF Find(o.seen, call) = {} THEN o.tools + 1 ELSE o.tools
Untallied(o, p) == p.tools = o.tools /\ p.seen = o.seen

LEMMA CountToolCallIs ==
    ASSUME NEW o, IsOverview(o), NEW call, NEW p, p = CountToolCall(o, call)
    PROVE  /\ IsOverview(p) /\ p.turns = o.turns /\ Tallied(o, p, call)
           /\ p.tools = o.tools \/ p.tools = o.tools + 1
  <1>1. CASE call = None
    <2>1. p = [o EXCEPT !.tools = o.tools + 1]
      BY <1>1 DEF CountToolCall
    <2> QED  BY <1>1, <2>1 DEF IsOverview, OverviewFields, Tallied
  <1>2. CASE call # None
    <2>1. PICK s, n : /\ s = Put(o.seen, [call |-> call])
                      /\ n = IF Find(o.seen, call) = {} THEN o.tools + 1 ELSE o.tools
      OBVIOUS
    <2>2. p = [o EXCEPT !.seen = s, !.tools = n]
      BY <1>2, <2>1 DEF CountToolCall
    <2>3. n \in Nat /\ (n = o.tools \/ n = o.tools + 1)
      BY <2>1 DEF IsOverview
    <2>4. IsOverview(p) /\ p.turns = o.turns /\ p.seen = s /\ p.tools = n
      BY <2>2, <2>3 DEF IsOverview, OverviewFields
    <2>5. Tallied(o, p, call)
      BY <1>2, <2>1, <2>4 DEF Tallied
    <2> QED  BY <2>3, <2>4, <2>5
  <1> QED  BY <1>1, <1>2

LEMMA OverviewIs ==
    ASSUME NEW o, IsOverview(o), NEW e, NEW b, NEW p, p = Overview(o, e, b)
    PROVE  /\ IsOverview(p) /\ OneMore(o, p)
           /\ IF NamesCall(e, b) THEN Tallied(o, p, e.call) ELSE Untallied(o, p)
  <1>1. PICK n : n = IF e.kind \in TurnEvents \/ CreatesRecord(e, b)
                     THEN EnsureOverviewTurn(o, TurnNamed(e)) ELSE o
    OBVIOUS
  <1>2. PICK c : c = IF NamesCall(e, b) THEN CountToolCall(n, e.call) ELSE n
    OBVIOUS
  <1>3. p = IF e.kind \in {"complete", "abort"}
            THEN [c EXCEPT !.active = FALSE, !.id = None] ELSE c
    BY <1>1, <1>2 DEF Overview
  <1>4. /\ IsOverview(n) /\ n.tools = o.tools /\ n.seen = o.seen
        /\ n.turns = o.turns \/ n.turns = o.turns + 1
    BY <1>1, EnsureOverviewTurnIs
  <1>5. /\ IsOverview(c) /\ c.turns = n.turns
        /\ c.tools = n.tools \/ c.tools = n.tools + 1
        /\ IF NamesCall(e, b) THEN Tallied(n, c, e.call) ELSE Untallied(n, c)
    <2>1. CASE NamesCall(e, b)
      <3>1. PICK call : call = e.call
        OBVIOUS
      <3>2. c = CountToolCall(n, call)
        BY <1>2, <2>1, <3>1
      <3>3. /\ IsOverview(c) /\ c.turns = n.turns /\ Tallied(n, c, call)
            /\ c.tools = n.tools \/ c.tools = n.tools + 1
        BY <1>4, <3>2, CountToolCallIs
      <3> QED  BY <2>1, <3>1, <3>3
    <2>2. CASE ~NamesCall(e, b)
      BY <1>2, <1>4, <2>2 DEF Untallied
    <2> QED  BY <2>1, <2>2
  <1>6. IsOverview(p) /\ p.turns = c.turns /\ p.tools = c.tools /\ p.seen = c.seen
    BY <1>3, <1>5 DEF IsOverview, OverviewFields
  <1>7. IF NamesCall(e, b) THEN Tallied(o, p, e.call) ELSE Untallied(o, p)
    BY <1>4, <1>5, <1>6 DEF Tallied, Untallied
  <1> QED  BY <1>4, <1>5, <1>6, <1>7 DEF OneMore

\* The overview remembers calls of the projection, once each, and as long as it
\* forgot none, it remembers all and counts what accounts there are.  A call
\* without a name has the one that its entry gave it.
Recalls(d, o) == \A a \in AccountsOf(d.heap) :
                   a[1] = "call" /\ a[2][1] = "call" => Find(o.seen, a[2][2]) # {}
OverviewAgrees(d, o) ==
    /\ IsSeq(o.seen) /\ Len(o.seen) <= MaxTracked /\ Distinct(o.seen)
    /\ \A k \in 1..Len(o.seen) :
         <<"call", <<"call", o.seen[k].call>>>> \in AccountsOf(d.heap)
    /\ \A a \in AccountsOf(d.heap) :
         a[1] = "call" /\ a[2][1] = "item" => a[2][2] \in Nat /\ a[2][2] <= d.event
    /\ Cardinality(NamedOf(d.heap)) <= MaxTracked
         => Recalls(d, o) /\ o.tools = Cardinality(AccountsOf(d.heap))

\* A call has a name if it has an account of that name.
LEMMA NamedAccounts ==
    ASSUME NEW h, NEW c
    PROVE  c \in NamedOf(h) <=> c # NoCall /\ <<"call", c>> \in AccountsOf(h)
  <1>1. ASSUME c \in NamedOf(h)
        PROVE  c # NoCall /\ <<"call", c>> \in AccountsOf(h)
    <2>1. PICK i \in ToolsOf(h) : h[i].call = c /\ c # NoCall
      BY <1>1 DEF NamedOf
    <2>2. Account(h, i) = <<"call", c>>
      BY <2>1 DEF Account
    <2> QED  BY <2>1, <2>2, AccountsAre
  <1>2. ASSUME c # NoCall, <<"call", c>> \in AccountsOf(h)
        PROVE  c \in NamedOf(h)
    <2>1. PICK i \in ToolsOf(h) : Account(h, i) = <<"call", c>>
      BY <1>2 DEF AccountsOf
    <2>2. <<"call", c>>[1] = "call" /\ <<"record", i>>[1] = "record"
          /\ <<"call", c>>[2] = c /\ <<"call", h[i].call>>[2] = h[i].call
      OBVIOUS
    <2>3. h[i].call = c
      BY <2>1, <2>2 DEF Account
    <2> QED  BY <1>2, <2>3, AccountsAre
  <1> QED  BY <1>1, <1>2

\* As many are remembered as are in C, at most.
LEMMA SeenFits ==
    ASSUME NEW s, IsSeq(s), Distinct(s), NEW C, IsFiniteSet(C),
           \A k \in 1..Len(s) : <<"call", s[k].call>> \in C
    PROVE  Len(s) <= Cardinality(C)
  <1> DEFINE f == [k \in 1..Len(s) |-> <<"call", s[k].call>>]
  <1>1. Len(s) \in Nat
    BY SeqDomain
  <1>2. f \in Injection(1..Len(s), C)
    <2>1. \A a, b : <<"call", a>> = <<"call", b>> => a = b
      BY Zenon
    <2> QED  BY <2>1 DEF Injection, IsInjective, Distinct
  <1>3. Cardinality(1..Len(s)) <= Cardinality(C)
    BY <1>2, FS_Injection
  <1>4. Cardinality(1..Len(s)) = Len(s)
    <2>1. PICK n \in Nat : n = Len(s)
      BY <1>1
    <2>2. Cardinality(1..n) = n
      BY FS_Interval
    <2> QED  BY <2>1, <2>2
  <1> QED  BY <1>3, <1>4

\* The accounts after an entry that names a call.
LEMMA AccountsNext ==
    ASSUME NEW d, IsSeq(d.heap), NEW f, IsSeq(f.heap), NEW n, NEW e,
           NamesCall(e, d.paginated), Accounted(d, n, e, f),
           NEW a, a = EntryAccount(d, n, e)
    PROVE  /\ \A x \in AccountsOf(d.heap) : x \in AccountsOf(f.heap)
           /\ \A x \in AccountsOf(f.heap) : x = a \/ x \in AccountsOf(d.heap)
           /\ a \in AccountsOf(f.heap)
           /\ \A c : c \in NamedOf(d.heap) => c \in NamedOf(f.heap)
           /\ Cardinality(NamedOf(d.heap)) <= Cardinality(NamedOf(f.heap))
           /\ Cardinality(AccountsOf(f.heap)) =
                IF a \in AccountsOf(d.heap) THEN Cardinality(AccountsOf(d.heap))
                ELSE Cardinality(AccountsOf(d.heap)) + 1
           /\ Cardinality(NamedOf(d.heap)) \in Nat /\ Cardinality(NamedOf(f.heap)) \in Nat
  <1>1. AccountsOf(f.heap) = AccountsOf(d.heap) \cup {a}
    BY DEF Accounted
  <1>2. ASSUME NEW c \in NamedOf(d.heap)
        PROVE  c \in NamedOf(f.heap)
    BY <1>1, NamedAccounts
  <1>3. IsFiniteSet(NamedOf(d.heap)) /\ IsFiniteSet(NamedOf(f.heap))
        /\ IsFiniteSet(AccountsOf(d.heap))
    BY BooksFinite
  <1>4. NamedOf(d.heap) \subseteq NamedOf(f.heap)
    BY <1>2
  <1>5. Cardinality(NamedOf(d.heap)) <= Cardinality(NamedOf(f.heap))
    BY <1>3, <1>4, FS_Subset
  <1>6. Cardinality(NamedOf(d.heap)) \in Nat /\ Cardinality(NamedOf(f.heap)) \in Nat
    BY <1>3, FS_CardinalityType
  <1>7. Cardinality(AccountsOf(d.heap) \cup {a}) =
          IF a \in AccountsOf(d.heap) THEN Cardinality(AccountsOf(d.heap))
          ELSE Cardinality(AccountsOf(d.heap)) + 1
    BY <1>3, FS_AddElement
  <1> QED  BY <1>1, <1>2, <1>5, <1>6, <1>7

\* An entry that is about no call.
LEMMA PlainAgrees ==
    ASSUME NEW d, NEW o, OverviewAgrees(d, o), NEW n \in Nat, d.event \in Nat, d.event < n,
           NEW e, ~NamesCall(e, d.paginated), NEW f, f.event = n, Accounted(d, n, e, f),
           NEW p, Untallied(o, p)
    PROVE  OverviewAgrees(f, p)
  <1>1. AccountsOf(f.heap) = AccountsOf(d.heap)
    BY DEF Accounted
  <1>2. \A c : c \in NamedOf(f.heap) <=> c \in NamedOf(d.heap)
    BY <1>1, NamedAccounts
  <1>3. NamedOf(f.heap) = NamedOf(d.heap)
    BY <1>2
  <1>4. p.seen = o.seen /\ p.tools = o.tools
    BY DEF Untallied
  <1>5. ASSUME NEW a \in AccountsOf(f.heap), a[1] = "call", a[2][1] = "item"
        PROVE  a[2][2] \in Nat /\ a[2][2] <= f.event
    <2>1. a[2][2] \in Nat /\ a[2][2] <= d.event
      BY <1>1, <1>5 DEF OverviewAgrees
    <2> QED  BY <2>1
  <1> QED  BY <1>1, <1>3, <1>4, <1>5 DEF OverviewAgrees, Recalls

\* The account of an entry that names no call is a new one.
LEMMA UnnamedIsNew ==
    ASSUME NEW d, IsSeq(d.heap), NEW o, OverviewAgrees(d, o), NEW n \in Nat,
           d.event \in Nat, d.event < n, NEW e, e.call = None,
           NEW a, a = EntryAccount(d, n, e)
    PROVE  /\ a \notin AccountsOf(d.heap)
           /\ ~(a[1] = "call" /\ a[2][1] = "call")
           /\ a[1] = "call" /\ a[2][1] = "item" => a[2][2] = n
  <1>1. CASE e.kind = "item_tool"
    <2>1. a = <<"call", <<"item", n>>>>
      BY <1>1 DEF EntryAccount
    <2>2. a[1] = "call" /\ a[2] = <<"item", n>>
      BY <2>1
    <2>3. a[2][1] = "item" /\ a[2][2] = n
      BY <2>2
    <2>4. a \notin AccountsOf(d.heap)
      BY <2>2, <2>3 DEF OverviewAgrees
    <2> QED  BY <2>3, <2>4
  <1>2. CASE e.kind # "item_tool"
    <2>1. a = <<"record", Len(d.heap) + 1>>
      BY <1>2 DEF EntryAccount
    <2>2. a[1] = "record" /\ a[2] = Len(d.heap) + 1
      BY <2>1
    <2>3. ASSUME a \in AccountsOf(d.heap)
          PROVE  FALSE
      <3>1. PICK i \in ToolsOf(d.heap) : a = Account(d.heap, i)
        BY <2>3 DEF AccountsOf
      <3>2. <<"call", d.heap[i].call>>[1] = "call" /\ <<"record", i>>[2] = i
        OBVIOUS
      <3>3. i = Len(d.heap) + 1
        BY <2>2, <3>1, <3>2 DEF Account
      <3>4. i \in 1..Len(d.heap) /\ Len(d.heap) \in Nat
        BY SeqDomain DEF ToolsOf
      <3> QED  BY <3>3, <3>4
    <2> QED  BY <2>2, <2>3
  <1> QED  BY <1>1, <1>2

\* A call without a name is one more.
LEMMA UnnamedAgrees ==
    ASSUME NEW d, IsSeq(d.heap), NEW o, OverviewAgrees(d, o), NEW n \in Nat,
           d.event \in Nat, d.event < n, NEW e, NamesCall(e, d.paginated), e.call = None,
           NEW f, IsSeq(f.heap), f.event = n, Accounted(d, n, e, f),
           NEW p, Tallied(o, p, e.call)
    PROVE  OverviewAgrees(f, p)
  <1>1. PICK a : a = EntryAccount(d, n, e)
    OBVIOUS
  <1>2. /\ a \notin AccountsOf(d.heap)
        /\ ~(a[1] = "call" /\ a[2][1] = "call")
        /\ a[1] = "call" /\ a[2][1] = "item" => a[2][2] = n
    BY <1>1, UnnamedIsNew
  <1>3. /\ \A x \in AccountsOf(d.heap) : x \in AccountsOf(f.heap)
        /\ \A x \in AccountsOf(f.heap) : x = a \/ x \in AccountsOf(d.heap)
        /\ Cardinality(NamedOf(d.heap)) <= Cardinality(NamedOf(f.heap))
        /\ Cardinality(NamedOf(d.heap)) \in Nat /\ Cardinality(NamedOf(f.heap)) \in Nat
    BY <1>1, AccountsNext
  <1>4. Cardinality(AccountsOf(f.heap)) = Cardinality(AccountsOf(d.heap)) + 1
    BY <1>1, <1>2, AccountsNext
  <1>5. p.tools = o.tools + 1 /\ p.seen = o.seen
    BY DEF Tallied
  <1>6. ASSUME NEW x \in AccountsOf(f.heap), x[1] = "call", x[2][1] = "item"
        PROVE  x[2][2] \in Nat /\ x[2][2] <= f.event
    <2>1. CASE x = a
      BY <1>2, <1>6, <2>1
    <2>2. CASE x # a
      <3>1. x[2][2] \in Nat /\ x[2][2] <= d.event
        BY <1>3, <1>6, <2>2 DEF OverviewAgrees
      <3> QED  BY <3>1
    <2> QED  BY <2>1, <2>2
  <1>7. ASSUME Cardinality(NamedOf(f.heap)) <= MaxTracked
        PROVE  Recalls(f, p) /\ p.tools = Cardinality(AccountsOf(f.heap))
    <2>1. Cardinality(NamedOf(d.heap)) <= MaxTracked
      BY <1>3, <1>7, LimitsAssumption
    <2>2. Recalls(d, o) /\ o.tools = Cardinality(AccountsOf(d.heap))
      BY <2>1 DEF OverviewAgrees
    <2>3. Recalls(f, p)
      BY <1>2, <1>3, <1>5, <2>2 DEF Recalls
    <2> QED  BY <1>4, <1>5, <2>2, <2>3
  <1>8. \A k \in 1..Len(o.seen) :
          <<"call", <<"call", o.seen[k].call>>>> \in AccountsOf(f.heap)
    BY <1>3 DEF OverviewAgrees
  <1> QED  BY <1>5, <1>6, <1>7, <1>8 DEF OverviewAgrees

\* A call that is not remembered is a new one, and there is room for it.
LEMMA SeenIsPut ==
    ASSUME NEW d, IsSeq(d.heap), NEW o, OverviewAgrees(d, o), NEW f, IsSeq(f.heap),
           \A x \in AccountsOf(d.heap) : x \in AccountsOf(f.heap),
           NEW c, <<"call", <<"call", c>>>> \in AccountsOf(f.heap),
           Cardinality(NamedOf(f.heap)) <= MaxTracked
    PROVE  Find(o.seen, c) # {} \/ Len(o.seen) < MaxTracked
  <1> DEFINE N == NamedOf(f.heap)
             C == N \ {<<"call", c>>}
  <1>1. IsFiniteSet(N)
    BY BooksFinite
  <1>2. \A b : <<"call", b>> # NoCall
    BY DEF NoCall, None
  <1>3. <<"call", c>> \in N
    BY <1>2, NamedAccounts
  <1>4. IsFiniteSet(C) /\ Cardinality(C) = Cardinality(N) - 1 /\ Cardinality(N) \in Nat
    BY <1>1, <1>3, FS_RemoveElement, FS_CardinalityType
  <1>5. ASSUME Find(o.seen, c) = {}
        PROVE  Len(o.seen) < MaxTracked
    <2>1. IsSeq(o.seen) /\ Distinct(o.seen) /\ Len(o.seen) \in Nat
      BY SeqDomain DEF OverviewAgrees
    <2>2. ASSUME NEW k \in 1..Len(o.seen)
          PROVE  <<"call", o.seen[k].call>> \in C
      <3>1. <<"call", <<"call", o.seen[k].call>>>> \in AccountsOf(f.heap)
        BY DEF OverviewAgrees
      <3>2. <<"call", o.seen[k].call>> \in N
        BY <1>2, <3>1, NamedAccounts
      <3>3. o.seen[k].call # c
        BY <1>5, <2>1, FindIs
      <3>4. \A a, b : <<"call", a>> = <<"call", b>> => a = b
        BY Zenon
      <3> QED  BY <3>2, <3>3, <3>4
    <2> HIDE DEF C, N
    <2>3. Len(o.seen) <= Cardinality(C)
      BY <1>4, <2>1, <2>2, SeenFits
    <2>4. Cardinality(N) <= MaxTracked
      BY DEF N
    <2> QED  BY <1>4, <2>1, <2>3, <2>4, LimitsAssumption
  <1> QED  BY <1>5

\* A call with a name is counted if it is not remembered.
LEMMA NamedAgrees ==
    ASSUME NEW d, IsSeq(d.heap), NEW o, OverviewAgrees(d, o), NEW n \in Nat,
           d.event \in Nat, d.event < n, NEW e, NamesCall(e, d.paginated), e.call # None,
           NEW f, IsSeq(f.heap), f.event = n, Accounted(d, n, e, f),
           NEW p, Tallied(o, p, e.call)
    PROVE  OverviewAgrees(f, p)
  <1>1. PICK c : c = e.call
    OBVIOUS
  <1>2. PICK a : a = EntryAccount(d, n, e)
    OBVIOUS
  <1>3. a = <<"call", <<"call", c>>>>
    BY <1>1, <1>2 DEF EntryAccount
  <1>4. a[1] = "call" /\ a[2][1] = "call" /\ a[2][2] = c
    <2>1. a[1] = "call" /\ a[2] = <<"call", c>>
      BY <1>3
    <2> QED  BY <2>1
  <1>5. /\ \A x \in AccountsOf(d.heap) : x \in AccountsOf(f.heap)
        /\ \A x \in AccountsOf(f.heap) : x = a \/ x \in AccountsOf(d.heap)
        /\ a \in AccountsOf(f.heap)
        /\ Cardinality(NamedOf(d.heap)) <= Cardinality(NamedOf(f.heap))
        /\ Cardinality(NamedOf(d.heap)) \in Nat /\ Cardinality(NamedOf(f.heap)) \in Nat
    BY <1>2, AccountsNext
  <1>6. Cardinality(AccountsOf(f.heap)) =
          IF a \in AccountsOf(d.heap) THEN Cardinality(AccountsOf(d.heap))
          ELSE Cardinality(AccountsOf(d.heap)) + 1
    BY <1>2, AccountsNext
  <1>7. PICK s, x : s = o.seen /\ x = [call |-> c]
    OBVIOUS
  <1>8. /\ p.seen = Put(s, x) /\ x.call = c
        /\ p.tools = IF Find(s, c) = {} THEN o.tools + 1 ELSE o.tools
    BY <1>1, <1>7 DEF Tallied
  <1>9. IsSeq(s) /\ Len(s) <= MaxTracked /\ Distinct(s)
    BY <1>7 DEF OverviewAgrees
  <1>10. PICK t : t = p.seen
    OBVIOUS
  <1>11. /\ IsSeq(t) /\ Len(t) <= MaxTracked
         /\ \A k \in 1..Len(t) : t[k] = x \/ \E j \in 1..Len(s) : t[k] = s[j]
    BY <1>8, <1>9, <1>10, PutHas
  <1>12. Distinct(t)
    BY <1>8, <1>9, <1>10, PutIs
  <1>13. ASSUME NEW k \in 1..Len(t)
         PROVE  <<"call", <<"call", t[k].call>>>> \in AccountsOf(f.heap)
    <2>1. CASE t[k] = x
      BY <1>3, <1>5, <1>8, <2>1
    <2>2. CASE t[k] # x
      <3>1. PICK j \in 1..Len(s) : t[k] = s[j]
        BY <1>11, <2>2
      <3>2. <<"call", <<"call", s[j].call>>>> \in AccountsOf(d.heap)
        BY <1>7 DEF OverviewAgrees
      <3> QED  BY <1>5, <3>1, <3>2
    <2> QED  BY <2>1, <2>2
  <1>14. ASSUME NEW y \in AccountsOf(f.heap), y[1] = "call", y[2][1] = "item"
         PROVE  y[2][2] \in Nat /\ y[2][2] <= f.event
    <2>1. y # a
      BY <1>4, <1>14
    <2>2. y[2][2] \in Nat /\ y[2][2] <= d.event
      BY <1>5, <1>14, <2>1 DEF OverviewAgrees
    <2> QED  BY <2>2
  <1>15. ASSUME Cardinality(NamedOf(f.heap)) <= MaxTracked
         PROVE  Recalls(f, p) /\ p.tools = Cardinality(AccountsOf(f.heap))
    <2>1. Cardinality(NamedOf(d.heap)) <= MaxTracked
      BY <1>5, <1>15, LimitsAssumption
    <2>2. Recalls(d, o) /\ o.tools = Cardinality(AccountsOf(d.heap))
      BY <2>1 DEF OverviewAgrees
    <2>3. Find(s, c) # {} \/ Len(s) < MaxTracked
      BY <1>3, <1>5, <1>7, <1>15, SeenIsPut
    <2>4. IsPut(s, t, x)
      BY <1>8, <1>9, <1>10, <2>3, PutIs
    <2>5. ASSUME NEW y \in AccountsOf(f.heap), y[1] = "call", y[2][1] = "call"
          PROVE  Find(t, y[2][2]) # {}
      <3>1. CASE y = a
        BY <1>4, <1>8, <2>4, <3>1 DEF IsPut
      <3>2. CASE y # a
        <4>1. Find(s, y[2][2]) # {}
          BY <1>5, <1>7, <2>2, <2>5, <3>2 DEF Recalls
        <4> QED  BY <1>8, <2>4, <4>1 DEF IsPut
      <3> QED  BY <3>1, <3>2
    <2>6. a \in AccountsOf(d.heap) <=> Find(s, c) # {}
      <3>1. ASSUME Find(s, c) # {}
            PROVE  a \in AccountsOf(d.heap)
        <4>1. PICK k \in 1..Len(s) : s[k].call = c
          BY <1>9, <3>1, FindIs
        <4>2. <<"call", <<"call", s[k].call>>>> \in AccountsOf(d.heap)
          BY <1>7 DEF OverviewAgrees
        <4> QED  BY <1>3, <4>1, <4>2
      <3>2. ASSUME a \in AccountsOf(d.heap)
            PROVE  Find(s, c) # {}
        BY <1>4, <1>7, <2>2, <3>2 DEF Recalls
      <3> QED  BY <3>1, <3>2
    <2>7. p.tools = Cardinality(AccountsOf(f.heap))
      BY <1>6, <1>8, <2>2, <2>6
    <2> QED  BY <1>10, <2>5, <2>7 DEF Recalls
  <1> QED  BY <1>10, <1>11, <1>12, <1>13, <1>14, <1>15 DEF OverviewAgrees

\* The overview follows the projection, whatever the entry.
LEMMA OverviewFollows ==
    ASSUME NEW d, Between(d), NEW o, OverviewAgrees(d, o), NEW n \in Nat, d.event \in Nat,
           d.event < n, NEW e, NEW f, Between(f), f.event = n, Accounted(d, n, e, f),
           NEW p, IF NamesCall(e, d.paginated) THEN Tallied(o, p, e.call) ELSE Untallied(o, p)
    PROVE  OverviewAgrees(f, p)
  <1>1. IsSeq(d.heap) /\ IsSeq(f.heap)
    BY DEF Between, Good, Recorded
  <1>2. CASE ~NamesCall(e, d.paginated)
    <2>1. Untallied(o, p)
      BY <1>2
    <2> QED  BY <1>2, <2>1, PlainAgrees
  <1>3. CASE NamesCall(e, d.paginated) /\ e.call = None
    <2>1. Tallied(o, p, e.call)
      BY <1>3
    <2> QED  BY <1>1, <1>3, <2>1, UnnamedAgrees
  <1>4. CASE NamesCall(e, d.paginated) /\ e.call # None
    <2>1. Tallied(o, p, e.call)
      BY <1>4
    <2> QED  BY <1>1, <1>4, <2>1, NamedAgrees
  <1> QED  BY <1>2, <1>3, <1>4

-----------------------------------------------------------------------------
(* The invariant.                                                          *)

\* What holds between entries: the projection as above, of the page that was
\* asked for, and counts of the overview that the entries read allow.
ProjectionInv ==
    /\ scope \in DOMAIN Scopes /\ count \in 0..Scope.length
    /\ Between(detailed) /\ detailed.event = count
    /\ detailed.paginated = Scope.paginated /\ detailed.limit = Scope.limit
    /\ detailed.before = Scope.before
    /\ IsOverview(overview) /\ overview.turns <= count /\ overview.tools <= count
    /\ OverviewAgrees(detailed, overview)

LEMMA EmptyIsSeq == IsSeq(<<>>) /\ Len(<<>>) = 0
  BY DEF IsSeq, Elements

LEMMA StartIsGood ==
    ASSUME NEW d, Shape(d), d.turns = <<>>, d.active = FALSE, d.step = 0, d.heap = <<>>,
           d.tracked = <<>>, d.states = <<>>, d.pending = 0, d.lastRecord = 0,
           d.lastTurn = 0, d.dirty = {}, d.stored = <<>>, d.ambiguous = FALSE,
           d.visible = {}, d.samples = 0, d.event = 0, d.kept = <<>>,
           d.owners = <<>>, d.limit \in Nat \ {0}, d.before \in Nat,
           d.tools = 0, d.failures = 0
    PROVE  Between(d)
  <1>1. /\ IsSeq(d.turns) /\ Len(d.turns) = 0 /\ IsSeq(d.heap) /\ Len(d.heap) = 0
        /\ IsSeq(d.tracked) /\ Len(d.tracked) = 0 /\ IsSeq(d.states) /\ Len(d.states) = 0
    BY EmptyIsSeq
  <1>2. 1..0 = {} /\ 0 \in 0..0
    OBVIOUS
  <1>3. d.active \in BOOLEAN /\ d.ambiguous \in BOOLEAN
    BY Zenon
  <1>4. MaxTracked \in Nat /\ 0 <= MaxTracked
    BY LimitsAssumption
  <1>5. Running(d)
    BY <1>1, <1>2, <1>3 DEF Running, TurnsRun, StepFits
  <1>6. Recorded(d) /\ Remembers(d) /\ Indexed(d, {}) /\ Unsalted(d)
    BY <1>1, <1>2, <1>3, <1>4 DEF Recorded, Remembers, Indexed, Unsalted
  <1>7. Sampled(d)
    BY <1>1, <1>2 DEF Sampled
  <1>8. PageEnd(d, 0) = 0
    BY DEF PageEnd
  <1>9. KeptIs(d, 0)
    BY <1>1, <1>2, <1>8, EmptyIsSeq DEF KeptIs
  <1>10. OwnersAre(d, 0)
    <2>1. PageOf(d, 0) = {}
      BY <1>2 DEF PageOf
    <2>2. OwnersOf({}, d.heap) = <<>>
      BY DEF OwnersOf
    <2> QED  BY <2>1, <2>2 DEF OwnersAre
  <1>11. PageFits(d)
    BY <1>1, <1>9, <1>10 DEF PageFits
  <1>12. NamesFit(d)
    BY <1>1, <1>2 DEF NamesFit, NamesDiffer, NamesSeen
  <1>13. Counted(d)
    <2>1. ToolsOf(d.heap) = {}
      BY <1>1, <1>2 DEF ToolsOf
    <2>2. AccountsOf(d.heap) = {} /\ FailedOf(d.heap) = {}
      BY <2>1 DEF AccountsOf, FailedOf
    <2>3. Cardinality(AccountsOf(d.heap)) = 0 /\ Cardinality(FailedOf(d.heap)) = 0
      BY <2>2, FS_EmptySet
    <2>4. BooksAgree(d.heap, d.states, d.tools, d.failures)
      BY <2>1, <2>3 DEF BooksAgree
    <2> QED  BY <1>1, <1>2, <2>4 DEF Counted, Distinct
  <1> QED  BY <1>5, <1>6, <1>7, <1>11, <1>12, <1>13 DEF Good, Between

LEMMA ProjectionInit == Init => ProjectionInv
  <1> SUFFICES ASSUME Init PROVE ProjectionInv
    OBVIOUS
  <1>1. PICK p, l, b : p = Scope.paginated /\ l = Scope.limit /\ b = Scope.before
    OBVIOUS
  <1>2. detailed = [Start EXCEPT !.paginated = p, !.limit = l, !.before = b]
    BY <1>1 DEF Init
  <1>3. /\ Shape(detailed) /\ detailed.paginated = p /\ detailed.limit = l
        /\ detailed.before = b
    BY ZenonT(60), <1>2 DEF Start, Shape, Fields
  <1>4. /\ detailed.turns = <<>> /\ detailed.active = FALSE /\ detailed.step = 0
        /\ detailed.heap = <<>> /\ detailed.tracked = <<>> /\ detailed.states = <<>>
        /\ detailed.pending = 0 /\ detailed.lastRecord = 0 /\ detailed.lastTurn = 0
        /\ detailed.dirty = {} /\ detailed.stored = <<>> /\ detailed.ambiguous = FALSE
        /\ detailed.visible = {} /\ detailed.samples = 0 /\ detailed.event = 0
        /\ detailed.kept = <<>> /\ detailed.owners = <<>>
        /\ detailed.tools = 0 /\ detailed.failures = 0
    BY <1>2 DEF Start
  <1>l. l \in Nat \ {0} /\ b \in Nat
    BY <1>1, ScopesAssumption DEF Init, Scope
  <1>5. Between(detailed)
    BY <1>3, <1>4, <1>l, StartIsGood
  <1>6. scope \in DOMAIN Scopes /\ count = 0 /\ Scope.length \in Nat
    BY ScopesAssumption DEF Init, Scope
  <1>7. IsOverview(overview) /\ overview.turns = 0 /\ overview.tools = 0
    BY DEF Init, NoOverview, IsOverview, OverviewFields
  <1>8. OverviewAgrees(detailed, overview)
    <2>1. IsSeq(overview.seen) /\ Len(overview.seen) = 0
      BY EmptyIsSeq DEF Init, NoOverview
    <2>2. AccountsOf(detailed.heap) = {}
      <3>1. Len(detailed.heap) = 0
        BY <1>4, EmptyIsSeq
      <3>2. ToolsOf(detailed.heap) = {}
        BY <3>1 DEF ToolsOf
      <3> QED  BY <3>2 DEF AccountsOf
    <2>3. Cardinality(AccountsOf(detailed.heap)) = 0 /\ 0 <= MaxTracked
      BY <2>2, FS_EmptySet, LimitsAssumption
    <2>4. Distinct(overview.seen) /\ Recalls(detailed, overview)
      BY <2>1, <2>2 DEF Distinct, Recalls
    <2>5. \A k \in 1..Len(overview.seen) :
            <<"call", <<"call", overview.seen[k].call>>>> \in AccountsOf(detailed.heap)
      BY <2>1
    <2> QED  BY <1>7, <2>1, <2>2, <2>3, <2>4, <2>5 DEF OverviewAgrees
  <1> QED  BY <1>1, <1>3, <1>4, <1>5, <1>6, <1>7, <1>8 DEF ProjectionInv

LEMMA ReadKeeps ==
    ASSUME NEW kinds, ProjectionInv, Read(kinds)
    PROVE  ProjectionInv' /\ Follows(detailed, detailed')
  <1>1. PICK e \in Scope.entries : /\ detailed' = Project(detailed, count + 1, e)
                                   /\ overview' = Overview(overview, e, Scope.paginated)
    BY DEF Read
  <1>2. count < Scope.length /\ count' = count + 1 /\ scope' = scope
    BY DEF Read
  <1>3. PICK d, f, n : d = detailed /\ f = detailed' /\ n = count + 1
    OBVIOUS
  <1>4. Between(d) /\ f = Project(d, n, e)
    BY <1>1, <1>3 DEF ProjectionInv
  <1>n. n \in Nat /\ d.event \in Nat /\ d.event < n
    BY <1>3, ScopesAssumption DEF ProjectionInv, Scope
  <1>5. Between(f) /\ Follows(d, f) /\ f.event = n /\ Accounted(d, n, e, f)
    BY <1>4, <1>n, ProjectSteps
  <1>6. PICK o, p, b : o = overview /\ p = overview' /\ b = Scope.paginated
    OBVIOUS
  <1>7. IsOverview(o) /\ p = Overview(o, e, b)
    BY <1>1, <1>6 DEF ProjectionInv
  <1>8. /\ IsOverview(p) /\ OneMore(o, p)
        /\ IF NamesCall(e, b) THEN Tallied(o, p, e.call) ELSE Untallied(o, p)
    BY <1>7, OverviewIs
  <1>15. OverviewAgrees(f, p)
    <2>1. d.paginated = b /\ OverviewAgrees(d, o)
      BY <1>3, <1>6 DEF ProjectionInv
    <2> QED  BY <1>4, <1>n, <1>5, <1>8, <2>1, OverviewFollows
  <1>16. OverviewAgrees(detailed, overview)'
    BY <1>3, <1>6, <1>15 DEF OverviewAgrees, Recalls
  <1>9. scope \in DOMAIN Scopes /\ Scope.length \in Nat /\ count \in 0..Scope.length
    BY ScopesAssumption DEF ProjectionInv, Scope
  <1>10. Scope' = Scope
    BY <1>2 DEF Scope
  <1>11. count' \in 0..Scope'.length
    BY <1>2, <1>9, <1>10
  <1>12. p.turns <= count' /\ p.tools <= count'
    <2>1. o.turns <= count /\ o.tools <= count /\ o.turns \in Nat /\ o.tools \in Nat
      BY <1>6, <1>7 DEF ProjectionInv, IsOverview
    <2>2. count \in Nat
      BY <1>9
    <2> QED  BY <1>2, <1>8, <2>1, <2>2 DEF OneMore
  <1>13. /\ detailed'.paginated = Scope'.paginated /\ detailed'.limit = Scope'.limit
         /\ detailed'.before = Scope'.before
    BY <1>3, <1>5, <1>10 DEF Follows, ProjectionInv
  <1>14. Between(detailed)' /\ IsOverview(overview)' /\ detailed'.event = count'
    BY <1>2, <1>3, <1>5, <1>6, <1>8 DEF Between, IsOverview
  <1> QED  BY <1>2, <1>3, <1>5, <1>6, <1>9, <1>11, <1>12, <1>13, <1>14,
             <1>16 DEF ProjectionInv

LEMMA ProjectionStep ==
    ASSUME ProjectionInv, [Next]_vars
    PROVE  ProjectionInv' /\ Follows(detailed, detailed')
  <1>1. CASE UNCHANGED vars
    <2>1. PICK d : d = detailed
      OBVIOUS
    <2>2. detailed' = d
      BY <1>1, <2>1 DEF vars
    <2>3. Step(d, d, {})
      BY <2>1, StepStays DEF ProjectionInv, Between
    <2>4. ProjectionInv'
      BY <1>1 DEF ProjectionInv, OverviewAgrees, Recalls, vars, Scope
    <2> QED  BY <2>1, <2>2, <2>3, <2>4 DEF Step, Goes, Follows, SameCall
  <1>2. CASE Next
    <2>1. CASE ReadTurnEvent
      BY <2>1, ReadKeeps DEF ReadTurnEvent
    <2>2. CASE ReadItem
      BY <2>2, ReadKeeps DEF ReadItem
    <2>3. CASE ReadLegacyEvent
      BY <2>3, ReadKeeps DEF ReadLegacyEvent
    <2>4. CASE ReadResponseItem
      BY <2>4, ReadKeeps DEF ReadResponseItem
    <2>5. CASE ReadAlways
      BY <2>5, ReadKeeps DEF ReadAlways
    <2>6. CASE ReadSilent
      BY <2>6, ReadKeeps DEF ReadSilent
    <2>7. CASE End
      BY <1>1, <2>7 DEF End
    <2> QED  BY <1>2, <2>1, <2>2, <2>3, <2>4, <2>5, <2>6, <2>7 DEF Next
  <1> QED  BY <1>1, <1>2

\* Between entries the projection, the index and the overview are as above.
THEOREM ProjectionInvariance == Spec => []ProjectionInv
  <1>1. Init => ProjectionInv
    BY ProjectionInit
  <1>2. ProjectionInv /\ [Next]_vars => ProjectionInv'
    BY ProjectionStep
  <1> QED  BY <1>1, <1>2, PTL DEF Spec

LEMMA InvIsTypeOK == ProjectionInv => TypeOK
  <1> SUFFICES ASSUME ProjectionInv PROVE TypeOK
    OBVIOUS
  <1>1. PICK d : d = detailed
    OBVIOUS
  <1>2. Good(d, {})
    BY <1>1 DEF ProjectionInv, Between
  <1>3. d.step \in Nat /\ d.active \in BOOLEAN
    BY <1>2, GoodBounds
  <1>4. DOMAIN d.turns = 1..Len(d.turns) /\ DOMAIN d.heap = 1..Len(d.heap)
        /\ \A i \in 1..Len(d.heap) : IsRecord(d.heap[i]) /\ RecordFits(d.heap[i], d)
    BY <1>2, GoodFacts
  <1>5. \A t \in DOMAIN d.turns : d.turns[t].status \in {"running", "complete", "error", "aborted"}
    BY <1>2, <1>4 DEF Good, Running, TurnsRun, IsTurn
  <1>6. \A i \in DOMAIN d.heap :
          /\ d.heap[i].turn \in DOMAIN d.turns
          /\ d.heap[i].kind \in {"user", "assistant", "reasoning", "tool",
                                  "subagent", "compaction"}
          /\ d.heap[i].status \in {"running", "complete", "error"}
    BY <1>4 DEF IsRecord, RecordFits, Kinds
  <1>7. Len(d.tracked) <= MaxTracked /\ Len(d.states) <= MaxTracked
    BY <1>2 DEF Good, Remembers
  <1>8. scope \in DOMAIN Scopes /\ count \in 0..Scope.length /\ Scope.length \in Nat
    BY ScopesAssumption DEF ProjectionInv, Scope
  <1>9. overview.turns \in 0..count /\ overview.tools \in 0..count
    BY <1>8 DEF ProjectionInv, IsOverview
  <1> QED  BY <1>1, <1>3, <1>5, <1>6, <1>7, <1>8, <1>9 DEF TypeOK, Heap, Turns

\* Turns, records and counts have the values they should have.
THEOREM ProjectionTypeCorrect == Spec => []TypeOK
  BY ProjectionInvariance, InvIsTypeOK, PTL

LEMMA InvIsSeparate == ProjectionInv => TurnsAreSeparate
  <1> SUFFICES ASSUME ProjectionInv PROVE TurnsAreSeparate
    OBVIOUS
  <1>1. PICK d : d = detailed
    OBVIOUS
  <1>2. Good(d, {})
    BY <1>1 DEF ProjectionInv, Between
  <1>3. DOMAIN d.turns = 1..Len(d.turns) /\ DOMAIN d.heap = 1..Len(d.heap)
        /\ \A i \in 1..Len(d.heap) : IsRecord(d.heap[i]) /\ RecordFits(d.heap[i], d)
    BY <1>2, GoodFacts
  <1>4. \A t \in DOMAIN d.turns : d.turns[t].status = "running" <=> d.active /\ t = Turn(d)
    BY <1>2, <1>3 DEF Good, Running, TurnsRun, Turn
  <1>5. \A i \in DOMAIN d.heap :
          ~d.heap[i].marker => d.heap[i].step <= d.turns[d.heap[i].turn].steps
    BY <1>3 DEF RecordFits
  <1> QED  BY <1>1, <1>4, <1>5 DEF TurnsAreSeparate, OneTurnRuns, StepsWithinTurn, Heap, Turns

\* However entries of several turns are mixed, at most the newest turn runs, and
\* no record is of a step that its turn does not have.
THEOREM TurnsStaySeparate == Spec => []TurnsAreSeparate
  BY ProjectionInvariance, InvIsSeparate, PTL

LEMMA FollowingStays ==
    ASSUME ProjectionInv, Follows(detailed, detailed')
    PROVE  ClosedTurnsStep /\ ResultsStep
  <1>1. PICK d, e : d = detailed /\ e = detailed'
    OBVIOUS
  <1>2. Good(d, {}) /\ Follows(d, e)
    BY <1>1 DEF ProjectionInv, Between
  <1>3. DOMAIN d.turns = 1..Len(d.turns) /\ DOMAIN d.heap = 1..Len(d.heap)
    BY <1>2, GoodFacts
  <1>4. \A t \in DOMAIN d.turns : d.turns[t].status # "running" =>
                                    e.turns[t].status = d.turns[t].status
    BY <1>2, <1>3 DEF Follows, TurnsStay
  <1>5. \A i \in DOMAIN d.heap : RecordStays(d.heap[i], e.heap[i])
    BY <1>2, <1>3 DEF Follows, RecordsGo
  <1>6. ClosedTurnsStep
    BY <1>1, <1>4 DEF ClosedTurnsStep, Turns
  <1>7. ResultsStep
    BY <1>1, <1>5 DEF ResultsStep, RecordStays, Heap
  <1> QED  BY <1>6, <1>7

\* A turn or a tool that ended does not run again, a failure keeps its reason, and
\* an authoritative completion outlives the output entry that comes after it.
THEOREM EndedHolds == Spec => EndedStaysEnded
  <1>1. ProjectionInv /\ [Next]_vars => [ClosedTurnsStep /\ ResultsStep]_vars
    BY ProjectionStep, FollowingStays
  <1>2. [][ClosedTurnsStep /\ ResultsStep]_vars => EndedStaysEnded
    BY PTL DEF EndedStaysEnded, ClosedTurnsStay, ResultsStay
  <1> QED  BY <1>1, <1>2, ProjectionInvariance, PTL DEF Spec

LEMMA InvIsConserved == ProjectionInv => UsageConserved
  <1> SUFFICES ASSUME ProjectionInv PROVE UsageConserved
    OBVIOUS
  <1>1. PICK d : d = detailed
    OBVIOUS
  <1>2. Good(d, {})
    BY <1>1 DEF ProjectionInv, Between
  <1>3. DOMAIN d.turns = 1..Len(d.turns) /\ Sampled(d)
    BY <1>2, GoodFacts DEF Good
  <1>4. UNION {d.turns[t].calls : t \in DOMAIN d.turns} = 1..d.samples
    BY <1>3 DEF Sampled
  <1>5. \A t, u \in DOMAIN d.turns : t # u => d.turns[t].calls \cap d.turns[u].calls = {}
    BY <1>3 DEF Sampled
  <1> QED  BY <1>1, <1>4, <1>5 DEF UsageConserved, Turns

\* Every usage sample after the first turn is part of exactly one turn's usage,
\* wherever its turn is when the usage is reported.
THEOREM UsageIsConserved == Spec => []UsageConserved
  BY ProjectionInvariance, InvIsConserved, PTL

-----------------------------------------------------------------------------
(* The counts.                                                             *)

\* The accounts of calls C and of records R without one.
Accounts(C, R) == {<<"call", c>> : c \in C} \cup {<<"record", i>> : i \in R}

LEMMA AccountsCount ==
    ASSUME NEW C, IsFiniteSet(C), NEW R, IsFiniteSet(R)
    PROVE  Cardinality(Accounts(C, R)) = Cardinality(C) + Cardinality(R)
  <1> DEFINE D == {<<"call", c>> : c \in C}
             S == {<<"record", i>> : i \in R}
             f == [c \in C |-> <<"call", c>>]
             g == [i \in R |-> <<"record", i>>]
  <1>1. \A b, c : <<"call", b>> = <<"call", c>> <=> b = c
    BY Zenon
  <1>2. \A i, j : <<"record", i>> = <<"record", j>> <=> i = j
    BY Zenon
  <1>3. f \in Bijection(C, D)
    BY <1>1 DEF Bijection, Injection, IsInjective, Surjection
  <1>4. IsFiniteSet(D) /\ Cardinality(D) = Cardinality(C)
    BY <1>3, FS_Bijection DEF ExistsBijection
  <1>5. g \in Bijection(R, S)
    BY <1>2 DEF Bijection, Injection, IsInjective, Surjection
  <1>6. IsFiniteSet(S) /\ Cardinality(S) = Cardinality(R)
    BY <1>5, FS_Bijection DEF ExistsBijection
  <1>7. D \cap S = {}
    <2>1. \A c, i : <<"call", c>>[1] # <<"record", i>>[1]
      OBVIOUS
    <2> QED  BY <2>1
  <1>8. Accounts(C, R) = D \cup S
    BY DEF Accounts
  <1> HIDE DEF D, S
  <1>9. Cardinality(D \cup S) = Cardinality(D) + Cardinality(S) - Cardinality(D \cap S)
    BY <1>4, <1>6, FS_Union
  <1>10. Cardinality(D \cap S) = 0
    BY <1>7, FS_EmptySet
  <1>11. Cardinality(C) \in Nat /\ Cardinality(R) \in Nat
    BY FS_CardinalityType
  <1> QED  BY <1>4, <1>6, <1>8, <1>9, <1>10, <1>11

LEMMA InvIsCounted == ProjectionInv => CallsCountOnce /\ FailuresCountOnce
  <1> SUFFICES ASSUME ProjectionInv PROVE CallsCountOnce /\ FailuresCountOnce
    OBVIOUS
  <1> DEFINE FailedCalls == {c \in Named : \E i \in Tools : Heap[i].call = c
                                                            /\ Heap[i].status = "error"}
             FailedRecords == {i \in Unnamed : Heap[i].status = "error"}
  <1>1. IsSeq(Heap) /\ Counted(detailed)
    BY DEF ProjectionInv, Between, Good, Recorded, Heap
  <1>2. DOMAIN Heap = 1..Len(Heap)
    BY <1>1, SeqDomain
  <1>3. Tools = ToolsOf(Heap) /\ Named = NamedOf(Heap)
    BY <1>2 DEF Tools, ToolsOf, Named, NamedOf
  <1>4. IsFiniteSet(Named) /\ IsFiniteSet(AccountsOf(Heap))
    BY <1>1, <1>3, BooksFinite
  <1>5. IsFiniteSet(Unnamed)
    <2>1. Len(Heap) \in Nat
      BY <1>1, SeqDomain
    <2>2. IsFiniteSet(1..Len(Heap))
      BY <2>1, FS_Interval
    <2>3. Unnamed \subseteq 1..Len(Heap)
      BY <1>3 DEF Unnamed, ToolsOf
    <2> QED  BY <2>2, <2>3, FS_Subset
  <1>6. AccountsOf(Heap) = Accounts(Named, Unnamed)
    <2>1. \A i \in ToolsOf(Heap) : Account(Heap, i) \in Accounts(Named, Unnamed)
      BY <1>3 DEF Account, Accounts, Named, Unnamed
    <2>2. \A i \in Unnamed : <<"record", i>> \in AccountsOf(Heap)
      BY <1>3 DEF Unnamed, AccountsOf, Account
    <2>3. \A c \in Named : <<"call", c>> \in AccountsOf(Heap)
      BY <1>3 DEF Named, AccountsOf, Account
    <2>4. AccountsOf(Heap) \subseteq Accounts(Named, Unnamed)
      BY <2>1 DEF AccountsOf
    <2>5. Accounts(Named, Unnamed) \subseteq AccountsOf(Heap)
      BY <2>2, <2>3 DEF Accounts
    <2> QED  BY <2>4, <2>5
  <1>7. FailedOf(Heap) = Accounts(FailedCalls, FailedRecords)
    <2>1. \A i \in ToolsOf(Heap) : Heap[i].status = "error" =>
                                     Account(Heap, i) \in Accounts(FailedCalls, FailedRecords)
      BY <1>3 DEF Account, Accounts, Named, Unnamed
    <2>2. \A i \in FailedRecords : <<"record", i>> \in FailedOf(Heap)
      BY <1>3 DEF Unnamed, FailedOf, Account
    <2>3. \A c \in FailedCalls : <<"call", c>> \in FailedOf(Heap)
      <3> TAKE c \in FailedCalls
      <3>1. PICK i \in Tools : Heap[i].call = c /\ Heap[i].status = "error"
        OBVIOUS
      <3>2. c # NoCall
        BY DEF Named
      <3> QED  BY <1>3, <3>1, <3>2 DEF FailedOf, Account
    <2> HIDE DEF FailedCalls, FailedRecords
    <2>4. FailedOf(Heap) \subseteq Accounts(FailedCalls, FailedRecords)
      BY <2>1 DEF FailedOf
    <2>5. Accounts(FailedCalls, FailedRecords) \subseteq FailedOf(Heap)
      BY <2>2, <2>3 DEF Accounts
    <2> QED  BY <2>4, <2>5
  <1>8. Remembered => BooksAgree(Heap, detailed.states, detailed.tools, detailed.failures)
    BY <1>1, <1>3 DEF Counted, Remembered, Heap
  <1>9. Cardinality(Accounts(Named, Unnamed)) = Cardinality(Named) + Cardinality(Unnamed)
    BY <1>4, <1>5, AccountsCount
  <1>10. IsFiniteSet(FailedCalls) /\ IsFiniteSet(FailedRecords)
    BY <1>4, <1>5, FS_Subset
  <1>11. Cardinality(Accounts(FailedCalls, FailedRecords))
           = Cardinality(FailedCalls) + Cardinality(FailedRecords)
    <2> HIDE DEF FailedCalls, FailedRecords
    <2> QED  BY <1>10, AccountsCount
  <1>12. CallsCountOnce
    BY <1>6, <1>8, <1>9 DEF CallsCountOnce, BooksAgree
  <1>13. FailuresCountOnce
    BY <1>7, <1>8, <1>11 DEF FailuresCountOnce, BooksAgree
  <1> QED  BY <1>12, <1>13

LEMMA InvIsCountedTwice == ProjectionInv => OverviewCountsCalls
  <1> SUFFICES ASSUME ProjectionInv, Remembered PROVE overview.tools = detailed.tools
    BY DEF OverviewCountsCalls
  <1>1. IsSeq(Heap) /\ Counted(detailed) /\ OverviewAgrees(detailed, overview)
    BY DEF ProjectionInv, Between, Good, Recorded, Heap
  <1>2. DOMAIN Heap = 1..Len(Heap)
    BY <1>1, SeqDomain
  <1>3. Named = NamedOf(detailed.heap)
    BY <1>2 DEF Named, NamedOf, Tools, ToolsOf, Heap
  <1>4. Cardinality(NamedOf(detailed.heap)) <= MaxTracked
    BY <1>3 DEF Remembered
  <1> QED  BY <1>1, <1>4 DEF Counted, BooksAgree, OverviewAgrees

\* Calls, results and completions in any order, of known calls and of others: as
\* long as no call was forgotten, every call counts once, once more if it failed,
\* and parse_session and session_overview count the same.
THEOREM CountsHold == Spec => []CountsExact
  <1>1. ProjectionInv => CountsExact
    BY InvIsCounted, InvIsCountedTwice DEF CountsExact
  <1> QED  BY <1>1, ProjectionInvariance, PTL

-----------------------------------------------------------------------------
(* The page.                                                               *)

LEMMA SliceIs ==
    ASSUME NEW d, Len(d.heap) \in Nat, DOMAIN d.heap = 1..Len(d.heap),
           d.limit \in Nat \ {0}, d.before \in Nat
    PROVE  Slice(d, d.limit, d.before) = PageOf(d, Len(d.heap))
  <1>1. PICK n, end : n = Len(d.heap)
                      /\ end = IF d.before = 0 \/ n < d.before THEN n + 1 ELSE d.before
    OBVIOUS
  <1>2. Slice(d, d.limit, d.before) = {i \in 1..n : i < end /\ i >= end - d.limit}
    BY <1>1 DEF Slice, LastRecord
  <1>3. n \in Nat /\ end \in Int /\ PageEnd(d, n) = end - 1
    BY <1>1 DEF PageEnd
  <1>4. \A i \in 1..n : i < end /\ i >= end - d.limit <=> OnPage(d, n, i)
    BY <1>3 DEF OnPage
  <1> QED  BY <1>1, <1>2, <1>4 DEF PageOf

\* The records that are kept are those of the page, in order.
LEMMA KeptIsPage ==
    ASSUME NEW d, d.limit \in Nat \ {0}, d.before \in Nat, NEW n \in Nat, KeptIs(d, n)
    PROVE  /\ DOMAIN d.kept = 1..Len(d.kept) /\ Len(d.kept) \in Nat
           /\ \A k \in 1..Len(d.kept) : d.kept[k] \in 1..n /\ OnPage(d, n, d.kept[k])
           /\ \A i \in 1..n : OnPage(d, n, i) => \E k \in 1..Len(d.kept) : d.kept[k] = i
           /\ \A k, l \in 1..Len(d.kept) : k < l => d.kept[k] < d.kept[l]
           /\ \A k, l \in 1..Len(d.kept) : d.kept[k] = d.kept[l] => k = l
  <1>1. PICK s, m, p, l : s = d.kept /\ m = Len(d.kept) /\ p = PageEnd(d, n) /\ l = d.limit
    OBVIOUS
  <1>2. p \in Nat /\ p <= n
    BY <1>1 DEF PageEnd
  <1>3. /\ IsSeq(s) /\ m = (IF p < l THEN p ELSE l) /\ l \in Nat \ {0}
        /\ \A k \in 1..m : s[k] = p - m + k
    BY <1>1 DEF KeptIs
  <1>4. m \in Nat /\ m <= p /\ m <= l /\ (m < l => m = p) /\ DOMAIN s = 1..m
    <2>1. m \in Nat /\ m <= p /\ m <= l /\ (m < l => m = p)
      BY <1>2, <1>3
    <2>2. Len(s) = m
      BY <1>1
    <2> QED  BY <1>3, <2>1, <2>2, SeqDomain
  <1>5. ASSUME NEW k \in 1..m PROVE s[k] \in 1..n /\ s[k] <= p /\ s[k] > p - l
    BY <1>2, <1>3, <1>4
  <1>6. \A k \in 1..m : s[k] \in 1..n /\ OnPage(d, n, s[k])
    BY <1>1, <1>5 DEF OnPage
  <1>7. ASSUME NEW i \in 1..n, OnPage(d, n, i) PROVE \E k \in 1..m : s[k] = i
    <2>1. i <= p /\ i > p - l
      BY <1>1, <1>7 DEF OnPage
    <2>2. i - p + m \in 1..m
      BY <1>2, <1>3, <1>4, <2>1
    <2>3. s[i - p + m] = p - m + (i - p + m)
      BY <1>3, <2>2
    <2>4. p - m + (i - p + m) = i
      BY <1>2, <1>4
    <2> QED  BY <2>2, <2>3, <2>4
  <1>8. \A j, k \in 1..m : (j < k => s[j] < s[k]) /\ (s[j] = s[k] => j = k)
    BY <1>2, <1>3, <1>4
  <1> QED  BY <1>1, <1>4, <1>6, <1>7, <1>8

LEMMA InvIsPage == ProjectionInv => PageSound
  <1> SUFFICES ASSUME ProjectionInv PROVE PageSound
    OBVIOUS
  <1>1. PICK d : d = detailed
    OBVIOUS
  <1>2. Good(d, {}) /\ d.limit = Scope.limit /\ d.before = Scope.before
    BY <1>1 DEF ProjectionInv, Between
  <1>3. PICK n : n = Len(d.heap)
    OBVIOUS
  <1>4. n \in Nat /\ DOMAIN d.heap = 1..n
    BY <1>2, <1>3, GoodFacts
  <1>5. /\ d.limit \in Nat \ {0} /\ d.before \in Nat /\ KeptIs(d, n) /\ OwnersAre(d, n)
        /\ NamesDiffer(d, n)
    BY <1>2, <1>3 DEF Good, PageFits, NamesFit
  <1>6. Slice(d, d.limit, d.before) = PageOf(d, n)
    BY <1>3, <1>4, <1>5, SliceIs
  <1>7. /\ DOMAIN d.kept = 1..Len(d.kept)
        /\ \A k \in 1..Len(d.kept) : d.kept[k] \in 1..n /\ OnPage(d, n, d.kept[k])
        /\ \A i \in 1..n : OnPage(d, n, i) => \E k \in 1..Len(d.kept) : d.kept[k] = i
        /\ \A k, l \in 1..Len(d.kept) : k < l => d.kept[k] < d.kept[l]
        /\ \A k, l \in 1..Len(d.kept) : d.kept[k] = d.kept[l] => k = l
    BY <1>4, <1>5, KeptIsPage
  <1>8. ToSet(d.kept) = PageOf(d, n)
    BY <1>7 DEF ToSet, PageOf
  <1>9. d.owners = OwnersOf(PageOf(d, n), d.heap)
    BY <1>5 DEF OwnersAre
  <1>10. PageIsSlice
    BY <1>1, <1>2, <1>6, <1>7, <1>8, <1>9 DEF PageIsSlice, OwnersOf, Heap
  <1>11. IdsOnPageDiffer
    <2> SUFFICES ASSUME NEW k \in 1..Len(d.kept), NEW l \in 1..Len(d.kept),
                        d.heap[d.kept[k]].id = d.heap[d.kept[l]].id,
                        d.heap[d.kept[k]].id \notin d.given
                 PROVE  k = l
      BY <1>1, <1>7 DEF IdsOnPageDiffer, Ambiguous, Heap
    <2>1. PICK i, j : i = d.kept[k] /\ j = d.kept[l]
      OBVIOUS
    <2>2. i \in 1..n /\ j \in 1..n /\ OnPage(d, n, i) /\ OnPage(d, n, j)
      BY <1>7, <2>1
    <2>3. i = j
      BY <1>5, <2>1, <2>2 DEF NamesDiffer
    <2> QED  BY <1>7, <2>1, <2>3
  <1> QED  BY <1>10, <1>11 DEF PageSound

\* The page that is kept while a log is read is the slice that was asked for, its
\* turns are counted exactly, and its records have different names, even if the log
\* names items and calls alike; but for the names it gave to compactions that were
\* pending, which the code does not compare with those on the page.
THEOREM PageHolds == Spec => []PageSound
  BY ProjectionInvariance, InvIsPage, PTL

-----------------------------------------------------------------------------
(* The page index.                                                         *)

\* With room for all of them, all turns are chosen.
LEMMA FillsAll ==
    ASSUME NEW O, NEW T, IsFiniteSet(O), IsFiniteSet(T), T \subseteq Nat, NEW m \in Nat,
           Cardinality(O \cup T) <= m
    PROVE  Fill(O, T, m) = O \cup T
  <1>1. PICK N : N = T \ O
    OBVIOUS
  <1>2. IsFiniteSet(N) /\ O \cap N = {} /\ O \cup N = O \cup T
    BY <1>1, FS_Difference
  <1>3. Cardinality(O) + Cardinality(N) <= m /\ Cardinality(O) \in Nat /\ Cardinality(N) \in Nat
    <2>1. Cardinality(O \cup N) = Cardinality(O) + Cardinality(N) - Cardinality(O \cap N)
      BY <1>2, FS_Union
    <2>2. Cardinality(O \cap N) = 0
      BY <1>2, FS_EmptySet
    <2>3. Cardinality(O) \in Nat /\ Cardinality(N) \in Nat
      BY <1>2, FS_CardinalityType
    <2>4. Cardinality(O \cup N) <= m
      BY <1>2
    <2> QED  BY <2>1, <2>2, <2>3, <2>4
  <1>4. ASSUME NEW t \in N PROVE Cardinality({u \in T \ O : u > t}) < m - Cardinality(O)
    <2>1. PICK A : A = {u \in T \ O : u > t}
      OBVIOUS
    <2>2. A \subseteq N \ {t}
      BY <1>1, <2>1
    <2>3. IsFiniteSet(N \ {t}) /\ Cardinality(N \ {t}) = Cardinality(N) - 1
      BY <1>2, FS_RemoveElement
    <2>4. Cardinality(A) <= Cardinality(N \ {t}) /\ Cardinality(A) \in Nat
      BY <2>2, <2>3, FS_Subset, FS_CardinalityType
    <2> QED  BY <1>3, <2>1, <2>3, <2>4
  <1>5. \A t \in T : t \in O \/ Cardinality({u \in T \ O : u > t}) < m - Cardinality(O)
    BY <1>1, <1>4
  <1> QED  BY <1>5 DEF Fill

\* Owners need not be among the turns that are chosen from.
LEMMA FillsOthers ==
    ASSUME NEW O, NEW T, NEW m
    PROVE  Fill(O, O \cup T, m) = Fill(O, T, m)
  <1>1. (O \cup T) \ O = T \ O
    OBVIOUS
  <1> QED  BY <1>1 DEF Fill

LEMMA InvIsIndexed == ProjectionInv => IndexedPageAgrees
  <1> SUFFICES ASSUME ProjectionInv PROVE IndexedPageAgrees
    OBVIOUS
  <1>1. PICK d : d = detailed
    OBVIOUS
  <1>2. Good(d, {}) /\ d.stored = d.heap /\ d.limit = Scope.limit /\ d.before = Scope.before
    BY <1>1 DEF ProjectionInv, Between
  <1>3. PICK n : n = Len(d.heap)
    OBVIOUS
  <1>4. /\ n \in Nat /\ DOMAIN d.heap = 1..n
        /\ DOMAIN d.turns = 1..Len(d.turns) /\ Len(d.turns) \in Nat
    BY <1>2, <1>3, GoodFacts
  <1>5. ~d.ambiguous => \A i \in DOMAIN d.heap : d.heap[i].id[1] # "salted"
    BY <1>2, <1>3, <1>4 DEF Good, Unsalted
  <1>6. /\ d.limit \in Nat \ {0} /\ d.before \in Nat /\ KeptIs(d, n) /\ OwnersAre(d, n)
    BY <1>2, <1>3 DEF Good, PageFits
  <1>7. PICK S : S = PageOf(d, n)
    OBVIOUS
  <1>8. Slice(d, d.limit, d.before) = S
    BY <1>3, <1>4, <1>6, <1>7, SliceIs
  <1>9. PICK O : O = {d.heap[i].turn : i \in S}
    OBVIOUS
  <1>10. IsFiniteSet(O)
    <2>1. \A i \in 1..n : d.heap[i].turn \in 1..Len(d.turns)
      BY <1>2, <1>3, GoodFacts DEF RecordFits
    <2>2. O \subseteq 1..Len(d.turns)
      BY <1>7, <1>9, <2>1 DEF PageOf
    <2>3. IsFiniteSet(1..Len(d.turns))
      BY <1>4, FS_Interval
    <2> QED  BY <2>2, <2>3, FS_Subset
  <1>11. {d.heap[d.kept[k]].turn : k \in DOMAIN d.kept} \cap DOMAIN d.owners = O
    <2>1. /\ DOMAIN d.kept = 1..Len(d.kept)
          /\ \A k \in 1..Len(d.kept) : d.kept[k] \in 1..n /\ OnPage(d, n, d.kept[k])
          /\ \A i \in 1..n : OnPage(d, n, i) => \E k \in 1..Len(d.kept) : d.kept[k] = i
      BY <1>4, <1>6, KeptIsPage
    <2>2. {d.heap[d.kept[k]].turn : k \in DOMAIN d.kept} = O
      BY SMTT(30), <1>7, <1>9, <2>1 DEF PageOf
    <2>3. DOMAIN d.owners = O
      BY <1>6, <1>7, <1>9 DEF OwnersAre, OwnersOf
    <2> QED  BY <2>2, <2>3
  <1>12. PICK T : T = {t \in DOMAIN d.turns : InDeque(d, t)}
    OBVIOUS
  <1>13. T \subseteq Nat /\ IsFiniteSet(T)
    <2>1. T \subseteq 1..Len(d.turns)
      BY <1>4, <1>12
    <2>2. IsFiniteSet(1..Len(d.turns))
      BY <1>4, FS_Interval
    <2>3. IsFiniteSet(T)
      BY <2>1, <2>2, FS_Subset
    <2> QED  BY <1>4, <2>1, <2>3
  <1>14. VisibleTurns(d) = Fill(O, T, MaxTurns)
    BY <1>11, <1>12 DEF VisibleTurns
  <1>15. IndexedTurns(d, d.limit, d.before)
           = IF Cardinality(O \cup T) > MaxTurns THEN Fill(O, O \cup T, MaxTurns) ELSE O \cup T
    BY <1>2, <1>8, <1>9, <1>12 DEF IndexedTurns
  <1>16. IndexedTurns(d, d.limit, d.before) = VisibleTurns(d)
    <2>1. CASE Cardinality(O \cup T) > MaxTurns
      BY <1>14, <1>15, <2>1, FillsOthers
    <2>2. CASE ~(Cardinality(O \cup T) > MaxTurns)
      <3>1. MaxTurns \in Nat /\ Cardinality(O \cup T) \in Nat
        BY <1>10, <1>13, LimitsAssumption, FS_Union, FS_CardinalityType
      <3>2. Cardinality(O \cup T) <= MaxTurns
        BY <2>2, <3>1
      <3>3. Fill(O, T, MaxTurns) = O \cup T
        BY <1>10, <1>13, <3>1, <3>2, FillsAll
      <3> QED  BY <1>14, <1>15, <2>2, <3>3
    <2> QED  BY <2>1, <2>2
  <1> QED  BY <1>1, <1>2, <1>5, <1>16 DEF IndexedPageAgrees, Heap

\* A page read from the index is the one that reading the log would make: after
\* every entry the index holds every record as the projection has it, late results
\* of old records too, although a handler tracks what it changes record by record;
\* both choose the same turns; and identifiers are those of the log as long as none
\* of them is ambiguous.
THEOREM IndexAgrees == Spec => []IndexedPageAgrees
  BY ProjectionInvariance, InvIsIndexed, PTL
=============================================================================
