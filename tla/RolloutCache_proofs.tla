------------------------- MODULE RolloutCache_proofs -------------------------
(***************************************************************************)
(* Proofs about RolloutCache, for every number of appends, every size of   *)
(* the caches and every set of views: type correctness, that no cache ever *)
(* holds a mixed snapshot, that a claimed revision is exact and that a     *)
(* current live window is not stale.                                       *)
(***************************************************************************)
EXTENDS RolloutCache, SequenceTheorems, TLAPS

USE BoundsAssumption, ViewsAssumption

\* The groups of variables, and the special numbers.
USE DEF logs, caches, work, out, None, Unreadable, Unavailable, UnreadableAt,
        Logs, Versions

-----------------------------------------------------------------------------
(* The LRU caches as sets.                                                 *)

\* Removing an entry adds none.
LEMMA OthersIsPart ==
    ASSUME NEW S, NEW s \in Seq(S), NEW e \in S
    PROVE  Others(s, e) \in Seq(S) /\ Range(Others(s, e)) \subseteq Range(s)
<1>1. PICK i : i = CHOOSE k \in {j \in DOMAIN s : Same(e, s[j])} : TRUE
  OBVIOUS
<1>2. CASE {j \in DOMAIN s : Same(e, s[j])} = {}
  BY <1>2 DEF Others
<1>3. CASE {j \in DOMAIN s : Same(e, s[j])} # {}
  <2>1. i \in 1..Len(s)
    BY <1>1, <1>3
  <2>2. Others(s, e) = SubSeq(s, 1, i - 1) \o SubSeq(s, i + 1, Len(s))
    BY <1>1, <1>3 DEF Others, RemoveAt
  <2>3. /\ SubSeq(s, 1, i - 1) \in Seq(S) /\ SubSeq(s, i + 1, Len(s)) \in Seq(S)
        /\ Len(SubSeq(s, 1, i - 1)) = i - 1
        /\ Len(SubSeq(s, i + 1, Len(s))) = Len(s) - i
        /\ \A j \in 1..(i - 1) : SubSeq(s, 1, i - 1)[j] = s[j]
        /\ \A j \in 1..(Len(s) - i) : SubSeq(s, i + 1, Len(s))[j] = s[i + j]
    BY <2>1
  <2>4. PICK a, b \in Seq(S) :
            /\ Others(s, e) = a \o b
            /\ Len(a) = i - 1 /\ Len(b) = Len(s) - i
            /\ \A j \in 1..(i - 1) : a[j] = s[j]
            /\ \A j \in 1..(Len(s) - i) : b[j] = s[i + j]
    BY <2>2, <2>3
  <2>5. ASSUME NEW j \in 1..Len(Others(s, e))
        PROVE  \E k \in 1..Len(s) : Others(s, e)[j] = s[k]
    <3>1. Len(a \o b) = Len(a) + Len(b)
      BY <2>4, ConcatProperties
    <3>2. CASE j <= i - 1
      <4>1. (a \o b)[j] = a[j]
        BY <2>1, <2>4, <3>1, <3>2, ConcatProperties
      <4> QED  BY <2>1, <2>4, <3>2, <4>1
    <3>3. CASE j > i - 1
      <4>1. (a \o b)[j] = b[j - (i - 1)]
        BY <2>1, <2>4, <3>1, <3>3, ConcatProperties
      <4>2. j - (i - 1) \in 1..(Len(s) - i) /\ i + (j - (i - 1)) \in 1..Len(s)
        BY <2>1, <2>4, <3>1, <3>3
      <4>3. b[j - (i - 1)] = s[i + (j - (i - 1))]
        BY <2>4, <4>2
      <4> QED  BY <2>4, <4>1, <4>2, <4>3
    <3> QED  BY <2>1, <2>4, <3>1, <3>2, <3>3
  <2>6. Others(s, e) \in Seq(S)
    BY <2>4, ConcatProperties
  <2>7. DOMAIN Others(s, e) = 1..Len(Others(s, e)) /\ DOMAIN s = 1..Len(s)
    BY <2>6
  <2>8. ASSUME NEW x \in Range(Others(s, e))
        PROVE  x \in Range(s)
    <3>1. PICK j \in DOMAIN Others(s, e) : x = Others(s, e)[j]
      BY DEF Range
    <3>2. PICK k \in DOMAIN s : Others(s, e)[j] = s[k]
      BY <2>5, <2>7
    <3> QED  BY <3>1, <3>2 DEF Range
  <2> QED  BY <2>6, <2>8
<1> QED  BY <1>2, <1>3

\* Using an entry adds at most that entry.
LEMMA UseAddsOne ==
    ASSUME NEW S, NEW s \in Seq(S), NEW e \in S
    PROVE  Use(s, e) \in Seq(S) /\ Range(Use(s, e)) \subseteq Range(s) \cup {e}
<1>1. Others(s, e) \in Seq(S) /\ Range(Others(s, e)) \subseteq Range(s)
  BY OthersIsPart
<1>2. \A j \in 1..Len(Use(s, e)) :
         \/ Use(s, e)[j] = e
         \/ j \in 1..Len(Others(s, e)) /\ Use(s, e)[j] = Others(s, e)[j]
  BY <1>1 DEF Use
<1> QED  BY <1>1, <1>2 DEF Use, Range

\* Using an entry again leaves as many.
LEMMA UseAgain ==
    ASSUME NEW S, NEW s \in Seq(S), NEW e \in Range(s), NEW f \in S, Same(f, e)
    PROVE  Len(Use(s, f)) = Len(s)
<1>1. PICK i : i = CHOOSE k \in {j \in DOMAIN s : Same(f, s[j])} : TRUE
  OBVIOUS
<1>2. {j \in DOMAIN s : Same(f, s[j])} # {}
  BY DEF Range
<1>3. i \in 1..Len(s)
  BY <1>1, <1>2
<1>4. Others(s, f) = SubSeq(s, 1, i - 1) \o SubSeq(s, i + 1, Len(s))
  BY <1>1, <1>2 DEF Others, RemoveAt
<1>5. PICK a, b \in Seq(S) : /\ Others(s, f) = a \o b
                             /\ Len(a) = i - 1 /\ Len(b) = Len(s) - i
  <2>1. /\ SubSeq(s, 1, i - 1) \in Seq(S) /\ SubSeq(s, i + 1, Len(s)) \in Seq(S)
        /\ Len(SubSeq(s, 1, i - 1)) = i - 1
        /\ Len(SubSeq(s, i + 1, Len(s))) = Len(s) - i
    BY <1>3
  <2> QED  BY <1>4, <2>1
<1>6. a \o b \in Seq(S) /\ Len(a \o b) = Len(a) + Len(b)
  BY <1>5, ConcatProperties
<1>7. Others(s, f) \in Seq(S) /\ Len(Others(s, f)) = Len(s) - 1
  BY <1>3, <1>5, <1>6
<1>8. Len(Append(Others(s, f), f)) = Len(Others(s, f)) + 1
  BY <1>7
<1> QED  BY <1>7, <1>8 DEF Use

\* Evicting adds none, and leaves no more than the limit.
LEMMA NewestIsPart ==
    ASSUME NEW S, NEW s \in Seq(S), NEW n \in Nat
    PROVE  /\ Newest(s, n) \in Seq(S)
           /\ Range(Newest(s, n)) \subseteq Range(s)
           /\ Len(Newest(s, n)) <= n
<1>1. PICK m : m = IF Len(s) > n THEN Len(s) - n + 1 ELSE 1
  OBVIOUS
<1>2. m \in 1..(Len(s) + 1)
  BY <1>1
<1>3. Newest(s, n) = SubSeq(s, m, Len(s))
  BY <1>1 DEF Newest
<1>4. /\ Newest(s, n) \in Seq(S)
      /\ Len(Newest(s, n)) = Len(s) - m + 1
      /\ \A j \in 1..(Len(s) - m + 1) : Newest(s, n)[j] = s[m + j - 1]
  BY <1>2, <1>3
<1>5. Len(Newest(s, n)) <= n
  BY <1>1, <1>4
<1> QED  BY SMTT(30), <1>2, <1>4, <1>5 DEF Range

-----------------------------------------------------------------------------
(* The parts of the invariant: the logs, the caches, and the call at work. *)

LogsInv ==
    /\ version \in [Logs -> Versions]
    /\ faults \in 0..MaxFaults

CachesType ==
    /\ trajectories \in Seq(Cached)
    /\ Len(trajectories) <= MaxTrajectories
    /\ indexes \in Seq(Cached)
    /\ usages \in [Logs -> [sig : Versions \cup {None},
                            of : Versions \cup {None}]]

CachesInv == CachesType /\ PureCaches

\* The calls there are.
Calls == [kind : {"none", "read", "update"}, view : Views,
          phase : {"none", "before", "read", "family", "after"},
          before : Revisions, now : Revisions,
          root : Contents, child : Contents]

WorkType ==
    /\ pc \in {"idle"} \cup OwnPlaces \cup LoadPlaces
    /\ call \in Calls
    /\ load \in [view : Views, sig : Versions \cup {None},
                 of : Versions \cup {None}, nested : BOOLEAN]
    /\ own \in [log : Logs, sig : Versions \cup {None},
                of : Versions \cup {None}]

OutType ==
    /\ answer \in [rev : Revisions, root : Contents, child : Contents]
    /\ live \in [rev : Revisions, root : Contents, child : Contents]

OutInv  == OutType /\ RevisionIsExact /\ LiveBetween
WorkInv == WorkType /\ PlacesMatch /\ LoadBetween /\ OwnBetween /\ CallBetween

LEMMA Parts ==
    /\ IInv <=> LogsInv /\ CachesInv /\ WorkInv /\ OutInv
    /\ IInv' <=> LogsInv' /\ CachesInv' /\ WorkInv' /\ OutInv'
BY DEF IInv, TypeOK, LogsInv, CachesInv, CachesType, WorkInv, WorkType, OutInv,
       OutType, Calls

\* The constants are in the sets they are used in.
LEMMA Constants ==
    /\ NoRevision \in Revisions
    /\ NoCall \in Calls
    /\ NoLoad \in [view : Views, sig : Versions \cup {None},
                   of : Versions \cup {None}, nested : BOOLEAN]
    /\ NoOwn \in [log : Logs, sig : Versions \cup {None},
                  of : Versions \cup {None}]
    /\ Empty \in [rev : Revisions, root : Contents, child : Contents]
<1>1. NoRevision \in Revisions
  BY DEF NoRevision, Revisions, Signatures, Contents
<1> QED
  BY <1>1 DEF NoCall, NoLoad, NoOwn, Empty, Contents, Calls

LEMMA InitIInv == Init => IInv
<1> SUFFICES ASSUME Init PROVE IInv
  OBVIOUS
<1>1. LogsInv
  BY DEF Init, LogsInv
<1>2. CachesInv
  BY DEF Init, CachesInv, CachesType, PureCaches, Range
<1>3. WorkType /\ OutType
  <2>1. pc \in {"idle"} /\ call = NoCall /\ load = NoLoad /\ own = NoOwn
           /\ answer = Empty /\ live = Empty
    BY DEF Init
  <2>2. pc \in {"idle"} \cup OwnPlaces \cup LoadPlaces
    BY <2>1
  <2>3. WorkType
    BY <2>1, <2>2, Constants DEF WorkType
  <2> QED  BY <2>1, <2>3, Constants DEF OutType
<1>4. PlacesMatch /\ LoadBetween /\ OwnBetween
  BY DEF Init, PlacesMatch, LoadBetween, OwnBetween, OwnPlaces, LoadPlaces,
         NoCall
<1>5. CallBetween
  BY <1>1 DEF Init, CallBetween, NoCall, NoRevision, Of, OwnPlaces, LogsInv
<1>6. RevisionIsExact /\ LiveBetween
  BY DEF Init, RevisionIsExact, LiveBetween, Empty
<1> QED  BY <1>1, <1>2, <1>3, <1>4, <1>5, <1>6, Parts DEF WorkInv, OutInv

-----------------------------------------------------------------------------
(* What keeps the invariant of the call at work.                           *)

\* A call that ends.
LEMMA RestKeeps ==
    ASSUME LogsInv, LogsInv', Rest, version' = version
    PROVE  WorkInv'
<1>1. pc' \in {"idle"} /\ call' = NoCall /\ load' = NoLoad /\ own' = NoOwn
  BY DEF Rest
<1>2. WorkType'
  <2>1. pc' \in {"idle"} \cup OwnPlaces \cup LoadPlaces
    BY <1>1
  <2> QED  BY <1>1, <2>1, Constants DEF WorkType
<1>3. PlacesMatch' /\ LoadBetween' /\ OwnBetween'
  BY <1>1 DEF PlacesMatch, LoadBetween, OwnBetween, OwnPlaces, LoadPlaces, NoCall
<1>4. CallBetween'
  BY <1>1 DEF CallBetween, NoCall, NoRevision, Of, OwnPlaces, LogsInv
<1> QED  BY <1>2, <1>3, <1>4 DEF WorkInv

\* What the call c knows before it reads a usage of the log l.
Known(c) ==
    /\ \A l \in Logs : /\ c.before[l] <= version[l]
                       /\ c.now[l] <= version[l]
                       /\ Of(c)[l] <= version[l]
    /\ c.phase \in {"read", "family", "after"} => 0 <= c.before["root"]
    /\ c.phase \in {"family", "after"} =>
           0 <= c.root /\ c.before["root"] <= c.root
    /\ c.phase = "after" =>
           /\ c.kind = "read"
           /\ \/ c.child = Unreadable
              \/ 0 <= c.child /\ c.before["child"] <= c.child
    /\ c.kind # "none" /\ c.phase # "none"

\* The next usages, or the next projection.
LEMMA FamilyKeeps ==
    ASSUME LogsInv, LogsInv', version' = version,
           NEW c \in Calls, Known(c), c.phase # "read", Family(c)
    PROVE  WorkInv'
<1>1. pc' = "own" /\ own' = NoOwn /\ load' = NoLoad /\ call' = c
  BY DEF Family
<1>2. WorkType'
  BY <1>1, Constants DEF WorkType, Calls, OwnPlaces
<1>3. PlacesMatch' /\ LoadBetween' /\ OwnBetween'
  BY <1>1 DEF PlacesMatch, LoadBetween, OwnBetween, OwnPlaces, LoadPlaces, Known
<1>4. CallBetween'
  BY <1>1 DEF CallBetween, Known, Of, OwnPlaces, NoOwn
<1> QED  BY <1>2, <1>3, <1>4 DEF WorkInv

LEMMA ProjectKeeps ==
    ASSUME LogsInv, LogsInv', version' = version,
           NEW c \in Calls, Known(c), c.phase = "read", Project(c)
    PROVE  WorkInv'
<1>1. /\ pc' = "sign" /\ own' = NoOwn /\ call' = c
      /\ load' = [NoLoad EXCEPT !.view = c.view]
  BY DEF Project
<1>2. WorkType'
  BY <1>1, Constants DEF WorkType, Calls, LoadPlaces, NoLoad
<1>3. PlacesMatch' /\ LoadBetween' /\ OwnBetween'
  BY <1>1 DEF PlacesMatch, LoadBetween, OwnBetween, OwnPlaces, LoadPlaces,
              Known, NoLoad
<1>4. CallBetween'
  BY <1>1 DEF CallBetween, Known, Of, OwnPlaces
<1> QED  BY <1>2, <1>3, <1>4 DEF WorkInv
\* What the outputs keep while nothing is put out.
LEMMA OutKeeps ==
    ASSUME LogsInv, OutInv, version' = version \/ (LogsInv' /\ \A l \in Logs : version[l] <= version'[l]),
           live' = live, answer' = answer \/ answer' = Empty
    PROVE  OutInv'
<1>1. OutType'
  BY Constants DEF OutInv, OutType
<1>2. RevisionIsExact'
  BY DEF OutInv, RevisionIsExact, Empty
<1>3. LiveBetween'
  BY DEF OutInv, OutType, LiveBetween, LogsInv, Contents, Revisions, Signatures
<1> QED  BY <1>1, <1>2, <1>3 DEF OutInv

\* What _own_usage may return.
Returned(sig, of) ==
    /\ sig \in Signatures
    /\ of \in Versions \cup {Unreadable}
    /\ sig <= version[own.log] /\ of <= version[own.log]
    /\ own.log = "root" =>
           /\ sig \in Versions
           /\ call.before["root"] <= sig /\ call.root <= sig
    /\ own.log = "child" =>
           /\ of = Unreadable \/ call.before["child"] <= of
           /\ sig \in Versions => call.child <= sig

LEMMA KnownCall ==
    ASSUME LogsInv, WorkInv, pc # "idle"
    PROVE  Known(call)
BY DEF WorkInv, CallBetween, PlacesMatch, Known
\* A usage returned by _own_usage.
LEMMA OwnedKeeps ==
    ASSUME LogsInv, LogsInv', version' = version, WorkInv, OutInv,
           NEW sig, NEW of, pc \in OwnPlaces, Returned(sig, of), Owned(sig, of)
    PROVE  WorkInv' /\ OutInv'
<1>0. pc # "idle" /\ call.phase # "read"
  BY DEF OwnPlaces, WorkInv, PlacesMatch
<1>1. Known(call) /\ call \in Calls /\ own.log \in Logs
  BY <1>0, KnownCall DEF WorkInv, WorkType
<1>2. CASE own.log = "root"
  <2>1. /\ call' = [call EXCEPT !.now = [call.now EXCEPT !["root"] = sig]]
        /\ own' = [NoOwn EXCEPT !.log = "child"]
        /\ pc' = "own"
        /\ load' = NoLoad
        /\ UNCHANGED out
    BY <1>2 DEF Owned
  <2>2. [call.now EXCEPT !["root"] = sig] \in Revisions
    BY <1>1, <1>2 DEF Calls, Revisions, Returned
  <2>3. WorkType'
    <3>1. call' \in Calls
      BY <1>1, <2>1, <2>2 DEF Calls
    <3> QED  BY <2>1, <3>1, Constants DEF WorkType, OwnPlaces, NoOwn
  <2>4. PlacesMatch' /\ LoadBetween' /\ OwnBetween'
    BY <1>0, <1>1, <2>1 DEF PlacesMatch, LoadBetween, OwnBetween, OwnPlaces,
        LoadPlaces, Known, Calls
  <2>5. CallBetween'
    BY <1>1, <1>2, <2>1 DEF CallBetween, Known, Of, OwnPlaces, Returned, Calls,
        Revisions
  <2>6. OutInv'
    BY <2>1, OutKeeps
  <2> QED  BY <2>3, <2>4, <2>5, <2>6 DEF WorkInv
<1>3. CASE own.log = "child"
  <2>1. Counted(sig, of)
    BY <1>3 DEF Owned
  <2>2. PICK now \in Revisions : now = [call.now EXCEPT !["child"] = sig]
    BY <1>1, <1>3 DEF Calls, Revisions, Returned
  <2>3. PICK c \in Calls : c = [call EXCEPT !.now = NoRevision]
    BY <1>1, Constants DEF Calls
  <2>4. /\ c.before = call.before /\ c.root = call.root /\ c.child = call.child
        /\ c.phase = call.phase /\ c.kind = call.kind /\ c.view = call.view
        /\ c.now = NoRevision
    BY <1>1, <2>3 DEF Calls
  <2>5. /\ now["child"] = sig /\ now["root"] = call.now["root"]
        /\ now["root"] <= version["root"] /\ now["child"] <= version["child"]
        /\ 0 <= now["root"] /\ call.root <= now["root"]
    BY <1>1, <1>3, <2>2 DEF Calls, Revisions, Returned, WorkInv, CallBetween,
        Known
  <2>6. of \in Contents /\ of <= version["child"]
    BY <1>3 DEF Returned, Contents
  <2>7. \/ call.phase = "before" /\ Rest /\ UNCHANGED out
        \/ /\ call.phase = "before" /\ UNCHANGED out
           /\ Project([c EXCEPT !.before = now, !.phase = "read"])
        \/ /\ call.phase = "family" /\ Rest
           /\ AnswerUpdate([c EXCEPT !.child = of])
        \/ /\ call.phase = "family" /\ call.kind = "read" /\ UNCHANGED out
           /\ Family([c EXCEPT !.child = of, !.phase = "after"])
        \/ call.phase = "after" /\ Rest /\ AnswerRead(now, c)
    BY <2>1, <2>2, <2>3 DEF Counted
  <2>8. CASE call.phase = "before" /\ Rest /\ UNCHANGED out
    BY <2>8, RestKeeps, OutKeeps
  <2>9. CASE /\ call.phase = "before" /\ UNCHANGED out
             /\ Project([c EXCEPT !.before = now, !.phase = "read"])
    <3>1. PICK d : d = [c EXCEPT !.before = now, !.phase = "read"]
      OBVIOUS
    <3>2. /\ d \in Calls /\ d.before = now /\ d.phase = "read"
          /\ d.now = NoRevision /\ d.root = call.root /\ d.child = call.child
          /\ d.kind = call.kind
      BY <2>4, <3>1 DEF Calls
    <3>3. Known(d)
      BY <1>1, <2>4, <2>5, <3>2 DEF Known, NoRevision, Of, LogsInv
    <3> QED  BY <2>9, <3>1, <3>2, <3>3, ProjectKeeps, OutKeeps
  <2>10. CASE /\ call.phase = "family" /\ Rest
              /\ AnswerUpdate([c EXCEPT !.child = of])
    <3>1. live' = [rev |-> call.before, root |-> call.root, child |-> of]
             /\ answer' = answer
      BY <2>4, <2>10 DEF AnswerUpdate, Calls
    <3>2. OutType'
      BY <1>1, <2>6, <3>1 DEF OutInv, OutType, Calls
    <3>3. RevisionIsExact'
      BY <3>1 DEF OutInv, RevisionIsExact
    <3>4. LiveBetween'
      BY <1>1, <1>3, <2>10, <3>1 DEF LiveBetween, Known, Of, Returned
    <3> QED  BY <2>10, <3>2, <3>3, <3>4, RestKeeps DEF OutInv
  <2>11. CASE /\ call.phase = "family" /\ call.kind = "read" /\ UNCHANGED out
              /\ Family([c EXCEPT !.child = of, !.phase = "after"])
    <3>1. PICK d : d = [c EXCEPT !.child = of, !.phase = "after"]
      OBVIOUS
    <3>2. /\ d \in Calls /\ d.before = call.before /\ d.phase = "after"
          /\ d.now = NoRevision /\ d.root = call.root /\ d.child = of
          /\ d.kind = "read"
      BY <2>4, <2>6, <2>11, <3>1 DEF Calls
    <3>3. Known(d)
      BY <1>1, <1>3, <2>6, <2>11, <3>2 DEF Known, NoRevision, Of, LogsInv,
          Returned
    <3> QED  BY <2>11, <3>1, <3>2, <3>3, FamilyKeeps, OutKeeps
  <2>12. CASE call.phase = "after" /\ Rest /\ AnswerRead(now, c)
    <3>1. /\ answer' = [rev   |-> IF now = call.before THEN now ELSE NoRevision,
                         root  |-> call.root,
                         child |-> call.child]
          /\ live' = live
      BY <2>4, <2>12 DEF AnswerRead
    <3>2. OutType'
      BY <1>1, <2>2, <3>1, Constants DEF OutInv, OutType, Calls
    <3>3. RevisionIsExact'
      <4>1. CASE now # call.before
        BY <3>1, <4>1 DEF RevisionIsExact
      <4>2. CASE now = call.before
        <5>1. answer' = [rev |-> now, root |-> call.root, child |-> call.child]
          BY <3>1, <4>2
        <5>2. call.root \in Contents /\ call.before["root"] <= call.root
          BY <1>1, <2>12 DEF Known, Calls
        <5>3. call.root = now["root"]
          BY <2>2, <2>5, <4>2, <5>2 DEF Contents, Revisions, Signatures
        <5>4. sig \in Versions => call.child \in {sig, Unreadable}
          BY <1>1, <1>3, <2>5, <2>12, <4>2 DEF Known, Returned, Calls, Contents
        <5> QED  BY <2>5, <5>1, <5>3, <5>4 DEF RevisionIsExact
      <4> QED  BY <4>1, <4>2
    <3>4. LiveBetween'
      BY <3>1 DEF OutInv, LiveBetween
    <3> QED  BY <2>12, <3>2, <3>3, <3>4, RestKeeps DEF OutInv
  <2> QED  BY <2>7, <2>8, <2>9, <2>10, <2>11, <2>12
<1> QED  BY <1>1, <1>2, <1>3
\* A projection returned by _cached_session_trajectory.
LEMMA LoadedKeeps ==
    ASSUME LogsInv, LogsInv', version' = version, WorkInv, OutInv,
           NEW of \in Versions, of <= version["root"], pc \in LoadPlaces,
           load.nested \/ call.before["root"] <= of,
           Loaded(of), UNCHANGED out
    PROVE  WorkInv' /\ OutInv'
<1>0. pc # "idle"
  BY DEF LoadPlaces
<1>1. Known(call) /\ call \in Calls
  BY <1>0, KnownCall DEF WorkInv, WorkType
<1>2. OutInv'
  BY OutKeeps
<1>3. CASE load.nested
  <2>1. pc' = "ownAgain" /\ load' = NoLoad /\ UNCHANGED <<call, own>>
    BY <1>3 DEF Loaded
  <2>2. WorkType'
    BY <2>1, Constants DEF WorkInv, WorkType, OwnPlaces
  <2>3. PlacesMatch' /\ LoadBetween'
    BY <1>0, <1>3, <2>1 DEF WorkInv, PlacesMatch, LoadBetween, OwnPlaces,
        LoadPlaces
  <2>4. OwnBetween' /\ CallBetween'
    BY <1>0, <1>3, <2>1 DEF WorkInv, PlacesMatch, OwnBetween, CallBetween,
        OwnPlaces, LoadPlaces, Of
  <2> QED  BY <1>2, <2>2, <2>3, <2>4 DEF WorkInv
<1>4. CASE ~load.nested
  <2>1. PICK d : d = [call EXCEPT !.root = of, !.phase = "family"]
    OBVIOUS
  <2>2. /\ d \in Calls /\ d.before = call.before /\ d.phase = "family"
        /\ d.now = call.now /\ d.root = of /\ d.child = call.child
        /\ d.kind = call.kind
    BY <1>1, <2>1 DEF Calls, Contents
  <2>3. call.phase = "read"
    BY <1>4 DEF WorkInv, PlacesMatch
  <2>4. Known(d)
    BY <1>0, <1>1, <1>4, <2>2, <2>3 DEF Known, Of
  <2>5. Family(d)
    BY <1>4, <2>1 DEF Loaded
  <2> QED  BY <1>2, <2>2, <2>4, <2>5, FamilyKeeps
<1> QED  BY <1>3, <1>4

\* A step of _cached_session_trajectory on the way: only the place and what
\* is loaded change, from one place to another.
LEMMA LoadKeeps ==
    ASSUME LogsInv, LogsInv', version' = version, WorkInv,
           pc \in LoadPlaces, pc' \in LoadPlaces, UNCHANGED <<call, own>>,
           load' \in [view : Views, sig : Versions \cup {None},
                     of : Versions \cup {None}, nested : BOOLEAN],
           load'.nested = load.nested, LoadBetween'
    PROVE  WorkInv'
<1>1. WorkType'
  BY DEF WorkInv, WorkType
<1>2. PlacesMatch' /\ OwnBetween' /\ CallBetween'
  <2>1. pc \notin OwnPlaces /\ pc' \notin OwnPlaces /\ pc # "idle" /\ pc' # "idle"
    BY DEF LoadPlaces, OwnPlaces
  <2>2. PlacesMatch'
    BY <2>1 DEF WorkInv, PlacesMatch, OwnPlaces, LoadPlaces
  <2>3. OwnBetween'
    BY <2>1 DEF WorkInv, OwnBetween, OwnPlaces, LoadPlaces, Of
  <2>4. CallBetween'
    BY <2>1 DEF WorkInv, CallBetween, OwnPlaces, Of
  <2> QED  BY <2>2, <2>3, <2>4
<1> QED  BY <1>1, <1>2 DEF WorkInv
-----------------------------------------------------------------------------
(* One lemma per kind of step.                                             *)

Pure(s) == s \in Seq(Cached) /\ \A e \in Range(s) : e.of = e.sig

UsagesPure ==
    /\ usages \in [Logs -> [sig : Versions \cup {None},
                            of : Versions \cup {None}]]
    /\ \A l \in Logs : usages[l].of = usages[l].sig

LEMMA CachesArePure ==
    /\ CachesInv <=>
           /\ Pure(trajectories) /\ Len(trajectories) <= MaxTrajectories
           /\ Pure(indexes) /\ UsagesPure
    /\ CachesInv' <=>
           /\ Pure(trajectories') /\ Len(trajectories') <= MaxTrajectories
           /\ Pure(indexes') /\ UsagesPure'
BY DEF CachesInv, CachesType, PureCaches, Pure, UsagesPure

LEMMA PureUse ==
    ASSUME NEW s, Pure(s), NEW e \in Cached, e.of = e.sig
    PROVE  Pure(Use(s, e))
BY UseAddsOne DEF Pure

LEMMA PureNewest ==
    ASSUME NEW s, Pure(s), NEW n \in Nat
    PROVE  Pure(Newest(s, n)) /\ Len(Newest(s, n)) <= n
BY NewestIsPart DEF Pure

\* The usage of a log is remembered under the signature it was read under.
LEMMA RememberKeeps ==
    ASSUME CachesInv, NEW l \in Logs, NEW v \in Versions,
           UNCHANGED <<trajectories, indexes>>,
           usages' = [usages EXCEPT ![l] = [sig |-> v, of |-> v]]
    PROVE  CachesInv'
<1>1. UsagesPure'
  BY CachesArePure DEF UsagesPure
<1> QED  BY <1>1, CachesArePure

\* Codex appends to a log.
LEMMA AppendKeeps ==
    ASSUME IInv, NEW l \in Logs, Append1(l)
    PROVE  IInv'
<1>1. LogsInv /\ CachesInv /\ WorkInv /\ OutInv
  BY Parts
<1>2. LogsInv' /\ \A k \in Logs : version[k] <= version'[k]
  BY <1>1 DEF Append1, LogsInv
<1>3. CachesInv'
  BY <1>1 DEF Append1, CachesInv, CachesType, PureCaches
<1>4. UNCHANGED <<pc, call, load, own>> /\ UNCHANGED <<answer, live>>
  BY DEF Append1
<1>5. OutInv'
  BY <1>1, <1>2, <1>4, OutKeeps
<1>6. WorkType' /\ PlacesMatch'
  BY <1>1, <1>4 DEF WorkInv, WorkType, PlacesMatch
<1>7. LoadBetween' /\ OwnBetween' /\ CallBetween'
  <2>1. version \in [Logs -> Int] /\ version' \in [Logs -> Int]
    BY <1>1, <1>2 DEF LogsInv
  <2>2. load \in [view : Views, sig : Int, of : Int, nested : BOOLEAN]
    BY <1>1 DEF WorkInv, WorkType
  <2>3. own \in [log : Logs, sig : Int, of : Int]
    BY <1>1 DEF WorkInv, WorkType
  <2>4. LoadBetween'
    BY <1>1, <1>2, <1>4, <2>1, <2>2 DEF WorkInv, LoadBetween
  <2>5. OwnBetween'
    BY <1>1, <1>2, <1>4, <2>1, <2>3 DEF WorkInv, OwnBetween, Of
  <2>6. CallBetween'
    <3>1. call.before \in [Logs -> Int] /\ call.now \in [Logs -> Int]
             /\ Of(call) \in [Logs -> Int]
      BY <1>1 DEF WorkInv, WorkType, Calls, Revisions, Signatures, Contents, Of
    <3>2. \A k \in Logs : /\ call.before[k] <= version'[k]
                          /\ call.now[k] <= version'[k]
                          /\ Of(call)[k] <= version'[k]
      BY <1>1, <1>2, <2>1, <3>1 DEF WorkInv, CallBetween
    <3>3. call' = call /\ own' = own /\ pc' = pc /\ Of(call') = Of(call)
      BY <1>4
    <3> QED  BY <1>1, <3>2, <3>3 DEF WorkInv, CallBetween
  <2> QED  BY <2>4, <2>5, <2>6
<1> QED  BY <1>2, <1>3, <1>5, <1>6, <1>7, Parts DEF WorkInv
\* Steps that leave the logs alone.
LEMMA LogsKeep == LogsInv /\ UNCHANGED logs => LogsInv' /\ version' = version
BY DEF LogsInv

LEMMA FaultyKeeps == LogsInv /\ Faulty => LogsInv' /\ version' = version
BY DEF LogsInv, Faulty

\* A call begins.
LEMMA BeginKeeps ==
    ASSUME IInv, NEW kind \in {"read", "update"}, NEW view \in Views,
           Begin(kind, view)
    PROVE  IInv'
<1>1. LogsInv /\ CachesInv /\ WorkInv /\ OutInv
  BY Parts
<1>2. LogsInv' /\ version' = version
  BY <1>1, LogsKeep DEF Begin
<1>3. CachesInv'
  BY <1>1 DEF Begin, CachesInv, CachesType, PureCaches
<1>4. OutInv'
  BY <1>1, <1>2, OutKeeps DEF Begin
<1>5. PICK c : c = [NoCall EXCEPT !.kind = kind, !.view = view,
                                  !.phase = "before"]
  OBVIOUS
<1>6. /\ c \in Calls /\ c.kind = kind /\ c.phase = "before"
      /\ c.before = NoRevision /\ c.now = NoRevision
      /\ c.root = None /\ c.child = None
  BY <1>5, Constants DEF NoCall, Calls
<1>7. Known(c)
  BY <1>1, <1>6 DEF Known, NoRevision, Of, LogsInv
<1>8. Family(c)
  BY <1>5 DEF Begin
<1>9. WorkInv'
  BY <1>1, <1>2, <1>6, <1>7, <1>8, FamilyKeeps
<1> QED  BY <1>2, <1>3, <1>4, <1>9, Parts

\* _own_usage takes a signature.
LEMMA OwnSignKeeps ==
    ASSUME IInv, OwnSign
    PROVE  IInv'
<1>1. LogsInv /\ CachesInv /\ WorkInv /\ OutInv
  BY Parts
<1>2. LogsInv' /\ version' = version
  BY <1>1, LogsKeep DEF OwnSign
<1>3. CachesInv'
  BY <1>1 DEF OwnSign, CachesInv, CachesType, PureCaches
<1>4. pc = "own" /\ pc \in OwnPlaces /\ own.log \in Logs
  BY <1>1 DEF OwnSign, OwnPlaces, WorkInv, WorkType
<1>5. PICK v \in Versions : v = version[own.log]
  BY <1>1, <1>4 DEF LogsInv
<1>6. /\ call.before[own.log] <= v /\ Of(call)[own.log] <= v
      /\ own.log = "root" => call.root <= v
      /\ own.log = "child" => call.child <= v
  BY <1>1, <1>4, <1>5 DEF WorkInv, CallBetween, Of
<1>7. Returned(v, v)
  BY <1>4, <1>5, <1>6 DEF Returned, Signatures, Contents
<1>8. \/ usages[own.log].sig = v /\ Owned(v, usages[own.log].of)
      \/ v = 0 /\ Owned(v, 0)
      \/ /\ own' = [own EXCEPT !.sig = v]
         /\ pc' = IF own.log = "root" THEN "sign" ELSE "ownParse"
         /\ load' = [NoLoad EXCEPT !.nested = TRUE]
         /\ UNCHANGED <<call, out>>
  BY <1>5 DEF OwnSign
<1>9. CASE usages[own.log].sig = v /\ Owned(v, usages[own.log].of)
  <2>1. Owned(v, v)
    BY <1>1, <1>4, <1>9, CachesArePure DEF UsagesPure
  <2> QED  BY <1>1, <1>2, <1>3, <1>4, <1>7, <2>1, OwnedKeeps, Parts
<1>10. CASE v = 0 /\ Owned(v, 0)
  BY <1>1, <1>2, <1>3, <1>4, <1>7, <1>10, OwnedKeeps, Parts
<1>11. CASE /\ own' = [own EXCEPT !.sig = v]
            /\ pc' = IF own.log = "root" THEN "sign" ELSE "ownParse"
            /\ load' = [NoLoad EXCEPT !.nested = TRUE]
            /\ UNCHANGED <<call, out>>
  <2>1. OutInv'
    BY <1>1, <1>2, <1>11, OutKeeps
  <2>2. own'.sig = v /\ own'.log = own.log /\ load'.nested = TRUE
    BY <1>1, <1>11 DEF WorkInv, WorkType, NoLoad
  <2>3. WorkType'
    BY <1>1, <1>11, Constants DEF WorkInv, WorkType, OwnPlaces, LoadPlaces
  <2>4. PlacesMatch'
    BY <1>1, <1>4, <1>11, <2>2 DEF WorkInv, PlacesMatch, OwnPlaces, LoadPlaces
  <2>5. LoadBetween'
    BY <1>11 DEF LoadBetween, LoadPlaces
  <2>6. OwnBetween'
    BY <1>2, <1>5, <1>6, <1>11, <2>2 DEF OwnBetween, OwnPlaces, LoadPlaces, Of
  <2>7. CallBetween'
    BY <1>1, <1>2, <1>4, <1>11, <2>2 DEF WorkInv, CallBetween, OwnPlaces, Of
  <2> QED  BY <1>2, <1>3, <2>1, <2>3, <2>4, <2>5, <2>6, <2>7, Parts DEF WorkInv
<1> QED  BY <1>8, <1>9, <1>10, <1>11
\* Priming the index may have remembered the usage.
LEMMA OwnAgainKeeps ==
    ASSUME IInv, OwnAgain
    PROVE  IInv'
<1>1. LogsInv /\ CachesInv /\ WorkInv /\ OutInv
  BY Parts
<1>2. LogsInv' /\ version' = version
  BY <1>1, LogsKeep DEF OwnAgain
<1>3. CachesInv'
  BY <1>1 DEF OwnAgain, CachesInv, CachesType, PureCaches
<1>4. pc = "ownAgain" /\ pc \in OwnPlaces /\ own.log = "root"
  BY <1>1 DEF OwnAgain, OwnPlaces, WorkInv, PlacesMatch
<1>5. /\ own.sig \in Versions /\ own.sig <= version["root"]
      /\ call.before["root"] <= own.sig /\ call.root <= own.sig
  BY <1>1, <1>4 DEF WorkInv, WorkType, OwnBetween, OwnPlaces, Of
<1>6. CASE usages["root"].sig = own.sig /\ Owned(own.sig, usages["root"].of)
  <2>1. Owned(own.sig, own.sig)
    BY <1>1, <1>6, CachesArePure DEF UsagesPure
  <2>2. Returned(own.sig, own.sig)
    BY <1>4, <1>5 DEF Returned, Signatures, Contents
  <2> QED  BY <1>1, <1>2, <1>3, <1>4, <2>1, <2>2, OwnedKeeps, Parts
<1>7. CASE pc' = "ownParse" /\ UNCHANGED <<call, load, own, out>>
  <2>1. OutInv'
    BY <1>1, <1>2, <1>7, OutKeeps
  <2>2. WorkType' /\ PlacesMatch'
    BY <1>1, <1>4, <1>7 DEF WorkInv, WorkType, PlacesMatch, OwnPlaces, LoadPlaces
  <2>3. LoadBetween' /\ OwnBetween' /\ CallBetween'
    BY <1>1, <1>2, <1>4, <1>7 DEF WorkInv, LoadBetween, OwnBetween, CallBetween,
        OwnPlaces, LoadPlaces, Of
  <2> QED  BY <1>2, <1>3, <2>1, <2>2, <2>3, Parts DEF WorkInv
<1> QED  BY <1>6, <1>7 DEF OwnAgain

\* The log is read for its usage.
LEMMA OwnParseKeeps ==
    ASSUME IInv, OwnParse
    PROVE  IInv'
<1>1. LogsInv /\ CachesInv /\ WorkInv /\ OutInv
  BY Parts
<1>2. LogsInv' /\ version' = version
  BY <1>1, LogsKeep DEF OwnParse
<1>3. CachesInv'
  BY <1>1 DEF OwnParse, CachesInv, CachesType, PureCaches
<1>4. OutInv'
  BY <1>1, <1>2, OutKeeps DEF OwnParse
<1>5. /\ pc = "ownParse" /\ pc' = "ownKeep" /\ UNCHANGED <<call, load>>
      /\ own'.log = own.log /\ own'.sig = own.sig /\ own'.of = version[own.log]
      /\ own' \in [log : Logs, sig : Versions \cup {None},
                  of : Versions \cup {None}]
  BY <1>1 DEF OwnParse, LogsInv, WorkInv, WorkType
<1>6. WorkType' /\ PlacesMatch'
  BY <1>1, <1>5 DEF WorkInv, WorkType, PlacesMatch, OwnPlaces, LoadPlaces
<1>7. LoadBetween' /\ OwnBetween' /\ CallBetween'
  BY <1>1, <1>2, <1>5 DEF LogsInv, WorkInv, WorkType, LoadBetween, OwnBetween,
      CallBetween, OwnPlaces, LoadPlaces, Of
<1> QED  BY <1>2, <1>3, <1>4, <1>6, <1>7, Parts DEF WorkInv

\* The usage is remembered and returned.
LEMMA OwnKeepKeeps ==
    ASSUME IInv, OwnKeep
    PROVE  IInv'
<1>1. LogsInv /\ CachesInv /\ WorkInv /\ OutInv
  BY Parts
<1>2. LogsInv' /\ version' = version
  BY <1>1, LogsKeep DEF OwnKeep
<1>3. pc = "ownKeep" /\ pc \in OwnPlaces /\ own.log \in Logs
  BY <1>1 DEF OwnKeep, OwnPlaces, WorkInv, WorkType
<1>4. /\ own.sig \in Versions /\ own.sig <= version[own.log]
      /\ call.before[own.log] <= own.sig
      /\ own.log = "root" => call.root <= own.sig
      /\ own.log = "child" => call.child <= own.sig
      /\ own.sig <= own.of /\ own.of <= version[own.log]
  BY <1>1, <1>3 DEF WorkInv, WorkType, OwnBetween, OwnPlaces, Of
<1>5. own.of \in Versions
  BY <1>1, <1>4 DEF WorkInv, WorkType
<1>6. Returned(own.sig, own.of)
  <2>1. call.before[own.log] \in Int
    BY <1>1, <1>3 DEF WorkInv, WorkType, Calls, Revisions, Signatures, Contents
  <2> QED  BY <1>3, <1>4, <1>5, <2>1 DEF Returned, Signatures, Contents
<1>7. CachesInv'
  <2>1. CASE version[own.log] = own.sig
    <3>1. own.of = own.sig
      BY <1>4, <1>5, <2>1
    <3> QED  BY <1>1, <1>3, <1>4, <2>1, <3>1, RememberKeeps DEF OwnKeep
  <2>2. CASE version[own.log] # own.sig
    BY <1>1, <2>2 DEF OwnKeep, CachesInv, CachesType, PureCaches
  <2> QED  BY <2>1, <2>2
<1>8. Owned(own.sig, own.of)
  BY DEF OwnKeep
<1> QED  BY <1>1, <1>2, <1>3, <1>6, <1>7, <1>8, OwnedKeeps, Parts

\* The descendant's log cannot be read.
LEMMA OwnUnreadableKeeps ==
    ASSUME IInv, OwnUnreadable
    PROVE  IInv'
<1>1. LogsInv /\ CachesInv /\ WorkInv /\ OutInv
  BY Parts
<1>2. LogsInv' /\ version' = version
  BY <1>1, FaultyKeeps DEF OwnUnreadable
<1>3. CachesInv'
  BY <1>1 DEF OwnUnreadable, CachesInv, CachesType, PureCaches
<1>4. pc \in OwnPlaces /\ own.log = "child" /\ version["child"] \in Versions
  BY <1>1 DEF OwnUnreadable, OwnPlaces, LogsInv
<1>5. PICK sig \in {UnreadableAt(version["child"]), Unavailable} :
          Owned(sig, Unreadable)
  BY DEF OwnUnreadable
<1>6. sig \in Signatures /\ sig \notin Versions /\ sig <= version["child"]
  BY <1>4, <1>5 DEF Signatures
<1>7. Returned(sig, Unreadable)
  BY <1>4, <1>6 DEF Returned
<1> QED  BY <1>1, <1>2, <1>3, <1>4, <1>5, <1>7, OwnedKeeps, Parts

\* The call fails.
LEMMA FailKeeps ==
    ASSUME IInv, Fail
    PROVE  IInv'
<1>1. LogsInv /\ CachesInv /\ OutInv
  BY Parts
<1>2. LogsInv' /\ version' = version
  BY <1>1, FaultyKeeps DEF Fail
<1>3. CachesInv'
  BY <1>1 DEF Fail, CachesInv, CachesType, PureCaches
<1>4. OutInv'
  BY <1>1, <1>2, OutKeeps DEF Fail
<1>5. WorkInv'
  BY <1>1, <1>2, RestKeeps DEF Fail
<1> QED  BY <1>2, <1>3, <1>4, <1>5, Parts
-----------------------------------------------------------------------------
(* The steps of _cached_session_trajectory.                                *)

Loads == [view : Views, sig : Versions \cup {None},
          of : Versions \cup {None}, nested : BOOLEAN]

\* The signature is taken; the projection may be cached.
LEMMA SignKeeps ==
    ASSUME IInv, Sign
    PROVE  IInv'
<1>1. LogsInv /\ CachesInv /\ WorkInv /\ OutInv
  BY Parts
<1>2. LogsInv' /\ version' = version
  BY <1>1, LogsKeep DEF Sign
<1>3. /\ pc = "sign" /\ pc \in LoadPlaces /\ load \in Loads
      /\ UNCHANGED <<indexes, usages, answer, live>>
  BY <1>1 DEF Sign, LoadPlaces, WorkInv, WorkType, Loads
<1>4. PICK v \in Versions : v = version["root"]
  BY <1>1 DEF LogsInv
<1>5. call.before["root"] <= v
  BY <1>1, <1>4 DEF WorkInv, CallBetween
<1>6. ASSUME NEW e \in Range(trajectories), e.view = load.view, e.sig = v,
             trajectories' = Use(trajectories, e), Loaded(e.of)
      PROVE  IInv'
  <2>1. e \in Cached /\ e.of = e.sig
    BY <1>1, CachesArePure DEF Pure, Range
  <2>2. Pure(trajectories') /\ Len(trajectories') <= MaxTrajectories
    BY <1>1, <1>6, <2>1, CachesArePure, PureUse, UseAgain DEF Pure, Same
  <2>3. CachesInv'
    BY <1>1, <1>3, <2>2, CachesArePure DEF UsagesPure
  <2>4. e.of \in Versions /\ e.of <= version["root"]
           /\ call.before["root"] <= e.of
    BY <1>4, <1>5, <1>6, <2>1
  <2>5. WorkInv' /\ OutInv'
    BY <1>1, <1>2, <1>3, <1>6, <2>4, LoadedKeeps
  <2> QED  BY <1>2, <2>3, <2>5, Parts
<1>7. CASE /\ pc' \in {"page", "build"}
           /\ load' = [load EXCEPT !.sig = v]
           /\ UNCHANGED <<trajectories, call, own>>
  <2>1. CachesInv'
    BY <1>1, <1>3, <1>7 DEF CachesInv, CachesType, PureCaches
  <2>2. OutInv'
    BY <1>1, <1>2, <1>3, OutKeeps
  <2>3. /\ load' \in Loads /\ load'.sig = v /\ load'.nested = load.nested
        /\ pc' \in LoadPlaces
    BY <1>3, <1>7 DEF Loads, LoadPlaces
  <2>4. LoadBetween'
    BY <1>2, <1>4, <1>5, <1>7, <2>3 DEF LoadBetween, LoadPlaces
  <2>5. WorkInv'
    BY <1>1, <1>2, <1>3, <1>7, <2>3, <2>4, LoadKeeps DEF Loads
  <2> QED  BY <1>2, <2>1, <2>2, <2>5, Parts
<1>8. \/ \E e \in Range(trajectories) :
            /\ e.view = load.view /\ e.sig = v
            /\ trajectories' = Use(trajectories, e)
            /\ Loaded(e.of)
      \/ /\ pc' \in {"page", "build"}
         /\ load' = [load EXCEPT !.sig = v]
         /\ UNCHANGED <<trajectories, call, own>>
  BY <1>4 DEF Sign
<1> QED  BY <1>6, <1>7, <1>8
\* What a place after the signature knows.
LEMMA Loading ==
    ASSUME LogsInv, WorkInv, pc \in LoadPlaces \ {"sign"}
    PROVE  /\ load \in Loads /\ load.sig \in Versions
           /\ load.sig <= version["root"] /\ version["root"] \in Versions
           /\ load.nested \/ call.before["root"] <= load.sig
BY DEF LogsInv, WorkInv, WorkType, LoadBetween, Loads

\* The log is parsed for a new index, or for one page.
LEMMA ParseKeeps ==
    ASSUME IInv, Build \/ Stream
    PROVE  IInv'
<1>1. LogsInv /\ CachesInv /\ WorkInv /\ OutInv
  BY Parts
<1>2. LogsInv' /\ version' = version
  BY <1>1, LogsKeep DEF Build, Stream
<1>3. CachesInv'
  BY <1>1 DEF Build, Stream, CachesInv, CachesType, PureCaches
<1>4. OutInv'
  BY <1>1, <1>2, OutKeeps DEF Build, Stream
<1>5. /\ pc \in LoadPlaces \ {"sign"} /\ pc' \in LoadPlaces
      /\ UNCHANGED <<call, own>> /\ load' = [load EXCEPT !.of = version["root"]]
  BY DEF Build, Stream, LoadPlaces
<1>6. /\ load' \in Loads /\ load'.sig = load.sig /\ load'.of = version["root"]
      /\ load'.nested = load.nested
  BY <1>1, <1>5, Loading DEF Loads
<1>7. LoadBetween'
  BY <1>1, <1>2, <1>5, <1>6, Loading DEF LoadBetween
<1>8. WorkInv'
  BY <1>1, <1>2, <1>5, <1>6, <1>7, LoadKeeps DEF Loads
<1> QED  BY <1>2, <1>3, <1>4, <1>8, Parts

\* A new index is kept only if the log still has its signature.
LEMMA KeepKeeps ==
    ASSUME IInv, Keep
    PROVE  IInv'
<1>1. LogsInv /\ CachesInv /\ WorkInv /\ OutInv
  BY Parts
<1>2. LogsInv' /\ version' = version
  BY <1>1, LogsKeep DEF Keep
<1>3. OutInv'
  BY <1>1, <1>2, OutKeeps DEF Keep
<1>4. /\ pc = "keep" /\ pc \in LoadPlaces \ {"sign"} /\ pc' \in {"page", "stream"}
      /\ pc' \in LoadPlaces /\ UNCHANGED <<trajectories, call, load, own>>
  BY DEF Keep, LoadPlaces
<1>5. LoadBetween'
  BY <1>1, <1>2, <1>4, Loading DEF LoadBetween
<1>6. WorkInv'
  BY <1>1, <1>2, <1>4, <1>5, Loading, LoadKeeps DEF Loads
<1>7. CASE /\ version["root"] = load.sig
           /\ indexes' = Use(indexes, Index(load.sig, load.of))
           /\ Remember(load.sig, load.of)
  <2>1. load.of = load.sig /\ load.sig \in Versions
    BY <1>1, <1>4, <1>7, Loading DEF WorkInv, LoadBetween, Loads
  <2>2. Pure(indexes')
    <3>1. Index(load.sig, load.of) \in Cached
             /\ Index(load.sig, load.of).of = Index(load.sig, load.of).sig
      BY <2>1 DEF Index, Cached
    <3> QED  BY <1>1, <1>7, <3>1, CachesArePure, PureUse
  <2>3. UsagesPure'
    BY <1>1, <1>7, <2>1, CachesArePure DEF Remember, UsagesPure
  <2>4. CachesInv'
    BY <1>1, <1>4, <2>2, <2>3, CachesArePure
  <2> QED  BY <1>2, <1>3, <1>6, <2>4, Parts
<1>8. CASE UNCHANGED <<indexes, usages>>
  <2>1. CachesInv'
    BY <1>1, <1>4, <1>8 DEF CachesInv, CachesType, PureCaches
  <2> QED  BY <1>2, <1>3, <1>6, <2>1, Parts
<1> QED  BY <1>7, <1>8 DEF Keep

\* A page is taken from the index of the signature.
LEMMA PageKeeps ==
    ASSUME IInv, Page
    PROVE  IInv'
<1>1. LogsInv /\ CachesInv /\ WorkInv /\ OutInv
  BY Parts
<1>2. LogsInv' /\ version' = version
  BY <1>1, LogsKeep DEF Page
<1>3. OutInv'
  BY <1>1, <1>2, OutKeeps DEF Page
<1>4. pc = "page" /\ pc \in LoadPlaces \ {"sign"}
         /\ UNCHANGED <<trajectories, usages, call, own>>
  BY DEF Page, LoadPlaces
<1>5. PICK e \in Range(indexes) :
          /\ e.sig = load.sig
          /\ load' = [load EXCEPT !.of = e.of]
          /\ \/ /\ indexes' = Newest(Use(indexes, e), MaxIndexes)
                /\ pc' = "store"
             \/ indexes' = Use(indexes, e) /\ pc' \in {"detail", "again"}
  BY DEF Page
<1>6. e \in Cached /\ e.of = e.sig
  BY <1>1, CachesArePure DEF Pure, Range
<1>7. Pure(indexes')
  BY <1>1, <1>5, <1>6, CachesArePure, PureUse, PureNewest
<1>8. CachesInv'
  BY <1>1, <1>4, <1>7, CachesArePure DEF UsagesPure
<1>9. /\ load' \in Loads /\ load'.sig = load.sig /\ load'.of = load.sig
      /\ load'.nested = load.nested /\ pc' \in LoadPlaces
  BY <1>1, <1>4, <1>5, <1>6, Loading DEF Loads, LoadPlaces
<1>10. LoadBetween'
  BY <1>1, <1>2, <1>4, <1>9, Loading DEF LoadBetween
<1>11. WorkInv'
  BY <1>1, <1>2, <1>4, <1>9, <1>10, LoadKeeps DEF Loads, LoadPlaces
<1> QED  BY <1>2, <1>3, <1>8, <1>11, Parts
\* Ambiguous identifiers make the log be parsed again.
LEMMA AgainKeeps ==
    ASSUME IInv, Again
    PROVE  IInv'
<1>1. LogsInv /\ CachesInv /\ WorkInv /\ OutInv
  BY Parts
<1>2. LogsInv' /\ version' = version
  BY <1>1, LogsKeep DEF Again
<1>3. OutInv'
  BY <1>1, <1>2, OutKeeps DEF Again
<1>4. /\ pc = "again" /\ pc \in LoadPlaces \ {"sign"}
      /\ pc' \in {"detail", "store"} /\ pc' \in LoadPlaces
      /\ indexes' = indexes \/ indexes' = Newest(indexes, MaxIndexes)
      /\ load' = [load EXCEPT !.of = version["root"]]
      /\ UNCHANGED <<trajectories, usages, call, own>>
  BY DEF Again, LoadPlaces
<1>5. Pure(indexes')
  BY <1>1, <1>4, CachesArePure, PureNewest
<1>6. CachesInv'
  BY <1>1, <1>4, <1>5, CachesArePure DEF UsagesPure
<1>7. /\ load' \in Loads /\ load'.sig = load.sig /\ load'.of = version["root"]
      /\ load'.nested = load.nested
  BY <1>1, <1>4, Loading DEF Loads
<1>8. LoadBetween'
  BY <1>1, <1>2, <1>4, <1>7, Loading DEF LoadBetween
<1>9. WorkInv'
  BY <1>1, <1>2, <1>4, <1>7, <1>8, LoadKeeps DEF Loads
<1> QED  BY <1>2, <1>3, <1>6, <1>9, Parts

\* Details are an error unless the log still has its signature.
LEMMA DetailKeeps ==
    ASSUME IInv, Detail
    PROVE  IInv'
<1>1. LogsInv /\ CachesInv /\ WorkInv /\ OutInv
  BY Parts
<1>2. LogsInv' /\ version' = version
  BY <1>1, LogsKeep DEF Detail
<1>3. OutInv'
  BY <1>1, <1>2, OutKeeps DEF Detail
<1>4. pc = "detail" /\ pc \in LoadPlaces \ {"sign"}
         /\ UNCHANGED <<trajectories, usages>>
  BY DEF Detail, LoadPlaces
<1>5. CASE /\ indexes' = Newest(indexes, MaxIndexes)
           /\ pc' = "store"
           /\ UNCHANGED <<call, load, own>>
  <2>1. CachesInv'
    BY <1>1, <1>4, <1>5, CachesArePure, PureNewest DEF UsagesPure
  <2>2. LoadBetween' /\ pc' \in LoadPlaces
    BY <1>1, <1>2, <1>4, <1>5 DEF WorkInv, LoadBetween, LoadPlaces
  <2>3. WorkInv'
    BY <1>1, <1>2, <1>4, <1>5, <2>2, Loading, LoadKeeps DEF Loads
  <2> QED  BY <1>2, <1>3, <2>1, <2>3, Parts
<1>6. CASE Rest /\ UNCHANGED indexes
  <2>1. CachesInv'
    BY <1>1, <1>4, <1>6 DEF CachesInv, CachesType, PureCaches
  <2>2. WorkInv'
    BY <1>1, <1>2, <1>6, RestKeeps
  <2> QED  BY <1>2, <1>3, <2>1, <2>2, Parts
<1> QED  BY <1>5, <1>6 DEF Detail

\* The page is complete; the usage is remembered if the log is the same.
LEMMA StreamedKeeps ==
    ASSUME IInv, Streamed
    PROVE  IInv'
<1>1. LogsInv /\ CachesInv /\ WorkInv /\ OutInv
  BY Parts
<1>2. LogsInv' /\ version' = version
  BY <1>1, LogsKeep DEF Streamed
<1>3. OutInv'
  BY <1>1, <1>2, OutKeeps DEF Streamed
<1>4. /\ pc = "streamed" /\ pc' = "store" /\ pc \in LoadPlaces \ {"sign"}
      /\ pc' \in LoadPlaces
      /\ UNCHANGED <<trajectories, indexes, call, load, own>>
  BY DEF Streamed, LoadPlaces
<1>5. LoadBetween'
  BY <1>1, <1>2, <1>4 DEF WorkInv, LoadBetween, LoadPlaces
<1>6. WorkInv'
  BY <1>1, <1>2, <1>4, <1>5, Loading, LoadKeeps DEF Loads
<1>7. CASE version["root"] = load.sig
  <2>1. load.of = load.sig /\ load.sig \in Versions
    BY <1>1, <1>4, <1>7, Loading DEF WorkInv, LoadBetween, Loads
  <2>2. usages' = [usages EXCEPT !["root"] = [sig |-> load.sig, of |-> load.sig]]
    BY <1>7, <2>1 DEF Streamed, Remember
  <2>3. CachesInv'
    BY <1>1, <1>4, <2>1, <2>2, RememberKeeps
  <2> QED  BY <1>2, <1>3, <1>6, <2>3, Parts
<1>8. CASE version["root"] # load.sig
  <2>1. CachesInv'
    BY <1>1, <1>4, <1>8 DEF Streamed, CachesInv, CachesType, PureCaches
  <2> QED  BY <1>2, <1>3, <1>6, <2>1, Parts
<1> QED  BY <1>7, <1>8

\* The projection is cached only if the log still has its signature.
LEMMA StoreKeeps ==
    ASSUME IInv, Store
    PROVE  IInv'
<1>1. LogsInv /\ CachesInv /\ WorkInv /\ OutInv
  BY Parts
<1>2. LogsInv' /\ version' = version
  BY <1>1, LogsKeep DEF Store
<1>3. /\ pc = "store" /\ pc \in LoadPlaces \ {"sign"} /\ pc \in LoadPlaces
      /\ UNCHANGED <<indexes, usages>> /\ UNCHANGED out /\ Loaded(load.of)
  BY DEF Store, LoadPlaces
<1>4. /\ load \in Loads /\ load.sig \in Versions /\ version["root"] \in Versions
      /\ load.nested \/ call.before["root"] <= load.sig
      /\ load.sig <= load.of /\ load.of <= version["root"]
  BY <1>1, <1>3, Loading DEF WorkInv, LoadBetween
<1>5. load.of \in Versions /\ (load.nested \/ call.before["root"] <= load.of)
  <2>1. call.before["root"] \in Int
    BY <1>1 DEF WorkInv, WorkType, Calls, Revisions, Signatures, Contents
  <2> QED  BY <1>4, <2>1 DEF Loads
<1>6. WorkInv' /\ OutInv'
  BY <1>1, <1>2, <1>3, <1>4, <1>5, LoadedKeeps
<1>7. CASE version["root"] = load.sig
  <2>1. load.of = load.sig
    BY <1>4, <1>5, <1>7
  <2>2. PICK e \in Cached : /\ e.of = e.sig
                            /\ trajectories' =
                                   Newest(Use(trajectories, e), MaxTrajectories)
    <3>1. [view |-> load.view, sig |-> load.sig, of |-> load.of] \in Cached
      BY <1>4, <2>1 DEF Cached, Loads
    <3> QED  BY <1>7, <2>1, <3>1 DEF Store, Stored
  <2>3. CachesInv'
    BY <1>1, <1>3, <2>2, CachesArePure, PureUse, PureNewest DEF UsagesPure
  <2> QED  BY <1>2, <1>6, <2>3, Parts
<1>8. CASE version["root"] # load.sig
  <2>1. CachesInv'
    BY <1>1, <1>3, <1>8 DEF Store, CachesInv, CachesType, PureCaches
  <2> QED  BY <1>2, <1>6, <2>1, Parts
<1> QED  BY <1>7, <1>8
-----------------------------------------------------------------------------
(* The theorems.                                                           *)

\* Every step keeps the invariant.
LEMMA NextKeeps == IInv /\ [Next]_vars => IInv'
<1> SUFFICES ASSUME IInv, [Next]_vars PROVE IInv'
  OBVIOUS
<1>1. CASE UNCHANGED vars
  BY <1>1 DEF vars, IInv, TypeOK, PureCaches, RevisionIsExact, PlacesMatch,
      LoadBetween, OwnBetween, CallBetween, Of, LiveBetween
<1>2. CASE \E l \in Logs : Append1(l)
  BY <1>2, AppendKeeps
<1>3. CASE \E v \in Views : Begin("read", v)
  BY <1>3, BeginKeeps
<1>4. CASE Begin("update", Live)
  BY <1>4, BeginKeeps
<1>5. CASE Step
  BY <1>5, OwnSignKeeps, OwnAgainKeeps, OwnParseKeeps, OwnKeepKeeps, SignKeeps,
     ParseKeeps, KeepKeeps, PageKeeps, AgainKeeps, DetailKeeps, StreamedKeeps,
     StoreKeeps DEF Step
<1>6. CASE OwnUnreadable
  BY <1>6, OwnUnreadableKeeps
<1>7. CASE Fail
  BY <1>7, FailKeeps
<1> QED  BY <1>1, <1>2, <1>3, <1>4, <1>5, <1>6, <1>7 DEF Next

THEOREM Invariance == Spec => []IInv
BY InitIInv, NextKeeps, PTL DEF Spec

\* The worker and the viewer keep their types, and no more trajectories are
\* cached than MAX_TRAJECTORY_CACHE.
THEOREM TypeCorrect == Spec => []TypeOK
<1>1. IInv => TypeOK
  BY DEF IInv
<1> QED  BY <1>1, Invariance, PTL

\* However appends fall between the steps of a call, what
\* _cached_session_trajectory and _own_usage keep under a signature was
\* computed from the log that had it.
THEOREM CachesPure == Spec => []PureCaches
<1>1. IInv => PureCaches
  BY DEF IInv
<1> QED  BY <1>1, Invariance, PTL

\* A revision that trajectory_result claims is that of its whole envelope.
THEOREM RevisionCorrect == Spec => []RevisionIsExact
<1>1. IInv => RevisionIsExact
  BY DEF IInv
<1> QED  BY <1>1, Invariance, PTL

\* When trajectory_update_result may answer "unchanged", the live window
\* already shows the current logs.
THEOREM LiveCorrect == Spec => []LiveNotStale
<1>1. IInv => LiveNotStale
  <2> SUFFICES ASSUME IInv, live.rev = version PROVE LiveNotStale
    BY DEF LiveNotStale
  <2>1. LogsInv /\ OutInv
    BY Parts
  <2>2. live.rev["root"] \in Versions /\ live.rev["child"] \in Versions
    BY <2>1 DEF LogsInv
  <2>3. live.rev # NoRevision
    BY <2>2 DEF NoRevision
  <2>4. live.root \in Int /\ live.child \in Int
    BY <2>1 DEF OutInv, OutType, Contents
  <2> QED  BY <2>1, <2>2, <2>3, <2>4 DEF OutInv, LiveBetween, LiveNotStale
<1> QED  BY <1>1, Invariance, PTL
=============================================================================
