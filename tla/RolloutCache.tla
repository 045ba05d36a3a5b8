---------------------------- MODULE RolloutCache ----------------------------
(***************************************************************************)
(* How the worker answers trajectory reads and live updates while Codex    *)
(* appends to the logs (projection.py: _cached_session_trajectory,         *)
(* trajectory_result, trajectory_update_result; subagents.py: task_usage   *)
(* and _own_usage), and the three caches it keeps between calls.           *)
(*                                                                         *)
(* There is one task with one descendant.  A log is the number of appends  *)
(* made to it, which is also its signature; version 0 of the descendant is *)
(* its absence.  Reading a log yields the version that was there when the  *)
(* file was opened (the reader keeps to the size it saw).  What a          *)
(* projection says is reduced to the version it was computed from.  The    *)
(* worker runs one call at a time, one step per look at the file system.   *)
(***************************************************************************)
EXTENDS Integers, Sequences, SequencesExt

CONSTANTS
    MaxAppends,       \* bound: appends to either log over one run
    MaxIndexes,       \* MAX_PAGE_INDEXES
    MaxTrajectories,  \* MAX_TRAJECTORY_CACHE
    Views,            \* the (maxRecords, beforeRecord, detailLevel) asked for
    FullViews,        \* those with detailLevel "full"
    Live,             \* the view of live updates, and of _own_usage's priming
    MaxFaults         \* bound: reads that fail over one run

ASSUME BoundsAssumption == MaxAppends \in Nat \ {0} /\ MaxIndexes \in Nat
                             /\ MaxTrajectories \in Nat /\ MaxFaults \in Nat
ASSUME ViewsAssumption  == FullViews \subseteq Views /\ Live \in Views \ FullViews

Logs == {"root", "child"}

VARIABLES
    version,       \* the version of each log
    faults,        \* reads that failed so far
    trajectories,  \* _TRAJECTORY_CACHE, least recently used first
    indexes,       \* _PAGE_INDEXES, least recently used first
    usages,        \* subagents._USAGE
    pc,            \* the worker's next look at the file system
    call,          \* the call: kind, view, phase and what it computed so far
    load,          \* _cached_session_trajectory: view, signature, projection
    own,           \* _own_usage: whose, signature, usage
    answer,        \* what trajectory_result returned, until the next call
    live           \* what the viewer keeps of its live updates

caches == <<trajectories, indexes, usages>>
work   == <<pc, call, load, own>>
out    == <<answer, live>>
logs   == <<version, faults>>
vars   == <<logs, caches, work, out>>

None       == -1              \* no revision; no usage read yet
Unreadable == -2              \* the usage of a log that could not be read
Unavailable == -3             \* its signature when it could not be found
Versions   == 0..MaxAppends
NoRevision == [l \in Logs |-> None]

\* In a signature, an unreadable log of version v counts as -(v + 4).
UnreadableAt(v) == -(v + 4)

NoCall == [kind |-> "none", view |-> Live, phase |-> "none",
           before |-> NoRevision, now |-> NoRevision, root |-> None,
           child |-> None]
NoLoad == [view |-> Live, sig |-> None, of |-> None, nested |-> FALSE]
NoOwn  == [log |-> "root", sig |-> None, of |-> None]
Empty  == [rev |-> NoRevision, root |-> None, child |-> None]

Init ==
    /\ version = [l \in Logs |-> IF l = "root" THEN 1 ELSE 0]
    /\ faults = 0
    /\ trajectories = <<>>
    /\ indexes = <<>>
    /\ usages = [l \in Logs |-> [sig |-> None, of |-> None]]
    /\ pc = "idle"
    /\ call = NoCall
    /\ load = NoLoad
    /\ own = NoOwn
    /\ answer = Empty
    /\ live = Empty

\* Codex appends to a log, or starts the descendant's.
Append1(l) ==
    /\ version[l] < MaxAppends
    /\ version' = [version EXCEPT ![l] = @ + 1]
    /\ UNCHANGED <<faults, caches, work, out>>

-----------------------------------------------------------------------------
(* The LRU caches.                                                         *)

Same(e, f)   == e.view = f.view /\ e.sig = f.sig
Others(s, e) ==
    LET at == {i \in DOMAIN s : Same(e, s[i])}
    IN IF at = {} THEN s ELSE RemoveAt(s, CHOOSE i \in at : TRUE)

\* popitem(last=False) while the cache is too long.
Newest(s, n) == SubSeq(s, IF Len(s) > n THEN Len(s) - n + 1 ELSE 1, Len(s))

\* cache[key] = value, move_to_end.
Use(s, e) == Append(Others(s, e), e)

Index(sig, of) == [view |-> Live, sig |-> sig, of |-> of]

-----------------------------------------------------------------------------
(* The end of a call.                                                      *)

Rest ==
    /\ pc' = "idle"
    /\ call' = NoCall
    /\ load' = NoLoad
    /\ own' = NoOwn

\* (mutant of AnswerRead) the revision of the beginning is claimed.
AnswerReadUnchecked(now, c) ==
    /\ answer' = [rev |-> c.before, root |-> c.root, child |-> c.child]
    /\ UNCHANGED live

\* trajectory_result: the revision is claimed only if it did not change.
AnswerRead(now, c) ==
    /\ answer' = [rev   |-> IF now = c.before THEN now ELSE NoRevision,
                  root  |-> c.root,
                  child |-> c.child]
    /\ UNCHANGED live

\* (mutant of AnswerUpdate) the revision is computed after the projection.
AnswerUpdateLate(c) ==
    /\ live' = [rev |-> version, root |-> c.root, child |-> c.child]
    /\ UNCHANGED answer

\* trajectory_update_result: the revision computed before the projection.
AnswerUpdate(c) ==
    /\ live' = [rev |-> c.before, root |-> c.root, child |-> c.child]
    /\ UNCHANGED answer

Faulty ==
    /\ faults < MaxFaults
    /\ faults' = faults + 1
    /\ UNCHANGED version

\* A ValueError or OSError ends the call with an error.
Fail ==
    /\ pc # "idle"
    /\ Faulty
    /\ Rest
    /\ UNCHANGED <<caches, out>>

-----------------------------------------------------------------------------
(* task_usage: the task's own usage, then its descendant's.                *)

\* The next task_usage, or the next projection, begins.
Family(c)   == pc' = "own" /\ own' = NoOwn /\ load' = NoLoad /\ call' = c
Project(c)  == pc' = "sign" /\ own' = NoOwn /\ call' = c
                 /\ load' = [NoLoad EXCEPT !.view = c.view]

\* task_usage is over: sig is the descendant's signature, of its usage.
Counted(sig, of) ==
    LET now     == [call.now EXCEPT !["child"] = sig]
        c       == [call EXCEPT !.now = NoRevision]
        current == call.kind = "update" /\ now = live.rev
    IN \/ /\ call.phase = "before" /\ current
          /\ Rest
          /\ UNCHANGED out
       \/ /\ call.phase = "before" /\ ~current
          /\ Project([c EXCEPT !.before = now, !.phase = "read"])
          /\ UNCHANGED out
       \/ /\ call.phase = "family" /\ call.kind = "update"
          /\ Rest
          /\ AnswerUpdate([c EXCEPT !.child = of])
       \/ /\ call.phase = "family" /\ call.kind = "read"
          /\ Family([c EXCEPT !.child = of, !.phase = "after"])
          /\ UNCHANGED out
       \/ /\ call.phase = "after"
          /\ Rest
          /\ AnswerRead(now, c)

\* _own_usage returns (sig, of) for the log own.log.
Owned(sig, of) ==
    \/ /\ own.log = "root"
       /\ call' = [call EXCEPT !.now["root"] = sig]
       /\ own' = [NoOwn EXCEPT !.log = "child"]
       /\ pc' = "own"
       /\ load' = NoLoad
       /\ UNCHANGED out
    \/ own.log = "child" /\ Counted(sig, of)

\* A trajectory read or a live update begins.
Begin(kind, view) ==
    /\ pc = "idle"
    /\ kind = "update" => view = Live
    /\ Family([NoCall EXCEPT !.kind = kind, !.view = view, !.phase = "before"])
    /\ answer' = Empty
    /\ UNCHANGED <<logs, caches, live>>

\* _own_usage takes the signature; the descendant may not exist.
OwnSign ==
    /\ pc = "own"
    /\ LET sig == version[own.log] IN
          \/ /\ usages[own.log].sig = sig
             /\ Owned(sig, usages[own.log].of)
          \/ /\ sig = 0
             /\ Owned(sig, 0)
          \/ /\ sig # 0 /\ usages[own.log].sig # sig
             /\ own' = [own EXCEPT !.sig = sig]
             /\ pc' = IF own.log = "root" THEN "sign" ELSE "ownParse"
             /\ load' = [NoLoad EXCEPT !.nested = TRUE]
             /\ UNCHANGED <<call, out>>
    /\ UNCHANGED <<logs, caches>>

\* Priming the index may have remembered the usage of that signature.
OwnAgain ==
    /\ pc = "ownAgain"
    /\ \/ /\ usages["root"].sig = own.sig
          /\ Owned(own.sig, usages["root"].of)
       \/ /\ usages["root"].sig # own.sig
          /\ pc' = "ownParse"
          /\ UNCHANGED <<call, load, own, out>>
    /\ UNCHANGED <<logs, caches>>

OwnParse ==
    /\ pc = "ownParse"
    /\ pc' = "ownKeep"
    /\ own' = [own EXCEPT !.of = version[own.log]]
    /\ UNCHANGED <<logs, caches, call, load, out>>

\* (mutant of OwnKeep) the usage is remembered whatever happened meanwhile.
OwnKeepUnchecked ==
    /\ pc = "ownKeep"
    /\ usages' = [usages EXCEPT ![own.log] = [sig |-> own.sig, of |-> own.of]]
    /\ Owned(own.sig, own.of)
    /\ UNCHANGED <<logs, trajectories, indexes>>

\* The usage is remembered if the log did not change meanwhile.
OwnKeep ==
    /\ pc = "ownKeep"
    /\ usages' = IF version[own.log] = own.sig
                 THEN [usages EXCEPT ![own.log] =
                          [sig |-> own.sig, of |-> own.of]]
                 ELSE usages
    /\ Owned(own.sig, own.of)
    /\ UNCHANGED <<logs, trajectories, indexes>>

\* The descendant's log cannot be signed or read: a warning, and a signature
\* that says so, with what a second look at the file tells, if anything.
OwnUnreadable ==
    /\ Faulty
    /\ pc \in {"own", "ownParse"}
    /\ own.log = "child"
    /\ version["child"] > 0
    /\ \E sig \in {UnreadableAt(version["child"]), Unavailable} :
          Owned(sig, Unreadable)
    /\ UNCHANGED caches

-----------------------------------------------------------------------------
(* _cached_session_trajectory.                                             *)

Remember(sig, of) == usages' = [usages EXCEPT !["root"] = [sig |-> sig, of |-> of]]

\* The projection `of` is the result.
Loaded(of) ==
    \/ /\ load.nested
       /\ pc' = "ownAgain"
       /\ load' = NoLoad
       /\ UNCHANGED <<call, own>>
    \/ /\ ~load.nested
       /\ Family([call EXCEPT !.root = of, !.phase = "family"])

Sign ==
    /\ pc = "sign"
    /\ LET sig == version["root"]
           hit == {e \in Range(trajectories) :
                      e.view = load.view /\ e.sig = sig}
       IN \/ \E e \in hit :
                /\ trajectories' = Use(trajectories, e)
                /\ Loaded(e.of)
          \/ /\ hit = {}
             /\ pc' = IF \E e \in Range(indexes) : e.sig = sig
                      THEN "page" ELSE "build"
             /\ load' = [load EXCEPT !.sig = sig]
             /\ UNCHANGED <<trajectories, call, own>>
    /\ UNCHANGED <<logs, indexes, usages, out>>

\* parse_session fills a new page index.
Build ==
    /\ pc = "build"
    /\ pc' = "keep"
    /\ load' = [load EXCEPT !.of = version["root"]]
    /\ UNCHANGED <<logs, caches, call, own, out>>

\* (mutant of Keep) the index of a log that changed while it was read is kept.
KeepUnchecked ==
    /\ pc = "keep"
    /\ indexes' = Use(indexes, Index(load.sig, load.of))
    /\ Remember(load.sig, load.of)
    /\ pc' = "page"
    /\ UNCHANGED <<logs, trajectories, call, load, own, out>>

\* The index is kept if it is small enough and the log did not change.
Keep ==
    /\ pc = "keep"
    /\ \/ /\ version["root"] = load.sig
          /\ indexes' = Use(indexes, Index(load.sig, load.of))
          /\ Remember(load.sig, load.of)
          /\ pc' = "page"
       \/ /\ pc' = "stream"
          /\ UNCHANGED <<indexes, usages>>
    /\ UNCHANGED <<logs, trajectories, call, load, own, out>>

\* The page of a summary is complete; that of a full view is checked later.
\* Ambiguous identifiers make the log be parsed again.
Page ==
    /\ pc = "page"
    /\ \E e \in Range(indexes) :
          /\ e.sig = load.sig
          /\ load' = [load EXCEPT !.of = e.of]
          /\ \/ /\ load.view \notin FullViews
                /\ indexes' = Newest(Use(indexes, e), MaxIndexes)
                /\ pc' = "store"
             \/ /\ load.view \in FullViews
                /\ indexes' = Use(indexes, e)
                /\ pc' = "detail"
             \/ /\ indexes' = Use(indexes, e)
                /\ pc' = "again"
    /\ UNCHANGED <<logs, trajectories, usages, call, own, out>>

\* Identifiers are ambiguous: the log is parsed again.
Again ==
    /\ pc = "again"
    /\ load' = [load EXCEPT !.of = version["root"]]
    /\ IF load.view \in FullViews
       THEN pc' = "detail" /\ UNCHANGED indexes
       ELSE pc' = "store" /\ indexes' = Newest(indexes, MaxIndexes)
    /\ UNCHANGED <<logs, trajectories, usages, call, own, out>>

\* Details read from a log that changed are an error, raised before the
\* eviction of old indexes.
Detail ==
    /\ pc = "detail"
    /\ \/ /\ version["root"] = load.sig
          /\ indexes' = Newest(indexes, MaxIndexes)
          /\ pc' = "store"
          /\ UNCHANGED <<call, load, own>>
       \/ /\ version["root"] # load.sig
          /\ UNCHANGED indexes
          /\ Rest
    /\ UNCHANGED <<logs, trajectories, usages, out>>

\* Without an index the log is parsed again for this page alone.
Stream ==
    /\ pc = "stream"
    /\ pc' = "streamed"
    /\ load' = [load EXCEPT !.of = version["root"]]
    /\ UNCHANGED <<logs, caches, call, own, out>>

Streamed ==
    /\ pc = "streamed"
    /\ pc' = "store"
    /\ IF version["root"] = load.sig THEN Remember(load.sig, load.of)
       ELSE UNCHANGED usages
    /\ UNCHANGED <<logs, trajectories, indexes, call, load, own, out>>

Stored == Newest(Use(trajectories, [view |-> load.view, sig |-> load.sig,
                                    of |-> load.of]), MaxTrajectories)

\* The projection is cached if the log still is what it was at the beginning.
Store ==
    /\ pc = "store"
    /\ trajectories' = IF version["root"] = load.sig THEN Stored ELSE trajectories
    /\ Loaded(load.of)
    /\ UNCHANGED <<logs, indexes, usages, out>>

-----------------------------------------------------------------------------

Step ==
    \/ OwnSign \/ OwnAgain \/ OwnParse \/ OwnKeep
    \/ Sign \/ Build \/ Keep \/ Page \/ Again \/ Detail \/ Stream \/ Streamed
    \/ Store

Next ==
    \/ \E l \in Logs : Append1(l)
    \/ \E v \in Views : Begin("read", v)
    \/ Begin("update", Live)
    \/ Step
    \/ OwnUnreadable
    \/ Fail

Spec == Init /\ [][Next]_vars

\* The worker's thread is scheduled and the viewer's timer polls for ever,
\* whatever other reads come between.
FairSpec == Spec /\ WF_vars(Step) /\ SF_vars(Begin("update", Live))

-----------------------------------------------------------------------------
(* Properties.                                                             *)

Cached     == [view : Views, sig : Versions, of : Versions]
Contents   == Versions \cup {None, Unreadable}
Signatures == Contents \cup {Unavailable} \cup {UnreadableAt(v) : v \in Versions}
Revisions  == [Logs -> Signatures]

OwnPlaces  == {"own", "ownAgain", "ownParse", "ownKeep"}
LoadPlaces == {"sign", "build", "keep", "page", "again", "detail", "stream",
               "streamed", "store"}

TypeOK ==
    /\ version \in [Logs -> Versions]
    /\ faults \in 0..MaxFaults
    /\ trajectories \in Seq(Cached)
    /\ Len(trajectories) <= MaxTrajectories
    /\ indexes \in Seq(Cached)
    /\ usages \in [Logs -> [sig : Versions \cup {None},
                            of : Versions \cup {None}]]
    /\ pc \in {"idle"} \cup OwnPlaces \cup LoadPlaces
    /\ call \in [kind : {"none", "read", "update"}, view : Views,
                 phase : {"none", "before", "read", "family", "after"},
                 before : Revisions, now : Revisions,
                 root : Contents, child : Contents]
    /\ load \in [view : Views, sig : Versions \cup {None},
                 of : Versions \cup {None}, nested : BOOLEAN]
    /\ own \in [log : Logs, sig : Versions \cup {None},
                of : Versions \cup {None}]
    /\ answer \in [rev : Revisions, root : Contents, child : Contents]
    /\ live \in [rev : Revisions, root : Contents, child : Contents]

\* No cache ever holds a mixed snapshot: what is filed under a signature was
\* computed from the log that had that signature.
PureCaches ==
    /\ \A e \in Range(trajectories) \cup Range(indexes) : e.of = e.sig
    /\ \A l \in Logs : usages[l].of = usages[l].sig

\* An envelope that claims a revision holds exactly that revision of the task,
\* and of its descendant as far as both could be read: pages and details of one
\* revision belong together.
RevisionIsExact ==
    answer.rev # NoRevision =>
        /\ answer.root = answer.rev["root"]
        /\ answer.rev["child"] \in Versions =>
               answer.child \in {answer.rev["child"], Unreadable}

\* A live window whose revision is current shows the current task: the next
\* poll may answer "unchanged" without hiding anything.
LiveNotStale ==
    live.rev = version =>
        /\ live.root = version["root"]
        /\ live.child \in {version["child"], Unreadable}

\* At most MAX_PAGE_INDEXES temporary indexes are kept between two calls.
IndexesBounded == pc = "idle" => Len(indexes) <= MaxIndexes

\* Once the logs rest, a live window that goes on polling shows them; what it
\* lacks of a descendant that could not be read for a moment, the warning of
\* its totals says, until the next change.
LiveCatchesUp ==
    <>[](/\ live.root = version["root"]
         /\ live.child \in {version["child"], Unreadable})

-----------------------------------------------------------------------------
(* The inductive strengthening of the invariants above: what a call holds  *)
(* lies between the version its signature was taken at and the current one. *)

\* Which phases and which kinds of call each place belongs to.
PlacesMatch ==
    /\ pc # "idle" => call.kind # "none" /\ call.phase # "none"
    /\ pc \in OwnPlaces => call.phase # "read"
    /\ pc \in LoadPlaces => load.nested \/ call.phase = "read"
    /\ pc = "ownAgain" \/ (pc \in LoadPlaces /\ load.nested)
           => own.log = "root" /\ call.phase # "read"
    /\ call.phase = "after" => call.kind = "read"

\* What is loaded was read after its signature was taken, and that after the
\* call's first revision.
LoadBetween ==
    /\ pc \in LoadPlaces \ {"sign"} =>
           /\ 0 <= load.sig /\ load.sig <= version["root"]
           /\ ~load.nested => call.before["root"] <= load.sig
    /\ pc \in {"keep", "detail", "streamed", "store"} =>
           load.sig <= load.of /\ load.of <= version["root"]

Of(c) == [l \in Logs |-> IF l = "root" THEN c.root ELSE c.child]

\* The usage of a log was read after its signature was taken, and that after
\* whatever the call knows of this log.
OwnBetween ==
    /\ pc \in OwnPlaces \ {"own"} \/ (pc \in LoadPlaces /\ load.nested) =>
           /\ 0 <= own.sig /\ own.sig <= version[own.log]
           /\ call.before[own.log] <= own.sig
           /\ Of(call)[own.log] <= own.sig
    /\ pc = "ownKeep" => own.sig <= own.of /\ own.of <= version[own.log]

\* First revision, projection, family and second revision are taken in turn.
CallBetween ==
    /\ \A l \in Logs : /\ call.before[l] <= version[l]
                       /\ call.now[l] <= version[l]
                       /\ Of(call)[l] <= version[l]
    /\ call.phase \in {"read", "family", "after"} => 0 <= call.before["root"]
    /\ call.phase \in {"family", "after"} =>
           0 <= call.root /\ call.before["root"] <= call.root
    /\ call.phase = "after" =>
           \/ call.child = Unreadable
           \/ 0 <= call.child /\ call.before["child"] <= call.child
    /\ pc \in OwnPlaces /\ own.log = "child" =>
           0 <= call.now["root"] /\ call.root <= call.now["root"]

\* What the live window shows lies between its revision and the current one.
LiveBetween ==
    live.rev # NoRevision =>
        /\ live.rev["root"] <= live.root /\ live.root <= version["root"]
        /\ live.rev["child"] \in Versions =>
               \/ live.child = Unreadable
               \/ /\ live.rev["child"] <= live.child
                  /\ live.child <= version["child"]

IInv ==
    /\ TypeOK
    /\ PureCaches
    /\ RevisionIsExact
    /\ PlacesMatch
    /\ LoadBetween
    /\ OwnBetween
    /\ CallBetween
    /\ LiveBetween
=============================================================================
