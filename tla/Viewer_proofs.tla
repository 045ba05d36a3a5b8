---------------------------- MODULE Viewer_proofs ----------------------------
(***************************************************************************)
(* Theorems about Viewer: whatever the order in which requests are         *)
(* answered, refused, timed out or cut off, and whatever user, host and    *)
(* another panel do meanwhile, what is shown belongs together, the consent *)
(* that is used is fresh, no control stays locked and a live window goes   *)
(* on polling.                                                             *)
(*                                                                         *)
(* The invariant says of every kind of request which field of the panel is *)
(* its lock: the lock is held exactly while one such request is pending    *)
(* whose answer still counts.  The functions of the page compose, and so   *)
(* do the proofs: Redrawn is what a function may do that only draws,       *)
(* SameView what one may do that only works.                               *)
(***************************************************************************)
EXTENDS Viewer, FiniteSetTheorems, TLAPS

-----------------------------------------------------------------------------
\* Everything the page can hold.
Modes     == {"none", "docked", "native-pip", "inline-live"}
Ops       == {"load", "earlier", "detail", "timing", "poll", "prefs", "save", "enter", "undock"}
Levels    == {"summary", "full", "default"}
AnyTask   == Tasks \cup {NoTask}
Revisions == 0..MaxVersion
\* An answer names the version it was read at, or no version.
Answers   == {a \in [version : Revisions, revision : Revisions] : a.revision \in {0, a.version}}
Calls ==
    {c \in [op : Ops, task : AnyTask, revision : Revisions, fresh : BOOLEAN,
            value : BOOLEAN, answer : Answers] :
       /\ c.op \in Reads => c.task \in Tasks
       /\ c.op = "enter" => c.answer = NoAnswer}
Works ==
    {w \in [op : {"idle", "load", "earlier", "enable"}, stage : {"", "prefs", "save", "read"},
            task : AnyTask, level : Levels,
            forget : BOOLEAN, enable : BOOLEAN, granted : BOOLEAN] :
       w.op = "load" => w.task \in Tasks}
Panels ==
    [calls : SUBSET Calls, closed : BOOLEAN, hidden : BOOLEAN,
     task : AnyTask, revision : Revisions, snapshot : Revisions,
     pages : SUBSET Revisions, full : BOOLEAN,
     details : SUBSET (Tasks \X (1..MaxVersion)), timing : AnyTask,
     timingBusy : BOOLEAN, asked : {"never", "pending", "settled"}, default : BOOLEAN,
     work : Works, mode : Modes, pip : BOOLEAN, window : BOOLEAN, presenting : BOOLEAN,
     restore : {"summary", "full"}, liveTask : AnyTask, liveRevision : Revisions,
     liveSnapshot : Revisions, polling : BOOLEAN, timer : BOOLEAN, withdrawn : BOOLEAN,
     abandoned : BOOLEAN]

\* The pending requests of one kind, and those whose answer still counts.
Of(p, op)    == {c \in p.calls : c.op = op}
Fresh(p, op) == {c \in p.calls : c.op = op /\ c.fresh}

\* A lock is held exactly while there is a request in S, and then there is one.
Held(S, lock) ==
    /\ lock <=> S # {}
    /\ \A c, d \in S : c = d

-----------------------------------------------------------------------------
(* The inductive invariant, part by part.                                  *)

\* What is shown belongs together, and so will the details under way.
Shown(p) ==
    /\ p.revision # 0 =>
         /\ p.pages = {p.revision}
         /\ p.details \subseteq {<<p.task, p.revision>>}
    /\ \A d \in p.details : d[1] = p.task
    /\ p.timing \in {NoTask, p.task}
    /\ \A c \in Fresh(p, "detail") : c.task = p.task /\ c.revision = p.revision

\* A live window that is open or about to open has its task, or the page gave it up.
Attached(p) == (LiveMode(p) \/ p.presenting) /\ p.liveTask = NoTask => p.abandoned

\* The live window goes on polling, and only one that can be seen does.
Seen(p) ==
    /\ LiveMode(p) /\ p.liveTask # NoTask /\ ~p.hidden /\ ~p.closed => p.timer \/ p.polling
    /\ p.timer => LiveMode(p) /\ ~p.hidden
    /\ Attached(p)

PollLock(p)    == Held(Of(p, "poll"), p.polling)
TimingLock(p)  == Held(Fresh(p, "timing"), p.timingBusy)
PresentLock(p) == Held(Of(p, "enter") \cup Of(p, "undock"), p.presenting)
PrefsLock(p)   == Held(Fresh(p, "prefs"), p.asked = "pending")

\* What a load, an earlier page or the consent waits for.
WorkLock(p) ==
    /\ Held(Of(p, "save"), p.work.stage = "save")
    /\ Held(Of(p, "load"), p.work.stage = "read" /\ p.work.op = "load")
    /\ Held(Of(p, "earlier"), p.work.op = "earlier")
    /\ p.work.stage = "" <=> p.work.op = "idle"
    /\ p.work.op = "earlier" => p.work.stage = "read"
    /\ p.work.op = "enable" => p.work.stage = "save"
    /\ p.work.stage = "prefs" => p.asked = "pending"

\* A load at the default level decides by a preference that was on, if it was
\* on at all, at some moment since the load began.
Granted(p, s) ==
    /\ p.work.stage = "prefs" =>
         /\ s => p.work.granted
         /\ p.work.level = "default" =>
              \A c \in Fresh(p, "prefs") : c.value => p.work.granted
    /\ p.work.level = "default" => ~p.work.forget /\ p.work.stage # "save"
    /\ p.work.op = "load" /\ p.work.level = "default" /\ p.work.enable => p.work.granted

ViewSound(p) ==
    Shown(p) /\ Seen(p) /\ PollLock(p) /\ TimingLock(p) /\ PresentLock(p)
WorkSound(p, s) ==
    PrefsLock(p) /\ WorkLock(p) /\ Granted(p, s)

Sound(p, s) == ViewSound(p) /\ WorkSound(p, s)

-----------------------------------------------------------------------------
(* Steps that touch what is drawn, and not the locks of loads and windows.  *)

SameWork(p, q) ==
    /\ q.work = p.work /\ q.asked = p.asked /\ q.presenting = p.presenting
    /\ q.polling = p.polling /\ q.default = p.default
    /\ \A op \in Ops \ {"detail", "timing"} : Of(q, op) = Of(p, op)

Redrawn(p, q) ==
    /\ q \in Panels
    /\ SameWork(p, q)
    /\ Shown(p) => Shown(q)
    /\ Seen(p) => Seen(q)
    /\ TimingLock(p) => TimingLock(q)

\* Steps that touch neither what is drawn nor the live window.
SameView(p, q) ==
    /\ q.task = p.task /\ q.revision = p.revision /\ q.pages = p.pages
    /\ q.details = p.details /\ q.timing = p.timing /\ q.timingBusy = p.timingBusy
    /\ q.mode = p.mode /\ q.pip = p.pip /\ q.window = p.window /\ q.hidden = p.hidden
    /\ q.closed = p.closed /\ q.liveTask = p.liveTask /\ q.timer = p.timer
    /\ q.polling = p.polling /\ q.presenting = p.presenting /\ q.abandoned = p.abandoned
    /\ \A op \in Ops \ {"prefs", "save", "load", "earlier"} : Of(q, op) = Of(p, op)

\* No request of those that work waits for is pending.
NoneWorking(p) ==
    Of(p, "save") = {} /\ Of(p, "load") = {} /\ Of(p, "earlier") = {}

LEMMA RedrawnTwice ==
  ASSUME NEW p, NEW q, NEW r, Redrawn(p, q), Redrawn(q, r)
  PROVE  Redrawn(p, r)
BY DEF Redrawn, SameWork

LEMMA NothingRedrawn ==
  ASSUME NEW p \in Panels
  PROVE  Redrawn(p, p)
BY DEF Redrawn, SameWork

\* Parts that depend on few fields.
LEMMA ShownStays ==
  ASSUME NEW p, NEW q,
         q.task = p.task, q.revision = p.revision, q.pages = p.pages,
         q.details = p.details, q.timing \in {NoTask, p.timing},
         Fresh(q, "detail") \subseteq Fresh(p, "detail"),
         Shown(p)
  PROVE  Shown(q)
BY DEF Shown

LEMMA SeenStays ==
  ASSUME NEW p, NEW q,
         q.mode = p.mode, q.pip = p.pip, q.window = p.window, q.hidden = p.hidden,
         q.closed = p.closed, q.liveTask = p.liveTask, q.timer = p.timer,
         q.polling = p.polling, q.presenting = p.presenting, q.abandoned = p.abandoned,
         Seen(p)
  PROVE  Seen(q)
BY DEF Seen, Attached, LiveMode, DockMode

LEMMA FreshOf ==
  ASSUME NEW p, NEW op
  PROVE  /\ Fresh(p, op) = {c \in Of(p, op) : c.fresh}
         /\ Fresh(p, op) \subseteq Of(p, op)
BY DEF Fresh, Of

\* Only the calls of some kinds changed.
LEMMA SameCalls ==
  ASSUME NEW p, NEW q, q.calls = p.calls
  PROVE  \A op : Of(q, op) = Of(p, op) /\ Fresh(q, op) = Fresh(p, op)
BY DEF Fresh, Of

LEMMA SentCall ==
  ASSUME NEW p \in Panels, NEW c \in Calls
  PROVE  LET q == Send(p, c)
         IN  /\ q \in Panels
             /\ q = [p EXCEPT !.calls = q.calls]
             /\ Of(q, c.op) = Of(p, c.op) \cup {c}
             /\ Fresh(q, c.op) = Fresh(p, c.op) \cup (IF c.fresh THEN {c} ELSE {})
             /\ \A op : op # c.op => Of(q, op) = Of(p, op) /\ Fresh(q, op) = Fresh(p, op)
<1> DEFINE q == Send(p, c)
<1>1. q = [p EXCEPT !.calls = p.calls \cup {c}]
  BY DEF Send
<1>2. q \in Panels /\ q.calls = p.calls \cup {c} /\ q = [p EXCEPT !.calls = q.calls]
  BY <1>1 DEF Panels
<1> HIDE DEF q
<1> QED BY <1>2 DEF Of, Fresh, q

LEMMA OutdatedCalls ==
  ASSUME NEW p \in Panels, NEW op \in Ops
  PROVE  LET q == Outdated(p, op)
         IN  /\ q \in Panels
             /\ q = [p EXCEPT !.calls = q.calls]
             /\ Fresh(q, op) = {}
             /\ \A o \in Ops \ {op} : Of(q, o) = Of(p, o) /\ Fresh(q, o) = Fresh(p, o)
<1> DEFINE f(c) == IF c.op = op THEN [c EXCEPT !.fresh = FALSE] ELSE c
           q    == Outdated(p, op)
<1>1. q = [p EXCEPT !.calls = {f(c) : c \in p.calls}]
  BY DEF Outdated
<1>2. ASSUME NEW c \in p.calls
      PROVE  /\ f(c) \in Calls /\ f(c).op = c.op
             /\ c.op # op => f(c) = c
             /\ c.op = op => ~f(c).fresh
  <2>1. c \in Calls
    BY DEF Panels
  <2>2. CASE c.op = op
    <3>1. f(c).op = c.op /\ f(c).task = c.task /\ f(c).answer = c.answer /\ ~f(c).fresh
      BY <2>1, <2>2 DEF Calls
    <3>2. f(c) \in [op : Ops, task : AnyTask, revision : Revisions, fresh : BOOLEAN,
                    value : BOOLEAN, answer : Answers]
      BY <2>1, <2>2 DEF Calls
    <3> QED BY <2>1, <2>2, <3>1, <3>2 DEF Calls
  <2>3. CASE c.op # op
    BY <2>1, <2>3
  <2> QED BY <2>2, <2>3
<1>3. q.calls = {f(c) : c \in p.calls} /\ q \in Panels
  BY <1>1, <1>2 DEF Panels
<1> HIDE DEF f, q
<1>4. Fresh(q, op) = {}
  BY <1>2, <1>3 DEF Fresh
<1>5. \A o \in Ops \ {op} : Of(q, o) = Of(p, o) /\ Fresh(q, o) = Fresh(p, o)
  BY <1>2, <1>3 DEF Fresh, Of
<1>6. q = [p EXCEPT !.calls = q.calls]
  BY <1>1, <1>3
<1> QED BY <1>3, <1>4, <1>5, <1>6 DEF q

LEMMA TimingReset ==
  ASSUME NEW p \in Panels
  PROVE  LET q == ResetProjectTiming(p)
         IN  /\ Redrawn(p, q)
             /\ q = [p EXCEPT !.calls = q.calls, !.timing = NoTask, !.timingBusy = FALSE]
             /\ Fresh(q, "timing") = {} /\ Fresh(q, "detail") = Fresh(p, "detail")
<1> DEFINE o == Outdated(p, "timing")
           q == ResetProjectTiming(p)
<1>1. /\ o \in Panels /\ o = [p EXCEPT !.calls = o.calls] /\ Fresh(o, "timing") = {}
      /\ \A x \in Ops \ {"timing"} : Of(o, x) = Of(p, x) /\ Fresh(o, x) = Fresh(p, x)
  BY OutdatedCalls DEF Ops
<1>2. q = [o EXCEPT !.timing = NoTask, !.timingBusy = FALSE]
  BY DEF ResetProjectTiming
<1> HIDE DEF o, q
<1>3. q \in Panels /\ q.calls = o.calls
  BY ZenonT(60), <1>1, <1>2 DEF Panels, AnyTask
<1>4. q = [p EXCEPT !.calls = q.calls, !.timing = NoTask, !.timingBusy = FALSE]
  BY <1>1, <1>2, <1>3 DEF Panels
<1>5. /\ q.work = p.work /\ q.asked = p.asked /\ q.presenting = p.presenting
      /\ q.polling = p.polling /\ q.default = p.default /\ q.closed = p.closed
      /\ q.task = p.task /\ q.revision = p.revision /\ q.pages = p.pages
      /\ q.details = p.details /\ q.timing = NoTask /\ q.timingBusy = FALSE
      /\ q.mode = p.mode /\ q.pip = p.pip /\ q.window = p.window
      /\ q.abandoned = p.abandoned /\ q.hidden = p.hidden
      /\ q.liveTask = p.liveTask /\ q.timer = p.timer
  BY ZenonT(60), <1>4 DEF Panels
<1>6. \A x \in Ops : Of(q, x) = Of(o, x) /\ Fresh(q, x) = Fresh(o, x)
  BY <1>3, SameCalls
<1>7. Fresh(q, "timing") = {} /\ Fresh(q, "detail") = Fresh(p, "detail")
  BY <1>6, <1>1 DEF Ops
<1>8. Shown(p) => Shown(q)
  BY <1>5, <1>7, ShownStays
<1>9. Seen(p) => Seen(q)
  BY <1>5, SeenStays
<1>10. TimingLock(q)
  BY <1>5, <1>7 DEF TimingLock, Held
<1>11. SameWork(p, q)
  BY <1>5, <1>6, <1>1 DEF SameWork
<1> QED BY <1>3, <1>4, <1>7, <1>8, <1>9, <1>10, <1>11 DEF Redrawn, q

LEMMA DetailsReset ==
  ASSUME NEW p \in Panels
  PROVE  LET q == ResetRecordDetails(p)
         IN  /\ Redrawn(p, q)
             /\ q = [p EXCEPT !.calls = q.calls, !.details = {}]
             /\ Fresh(q, "detail") = {}
<1> DEFINE o == Outdated(p, "detail")
           q == ResetRecordDetails(p)
<1>1. /\ o \in Panels /\ o = [p EXCEPT !.calls = o.calls] /\ Fresh(o, "detail") = {}
      /\ \A x \in Ops \ {"detail"} : Of(o, x) = Of(p, x) /\ Fresh(o, x) = Fresh(p, x)
  BY OutdatedCalls DEF Ops
<1>2. q = [o EXCEPT !.details = {}]
  BY DEF ResetRecordDetails
<1> HIDE DEF o, q
<1>3. q \in Panels /\ q.calls = o.calls
  BY <1>1, <1>2 DEF Panels
<1>4. q = [p EXCEPT !.calls = q.calls, !.details = {}]
  BY <1>1, <1>2, <1>3 DEF Panels
<1>5. /\ q.work = p.work /\ q.asked = p.asked /\ q.presenting = p.presenting
      /\ q.polling = p.polling /\ q.default = p.default /\ q.closed = p.closed
      /\ q.task = p.task /\ q.revision = p.revision /\ q.pages = p.pages
      /\ q.details = {} /\ q.timing = p.timing /\ q.timingBusy = p.timingBusy
      /\ q.mode = p.mode /\ q.pip = p.pip /\ q.window = p.window
      /\ q.abandoned = p.abandoned /\ q.hidden = p.hidden
      /\ q.liveTask = p.liveTask /\ q.timer = p.timer
  BY ZenonT(60), <1>4 DEF Panels
<1>6. \A x \in Ops : Of(q, x) = Of(o, x) /\ Fresh(q, x) = Fresh(o, x)
  BY <1>3, SameCalls
<1>7. Fresh(q, "detail") = {} /\ Fresh(q, "timing") = Fresh(p, "timing")
  BY <1>6, <1>1 DEF Ops
<1>8. Shown(p) => Shown(q)
  BY <1>5, <1>7 DEF Shown
<1>9. Seen(p) => Seen(q)
  BY <1>5, SeenStays
<1>10. TimingLock(p) => TimingLock(q)
  BY <1>5, <1>7 DEF TimingLock
<1>11. SameWork(p, q)
  BY <1>5, <1>6, <1>1 DEF SameWork
<1> QED BY <1>3, <1>4, <1>7, <1>8, <1>9, <1>10, <1>11 DEF Redrawn, q

\* Everything bound to what is shown goes together.
LEMMA AllReset ==
  ASSUME NEW p \in Panels
  PROVE  LET q == ResetProjectTiming(ResetRecordDetails(p))
         IN  /\ Redrawn(p, q)
             /\ q = [p EXCEPT !.calls = q.calls, !.details = {}, !.timing = NoTask,
                              !.timingBusy = FALSE]
             /\ Fresh(q, "detail") = {} /\ Fresh(q, "timing") = {}
<1> DEFINE d == ResetRecordDetails(p)
           q == ResetProjectTiming(d)
<1>1. /\ Redrawn(p, d) /\ d \in Panels /\ d = [p EXCEPT !.calls = d.calls, !.details = {}]
      /\ Fresh(d, "detail") = {}
  BY DetailsReset DEF Redrawn
<1> HIDE DEF d
<1>2. /\ Redrawn(d, q) /\ q \in Panels
      /\ q = [d EXCEPT !.calls = q.calls, !.timing = NoTask, !.timingBusy = FALSE]
      /\ Fresh(q, "timing") = {} /\ Fresh(q, "detail") = Fresh(d, "detail")
  BY <1>1, TimingReset DEF Redrawn
<1> HIDE DEF q
<1>3. Redrawn(p, q)
  BY <1>1, <1>2, RedrawnTwice
<1>4. q = [p EXCEPT !.calls = q.calls, !.details = {}, !.timing = NoTask, !.timingBusy = FALSE]
  BY ZenonT(60), <1>1, <1>2 DEF Panels
<1> QED BY <1>1, <1>2, <1>3, <1>4 DEF d, q
LEMMA NoTaskTyped ==
  NoTask \in AnyTask /\ 0 \in Revisions /\ "none" \in Modes /\ {} \subseteq Revisions
BY ViewerAssumption DEF AnyTask, Revisions, Modes

\* A change of a few fields that touches no request.
LEMMA CallsKept ==
  ASSUME NEW p \in Panels, NEW q \in Panels,
         q.calls = p.calls, q.work = p.work, q.asked = p.asked,
         q.presenting = p.presenting, q.polling = p.polling, q.default = p.default,
         q.timingBusy = p.timingBusy,
         Shown(p) => Shown(q), Seen(p) => Seen(q)
  PROVE  Redrawn(p, q)
<1>1. \A op : Of(q, op) = Of(p, op) /\ Fresh(q, op) = Fresh(p, op)
  BY SameCalls
<1>2. SameWork(p, q)
  BY <1>1 DEF SameWork
<1>3. TimingLock(p) => TimingLock(q)
  BY <1>1 DEF TimingLock
<1> QED BY <1>2, <1>3 DEF Redrawn

LEMMA RefreshScheduled ==
  ASSUME NEW p \in Panels
  PROVE  LET q == ScheduleLiveRefresh(p)
         IN  Redrawn(p, q) /\ q = [p EXCEPT !.timer = q.timer] /\ (Attached(p) => Seen(q))
<1> DEFINE q == ScheduleLiveRefresh(p)
<1>1. q = [p EXCEPT !.timer = LiveMode(p) /\ ~p.hidden]
  BY DEF ScheduleLiveRefresh
<1>2. (LiveMode(p) /\ ~p.hidden) \in BOOLEAN
  OBVIOUS
<1> HIDE DEF q
<1>3. q \in Panels /\ q = [p EXCEPT !.timer = q.timer]
  BY ZenonT(60), <1>1, <1>2 DEF Panels
<1>4. /\ q.calls = p.calls /\ q.work = p.work /\ q.asked = p.asked
      /\ q.presenting = p.presenting /\ q.polling = p.polling /\ q.default = p.default
      /\ q.closed = p.closed /\ q.timingBusy = p.timingBusy
      /\ q.task = p.task /\ q.revision = p.revision /\ q.pages = p.pages
      /\ q.details = p.details /\ q.timing = p.timing
      /\ q.mode = p.mode /\ q.pip = p.pip /\ q.window = p.window
      /\ q.abandoned = p.abandoned /\ q.hidden = p.hidden
      /\ q.liveTask = p.liveTask
  BY <1>3 DEF Panels
<1>5. q.timer <=> LiveMode(p) /\ ~p.hidden
  BY <1>1 DEF Panels
<1>6. LiveMode(q) <=> LiveMode(p)
  BY <1>4 DEF LiveMode, DockMode
<1>7. Attached(p) => Seen(q)
  BY <1>4, <1>5, <1>6 DEF Seen, Attached
<1>8. Shown(p) => Shown(q)
  BY <1>4, SameCalls, ShownStays
<1>9. Seen(p) => Seen(q)
  BY <1>7 DEF Seen
<1>10. Redrawn(p, q)
  BY <1>3, <1>4, <1>9, <1>8, CallsKept
<1> QED BY <1>3, <1>7, <1>10 DEF q

\* The loop is started when nothing of it runs.
LEMMA LoopStarted ==
  ASSUME NEW p \in Panels
  PROVE  LET q == StartLiveLoop(p)
         IN  /\ Redrawn(p, q) /\ q = [p EXCEPT !.timer = q.timer]
             /\ (p.timer => LiveMode(p) /\ ~p.hidden) /\ Attached(p) => Seen(q)
<1> DEFINE q == StartLiveLoop(p)
<1>1. CASE LiveMode(p) /\ ~p.polling /\ ~p.timer
  <2>1. q = ScheduleLiveRefresh(p)
    BY <1>1 DEF StartLiveLoop
  <2> QED BY <2>1, RefreshScheduled
<1>2. CASE ~(LiveMode(p) /\ ~p.polling /\ ~p.timer)
  <2>1. q = p
    BY <1>2 DEF StartLiveLoop
  <2>2. p = [p EXCEPT !.timer = p.timer]
    BY DEF Panels
  <2>3. (p.timer => LiveMode(p) /\ ~p.hidden) /\ Attached(p) => Seen(p)
    BY <1>2 DEF Seen
  <2> QED BY <2>1, <2>2, <2>3, NothingRedrawn
<1> QED BY <1>1, <1>2

LEMMA Emptied ==
  ASSUME NEW p \in Panels
  PROVE  [p EXCEPT !.full = FALSE, !.timer = FALSE, !.mode = "none", !.liveTask = NoTask,
                   !.liveRevision = 0, !.liveSnapshot = 0,
                   !.abandoned = p.pip \/ p.window \/ p.presenting,
                   !.task = NoTask, !.revision = 0, !.snapshot = 0, !.pages = {}] \in Panels
<1> DEFINE s == [p EXCEPT !.full = FALSE, !.timer = FALSE, !.mode = "none"]
           a == [s EXCEPT !.abandoned = p.pip \/ p.window \/ p.presenting]
           w == [a EXCEPT !.liveTask = NoTask, !.liveRevision = 0, !.liveSnapshot = 0]
           q == [w EXCEPT !.task = NoTask, !.revision = 0, !.snapshot = 0, !.pages = {}]
<1>1. s \in Panels
  BY ZenonT(60), NoTaskTyped DEF Panels
<1> HIDE DEF s
<1>2. (p.pip \/ p.window \/ p.presenting) \in BOOLEAN
  OBVIOUS
<1>3. a \in Panels
  BY ZenonT(60), <1>1, <1>2 DEF Panels
<1> HIDE DEF a
<1>4. w \in Panels
  BY ZenonT(60), <1>3, NoTaskTyped DEF Panels
<1> HIDE DEF w
<1>5. q \in Panels
  BY ZenonT(60), <1>4, NoTaskTyped DEF Panels
<1> QED BY <1>5 DEF q, w, a, s

LEMMA SelectionShown ==
  ASSUME NEW p \in Panels
  PROVE  Redrawn(p, ShowSessionSelection(p))
<1> DEFINE r == ResetProjectTiming(ResetRecordDetails(p))
           q == ShowSessionSelection(p)
<1>1. /\ Redrawn(p, r) /\ r \in Panels /\ Fresh(r, "detail") = {}
      /\ r = [p EXCEPT !.calls = r.calls, !.details = {}, !.timing = NoTask, !.timingBusy = FALSE]
  BY AllReset DEF Redrawn
<1>2. q = [r EXCEPT !.full = FALSE, !.timer = FALSE, !.mode = "none", !.liveTask = NoTask,
                    !.liveRevision = 0, !.liveSnapshot = 0,
                    !.abandoned = r.pip \/ r.window \/ r.presenting,
                    !.task = NoTask, !.revision = 0, !.snapshot = 0, !.pages = {}]
  <2>1. r.pip = p.pip /\ r.window = p.window /\ r.presenting = p.presenting
    BY <1>1 DEF Panels
  <2> QED BY <2>1 DEF ShowSessionSelection
<1> HIDE DEF r, q
<1>3. q \in Panels
  <2>1. r \in Panels
    BY <1>1
  <2> QED BY <2>1, <1>2, Emptied
<1>4. /\ q.calls = r.calls /\ q.work = r.work /\ q.asked = r.asked
      /\ q.presenting = r.presenting /\ q.polling = r.polling /\ q.default = r.default
      /\ q.closed = r.closed /\ q.timingBusy = r.timingBusy
      /\ q.task = NoTask /\ q.revision = 0 /\ q.details = r.details
      /\ q.timing = r.timing /\ q.timer = FALSE /\ q.liveTask = NoTask
      /\ q.mode = "none" /\ q.pip = r.pip /\ q.window = r.window
  BY <1>1, <1>2 DEF Panels
<1>5. r.details = {} /\ r.timing = NoTask
  BY <1>1 DEF Panels
<1>6. Fresh(q, "detail") = {}
  BY <1>1, <1>4, SameCalls
<1>7. Shown(q) /\ Seen(q)
  <2>1. q.abandoned <=> r.pip \/ r.window \/ r.presenting
    BY <1>1, <1>2 DEF Panels
  <2>2. Attached(q)
    BY <1>4, <2>1 DEF Attached, LiveMode, DockMode
  <2> QED BY <1>4, <1>5, <1>6, <2>2 DEF Shown, Seen
<1>8. Redrawn(r, q)
  BY <1>1, <1>3, <1>4, <1>7, CallsKept
<1> QED BY <1>1, <1>8, RedrawnTwice DEF q

\* A live window ends; a native one may be closed with it.
LEMMA WindowClosed ==
  ASSUME NEW p \in Panels, NEW w \in BOOLEAN
  PROVE  LET q == [p EXCEPT !.mode = "none", !.pip = FALSE, !.window = w, !.timer = FALSE,
                            !.liveTask = NoTask, !.liveRevision = 0, !.liveSnapshot = 0,
                            !.abandoned = w \/ p.presenting]
         IN  Redrawn(p, q) /\ q.task = p.task /\ q.restore = p.restore
<1> DEFINE a == w \/ p.presenting
           q == [p EXCEPT !.mode = "none", !.pip = FALSE, !.window = w, !.timer = FALSE,
                          !.liveTask = NoTask, !.liveRevision = 0, !.liveSnapshot = 0,
                          !.abandoned = a]
<1>1. q \in Panels
  <2> DEFINE s == [p EXCEPT !.mode = "none", !.pip = FALSE, !.window = w, !.timer = FALSE]
             t == [s EXCEPT !.liveTask = NoTask, !.liveRevision = 0, !.liveSnapshot = 0]
  <2>1. a \in BOOLEAN
    OBVIOUS
  <2>2. s \in Panels
    BY ZenonT(60), NoTaskTyped DEF Panels
  <2> HIDE DEF s
  <2>3. t \in Panels
    BY ZenonT(60), <2>2, NoTaskTyped DEF Panels
  <2>4. q = [t EXCEPT !.abandoned = a]
    BY DEF s
  <2> HIDE DEF a, t, q
  <2> QED BY ZenonT(60), <2>1, <2>3, <2>4 DEF Panels
<1>2. /\ q.calls = p.calls /\ q.work = p.work /\ q.asked = p.asked
      /\ q.presenting = p.presenting /\ q.polling = p.polling /\ q.default = p.default
      /\ q.closed = p.closed /\ q.timingBusy = p.timingBusy
      /\ q.task = p.task /\ q.revision = p.revision /\ q.pages = p.pages
      /\ q.details = p.details /\ q.timing = p.timing
      /\ q.timer = FALSE /\ q.liveTask = NoTask /\ q.restore = p.restore
      /\ q.mode = "none" /\ q.pip = FALSE /\ q.window = w
  BY DEF Panels
<1>6. q.abandoned <=> w \/ p.presenting
  BY DEF Panels
<1> HIDE DEF q
<1>3. Shown(p) => Shown(q)
  BY <1>2, SameCalls, ShownStays
<1>4. Seen(q)
  <2>1. Attached(q)
    BY <1>2, <1>6 DEF Attached, LiveMode, DockMode
  <2> QED BY <1>2, <2>1 DEF Seen
<1>5. Redrawn(p, q)
  BY <1>1, <1>2, <1>3, <1>4, CallsKept
<1> QED BY <1>2, <1>5 DEF q

LEMMA ReadLimitShown ==
  ASSUME NEW p \in Panels
  PROVE  Redrawn(p, ShowReadLimit(p))
<1> DEFINE q == IF LiveMode(p) THEN FinishLiveWindow(p, FALSE) ELSE p
<1>1. Redrawn(p, q)
  <2>1. p.window \in BOOLEAN
    BY DEF Panels
  <2>2. Redrawn(p, FinishLiveWindow(p, FALSE))
    <3> DEFINE v == p.window
               r == [p EXCEPT !.mode = "none", !.pip = FALSE, !.window = v, !.timer = FALSE,
                              !.liveTask = NoTask, !.liveRevision = 0, !.liveSnapshot = 0,
                              !.abandoned = v \/ p.presenting]
    <3>1. FinishLiveWindow(p, FALSE) = r
      BY DEF FinishLiveWindow, Panels
    <3> HIDE DEF v
    <3>2. v \in BOOLEAN
      BY <2>1 DEF v
    <3>3. Redrawn(p, r)
      BY ZenonT(60), <3>2, WindowClosed
    <3> QED BY <3>1, <3>3
  <2> QED BY <2>2, NothingRedrawn
<1>2. ShowReadLimit(p) = IF q.task = NoTask THEN ShowSessionSelection(q) ELSE q
  BY DEF ShowReadLimit
<1> HIDE DEF q
<1>3. q \in Panels
  BY <1>1 DEF Redrawn
<1> QED BY <1>1, <1>2, <1>3, SelectionShown, RedrawnTwice

LEMMA LoadErrorShown ==
  ASSUME NEW p \in Panels
  PROVE  Redrawn(p, ShowLoadError(p))
BY SelectionShown, NothingRedrawn DEF ShowLoadError

LEMMA SnapshotTyped ==
  ASSUME NEW p \in Panels, NEW f \in BOOLEAN, NEW t \in AnyTask, NEW r \in Revisions,
         NEW v \in Revisions, NEW s \in SUBSET Revisions, NEW l \in Revisions
  PROVE  [p EXCEPT !.full = f, !.task = t, !.revision = r, !.snapshot = v, !.pages = s,
                   !.liveSnapshot = l] \in Panels
<1> DEFINE w == [p EXCEPT !.full = f, !.task = t, !.revision = r]
           q == [w EXCEPT !.snapshot = v, !.pages = s, !.liveSnapshot = l]
<1>1. w \in Panels
  BY ZenonT(60) DEF Panels
<1> HIDE DEF w
<1>2. q \in Panels
  BY ZenonT(60), <1>1 DEF Panels
<1> QED BY <1>2 DEF q, w

\* A snapshot replaces what is shown, and nothing stays that belonged to it.
LEMMA Rendered ==
  ASSUME NEW p \in Panels, NEW t \in Tasks, NEW a \in Answers, NEW keep \in BOOLEAN
  PROVE  Redrawn(p, Render(p, t, a, keep))
<1> DEFINE r == ResetProjectTiming(ResetRecordDetails(p))
           f == r.full /\ (keep \/ r.task = t)
           l == IF LiveMode(r) /\ t = r.liveTask THEN a.version ELSE r.liveSnapshot
           q == [r EXCEPT !.full = f, !.task = t, !.revision = a.revision,
                          !.snapshot = a.version, !.pages = {a.version}, !.liveSnapshot = l]
<1>1. /\ Redrawn(p, r) /\ r \in Panels /\ Fresh(r, "detail") = {}
      /\ r = [p EXCEPT !.calls = r.calls, !.details = {}, !.timing = NoTask, !.timingBusy = FALSE]
  BY AllReset DEF Redrawn
<1>2. r.details = {} /\ r.timing = NoTask /\ p.task = r.task
  BY <1>1 DEF Panels
<1>3. LiveMode(r) <=> LiveMode(p)
  <2>1. r.mode = p.mode /\ r.pip = p.pip /\ r.window = p.window
    BY <1>1 DEF Panels
  <2> QED BY <2>1 DEF LiveMode, DockMode
<1>4. p.liveTask = r.liveTask /\ p.liveSnapshot = r.liveSnapshot
  BY <1>1 DEF Panels
<1>5. Render(p, t, a, keep) = StartLiveLoop(q)
  <2>1. [r EXCEPT !.full = @ /\ (keep \/ p.task = t),
                  !.task = t, !.revision = a.revision,
                  !.snapshot = a.version, !.pages = {a.version},
                  !.liveSnapshot = IF LiveMode(p) /\ t = p.liveTask THEN a.version ELSE @] = q
    BY <1>2, <1>3, <1>4
  <2> QED BY <2>1 DEF Render
<1>6. f \in BOOLEAN /\ l \in Revisions /\ a.version \in Revisions /\ a.revision \in Revisions
  BY <1>1 DEF Panels, Answers
<1> HIDE DEF f, l, r
<1>7. q \in Panels
  <2>1. t \in AnyTask /\ {a.version} \in SUBSET Revisions
    BY <1>6 DEF AnyTask
  <2>2. r \in Panels
    BY <1>1
  <2> QED BY <1>6, <2>1, <2>2, SnapshotTyped
<1>8. /\ q.calls = r.calls /\ q.work = r.work /\ q.asked = r.asked
      /\ q.presenting = r.presenting /\ q.polling = r.polling /\ q.default = r.default
      /\ q.closed = r.closed /\ q.timingBusy = r.timingBusy
      /\ q.task = t /\ q.revision = a.revision /\ q.pages = {a.version}
      /\ q.details = r.details /\ q.timing = r.timing
      /\ q.mode = r.mode /\ q.pip = r.pip /\ q.window = r.window
      /\ q.abandoned = r.abandoned /\ q.hidden = r.hidden
      /\ q.liveTask = r.liveTask /\ q.timer = r.timer
  BY <1>1 DEF Panels
<1> HIDE DEF q
<1>9. Fresh(q, "detail") = {}
  BY <1>1, <1>8, SameCalls
<1>10. a.revision \in {0, a.version}
  BY DEF Answers
<1>11. Shown(q)
  BY <1>2, <1>8, <1>9, <1>10 DEF Shown
<1>12. Seen(r) => Seen(q)
  BY <1>8, SeenStays
<1>13. Redrawn(r, q)
  BY <1>1, <1>7, <1>8, <1>11, <1>12, CallsKept
<1>14. Redrawn(q, StartLiveLoop(q))
  BY <1>7, LoopStarted
<1> QED BY <1>1, <1>5, <1>13, <1>14, RedrawnTwice

\* An earlier page of the revision that is shown joins it.
LEMMA Prepended ==
  ASSUME NEW p \in Panels, NEW a \in Answers, p.revision = a.revision
  PROVE  Redrawn(p, Prepend(p, a))
<1> DEFINE l == IF LiveMode(p) /\ p.task = p.liveTask THEN p.snapshot ELSE p.liveSnapshot
           q == [p EXCEPT !.pages = p.pages \cup {a.version}, !.revision = a.revision,
                          !.liveSnapshot = l]
<1>1. Prepend(p, a) = StartLiveLoop(q)
  BY DEF Prepend
<1>2. l \in Revisions /\ a.version \in Revisions /\ a.revision \in Revisions
  BY DEF Panels, Answers
<1> HIDE DEF l
<1>3. q \in Panels
  BY ZenonT(60), <1>2 DEF Panels
<1>4. /\ q.calls = p.calls /\ q.work = p.work /\ q.asked = p.asked
      /\ q.presenting = p.presenting /\ q.polling = p.polling /\ q.default = p.default
      /\ q.closed = p.closed /\ q.timingBusy = p.timingBusy
      /\ q.task = p.task /\ q.revision = p.revision /\ q.pages = p.pages \cup {a.version}
      /\ q.details = p.details /\ q.timing = p.timing
      /\ q.mode = p.mode /\ q.pip = p.pip /\ q.window = p.window
      /\ q.abandoned = p.abandoned /\ q.hidden = p.hidden
      /\ q.liveTask = p.liveTask /\ q.timer = p.timer
  BY DEF Panels
<1> HIDE DEF q
<1>5. Fresh(q, "detail") = Fresh(p, "detail")
  BY <1>4, SameCalls
<1>6. p.revision # 0 => p.revision = a.version
  BY DEF Answers
<1>7. Shown(p) => Shown(q)
  BY <1>4, <1>5, <1>6 DEF Shown
<1>8. Seen(p) => Seen(q)
  BY <1>4, SeenStays
<1>9. Redrawn(p, q)
  BY <1>3, <1>4, <1>7, <1>8, CallsKept
<1>10. Redrawn(q, StartLiveLoop(q))
  BY <1>3, LoopStarted
<1> QED BY <1>1, <1>9, <1>10, RedrawnTwice

LEMMA CallTyped ==
  ASSUME NEW op \in Ops, NEW t \in AnyTask, op \in Reads => t \in Tasks
  PROVE  /\ Call(op, t) \in Calls
         /\ Call(op, t).op = op /\ Call(op, t).fresh /\ ~Call(op, t).value
         /\ \A v \in BOOLEAN : [Call(op, t) EXCEPT !.value = v] \in Calls
         /\ \A r \in Revisions : [Call(op, t) EXCEPT !.revision = r] \in Calls
<1> DEFINE R == [op : Ops, task : AnyTask, revision : Revisions, fresh : BOOLEAN,
                 value : BOOLEAN, answer : Answers]
<1>1. NoAnswer \in Answers
  BY NoTaskTyped DEF NoAnswer, Answers
<1>2. /\ Call(op, t) \in R
      /\ Call(op, t).op = op /\ Call(op, t).task = t /\ Call(op, t).fresh /\ ~Call(op, t).value
      /\ Call(op, t).answer = NoAnswer
  BY <1>1, NoTaskTyped DEF Call
<1>3. ASSUME NEW v \in BOOLEAN
      PROVE  LET c == [Call(op, t) EXCEPT !.value = v]
             IN  c \in R /\ c.op = op /\ c.task = t /\ c.answer = NoAnswer
  BY <1>2
<1>4. ASSUME NEW r \in Revisions
      PROVE  LET c == [Call(op, t) EXCEPT !.revision = r]
             IN  c \in R /\ c.op = op /\ c.task = t /\ c.answer = NoAnswer
  BY <1>2
<1>5. Calls = {c \in R : /\ c.op \in Reads => c.task \in Tasks
                         /\ c.op = "enter" => c.answer = NoAnswer}
  BY DEF Calls
<1> HIDE DEF R
<1>6. ASSUME NEW c \in R, c.op = op, c.task = t, c.answer = NoAnswer
      PROVE  c \in Calls
  BY <1>5, <1>6
<1> QED BY <1>2, <1>3, <1>4, <1>6

LEMMA DetailsAsked ==
  ASSUME NEW p \in Panels
  PROVE  Redrawn(p, LoadRecordDetails(p))
<1> DEFINE ask == p.full /\ p.task # NoTask /\ ~\E c \in p.calls : c.op = "detail" /\ c.fresh
           d   == [Call("detail", p.task) EXCEPT !.revision = p.revision]
           q   == Send(p, d)
<1>1. CASE ~ask
  BY <1>1, NothingRedrawn DEF LoadRecordDetails
<1>2. CASE ask
  <2>1. LoadRecordDetails(p) = q
    BY <1>2 DEF LoadRecordDetails
  <2>2. p.task \in Tasks /\ p.task \in AnyTask /\ p.revision \in Revisions
    BY <1>2 DEF Panels, AnyTask
  <2>3. d \in Calls
    BY <2>2, CallTyped DEF Ops
  <2>4. d.op = "detail" /\ d.task = p.task /\ d.revision = p.revision /\ d.fresh
    BY DEF Call
  <2> HIDE DEF d
  <2>5. /\ q \in Panels /\ q = [p EXCEPT !.calls = q.calls]
        /\ Fresh(q, "detail") = Fresh(p, "detail") \cup {d}
        /\ \A op : op # "detail" => Of(q, op) = Of(p, op) /\ Fresh(q, op) = Fresh(p, op)
    BY <2>3, <2>4, SentCall
  <2> HIDE DEF q
  <2>6. /\ q.work = p.work /\ q.asked = p.asked /\ q.presenting = p.presenting
        /\ q.polling = p.polling /\ q.default = p.default /\ q.closed = p.closed
        /\ q.task = p.task /\ q.revision = p.revision /\ q.pages = p.pages
        /\ q.details = p.details /\ q.timing = p.timing /\ q.timingBusy = p.timingBusy
        /\ q.mode = p.mode /\ q.pip = p.pip /\ q.window = p.window
        /\ q.abandoned = p.abandoned /\ q.hidden = p.hidden
        /\ q.liveTask = p.liveTask /\ q.timer = p.timer
    BY <2>5 DEF Panels
  <2>7. Shown(p) => Shown(q)
    BY <2>4, <2>5, <2>6 DEF Shown
  <2>8. Seen(p) => Seen(q)
    BY <2>6, SeenStays
  <2>9. TimingLock(p) => TimingLock(q)
    BY <2>5, <2>6 DEF TimingLock
  <2>10. SameWork(p, q)
    BY <2>5, <2>6 DEF SameWork
  <2> QED BY <2>1, <2>5, <2>7, <2>8, <2>9, <2>10 DEF Redrawn
<1> QED BY <1>1, <1>2

\* Full details come on, or go off, and nothing else changes.
LEMMA FullSet ==
  ASSUME NEW p \in Panels, NEW f \in BOOLEAN, NEW w \in BOOLEAN
  PROVE  Redrawn(p, [p EXCEPT !.full = f, !.withdrawn = w])
<1> DEFINE q == [p EXCEPT !.full = f, !.withdrawn = w]
<1>1. q \in Panels
  BY ZenonT(60) DEF Panels
<1>2. /\ q.calls = p.calls /\ q.work = p.work /\ q.asked = p.asked
      /\ q.presenting = p.presenting /\ q.polling = p.polling /\ q.default = p.default
      /\ q.closed = p.closed /\ q.timingBusy = p.timingBusy
      /\ q.task = p.task /\ q.revision = p.revision /\ q.pages = p.pages
      /\ q.details = p.details /\ q.timing = p.timing
      /\ q.mode = p.mode /\ q.pip = p.pip /\ q.window = p.window
      /\ q.abandoned = p.abandoned /\ q.hidden = p.hidden
      /\ q.liveTask = p.liveTask /\ q.timer = p.timer
  BY DEF Panels
<1> HIDE DEF q
<1>3. Shown(p) => Shown(q)
  BY <1>2, SameCalls, ShownStays
<1>4. Seen(p) => Seen(q)
  BY <1>2, SeenStays
<1> QED BY <1>1, <1>2, <1>3, <1>4, CallsKept DEF q

LEMMA HostResultApplied ==
  ASSUME NEW p \in Panels, NEW t
  PROVE  Redrawn(p, AfterHostResult(p, t))
<1>1. TRUE \in BOOLEAN /\ FALSE \in BOOLEAN
  OBVIOUS
<1> QED BY <1>1, FullSet, NothingRedrawn DEF AfterHostResult

LEMMA DetailsEnabled ==
  ASSUME NEW p \in Panels
  PROVE  \E r : Redrawn(p, r) /\ EnableDetails(p) = [r EXCEPT !.work = NoWork]
<1> DEFINE f == [p EXCEPT !.full = TRUE, !.withdrawn = FALSE]
           r == IF p.task = p.work.task THEN LoadRecordDetails(f) ELSE p
<1>1. Redrawn(p, f) /\ f \in Panels
  BY FullSet DEF Redrawn
<1>2. EnableDetails(p) = [r EXCEPT !.work = NoWork]
  BY DEF EnableDetails
<1> HIDE DEF f
<1>3. Redrawn(p, LoadRecordDetails(f))
  BY <1>1, DetailsAsked, RedrawnTwice
<1>4. Redrawn(p, r)
  BY <1>3, NothingRedrawn
<1> QED BY <1>2, <1>4

-----------------------------------------------------------------------------
(* Steps of the work: preferences, loads and what releases their locks.     *)

LEMMA ViewKept ==
  ASSUME NEW p, NEW q, SameView(p, q)
  PROVE  /\ Shown(p) => Shown(q)
         /\ Seen(p) => Seen(q)
         /\ PollLock(p) => PollLock(q)
         /\ TimingLock(p) => TimingLock(q)
         /\ PresentLock(p) => PresentLock(q)
<1>1. /\ Of(q, "poll") = Of(p, "poll")
      /\ Fresh(q, "detail") = Fresh(p, "detail") /\ Fresh(q, "timing") = Fresh(p, "timing")
      /\ Of(q, "enter") = Of(p, "enter") /\ Of(q, "undock") = Of(p, "undock")
  BY FreshOf DEF SameView, Ops
<1>2. Shown(p) => Shown(q)
  BY <1>1, ShownStays DEF SameView
<1>3. Seen(p) => Seen(q)
  BY SeenStays DEF SameView
<1> QED BY <1>1, <1>2, <1>3 DEF SameView, PollLock, TimingLock, PresentLock

LEMMA ViewTwice ==
  ASSUME NEW p, NEW q, NEW r, SameView(p, q), SameView(q, r)
  PROVE  SameView(p, r)
BY DEF SameView

\* What is redrawn keeps the work.
LEMMA RedrawnKeeps ==
  ASSUME NEW p, NEW q, Redrawn(p, q)
  PROVE  /\ q \in Panels
         /\ Shown(p) => Shown(q)
         /\ Seen(p) => Seen(q)
         /\ PollLock(p) => PollLock(q)
         /\ TimingLock(p) => TimingLock(q)
         /\ PresentLock(p) => PresentLock(q)
         /\ PrefsLock(p) => PrefsLock(q)
         /\ WorkLock(p) => WorkLock(q)
         /\ NoneWorking(p) => NoneWorking(q)
         /\ \A s : Granted(p, s) => Granted(q, s)
<1>1. /\ Of(q, "poll") = Of(p, "poll") /\ Fresh(q, "prefs") = Fresh(p, "prefs")
      /\ Of(q, "enter") = Of(p, "enter") /\ Of(q, "undock") = Of(p, "undock")
      /\ Of(q, "save") = Of(p, "save") /\ Of(q, "load") = Of(p, "load")
      /\ Of(q, "earlier") = Of(p, "earlier")
  BY FreshOf DEF Redrawn, SameWork, Ops
<1>2. /\ PollLock(p) => PollLock(q)
      /\ PresentLock(p) => PresentLock(q)
      /\ PrefsLock(p) => PrefsLock(q)
  BY <1>1 DEF Redrawn, SameWork, PollLock, PresentLock, PrefsLock
<1>3. WorkLock(p) => WorkLock(q)
  BY <1>1 DEF Redrawn, SameWork, WorkLock
<1>4. \A s : Granted(p, s) => Granted(q, s)
  BY <1>1 DEF Redrawn, SameWork, Granted
<1>5. NoneWorking(p) => NoneWorking(q)
  BY <1>1 DEF NoneWorking
<1> QED BY <1>2, <1>3, <1>4, <1>5 DEF Redrawn

LEMMA RedrawnSound ==
  ASSUME NEW p, NEW q, NEW s, Redrawn(p, q), Sound(p, s)
  PROVE  q \in Panels /\ Sound(q, s)
BY RedrawnKeeps DEF Sound, ViewSound, WorkSound

LEMMA WorkChanged ==
  ASSUME NEW p \in Panels, NEW w \in Works
  PROVE  LET q == [p EXCEPT !.work = w]
         IN  /\ q \in Panels /\ q.work = w /\ q.asked = p.asked /\ q.default = p.default
             /\ SameView(p, q)
             /\ \A op : Of(q, op) = Of(p, op) /\ Fresh(q, op) = Fresh(p, op)
<1> DEFINE q == [p EXCEPT !.work = w]
<1>1. q \in Panels
  BY DEF Panels
<1>2. /\ q.calls = p.calls /\ q.work = w /\ q.asked = p.asked
      /\ q.presenting = p.presenting /\ q.polling = p.polling /\ q.default = p.default
      /\ q.closed = p.closed /\ q.timingBusy = p.timingBusy
      /\ q.task = p.task /\ q.revision = p.revision /\ q.pages = p.pages
      /\ q.details = p.details /\ q.timing = p.timing
      /\ q.mode = p.mode /\ q.pip = p.pip /\ q.window = p.window
      /\ q.abandoned = p.abandoned /\ q.hidden = p.hidden
      /\ q.liveTask = p.liveTask /\ q.timer = p.timer
  BY DEF Panels
<1> HIDE DEF q
<1>3. \A op : Of(q, op) = Of(p, op) /\ Fresh(q, op) = Fresh(p, op)
  BY <1>2, SameCalls
<1>4. SameView(p, q)
  BY <1>2, <1>3 DEF SameView
<1> QED BY <1>1, <1>2, <1>3, <1>4 DEF q

LEMMA NoWorkTyped ==
  /\ NoWork \in Works
  /\ NoWork.op = "idle" /\ NoWork.stage = "" /\ NoWork.level = "summary"
BY NoTaskTyped DEF NoWork, Works, Levels

\* The lock of the work is released with nothing left that it waited for.
LEMMA WorkReleased ==
  ASSUME NEW p \in Panels, NEW s, NoneWorking(p), PrefsLock(p)
  PROVE  LET q == [p EXCEPT !.work = NoWork]
         IN  q \in Panels /\ SameView(p, q) /\ WorkSound(q, s)
<1> DEFINE q == [p EXCEPT !.work = NoWork]
<1>1. /\ q \in Panels /\ q.work = NoWork /\ q.asked = p.asked /\ SameView(p, q)
      /\ \A op : Of(q, op) = Of(p, op) /\ Fresh(q, op) = Fresh(p, op)
  BY NoWorkTyped, WorkChanged
<1> HIDE DEF q
<1>2. PrefsLock(q)
  BY <1>1 DEF PrefsLock
<1>3. WorkLock(q)
  BY <1>1, NoWorkTyped DEF WorkLock, NoneWorking, Held
<1>4. Granted(q, s)
  BY <1>1, NoWorkTyped DEF Granted
<1> QED BY <1>1, <1>2, <1>3, <1>4 DEF WorkSound, q

\* What a load must know of the preference before it decides.
LEMMA SessionRequested ==
  ASSUME NEW p \in Panels, NEW s, NoneWorking(p), PrefsLock(p), p.work.op = "load",
         p.work.level = "default" => ~p.work.forget /\ (p.default => p.work.granted)
  PROVE  LET q == ReadSession(p)
         IN  q \in Panels /\ SameView(p, q) /\ WorkSound(q, s)
<1> DEFINE e == p.work.level = "full" \/ (p.work.level = "default" /\ p.default)
           w == [p.work EXCEPT !.stage = "read", !.enable = e]
           r == [p EXCEPT !.work = w]
           c == Call("load", p.work.task)
           q == Send(r, c)
<1>1. p.work \in Works
  BY DEF Panels
<1>2. e \in BOOLEAN /\ (e => p.work.level = "full" \/ (p.work.level = "default" /\ p.default))
  OBVIOUS
<1>3. [p EXCEPT !.work.stage = "read", !.work.enable = e] = r
  BY DEF Panels
<1>4. ReadSession(p) = q
  BY <1>3 DEF ReadSession
<1> HIDE DEF e
<1>5. /\ w \in Works /\ w.op = "load" /\ w.stage = "read" /\ w.level = p.work.level
      /\ w.forget = p.work.forget /\ w.granted = p.work.granted /\ w.enable = e
  BY <1>1, <1>2 DEF Works
<1> HIDE DEF w
<1>6. /\ r \in Panels /\ r.work = w /\ r.asked = p.asked /\ SameView(p, r)
      /\ \A op : Of(r, op) = Of(p, op) /\ Fresh(r, op) = Fresh(p, op)
  BY <1>5, WorkChanged
<1>7. p.work.task \in Tasks /\ p.work.task \in AnyTask
  BY <1>1 DEF Works, AnyTask
<1>8. c \in Calls /\ c.op = "load" /\ c.fresh
  BY <1>7, CallTyped DEF Ops
<1> HIDE DEF r, c
<1>9. /\ q \in Panels /\ q = [r EXCEPT !.calls = q.calls]
      /\ Of(q, "load") = Of(r, "load") \cup {c}
      /\ \A op : op # "load" => Of(q, op) = Of(r, op) /\ Fresh(q, op) = Fresh(r, op)
  BY <1>6, <1>8, SentCall
<1> HIDE DEF q
<1>10. SameView(r, q) /\ q.work = w /\ q.asked = p.asked
  BY <1>6, <1>9 DEF SameView, Panels
<1>11. PrefsLock(q)
  BY <1>6, <1>9, <1>10 DEF PrefsLock
<1>12. WorkLock(q)
  <2>1. Of(q, "save") = {} /\ Of(q, "load") = {c} /\ Of(q, "earlier") = {}
    BY <1>6, <1>9 DEF NoneWorking
  <2> QED BY <2>1, <1>5, <1>10 DEF WorkLock, Held
<1>13. Granted(q, s)
  BY <1>2, <1>5, <1>10 DEF Granted
<1> QED BY <1>4, <1>6, <1>9, <1>10, <1>11, <1>12, <1>13, ViewTwice DEF WorkSound

LEMMA PreferencesFollowed ==
  ASSUME NEW p \in Panels, NEW s, NoneWorking(p), PrefsLock(p), p.work.op = "load",
         p.work.level = "default" => ~p.work.forget /\ (p.default => p.work.granted)
  PROVE  LET q == AfterPreferences(p)
         IN  q \in Panels /\ SameView(p, q) /\ WorkSound(q, s)
<1>1. CASE ~p.work.forget
  BY <1>1, SessionRequested DEF AfterPreferences
<1>2. CASE p.work.forget
  <2> DEFINE w == [p.work EXCEPT !.stage = "save"]
             r == [p EXCEPT !.work = w]
             c == Call("save", NoTask)
             q == Send(r, c)
  <2>1. p.work \in Works
    BY DEF Panels
  <2>2. [p EXCEPT !.work.stage = "save"] = r
    BY DEF Panels
  <2>3. AfterPreferences(p) = q
    BY <2>2, <1>2 DEF AfterPreferences
  <2>4. /\ w \in Works /\ w.op = "load" /\ w.stage = "save" /\ w.level = p.work.level
        /\ w.level # "default"
    BY <2>1, <1>2 DEF Works
  <2> HIDE DEF w
  <2>5. /\ r \in Panels /\ r.work = w /\ r.asked = p.asked /\ SameView(p, r)
        /\ \A op : Of(r, op) = Of(p, op) /\ Fresh(r, op) = Fresh(p, op)
    BY <2>4, WorkChanged
  <2>6. c \in Calls /\ c.op = "save" /\ c.fresh
    BY NoTaskTyped, CallTyped DEF Ops, Reads
  <2> HIDE DEF r, c
  <2>7. /\ q \in Panels /\ q = [r EXCEPT !.calls = q.calls]
        /\ Of(q, "save") = Of(r, "save") \cup {c}
        /\ \A op : op # "save" => Of(q, op) = Of(r, op) /\ Fresh(q, op) = Fresh(r, op)
    BY <2>5, <2>6, SentCall
  <2> HIDE DEF q
  <2>8. SameView(r, q) /\ q.work = w /\ q.asked = p.asked
    BY <2>5, <2>7 DEF SameView, Panels
  <2>9. PrefsLock(q)
    BY <2>5, <2>7, <2>8 DEF PrefsLock
  <2>10. WorkLock(q)
    <3>1. Of(q, "save") = {c} /\ Of(q, "load") = {} /\ Of(q, "earlier") = {}
      BY <2>5, <2>7 DEF NoneWorking
    <3> QED BY <3>1, <2>4, <2>8 DEF WorkLock, Held
  <2>11. Granted(q, s)
    BY <2>4, <2>8 DEF Granted
  <2> QED BY <2>3, <2>5, <2>7, <2>8, <2>9, <2>10, <2>11, ViewTwice DEF WorkSound
<1> QED BY <1>1, <1>2

\* A read of the preference is under way, or what it said is known; a refresh
\* asks again.
LEMMA PreferencesAsked ==
  ASSUME NEW p \in Panels, NEW refresh \in BOOLEAN, PrefsLock(p)
  PROVE  LET q == LoadViewerPreferences(p, refresh)
         IN  /\ q \in Panels /\ SameView(p, q) /\ PrefsLock(q)
             /\ q.work = p.work /\ q.default = p.default
             /\ \A op \in Ops \ {"prefs"} : Of(q, op) = Of(p, op)
             /\ q.asked \in {"pending", "settled"}
             /\ refresh => q.asked = "pending" /\ \A c \in Fresh(q, "prefs") : ~c.value
             /\ p.asked # "never" /\ ~refresh => q = p
<1>1. CASE p.asked # "never" /\ ~refresh
  <2>1. LoadViewerPreferences(p, refresh) = p
    BY <1>1 DEF LoadViewerPreferences
  <2>2. SameView(p, p)
    BY DEF SameView
  <2> QED BY <1>1, <2>1, <2>2 DEF Panels
<1>2. CASE ~(p.asked # "never" /\ ~refresh)
  <2> DEFINE o == Outdated(p, "prefs")
             r == [o EXCEPT !.asked = "pending"]
             c == Call("prefs", NoTask)
             q == Send(r, c)
  <2>1. LoadViewerPreferences(p, refresh) = q
    BY <1>2 DEF LoadViewerPreferences
  <2>2. /\ o \in Panels /\ o = [p EXCEPT !.calls = o.calls] /\ Fresh(o, "prefs") = {}
        /\ \A x \in Ops \ {"prefs"} : Of(o, x) = Of(p, x) /\ Fresh(o, x) = Fresh(p, x)
    BY OutdatedCalls DEF Ops
  <2> HIDE DEF o
  <2>3. r \in Panels /\ r.calls = o.calls /\ r.asked = "pending"
    BY <2>2 DEF Panels
  <2>4. \A x : Of(r, x) = Of(o, x) /\ Fresh(r, x) = Fresh(o, x)
    BY <2>3, SameCalls
  <2>5. r = [p EXCEPT !.calls = r.calls, !.asked = "pending"]
    BY <2>2, <2>3 DEF Panels
  <2>6. c \in Calls /\ c.op = "prefs" /\ c.fresh /\ ~c.value
    BY NoTaskTyped, CallTyped DEF Ops, Reads
  <2> HIDE DEF r, c
  <2>7. /\ q \in Panels /\ q = [r EXCEPT !.calls = q.calls]
        /\ Fresh(q, "prefs") = Fresh(r, "prefs") \cup {c}
        /\ \A op : op # "prefs" => Of(q, op) = Of(r, op) /\ Fresh(q, op) = Fresh(r, op)
    BY <2>3, <2>6, SentCall
  <2> HIDE DEF q
  <2>8. Fresh(q, "prefs") = {c}
    BY <2>2, <2>4, <2>7
  <2>9. /\ q.asked = "pending" /\ q.work = p.work /\ q.default = p.default
        /\ q.task = p.task /\ q.revision = p.revision /\ q.pages = p.pages
        /\ q.details = p.details /\ q.timing = p.timing /\ q.timingBusy = p.timingBusy
        /\ q.mode = p.mode /\ q.pip = p.pip /\ q.window = p.window
        /\ q.abandoned = p.abandoned /\ q.hidden = p.hidden /\ q.closed = p.closed
        /\ q.liveTask = p.liveTask /\ q.timer = p.timer /\ q.polling = p.polling
        /\ q.presenting = p.presenting
    <3>1. r.asked = "pending" /\ r.work = p.work /\ r.default = p.default
          /\ r.task = p.task /\ r.revision = p.revision /\ r.pages = p.pages
          /\ r.details = p.details /\ r.timing = p.timing /\ r.timingBusy = p.timingBusy
          /\ r.mode = p.mode /\ r.pip = p.pip /\ r.window = p.window
          /\ r.abandoned = p.abandoned /\ r.hidden = p.hidden /\ r.closed = p.closed
          /\ r.liveTask = p.liveTask /\ r.timer = p.timer /\ r.polling = p.polling
          /\ r.presenting = p.presenting
      BY ZenonT(60), <2>3, <2>5 DEF Panels
    <3> QED BY <2>7, <2>3, <3>1 DEF Panels
  <2>10. \A op \in Ops \ {"prefs"} : Of(q, op) = Of(p, op)
    BY <2>2, <2>4, <2>7
  <2>11. SameView(p, q)
    BY <2>9, <2>10 DEF SameView
  <2>12. PrefsLock(q)
    BY <2>8, <2>9 DEF PrefsLock, Held
  <2> QED BY <1>2, <2>1, <2>6, <2>7, <2>8, <2>9, <2>10, <2>11, <2>12
<1> QED BY <1>1, <1>2

LEMMA SessionLoaded ==
  ASSUME NEW p \in Panels, WorkSound(p, stored), stored \in BOOLEAN,
         NEW t \in Tasks, NEW level \in Levels, NEW forget \in BOOLEAN,
         level = "default" => ~forget
  PROVE  LET q == LoadSession(p, t, level, forget)
         IN  q \in Panels /\ SameView(p, q) /\ WorkSound(q, stored)
<1> DEFINE work == [NoWork EXCEPT !.op = "load", !.stage = "prefs", !.task = t,
                                  !.level = level, !.forget = forget, !.granted = stored]
           r == [p EXCEPT !.work = work]
           refresh == level = "default"
           q == LoadViewerPreferences(r, refresh)
<1>1. CASE Busy(p)
  <2>1. LoadSession(p, t, level, forget) = p
    BY <1>1 DEF LoadSession
  <2>2. SameView(p, p)
    BY DEF SameView
  <2> QED BY <2>1, <2>2
<1>2. CASE ~Busy(p)
  <2>1. LoadSession(p, t, level, forget) = IF q.asked = "settled" THEN AfterPreferences(q) ELSE q
    BY <1>2 DEF LoadSession
  <2>2. PrefsLock(p) /\ NoneWorking(p)
    BY <1>2 DEF WorkSound, WorkLock, Held, NoneWorking, Busy
  <2>3. t \in AnyTask
    BY DEF AnyTask
  <2>4. /\ work \in Works /\ work.op = "load" /\ work.stage = "prefs" /\ work.level = level
        /\ work.forget = forget /\ work.granted = stored /\ work.enable = FALSE
    BY <2>3 DEF Works, NoWork
  <2> HIDE DEF work
  <2>5. /\ r \in Panels /\ r.work = work /\ r.asked = p.asked /\ SameView(p, r)
        /\ \A op : Of(r, op) = Of(p, op) /\ Fresh(r, op) = Fresh(p, op)
    BY <2>4, WorkChanged
  <2> HIDE DEF r
  <2>6. PrefsLock(r)
    BY <2>2, <2>5 DEF PrefsLock
  <2>7. refresh \in BOOLEAN /\ (refresh <=> level = "default")
    OBVIOUS
  <2> HIDE DEF refresh
  <2>8. /\ q \in Panels /\ SameView(r, q) /\ PrefsLock(q)
        /\ q.work = work /\ q.default = r.default
        /\ \A op \in Ops \ {"prefs"} : Of(q, op) = Of(r, op)
        /\ q.asked \in {"pending", "settled"}
        /\ level = "default" => q.asked = "pending" /\ \A c \in Fresh(q, "prefs") : ~c.value
    BY SMTT(30), <2>5, <2>6, <2>7, PreferencesAsked
  <2> HIDE DEF q
  <2>9. NoneWorking(q) /\ SameView(p, q)
    BY <2>2, <2>5, <2>8, ViewTwice DEF NoneWorking, Ops
  <2>10. CASE q.asked = "settled"
    <3>1. level # "default"
      BY <2>8, <2>10
    <3> QED BY <2>1, <2>4, <2>8, <2>9, <2>10, <3>1, PreferencesFollowed, ViewTwice
  <2>11. CASE q.asked = "pending"
    <3>1. WorkLock(q)
      BY <2>4, <2>8, <2>9, <2>11 DEF WorkLock, Held, NoneWorking
    <3>2. Granted(q, stored)
      BY <2>4, <2>8 DEF Granted
    <3> QED BY <2>1, <2>8, <2>9, <2>11, <3>1, <3>2 DEF WorkSound
  <2> QED BY <2>8, <2>10, <2>11
<1> QED BY <1>1, <1>2

\* What only works keeps what is seen, and the other way round.
LEMMA WorkedSound ==
  ASSUME NEW p, NEW q, NEW s, SameView(p, q), ViewSound(p), WorkSound(q, s)
  PROVE  Sound(q, s)
BY ViewKept DEF Sound, ViewSound

\* A live window ends, and the task is loaded again at the level it had.
LEMMA WindowFinished ==
  ASSUME NEW p \in Panels, Sound(p, stored), stored \in BOOLEAN, NEW reload \in BOOLEAN,
         NEW w \in BOOLEAN
  PROVE  LET q == FinishLiveWindow([p EXCEPT !.window = w], reload)
         IN  q \in Panels /\ Sound(q, stored)
<1> DEFINE r == [p EXCEPT !.mode = "none", !.pip = FALSE, !.window = w, !.timer = FALSE,
                          !.liveTask = NoTask, !.liveRevision = 0, !.liveSnapshot = 0,
                          !.abandoned = w \/ p.presenting]
           again == reload /\ p.task # NoTask /\ p.task = p.liveTask
           q == IF again THEN LoadSession(r, p.task, p.restore, FALSE) ELSE r
           o == [p EXCEPT !.window = w]
<1>1. FinishLiveWindow(o, reload) = q
  <2>1. /\ o.task = p.task /\ o.liveTask = p.liveTask /\ o.restore = p.restore
        /\ o.window = w /\ o.presenting = p.presenting
    BY DEF Panels
  <2>2. r = [o EXCEPT !.mode = "none", !.pip = FALSE, !.timer = FALSE,
                      !.liveTask = NoTask, !.liveRevision = 0, !.liveSnapshot = 0,
                      !.abandoned = o.window \/ o.presenting]
    BY <2>1 DEF Panels
  <2> HIDE DEF o, r
  <2> QED BY <2>1, <2>2 DEF FinishLiveWindow
<1>2. Redrawn(p, r)
  BY WindowClosed
<1> HIDE DEF r
<1>3. r \in Panels /\ Sound(r, stored)
  BY <1>2, RedrawnSound
<1>4. CASE ~again
  BY <1>1, <1>3, <1>4
<1>5. CASE again
  <2>1. p.task \in Tasks
    BY <1>5 DEF Panels, AnyTask
  <2>2. p.restore \in Levels /\ p.restore # "default"
    BY DEF Panels, Levels
  <2>3. WorkSound(r, stored) /\ ViewSound(r)
    BY <1>3 DEF Sound
  <2>4. FALSE \in BOOLEAN
    OBVIOUS
  <2>5. q \in Panels /\ SameView(r, q) /\ WorkSound(q, stored)
    BY <1>3, <1>5, <2>1, <2>2, <2>3, <2>4, SessionLoaded
  <2> QED BY <1>1, <2>3, <2>5, WorkedSound
<1> QED BY <1>4, <1>5

\* The same, of a window that is left as it is, and of a native one that closes.
LEMMA WindowLeft ==
  ASSUME NEW p \in Panels, Sound(p, stored), stored \in BOOLEAN
  PROVE  /\ FinishLiveWindow(p, TRUE) \in Panels /\ Sound(FinishLiveWindow(p, TRUE), stored)
         /\ CloseNative(p) \in Panels /\ Sound(CloseNative(p), stored)
<1> DEFINE q == [p EXCEPT !.window = FALSE]
<1>1. p = [p EXCEPT !.window = p.window] /\ p.window \in BOOLEAN
  BY DEF Panels
<1>2. FinishLiveWindow(p, TRUE) \in Panels /\ Sound(FinishLiveWindow(p, TRUE), stored)
  <2> DEFINE v == p.window
             o == [p EXCEPT !.window = v]
  <2>1. v \in BOOLEAN /\ p = o
    BY <1>1
  <2> HIDE DEF v
  <2>2. FinishLiveWindow(o, TRUE) \in Panels /\ Sound(FinishLiveWindow(o, TRUE), stored)
    BY <2>1, WindowFinished
  <2> QED BY <2>1, <2>2
<1>3. FinishLiveWindow(q, TRUE) \in Panels /\ Sound(FinishLiveWindow(q, TRUE), stored)
  BY WindowFinished
<1>4. q \in Panels
  BY ZenonT(60) DEF Panels
<1>5. /\ q.calls = p.calls /\ q.work = p.work /\ q.asked = p.asked
      /\ q.presenting = p.presenting /\ q.polling = p.polling /\ q.default = p.default
      /\ q.closed = p.closed /\ q.timingBusy = p.timingBusy
      /\ q.task = p.task /\ q.revision = p.revision /\ q.pages = p.pages
      /\ q.details = p.details /\ q.timing = p.timing
      /\ q.mode = p.mode /\ q.pip = p.pip /\ ~q.window
      /\ q.abandoned = p.abandoned /\ q.hidden = p.hidden
      /\ q.liveTask = p.liveTask /\ q.timer = p.timer
  BY DEF Panels
<1>6. CloseNative(p) = IF DockMode(q) THEN q ELSE FinishLiveWindow(q, TRUE)
  BY DEF CloseNative
<1> HIDE DEF q
<1>7. CASE DockMode(q)
  <2>1. LiveMode(q) /\ LiveMode(p)
    BY <1>5, <1>7 DEF LiveMode, DockMode
  <2>2. Seen(p) => Seen(q)
    BY <1>5, <2>1 DEF Seen, Attached
  <2>3. Shown(p) => Shown(q)
    BY <1>5, SameCalls, ShownStays
  <2>4. Redrawn(p, q)
    BY <1>4, <1>5, <2>2, <2>3, CallsKept
  <2> QED BY <1>2, <1>4, <1>6, <1>7, <2>4, RedrawnSound
<1> QED BY <1>2, <1>3, <1>6, <1>7

-----------------------------------------------------------------------------
(* What follows the answer of each request.                                *)

Dropped(p, c) == [p EXCEPT !.calls = @ \ {c}]

LEMMA CallDropped ==
  ASSUME NEW p \in Panels, NEW c \in p.calls
  PROVE  LET q == Dropped(p, c)
         IN  /\ q \in Panels
             /\ q.work = p.work /\ q.asked = p.asked /\ q.presenting = p.presenting
             /\ q.polling = p.polling /\ q.default = p.default /\ q.timingBusy = p.timingBusy
             /\ q.task = p.task /\ q.revision = p.revision
             /\ \A op : Of(q, op) = Of(p, op) \ {c} /\ Fresh(q, op) = Fresh(p, op) \ {c}
             /\ \A op : op # c.op => Of(q, op) = Of(p, op) /\ Fresh(q, op) = Fresh(p, op)
             /\ Shown(p) => Shown(q)
             /\ Seen(p) => Seen(q)
<1> DEFINE q == Dropped(p, c)
<1>1. q = [p EXCEPT !.calls = p.calls \ {c}]
  BY DEF Dropped
<1> HIDE DEF q
<1>2. q \in Panels /\ q.calls = p.calls \ {c}
  BY <1>1 DEF Panels
<1>3. /\ q.work = p.work /\ q.asked = p.asked /\ q.presenting = p.presenting
      /\ q.polling = p.polling /\ q.default = p.default /\ q.timingBusy = p.timingBusy
      /\ q.task = p.task /\ q.revision = p.revision /\ q.pages = p.pages
      /\ q.details = p.details /\ q.timing = p.timing
      /\ q.mode = p.mode /\ q.pip = p.pip /\ q.window = p.window
      /\ q.abandoned = p.abandoned /\ q.hidden = p.hidden /\ q.closed = p.closed
      /\ q.liveTask = p.liveTask /\ q.timer = p.timer
  BY <1>1 DEF Panels
<1>4. /\ \A op : Of(q, op) = Of(p, op) \ {c} /\ Fresh(q, op) = Fresh(p, op) \ {c}
      /\ \A op : op # c.op => Of(q, op) = Of(p, op) /\ Fresh(q, op) = Fresh(p, op)
  BY <1>2 DEF Of, Fresh
<1>5. Shown(p) => Shown(q)
  BY <1>3, <1>4, ShownStays
<1>6. Seen(p) => Seen(q)
  BY <1>3, SeenStays
<1> QED BY <1>2, <1>3, <1>4, <1>5, <1>6 DEF q

\* The locks a request does not hold stay, and its own waits for nothing more.
LEMMA LocksDropped ==
  ASSUME NEW p \in Panels, NEW c \in p.calls, NEW s, Sound(p, s)
  PROVE  LET q == Dropped(p, c)
         IN  /\ Shown(q) /\ Seen(q) /\ Granted(q, s)
             /\ IF c.op = "poll" THEN Of(q, "poll") = {} ELSE PollLock(q)
             /\ IF c.op = "timing" /\ c.fresh THEN Fresh(q, "timing") = {} ELSE TimingLock(q)
             /\ IF c.op \in {"enter", "undock"}
                THEN Of(q, "enter") = {} /\ Of(q, "undock") = {} ELSE PresentLock(q)
             /\ IF c.op = "prefs" /\ c.fresh THEN Fresh(q, "prefs") = {} ELSE PrefsLock(q)
             /\ IF c.op \in {"save", "load", "earlier"} THEN NoneWorking(q) ELSE WorkLock(q)
<1> DEFINE q == Dropped(p, c)
<1>1. /\ q \in Panels
      /\ q.work = p.work /\ q.asked = p.asked /\ q.presenting = p.presenting
      /\ q.polling = p.polling /\ q.timingBusy = p.timingBusy
      /\ \A op : Of(q, op) = Of(p, op) \ {c} /\ Fresh(q, op) = Fresh(p, op) \ {c}
      /\ \A op : op # c.op => Of(q, op) = Of(p, op) /\ Fresh(q, op) = Fresh(p, op)
      /\ Shown(q) /\ Seen(q)
  BY CallDropped DEF Sound, ViewSound
<1> HIDE DEF q
<1>2. c \in Of(p, c.op) /\ (c.fresh <=> c \in Fresh(p, c.op))
  BY DEF Of, Fresh
<1>3. Granted(q, s)
  BY <1>1 DEF Sound, WorkSound, Granted
<1>4. IF c.op = "poll" THEN Of(q, "poll") = {} ELSE PollLock(q)
  BY <1>1, <1>2 DEF Sound, ViewSound, PollLock, Held
<1>5. IF c.op = "timing" /\ c.fresh THEN Fresh(q, "timing") = {} ELSE TimingLock(q)
  <2>1. TimingLock(p)
    BY DEF Sound, ViewSound
  <2>2. CASE c.op = "timing" /\ c.fresh
    BY <1>1, <1>2, <2>1, <2>2 DEF TimingLock, Held
  <2>3. CASE ~(c.op = "timing" /\ c.fresh)
    <3>1. Fresh(q, "timing") = Fresh(p, "timing")
      BY <1>1, <1>2, <2>3
    <3> QED BY <1>1, <2>1, <2>3, <3>1 DEF TimingLock
  <2> QED BY <2>2, <2>3
<1>6. IF c.op \in {"enter", "undock"}
      THEN Of(q, "enter") = {} /\ Of(q, "undock") = {} ELSE PresentLock(q)
  <2>1. PresentLock(p)
    BY DEF Sound, ViewSound
  <2>2. CASE c.op \in {"enter", "undock"}
    <3>1. c \in Of(p, "enter") \cup Of(p, "undock")
      BY <1>2, <2>2
    <3>2. \A d \in Of(p, "enter") \cup Of(p, "undock") : d = c
      BY <2>1, <3>1 DEF PresentLock, Held
    <3> QED BY <1>1, <2>2, <3>2
  <2>3. CASE c.op \notin {"enter", "undock"}
    BY <1>1, <2>1, <2>3 DEF PresentLock
  <2> QED BY <2>2, <2>3
<1>7. IF c.op = "prefs" /\ c.fresh THEN Fresh(q, "prefs") = {} ELSE PrefsLock(q)
  <2>1. PrefsLock(p)
    BY DEF Sound, WorkSound
  <2>2. CASE c.op = "prefs" /\ c.fresh
    BY <1>1, <1>2, <2>1, <2>2 DEF PrefsLock, Held
  <2>3. CASE ~(c.op = "prefs" /\ c.fresh)
    <3>1. Fresh(q, "prefs") = Fresh(p, "prefs")
      BY <1>1, <1>2, <2>3
    <3> QED BY <1>1, <2>1, <2>3, <3>1 DEF PrefsLock
  <2> QED BY <2>2, <2>3
<1>8. IF c.op \in {"save", "load", "earlier"} THEN NoneWorking(q) ELSE WorkLock(q)
  <2>1. WorkLock(p)
    BY DEF Sound, WorkSound
  <2>2. CASE c.op \in {"save", "load", "earlier"}
    <3>1. /\ Of(p, "save") # {} => p.work.stage = "save"
          /\ Of(p, "load") # {} => p.work.stage = "read" /\ p.work.op = "load"
          /\ Of(p, "earlier") # {} => p.work.stage = "read" /\ p.work.op = "earlier"
      BY <2>1 DEF WorkLock, Held
    <3>2. \A d \in Of(p, c.op) : d = c
      BY <1>2, <2>1, <2>2 DEF WorkLock, Held
    <3>3. Of(q, c.op) = {}
      BY <1>1, <3>2
    <3>4. Of(p, c.op) # {}
      BY <1>2
    <3>5. CASE c.op = "save"
      BY <1>1, <3>1, <3>3, <3>4, <3>5 DEF NoneWorking
    <3>6. CASE c.op = "load"
      BY <1>1, <3>1, <3>3, <3>4, <3>6 DEF NoneWorking
    <3>7. CASE c.op = "earlier"
      BY <1>1, <3>1, <3>3, <3>4, <3>7 DEF NoneWorking
    <3> QED BY <2>2, <3>5, <3>6, <3>7
  <2>3. CASE c.op \notin {"save", "load", "earlier"}
    BY <1>1, <2>1, <2>3 DEF WorkLock
  <2> QED BY <2>2, <2>3
<1> QED BY <1>1, <1>3, <1>4, <1>5, <1>6, <1>7, <1>8 DEF q

\* A request that held the lock of the work ends it.
LEMMA WorkEnded ==
  ASSUME NEW p \in Panels, NEW r, NEW s, Redrawn(p, r),
         ViewSound(p), NoneWorking(p), PrefsLock(p)
  PROVE  LET q == [r EXCEPT !.work = NoWork]
         IN  q \in Panels /\ Sound(q, s)
<1>1. r \in Panels /\ ViewSound(r) /\ NoneWorking(r) /\ PrefsLock(r)
  BY RedrawnKeeps DEF ViewSound
<1> QED BY <1>1, WorkReleased, WorkedSound

LEMMA DefaultSet ==
  ASSUME NEW p \in Panels, NEW b \in BOOLEAN
  PROVE  LET q == [p EXCEPT !.default = b]
         IN  /\ q \in Panels /\ q.work = p.work /\ q.asked = p.asked /\ q.default = b
             /\ SameView(p, q)
             /\ \A op : Of(q, op) = Of(p, op) /\ Fresh(q, op) = Fresh(p, op)
<1> DEFINE q == [p EXCEPT !.default = b]
<1>1. q \in Panels
  BY DEF Panels
<1>2. /\ q.calls = p.calls /\ q.work = p.work /\ q.asked = p.asked
      /\ q.presenting = p.presenting /\ q.polling = p.polling /\ q.default = b
      /\ q.closed = p.closed /\ q.timingBusy = p.timingBusy
      /\ q.task = p.task /\ q.revision = p.revision /\ q.pages = p.pages
      /\ q.details = p.details /\ q.timing = p.timing
      /\ q.mode = p.mode /\ q.pip = p.pip /\ q.window = p.window
      /\ q.abandoned = p.abandoned /\ q.hidden = p.hidden
      /\ q.liveTask = p.liveTask /\ q.timer = p.timer
  BY DEF Panels
<1> HIDE DEF q
<1>3. \A op : Of(q, op) = Of(p, op) /\ Fresh(q, op) = Fresh(p, op)
  BY <1>2, SameCalls
<1>4. SameView(p, q)
  BY <1>2, <1>3 DEF SameView
<1> QED BY <1>1, <1>2, <1>3, <1>4 DEF q

\* The preference is known, and whoever waited for it goes on.
LEMMA PreferencesSettled ==
  ASSUME NEW p \in Panels, Sound(p, stored), NEW c \in p.calls, c.op = "prefs", NEW out
  PROVE  LET q == PreferencesRead(Dropped(p, c), c, out)
         IN  q \in Panels /\ Sound(q, stored)
<1> DEFINE d == Dropped(p, c)
           b == out = "ok" /\ c.value
           k == [d EXCEPT !.asked = "settled", !.default = b]
           known == IF c.fresh THEN k ELSE d
           waits == c.fresh /\ d.work.stage = "prefs"
           r == IF waits THEN AfterPreferences(known) ELSE known
<1>1. PreferencesRead(d, c, out) = AfterHostResult(r, c.task)
  BY DEF PreferencesRead
<1>2. /\ d \in Panels /\ d.work = p.work /\ d.asked = p.asked
      /\ \A op : op # "prefs" => Of(d, op) = Of(p, op)
      /\ \A op : Fresh(d, op) = Fresh(p, op) \ {c}
  BY CallDropped
<1>3. /\ Shown(d) /\ Seen(d) /\ Granted(d, stored)
      /\ PollLock(d) /\ TimingLock(d) /\ PresentLock(d) /\ WorkLock(d)
      /\ IF c.fresh THEN Fresh(d, "prefs") = {} ELSE PrefsLock(d)
  BY LocksDropped
<1> HIDE DEF d
<1>4. SUFFICES r \in Panels /\ Sound(r, stored)
  BY <1>1, HostResultApplied, RedrawnSound DEF d
<1>5. CASE ~c.fresh
  BY <1>2, <1>3, <1>5 DEF Sound, ViewSound, WorkSound
<1>6. CASE c.fresh
  <2>1. b \in BOOLEAN
    OBVIOUS
  <2>2. b => c.value
    OBVIOUS
  <2> HIDE DEF b
  <2> DEFINE e == [d EXCEPT !.default = b]
  <2>3. /\ e \in Panels /\ e.work = d.work /\ e.default = b /\ SameView(d, e)
        /\ \A op : Of(e, op) = Of(d, op) /\ Fresh(e, op) = Fresh(d, op)
    BY <1>2, <2>1, DefaultSet
  <2>4. k = [e EXCEPT !.asked = "settled"]
    BY <1>2 DEF Panels
  <2> HIDE DEF e, k
  <2>5. /\ k \in Panels /\ k.calls = e.calls /\ k.work = e.work /\ k.default = e.default
        /\ k.asked = "settled"
        /\ k.presenting = e.presenting /\ k.polling = e.polling
        /\ k.closed = e.closed /\ k.timingBusy = e.timingBusy
        /\ k.task = e.task /\ k.revision = e.revision /\ k.pages = e.pages
        /\ k.details = e.details /\ k.timing = e.timing
        /\ k.mode = e.mode /\ k.pip = e.pip /\ k.window = e.window
        /\ k.abandoned = e.abandoned /\ k.hidden = e.hidden
        /\ k.liveTask = e.liveTask /\ k.timer = e.timer
    BY <2>3, <2>4 DEF Panels
  <2>6. \A op : Of(k, op) = Of(d, op) /\ Fresh(k, op) = Fresh(d, op)
    BY <2>3, <2>5, SameCalls
  <2>7. SameView(e, k)
    BY <2>3, <2>5, <2>6 DEF SameView
  <2>8. SameView(d, k)
    BY <2>3, <2>7, ViewTwice
  <2>9. PrefsLock(k)
    BY <1>3, <1>6, <2>5, <2>6 DEF PrefsLock, Held
  <2>10. ViewSound(d) /\ k.work = d.work
    BY <1>3, <2>3, <2>5 DEF ViewSound
  <2>11. CASE ~waits
    <3>1. r = k
      BY <1>6, <2>11
    <3>2. d.work.stage # "prefs"
      BY <1>6, <2>11
    <3>3. WorkLock(k)
      BY <1>3, <2>6, <2>10, <3>2 DEF WorkLock
    <3>4. Granted(k, stored)
      BY <1>3, <2>6, <2>10, <3>2 DEF Granted
    <3> QED BY <2>5, <2>8, <2>9, <2>10, <3>1, <3>3, <3>4, WorkedSound DEF WorkSound
  <2>12. CASE waits
    <3>1. r = AfterPreferences(k) /\ d.work.stage = "prefs"
      BY <1>6, <2>12
    <3>2. NoneWorking(k) /\ k.work.op = "load"
      <4>1. d.work.op \in {"idle", "load", "earlier", "enable"}
        BY <1>2 DEF Panels, Works
      <4>2. d.work.op = "load"
        BY <1>3, <3>1, <4>1 DEF WorkLock
      <4> QED BY <1>3, <2>6, <2>10, <3>1, <4>2 DEF WorkLock, Held, NoneWorking
    <3>3. c \in Fresh(p, "prefs")
      BY <1>6 DEF Fresh
    <3>4. k.work.level = "default" => ~k.work.forget /\ (k.default => k.work.granted)
      BY <1>2, <2>2, <2>3, <2>5, <2>10, <3>1, <3>3 DEF Sound, WorkSound, Granted
    <3>5. /\ AfterPreferences(k) \in Panels /\ SameView(k, AfterPreferences(k))
          /\ WorkSound(AfterPreferences(k), stored)
      BY <2>5, <2>9, <3>2, <3>4, PreferencesFollowed
    <3>6. SameView(d, r)
      BY <2>8, <3>1, <3>5, ViewTwice
    <3> QED BY <2>10, <3>1, <3>5, <3>6, WorkedSound
  <2> QED BY <2>11, <2>12
<1> QED BY <1>5, <1>6

\* A save ends the work, or lets the load it was part of go on.
LEMMA SaveSettled ==
  ASSUME NEW p \in Panels, Sound(p, stored), NEW c \in p.calls, c.op = "save", NEW out
  PROVE  LET q == DefaultSaved(Dropped(p, c), c, out)
         IN  q \in Panels /\ Sound(q, stored)
<1> DEFINE d == Dropped(p, c)
           b == IF out = "ok" THEN c.value ELSE d.default
           k == [d EXCEPT !.default = b]
           q == DefaultSaved(d, c, out)
<1>1. d \in Panels /\ d.work = p.work
  BY CallDropped
<1>2. /\ Shown(d) /\ Seen(d) /\ PollLock(d) /\ TimingLock(d) /\ PresentLock(d)
      /\ PrefsLock(d) /\ NoneWorking(d) /\ Granted(d, stored)
  BY LocksDropped
<1>3. p.work.stage = "save"
  <2>1. c \in Of(p, "save")
    BY DEF Of
  <2> QED BY <2>1 DEF Sound, WorkSound, WorkLock, Held
<1> HIDE DEF d
<1>4. b \in BOOLEAN
  BY <1>1 DEF Panels, Calls
<1>5. (IF out = "ok" THEN [d EXCEPT !.default = c.value] ELSE d) = k
  BY <1>1 DEF Panels
<1>6. q = IF d.work.op = "enable" THEN EnableDetails(k)
          ELSE IF out = "ok" THEN ReadSession(k) ELSE [k EXCEPT !.work = NoWork]
  BY <1>5 DEF DefaultSaved
<1> HIDE DEF b
<1>7. /\ k \in Panels /\ k.work = d.work /\ SameView(d, k) /\ k.asked = d.asked
      /\ \A op : Of(k, op) = Of(d, op) /\ Fresh(k, op) = Fresh(d, op)
  BY <1>1, <1>4, DefaultSet
<1> HIDE DEF k, q
<1>8. NoneWorking(k) /\ PrefsLock(k) /\ ViewSound(k) /\ Redrawn(k, k)
  BY <1>2, <1>7, ViewKept, NothingRedrawn DEF NoneWorking, PrefsLock, ViewSound
<1>9. CASE d.work.op = "enable"
  <2>1. PICK r : Redrawn(k, r) /\ EnableDetails(k) = [r EXCEPT !.work = NoWork]
    BY <1>7, DetailsEnabled
  <2> QED BY <1>6, <1>7, <1>8, <1>9, <2>1, WorkEnded DEF d, q
<1>10. CASE d.work.op # "enable" /\ out # "ok"
  BY <1>6, <1>7, <1>8, <1>10, WorkEnded DEF d, q
<1>11. CASE d.work.op # "enable" /\ out = "ok"
  <2>1. d.work.op \in {"idle", "load", "earlier", "enable"}
    BY <1>1 DEF Panels, Works
  <2>2. k.work.op = "load" /\ k.work.level # "default"
    BY <1>1, <1>3, <1>7, <1>11, <2>1 DEF Sound, WorkSound, WorkLock, Granted
  <2>3. /\ ReadSession(k) \in Panels /\ SameView(k, ReadSession(k))
        /\ WorkSound(ReadSession(k), stored)
    BY <1>7, <1>8, <2>2, SessionRequested
  <2> QED BY <1>6, <1>8, <1>11, <2>3, WorkedSound DEF d, q
<1> QED BY <1>9, <1>10, <1>11

LEMMA LoadSettled ==
  ASSUME NEW p \in Panels, Sound(p, stored), NEW c \in p.calls, c.op = "load", NEW out
  PROVE  LET q == SessionRead(Dropped(p, c), c, out)
         IN  q \in Panels /\ Sound(q, stored)
<1> DEFINE d == Dropped(p, c)
           w == d.work.forget \/ (d.withdrawn /\ d.work.level # "default")
           f == [d EXCEPT !.full = d.work.enable, !.withdrawn = w]
           r == CASE out = "ok"    -> Render(f, c.task, c.answer, TRUE)
                  [] out = "limit" -> ShowReadLimit(d)
                  [] OTHER         -> ShowLoadError(d)
<1>1. d \in Panels
  BY CallDropped
<1>2. ViewSound(d) /\ PrefsLock(d) /\ NoneWorking(d)
  BY LocksDropped DEF ViewSound
<1>3. SessionRead(d, c, out) = [r EXCEPT !.work = NoWork]
  BY DEF SessionRead
<1> HIDE DEF d
<1>4. d.work.enable \in BOOLEAN /\ w \in BOOLEAN
  BY <1>1 DEF Panels, Works
<1>5. c \in Calls
  BY DEF Panels
<1>6. c.task \in Tasks /\ c.answer \in Answers
  BY <1>5 DEF Calls, Reads
<1> HIDE DEF w
<1>7. Redrawn(d, f) /\ f \in Panels
  BY <1>1, <1>4, FullSet DEF Redrawn
<1> HIDE DEF f
<1>8. TRUE \in BOOLEAN
  OBVIOUS
<1>9. Redrawn(d, Render(f, c.task, c.answer, TRUE))
  BY <1>6, <1>7, <1>8, Rendered, RedrawnTwice
<1>10. Redrawn(d, r)
  BY <1>1, <1>9, ReadLimitShown, LoadErrorShown
<1> HIDE DEF r
<1> QED BY <1>1, <1>2, <1>3, <1>10, WorkEnded DEF d

LEMMA EarlierSettled ==
  ASSUME NEW p \in Panels, Sound(p, stored), NEW c \in p.calls, c.op = "earlier", NEW out
  PROVE  LET q == EarlierRead(Dropped(p, c), c, out)
         IN  q \in Panels /\ Sound(q, stored)
<1> DEFINE d == Dropped(p, c)
           fits == out = "ok" /\ d.task = c.task /\ d.revision = c.answer.revision
           r == CASE fits          -> Prepend(d, c.answer)
                  [] out = "limit" -> ShowReadLimit(d)
                  [] OTHER         -> ShowLoadError(d)
<1>1. d \in Panels
  BY CallDropped
<1>2. ViewSound(d) /\ PrefsLock(d) /\ NoneWorking(d)
  BY LocksDropped DEF ViewSound
<1>3. EarlierRead(d, c, out) = [r EXCEPT !.work = NoWork]
  BY DEF EarlierRead
<1> HIDE DEF d
<1>4. c.answer \in Answers
  BY DEF Panels, Calls
<1>5. Redrawn(d, r)
  <2>1. CASE fits
    <3>1. r = Prepend(d, c.answer)
      BY <2>1
    <3> QED BY <1>1, <1>4, <2>1, <3>1, Prepended
  <2>2. CASE ~fits
    BY <1>1, <2>2, ReadLimitShown, LoadErrorShown
  <2> QED BY <2>1, <2>2
<1> HIDE DEF r
<1> QED BY <1>1, <1>2, <1>3, <1>5, WorkEnded DEF d

\* A request without a lock leaves a sound panel when it goes.
LEMMA DetailSettled ==
  ASSUME NEW p \in Panels, Sound(p, stored), NEW c \in p.calls, c.op = "detail",
         NEW out, out = "ok" => c.answer # NoAnswer
  PROVE  LET q == DetailsRead(Dropped(p, c), c, out)
         IN  q \in Panels /\ Sound(q, stored)
<1> DEFINE d == Dropped(p, c)
           current == c.fresh /\ d.full /\ d.task = c.task
           q == [d EXCEPT !.details = @ \cup {<<c.task, c.answer.version>>}]
<1>1. d \in Panels /\ d.task = p.task /\ d.revision = p.revision
  BY CallDropped
<1>2. Sound(d, stored)
  BY LocksDropped DEF Sound, ViewSound, WorkSound
<1>3. DetailsRead(d, c, out) =
        IF current /\ out = "limit" THEN ShowReadLimit(d)
        ELSE IF current /\ out = "ok" /\ c.answer.revision = c.revision THEN q ELSE d
  BY DEF DetailsRead
<1> HIDE DEF d
<1>4. CASE current /\ out = "limit"
  BY <1>1, <1>2, <1>3, <1>4, ReadLimitShown, RedrawnSound DEF d
<1>5. CASE out # "limit" /\ current /\ out = "ok" /\ c.answer.revision = c.revision
  <2>1. c \in Calls
    BY DEF Panels
  <2>2. c.task \in Tasks /\ c.answer \in Answers
    BY <2>1 DEF Calls, Reads
  <2>3. c.answer.version \in 1..MaxVersion
    <3>1. c.answer \in [version : Revisions, revision : Revisions]
          /\ c.answer.revision \in {0, c.answer.version}
      BY <2>2 DEF Answers
    <3>2. c.answer.version # 0
      BY <1>5, <3>1 DEF NoAnswer
    <3> QED BY <3>1, <3>2, ViewerAssumption DEF Revisions
  <2>4. q \in Panels
    <3>1. d.details \cup {<<c.task, c.answer.version>>} \in SUBSET (Tasks \X (1..MaxVersion))
      BY <1>1, <2>2, <2>3 DEF Panels
    <3> QED BY <1>1, <3>1 DEF Panels
  <2>5. /\ q.calls = d.calls /\ q.work = d.work /\ q.asked = d.asked
        /\ q.presenting = d.presenting /\ q.polling = d.polling /\ q.default = d.default
        /\ q.closed = d.closed /\ q.timingBusy = d.timingBusy
        /\ q.task = d.task /\ q.revision = d.revision /\ q.pages = d.pages
        /\ q.details = d.details \cup {<<c.task, c.answer.version>>} /\ q.timing = d.timing
        /\ q.mode = d.mode /\ q.pip = d.pip /\ q.window = d.window
        /\ q.abandoned = d.abandoned /\ q.hidden = d.hidden
        /\ q.liveTask = d.liveTask /\ q.timer = d.timer
    BY <1>1 DEF Panels
  <2> HIDE DEF q
  <2>6. c \in Fresh(p, "detail") /\ c.revision = d.revision /\ c.task = d.task
    <3>1. c \in Fresh(p, "detail")
      BY <1>5 DEF Fresh
    <3> QED BY <1>1, <3>1 DEF Sound, ViewSound, Shown
  <2>7. d.revision # 0 => c.answer.version = d.revision
    BY <1>5, <2>2, <2>6 DEF Answers
  <2>8. Fresh(q, "detail") = Fresh(d, "detail")
    BY <2>5, SameCalls
  <2>9. Shown(d)
    BY <1>2 DEF Sound, ViewSound
  <2>10. Shown(q)
    <3>1. q.revision # 0 =>
            q.pages = {q.revision} /\ q.details \subseteq {<<q.task, q.revision>>}
      BY <2>5, <2>6, <2>7, <2>9 DEF Shown
    <3>2. \A x \in q.details : x[1] = q.task
      BY <2>5, <2>6, <2>9 DEF Shown
    <3> QED BY <2>5, <2>8, <2>9, <3>1, <3>2 DEF Shown
  <2>11. Seen(d) => Seen(q)
    BY <2>5, SeenStays
  <2>12. Redrawn(d, q)
    BY <1>1, <2>4, <2>5, <2>10, <2>11, CallsKept
  <2>13. DetailsRead(d, c, out) = q
    BY <1>3, <1>5
  <2> QED BY <1>2, <2>12, <2>13, RedrawnSound DEF d
<1>6. CASE /\ ~(current /\ out = "limit")
           /\ ~(current /\ out = "ok" /\ c.answer.revision = c.revision)
  BY <1>1, <1>2, <1>3, <1>6 DEF d
<1> QED BY <1>4, <1>5, <1>6

LEMMA TimingSettled ==
  ASSUME NEW p \in Panels, Sound(p, stored), NEW c \in p.calls, c.op = "timing", NEW out
  PROVE  LET q == TimingRead(Dropped(p, c), c, out)
         IN  q \in Panels /\ Sound(q, stored)
<1> DEFINE d == Dropped(p, c)
           t == IF out = "ok" /\ d.task = c.task THEN c.task ELSE d.timing
           q == [d EXCEPT !.timingBusy = FALSE, !.timing = t]
<1>1. d \in Panels
  BY CallDropped
<1>2. /\ Shown(d) /\ Seen(d) /\ PollLock(d) /\ PresentLock(d)
      /\ PrefsLock(d) /\ WorkLock(d) /\ Granted(d, stored)
      /\ IF c.fresh THEN Fresh(d, "timing") = {} ELSE TimingLock(d)
  BY LocksDropped
<1>3. TimingRead(d, c, out) = IF ~c.fresh THEN d ELSE q
  BY DEF TimingRead
<1> HIDE DEF d
<1>4. CASE ~c.fresh
  BY <1>1, <1>2, <1>3, <1>4 DEF d, Sound, ViewSound, WorkSound
<1>5. CASE c.fresh
  <2>1. t \in AnyTask /\ t \in {NoTask, d.task}
    BY <1>1, <1>2 DEF Panels, Shown
  <2> HIDE DEF t
  <2>2. q \in Panels
    BY ZenonT(60), <1>1, <2>1 DEF Panels
  <2>3. /\ q.calls = d.calls /\ q.work = d.work /\ q.asked = d.asked
        /\ q.presenting = d.presenting /\ q.polling = d.polling /\ q.default = d.default
        /\ q.closed = d.closed /\ q.timingBusy = FALSE
        /\ q.task = d.task /\ q.revision = d.revision /\ q.pages = d.pages
        /\ q.details = d.details /\ q.timing = t
        /\ q.mode = d.mode /\ q.pip = d.pip /\ q.window = d.window
        /\ q.abandoned = d.abandoned /\ q.hidden = d.hidden
        /\ q.liveTask = d.liveTask /\ q.timer = d.timer
    BY <1>1 DEF Panels
  <2> HIDE DEF q
  <2>4. \A op : Of(q, op) = Of(d, op) /\ Fresh(q, op) = Fresh(d, op)
    BY <2>3, SameCalls
  <2>5. Shown(q)
    BY <1>2, <2>1, <2>3, <2>4 DEF Shown
  <2>6. Seen(q)
    BY <1>2, <2>3, SeenStays
  <2>7. TimingLock(q)
    BY <1>2, <1>5, <2>3, <2>4 DEF TimingLock, Held
  <2>8. PollLock(q) /\ PresentLock(q) /\ PrefsLock(q)
    <3>1. PollLock(q)
      BY <1>2, <2>3, <2>4 DEF PollLock
    <3>2. PresentLock(q)
      BY <1>2, <2>3, <2>4 DEF PresentLock
    <3>3. PrefsLock(q)
      BY <1>2, <2>3, <2>4 DEF PrefsLock
    <3> QED BY <3>1, <3>2, <3>3
  <2>9. WorkLock(q) /\ Granted(q, stored)
    BY <1>2, <2>3, <2>4 DEF WorkLock, Granted
  <2> QED BY <1>3, <1>5, <2>2, <2>5, <2>6, <2>7, <2>8, <2>9 DEF d, Sound, ViewSound, WorkSound
<1> QED BY <1>4, <1>5

\* A poll is over, and the window that can be seen plans the next.
LEMMA PollSettled ==
  ASSUME NEW p \in Panels, Sound(p, stored), NEW c \in p.calls, c.op = "poll", NEW out
  PROVE  LET q == LivePolled(Dropped(p, c), c, out)
         IN  q \in Panels /\ Sound(q, stored)
<1> DEFINE d == Dropped(p, c)
           unchanged == c.revision # 0 /\ c.answer.revision = c.revision
           v == IF unchanged THEN d.liveSnapshot ELSE c.answer.version
           u == [d EXCEPT !.liveRevision = c.answer.revision, !.liveSnapshot = v]
           q == IF ~LiveMode(d) \/ d.liveTask # c.task THEN d
                ELSE IF out = "limit" THEN ShowReadLimit(d) ELSE IF out = "ok" THEN u ELSE d
           r == [q EXCEPT !.polling = FALSE]
           l == IF LiveMode(r) THEN ScheduleLiveRefresh(r) ELSE r
<1>1. d \in Panels
  BY CallDropped
<1>2. /\ Shown(d) /\ Seen(d) /\ TimingLock(d) /\ PresentLock(d)
      /\ PrefsLock(d) /\ WorkLock(d) /\ Granted(d, stored) /\ Of(d, "poll") = {}
  BY LocksDropped
<1>3. LivePolled(d, c, out) = l
  <2>1. [d EXCEPT !.liveRevision = c.answer.revision,
                  !.liveSnapshot = IF unchanged THEN @ ELSE c.answer.version] = u
    OBVIOUS
  <2> QED BY <2>1 DEF LivePolled
<1> HIDE DEF d
<1>4. c.answer \in Answers
  BY DEF Panels, Calls
<1>5. c.answer.version \in Revisions /\ c.answer.revision \in Revisions /\ v \in Revisions
  BY <1>1, <1>4 DEF Answers, Panels
<1> HIDE DEF v, unchanged
<1>6. Redrawn(d, u)
  <2>1. u \in Panels
    BY ZenonT(60), <1>1, <1>5 DEF Panels
  <2>2. /\ u.calls = d.calls /\ u.work = d.work /\ u.asked = d.asked
        /\ u.presenting = d.presenting /\ u.polling = d.polling /\ u.default = d.default
        /\ u.closed = d.closed /\ u.timingBusy = d.timingBusy
        /\ u.task = d.task /\ u.revision = d.revision /\ u.pages = d.pages
        /\ u.details = d.details /\ u.timing = d.timing
        /\ u.mode = d.mode /\ u.pip = d.pip /\ u.window = d.window
        /\ u.abandoned = d.abandoned /\ u.hidden = d.hidden
        /\ u.liveTask = d.liveTask /\ u.timer = d.timer
    BY <1>1 DEF Panels
  <2> HIDE DEF u
  <2>3. Shown(d) => Shown(u)
    BY <2>2, SameCalls, ShownStays
  <2>4. Seen(d) => Seen(u)
    BY <2>2, SeenStays
  <2> QED BY <1>1, <2>1, <2>2, <2>3, <2>4, CallsKept
<1> HIDE DEF u
<1>7. Redrawn(d, q)
  BY <1>1, <1>6, ReadLimitShown, NothingRedrawn
<1> HIDE DEF q
<1>8. /\ q \in Panels /\ Shown(q) /\ Seen(q) /\ TimingLock(q) /\ PresentLock(q)
      /\ PrefsLock(q) /\ WorkLock(q) /\ Granted(q, stored) /\ Of(q, "poll") = {}
  BY <1>2, <1>7, RedrawnKeeps DEF Redrawn, SameWork, Ops
<1>9. r \in Panels
  BY ZenonT(60), <1>8 DEF Panels
<1>10. /\ r.calls = q.calls /\ r.work = q.work /\ r.asked = q.asked
       /\ r.presenting = q.presenting /\ r.polling = FALSE /\ r.default = q.default
       /\ r.closed = q.closed /\ r.timingBusy = q.timingBusy
       /\ r.task = q.task /\ r.revision = q.revision /\ r.pages = q.pages
       /\ r.details = q.details /\ r.timing = q.timing
       /\ r.mode = q.mode /\ r.pip = q.pip /\ r.window = q.window
       /\ r.abandoned = q.abandoned /\ r.hidden = q.hidden
       /\ r.liveTask = q.liveTask /\ r.timer = q.timer
  BY <1>8 DEF Panels
<1> HIDE DEF r
<1>11. \A op : Of(r, op) = Of(q, op) /\ Fresh(r, op) = Fresh(q, op)
  BY <1>10, SameCalls
<1>12. Shown(r)
  BY <1>8, <1>10, <1>11, ShownStays
<1>13. PollLock(r)
  BY <1>8, <1>10, <1>11 DEF PollLock, Held
<1>14. TimingLock(r) /\ PresentLock(r) /\ PrefsLock(r)
  BY <1>8, <1>10, <1>11 DEF TimingLock, PresentLock, PrefsLock
<1>15. WorkLock(r) /\ Granted(r, stored)
  BY <1>8, <1>10, <1>11 DEF WorkLock, Granted
<1>16. CASE LiveMode(r)
  <2>1. l = ScheduleLiveRefresh(r)
    BY <1>16
  <2>2. Redrawn(r, l) /\ Seen(l)
    <3>1. Attached(r)
      BY <1>8, <1>10 DEF Seen, Attached, LiveMode, DockMode
    <3> QED BY <1>9, <2>1, <3>1, RefreshScheduled
  <2> QED BY <1>3, <1>12, <1>13, <1>14, <1>15, <2>2, RedrawnKeeps
          DEF d, Sound, ViewSound, WorkSound
<1>17. CASE ~LiveMode(r)
  <2>1. l = r
    BY <1>17
  <2>2. ~LiveMode(q)
    BY <1>10, <1>17 DEF LiveMode, DockMode
  <2>3. Seen(r)
    <3>1. Attached(r)
      BY <1>8, <1>10, <1>17, <2>2 DEF Seen, Attached
    <3> QED BY <1>8, <1>10, <1>17, <2>2, <3>1 DEF Seen
  <2> QED BY <1>3, <1>9, <1>12, <1>13, <1>14, <1>15, <2>1, <2>3
          DEF d, Sound, ViewSound, WorkSound
<1> QED BY <1>16, <1>17

LEMMA UndockSettled ==
  ASSUME NEW p \in Panels, Sound(p, stored), stored \in BOOLEAN,
         NEW c \in p.calls, c.op = "undock", NEW out
  PROVE  LET q == Undocked(Dropped(p, c), out)
         IN  q \in Panels /\ Sound(q, stored)
<1> DEFINE d == Dropped(p, c)
           q == [d EXCEPT !.presenting = FALSE]
<1>1. d \in Panels
  BY CallDropped
<1>2. /\ Shown(d) /\ Seen(d) /\ TimingLock(d) /\ PollLock(d)
      /\ PrefsLock(d) /\ WorkLock(d) /\ Granted(d, stored)
      /\ Of(d, "enter") = {} /\ Of(d, "undock") = {}
  BY LocksDropped
<1>3. Undocked(d, out) = IF out = "ok" /\ DockMode(d) THEN FinishLiveWindow(q, TRUE) ELSE q
  BY DEF Undocked
<1> HIDE DEF d
<1>4. q \in Panels
  BY ZenonT(60), <1>1 DEF Panels
<1>5. /\ q.calls = d.calls /\ q.work = d.work /\ q.asked = d.asked
      /\ q.presenting = FALSE /\ q.polling = d.polling /\ q.default = d.default
      /\ q.closed = d.closed /\ q.timingBusy = d.timingBusy
      /\ q.task = d.task /\ q.revision = d.revision /\ q.pages = d.pages
      /\ q.details = d.details /\ q.timing = d.timing
      /\ q.mode = d.mode /\ q.pip = d.pip /\ q.window = d.window
      /\ q.abandoned = d.abandoned /\ q.hidden = d.hidden
      /\ q.liveTask = d.liveTask /\ q.timer = d.timer
  BY <1>1 DEF Panels
<1> HIDE DEF q
<1>6. \A op : Of(q, op) = Of(d, op) /\ Fresh(q, op) = Fresh(d, op)
  BY <1>5, SameCalls
<1>7. Shown(q)
  BY <1>2, <1>5, <1>6, ShownStays
<1>8. Seen(q)
  <2>1. LiveMode(q) <=> LiveMode(d)
    BY <1>5 DEF LiveMode, DockMode
  <2> QED BY <1>2, <1>5, <2>1 DEF Seen, Attached
<1>9. PresentLock(q)
  BY <1>2, <1>5, <1>6 DEF PresentLock, Held
<1>10. TimingLock(q) /\ PollLock(q) /\ PrefsLock(q)
  BY <1>2, <1>5, <1>6 DEF TimingLock, PollLock, PrefsLock
<1>11. WorkLock(q) /\ Granted(q, stored)
  BY <1>2, <1>5, <1>6 DEF WorkLock, Granted
<1>12. Sound(q, stored)
  BY <1>7, <1>8, <1>9, <1>10, <1>11 DEF Sound, ViewSound, WorkSound
<1> QED BY <1>3, <1>4, <1>12, WindowLeft DEF d

\* Whatever ends a request leaves a sound panel.
LEMMA Settled ==
  ASSUME panel \in Panels, Sound(panel, stored), stored \in BOOLEAN,
         NEW c \in panel.calls, c.op # "enter", NEW out,
         out = "ok" => c.answer # NoAnswer \/ c.op = "undock",
         Settle(c, out)
  PROVE  panel' \in Panels /\ Sound(panel', stored)
<1> DEFINE d == Dropped(panel, c)
<1>1. panel' = Continue(d, c, out)
  BY DEF Settle, Dropped
<1> HIDE DEF d
<1>2. c.op \in Ops
  BY DEF Panels, Calls
<1>3. CASE c.op = "prefs"
  <2>1. panel' = PreferencesRead(d, c, out)
    BY <1>1, <1>3 DEF Continue
  <2> QED BY <1>3, <2>1, PreferencesSettled DEF d
<1>4. CASE c.op = "save"
  <2>1. panel' = DefaultSaved(d, c, out)
    BY <1>1, <1>4 DEF Continue
  <2> QED BY <1>4, <2>1, SaveSettled DEF d
<1>5. CASE c.op = "load"
  <2>1. panel' = SessionRead(d, c, out)
    BY <1>1, <1>5 DEF Continue
  <2> QED BY <1>5, <2>1, LoadSettled DEF d
<1>6. CASE c.op = "earlier"
  <2>1. panel' = EarlierRead(d, c, out)
    BY <1>1, <1>6 DEF Continue
  <2> QED BY <1>6, <2>1, EarlierSettled DEF d
<1>7. CASE c.op = "detail"
  <2>1. panel' = DetailsRead(d, c, out)
    BY <1>1, <1>7 DEF Continue
  <2>2. out = "ok" => c.answer # NoAnswer
    BY <1>7
  <2> QED BY <1>7, <2>1, <2>2, DetailSettled DEF d
<1>8. CASE c.op = "timing"
  <2>1. panel' = TimingRead(d, c, out)
    BY <1>1, <1>8 DEF Continue
  <2> QED BY <1>8, <2>1, TimingSettled DEF d
<1>9. CASE c.op = "poll"
  <2>1. panel' = LivePolled(d, c, out)
    BY <1>1, <1>9 DEF Continue
  <2> QED BY <1>9, <2>1, PollSettled DEF d
<1>10. CASE c.op = "undock"
  <2>1. panel' = Undocked(d, out)
    BY <1>1, <1>10 DEF Continue
  <2> QED BY <1>10, <2>1, UndockSettled DEF d
<1> QED BY <1>2, <1>3, <1>4, <1>5, <1>6, <1>7, <1>8, <1>9, <1>10 DEF Ops

LEMMA ModeTyped ==
  ASSUME NEW p \in Panels, NEW m \in Modes, NEW pip \in BOOLEAN
  PROVE  [p EXCEPT !.presenting = FALSE, !.mode = m, !.pip = pip] \in Panels
BY ZenonT(60) DEF Panels

\* The live window opens, and its loop with it.
LEMMA WindowPresented ==
  ASSUME panel \in Panels, Sound(panel, stored), NEW c \in panel.calls,
         NEW mode \in {"docked", "native-pip", "inline-live"}, Present(c, mode)
  PROVE  panel' \in Panels /\ Sound(panel', stored)
<1> DEFINE d  == Dropped(panel, c)
           pip == mode = "native-pip"
           ls == IF d.liveSnapshot = 0 THEN d.snapshot ELSE d.liveSnapshot
           lt == IF d.liveTask = NoTask THEN d.task ELSE d.liveTask
           wd == d.window \/ mode = "native-pip"
           q  == [d EXCEPT !.presenting = FALSE, !.mode = mode, !.pip = pip, !.window = wd,
                           !.liveSnapshot = ls, !.liveTask = lt]
<1>1. d \in Panels
  BY CallDropped
<1>2. /\ Shown(d) /\ Seen(d) /\ TimingLock(d) /\ PollLock(d)
      /\ PrefsLock(d) /\ WorkLock(d) /\ Granted(d, stored)
      /\ Of(d, "enter") = {} /\ Of(d, "undock") = {}
  <2>1. c.op = "enter"
    BY DEF Present
  <2> QED BY <2>1, LocksDropped
<1>3. panel' = StartLiveLoop(q)
  BY DEF Present, Dropped, ActivateLive
<1>15. d.presenting
  <2>1. panel.presenting
    BY DEF Present, Sound, ViewSound, PresentLock, Held, Of
  <2> QED BY <2>1, CallDropped
<1> HIDE DEF d
<1>16. lt = NoTask => d.abandoned
  BY <1>2, <1>15 DEF Seen, Attached
<1>4. /\ pip \in BOOLEAN /\ wd \in BOOLEAN /\ ls \in Revisions /\ lt \in AnyTask
      /\ mode \in Modes /\ mode # "none" /\ (pip <=> mode = "native-pip")
  BY <1>1 DEF Panels, Modes
<1> HIDE DEF pip, ls, lt, wd
<1>5. q \in Panels
  <2> DEFINE w == [d EXCEPT !.presenting = FALSE, !.mode = mode, !.pip = pip]
  <2>1. w \in Panels
    BY <1>1, <1>4, ModeTyped
  <2>2. q = [w EXCEPT !.window = wd, !.liveSnapshot = ls, !.liveTask = lt]
    OBVIOUS
  <2> HIDE DEF w, q
  <2> QED BY ZenonT(60), <1>4, <2>1, <2>2 DEF Panels
<1>6. /\ q.calls = d.calls /\ q.work = d.work /\ q.asked = d.asked
      /\ q.presenting = FALSE /\ q.polling = d.polling /\ q.default = d.default
      /\ q.closed = d.closed /\ q.timingBusy = d.timingBusy
      /\ q.task = d.task /\ q.revision = d.revision /\ q.pages = d.pages
      /\ q.details = d.details /\ q.timing = d.timing
      /\ q.mode = mode /\ q.hidden = d.hidden /\ q.timer = d.timer
      /\ q.liveTask = lt /\ q.abandoned = d.abandoned
  BY <1>1 DEF Panels
<1> HIDE DEF q
<1>7. \A op : Of(q, op) = Of(d, op) /\ Fresh(q, op) = Fresh(d, op)
  BY <1>6, SameCalls
<1>8. LiveMode(q)
  BY <1>6 DEF LiveMode, DockMode
<1>9. q.timer => LiveMode(q) /\ ~q.hidden
  BY <1>2, <1>6, <1>8 DEF Seen
<1>10. Redrawn(q, StartLiveLoop(q)) /\ Seen(StartLiveLoop(q))
  <2>1. Attached(q)
    BY <1>6, <1>16 DEF Attached
  <2> QED BY <1>5, <1>9, <2>1, LoopStarted
<1>11. Shown(q)
  BY <1>2, <1>6, <1>7, ShownStays
<1>12. PresentLock(q)
  BY <1>2, <1>6, <1>7 DEF PresentLock, Held
<1>13. TimingLock(q) /\ PollLock(q) /\ PrefsLock(q)
  BY <1>2, <1>6, <1>7 DEF TimingLock, PollLock, PrefsLock
<1>14. WorkLock(q) /\ Granted(q, stored)
  BY <1>2, <1>6, <1>7 DEF WorkLock, Granted
<1> QED BY <1>3, <1>10, <1>11, <1>12, <1>13, <1>14, RedrawnKeeps DEF Sound, ViewSound, WorkSound

-----------------------------------------------------------------------------
(* The server, which answers requests, and hosts, which push results.       *)

\* One request is exchanged for itself with its answer.
LEMMA HeldExchanged ==
  ASSUME NEW S, NEW T, NEW lock, NEW c, NEW d, Held(S, lock),
         T = IF c \in S THEN (S \ {c}) \cup {d} ELSE S
  PROVE  Held(T, lock)
BY DEF Held

LEMMA Served ==
  ASSUME version \in [Tasks -> 1..MaxVersion], stored \in BOOLEAN,
         panel \in Panels, Sound(panel, stored), NEW c \in panel.calls, Serve(c)
  PROVE  panel' \in Panels /\ Sound(panel', stored') /\ stored' \in BOOLEAN
<1>1. PICK revision \in IF c.op \in Reads \ {"poll"} THEN {0, version[c.task]}
                        ELSE IF c.op = "poll" THEN {version[c.task]} ELSE {0} :
        panel' = [panel EXCEPT !.calls = (@ \ {c}) \cup
                    {[c EXCEPT !.answer = [version |-> IF c.op \in Reads THEN version[c.task] ELSE 1,
                                           revision |-> revision],
                               !.value = IF c.op = "prefs" THEN stored ELSE c.value]}]
  BY DEF Serve
<1> DEFINE v == IF c.op \in Reads THEN version[c.task] ELSE 1
           b == IF c.op = "prefs" THEN stored ELSE c.value
           a == [version |-> v, revision |-> revision]
           d == [c EXCEPT !.answer = a, !.value = b]
           p == panel
           q == [panel EXCEPT !.calls = (p.calls \ {c}) \cup {d}]
<1>2. panel' = q
  BY <1>1
<1>3. c \in Calls
  BY DEF Panels
<1>4. v \in Revisions /\ revision \in Revisions /\ revision \in {0, v} /\ b \in BOOLEAN
  <2>1. c.op \in Reads => c.task \in Tasks
    BY <1>3 DEF Calls
  <2>2. \A t \in Tasks : version[t] \in 1..MaxVersion
    OBVIOUS
  <2>3. v \in Revisions
    BY <2>1, <2>2, ViewerAssumption DEF Revisions
  <2>4. "poll" \in Reads
    BY DEF Reads
  <2>5. revision \in {0, v}
    BY <2>4
  <2>6. b \in BOOLEAN
    BY <1>3 DEF Calls
  <2> QED BY <2>3, <2>5, <2>6, NoTaskTyped
<1>5. a \in Answers
  BY <1>4 DEF Answers
<1>6. c.op # "enter" /\ c.op # "undock"
  BY DEF Serve, Reads
<1> HIDE DEF v, a
<1>7. d \in Calls /\ d.op = c.op /\ d.task = c.task /\ d.revision = c.revision
      /\ d.fresh = c.fresh /\ d.value = b
  <2>1. /\ d \in [op : Ops, task : AnyTask, revision : Revisions, fresh : BOOLEAN,
                  value : BOOLEAN, answer : Answers]
        /\ d.op = c.op /\ d.task = c.task /\ d.revision = c.revision /\ d.fresh = c.fresh
        /\ d.value = b
    BY <1>3, <1>4, <1>5 DEF Calls
  <2> HIDE DEF d
  <2> QED BY <1>3, <1>6, <2>1 DEF Calls
<1> HIDE DEF d, b
<1>8. q \in Panels
  BY <1>7 DEF Panels
<1>9. /\ q.calls = (p.calls \ {c}) \cup {d} /\ q.work = p.work /\ q.asked = p.asked
      /\ q.presenting = p.presenting /\ q.polling = p.polling /\ q.default = p.default
      /\ q.closed = p.closed /\ q.timingBusy = p.timingBusy
      /\ q.task = p.task /\ q.revision = p.revision /\ q.pages = p.pages
      /\ q.details = p.details /\ q.timing = p.timing
      /\ q.mode = p.mode /\ q.pip = p.pip /\ q.window = p.window
      /\ q.abandoned = p.abandoned /\ q.hidden = p.hidden
      /\ q.liveTask = p.liveTask /\ q.timer = p.timer
  BY DEF Panels
<1> HIDE DEF q
<1>10. \A op : /\ Of(q, op) = IF c \in Of(p, op) THEN (Of(p, op) \ {c}) \cup {d} ELSE Of(p, op)
               /\ Fresh(q, op) = IF c \in Fresh(p, op) THEN (Fresh(p, op) \ {c}) \cup {d}
                                 ELSE Fresh(p, op)
  BY <1>7, <1>9 DEF Of, Fresh
<1>11. Shown(q)
  <2>1. \A x \in Fresh(q, "detail") : x.task = p.task /\ x.revision = p.revision
    BY <1>7, <1>10 DEF Sound, ViewSound, Shown
  <2> QED BY <1>9, <2>1 DEF Sound, ViewSound, Shown
<1>12. Seen(q)
  BY <1>9, SeenStays DEF Sound, ViewSound
<1>13. PollLock(q)
  BY <1>9, <1>10, HeldExchanged DEF Sound, ViewSound, PollLock
<1>14. TimingLock(q)
  BY <1>9, <1>10, HeldExchanged DEF Sound, ViewSound, TimingLock
<1>15. PresentLock(q)
  <2>1. Of(q, "enter") = Of(p, "enter") /\ Of(q, "undock") = Of(p, "undock")
    BY <1>6, <1>10 DEF Of
  <2> QED BY <1>9, <2>1 DEF Sound, ViewSound, PresentLock
<1>16. PrefsLock(q)
  BY ZenonT(60), <1>9, <1>10, HeldExchanged DEF Sound, WorkSound, PrefsLock
<1>17. WorkLock(q)
  <2>1. WorkLock(p)
    BY DEF Sound, WorkSound
  <2>2. Held(Of(q, "save"), p.work.stage = "save")
    BY ZenonT(60), <1>10, <2>1, HeldExchanged DEF WorkLock
  <2>3. Held(Of(q, "load"), p.work.stage = "read" /\ p.work.op = "load")
    BY <1>10, <2>1, HeldExchanged DEF WorkLock
  <2>4. Held(Of(q, "earlier"), p.work.op = "earlier")
    BY ZenonT(60), <1>10, <2>1, HeldExchanged DEF WorkLock
  <2> QED BY <1>9, <2>1, <2>2, <2>3, <2>4 DEF WorkLock
<1>18. Granted(q, stored')
  <2>1. Granted(p, stored) /\ WorkLock(p)
    BY DEF Sound, WorkSound
  <2>2. CASE c.op = "save"
    <3>1. p.work.stage = "save"
      BY <2>1, <2>2 DEF WorkLock, Held, Of
    <3> QED BY <1>9, <2>1, <3>1 DEF Granted
  <2>3. CASE c.op # "save"
    <3>1. stored' = stored
      BY <2>3 DEF Serve
    <3>2. c \in Fresh(p, "prefs") => c.op = "prefs"
      BY DEF Fresh
    <3>3. c \in Fresh(p, "prefs") => (d.value => stored)
      BY <1>7, <3>2 DEF b
    <3>4. p.work.stage = "prefs" /\ p.work.level = "default" =>
            \A x \in Fresh(q, "prefs") : x.value => p.work.granted
      BY <1>10, <2>1, <3>3 DEF Granted
    <3> QED BY <1>9, <2>1, <3>1, <3>4 DEF Granted
  <2> QED BY <2>2, <2>3
<1>19. stored' \in BOOLEAN
  BY <1>3 DEF Serve, Calls
<1> QED BY <1>2, <1>8, <1>11, <1>12, <1>13, <1>14, <1>15, <1>16, <1>17, <1>18, <1>19
        DEF Sound, ViewSound, WorkSound

\* Another task is noted with the reads of the preference.
LEMMA Retagged ==
  ASSUME NEW p \in Panels, NEW s, Sound(p, s), NEW t \in AnyTask, NEW all \in BOOLEAN
  PROVE  LET q == [p EXCEPT !.calls = {IF c.op = "prefs" /\ (all \/ c.fresh)
                                       THEN [c EXCEPT !.task = t] ELSE c : c \in @}]
         IN  q \in Panels /\ Sound(q, s) /\ q.asked = p.asked
<1> DEFINE f(c) == IF c.op = "prefs" /\ (all \/ c.fresh) THEN [c EXCEPT !.task = t] ELSE c
           q    == [p EXCEPT !.calls = {f(c) : c \in p.calls}]
<1>1. ASSUME NEW c \in p.calls
      PROVE  /\ f(c) \in Calls /\ f(c).op = c.op /\ f(c).fresh = c.fresh
             /\ f(c).value = c.value
             /\ c.op # "prefs" => f(c) = c
  <2>1. c \in Calls
    BY DEF Panels
  <2>2. CASE c.op = "prefs" /\ (all \/ c.fresh)
    <3>1. /\ f(c) \in [op : Ops, task : AnyTask, revision : Revisions, fresh : BOOLEAN,
                       value : BOOLEAN, answer : Answers]
          /\ f(c).op = c.op /\ f(c).fresh = c.fresh /\ f(c).value = c.value
      BY <2>1, <2>2 DEF Calls
    <3> QED BY <2>2, <3>1 DEF Calls, Reads
  <2>3. CASE ~(c.op = "prefs" /\ (all \/ c.fresh))
    BY <2>1, <2>3
  <2> QED BY <2>2, <2>3
<1>2. q.calls = {f(c) : c \in p.calls} /\ q \in Panels
  BY <1>1 DEF Panels
<1>3. /\ q.work = p.work /\ q.asked = p.asked
      /\ q.presenting = p.presenting /\ q.polling = p.polling /\ q.default = p.default
      /\ q.closed = p.closed /\ q.timingBusy = p.timingBusy
      /\ q.task = p.task /\ q.revision = p.revision /\ q.pages = p.pages
      /\ q.details = p.details /\ q.timing = p.timing
      /\ q.mode = p.mode /\ q.pip = p.pip /\ q.window = p.window
      /\ q.abandoned = p.abandoned /\ q.hidden = p.hidden
      /\ q.liveTask = p.liveTask /\ q.timer = p.timer
  BY DEF Panels
<1> HIDE DEF f, q
<1>4. \A op : op # "prefs" => Of(q, op) = Of(p, op)
  BY <1>1, <1>2 DEF Of
<1>5. Fresh(q, "prefs") = {f(c) : c \in Fresh(p, "prefs")}
  BY <1>1, <1>2 DEF Fresh
<1>6. SameView(p, q)
  BY <1>3, <1>4 DEF SameView
<1>7. PrefsLock(q)
  BY <1>3, <1>5 DEF Sound, WorkSound, PrefsLock, Held
<1>8. WorkLock(q)
  BY <1>3, <1>4 DEF Sound, WorkSound, WorkLock
<1>9. Granted(q, s)
  <2>1. \A c \in Fresh(p, "prefs") : f(c).value = c.value
    BY <1>1 DEF Fresh
  <2> QED BY <1>3, <1>5, <2>1 DEF Sound, WorkSound, Granted
<1>10. Sound(q, s)
  BY <1>6, <1>7, <1>8, <1>9, WorkedSound DEF Sound, WorkSound
<1> QED BY <1>2, <1>3, <1>10 DEF q, f

\* A pushed result that asks for the preference changes nothing a load waits for.
LEMMA PreferencesJoined ==
  ASSUME NEW p \in Panels, Sound(p, stored)
  PROVE  LET q == LoadViewerPreferences(p, FALSE)
         IN  q \in Panels /\ Sound(q, stored)
<1> DEFINE q == LoadViewerPreferences(p, FALSE)
<1>1. FALSE \in BOOLEAN
  OBVIOUS
<1>2. /\ q \in Panels /\ SameView(p, q) /\ PrefsLock(q) /\ q.work = p.work
      /\ \A op \in Ops \ {"prefs"} : Of(q, op) = Of(p, op)
      /\ p.asked # "never" => q = p
  BY <1>1, PreferencesAsked DEF Sound, WorkSound
<1> HIDE DEF q
<1>3. CASE p.asked # "never"
  BY <1>2, <1>3 DEF q
<1>4. CASE p.asked = "never"
  <2>1. WorkLock(p) /\ p.work.stage # "prefs"
    BY <1>4 DEF Sound, WorkSound, WorkLock
  <2>2. WorkLock(q)
    <3>1. Of(q, "save") = Of(p, "save") /\ Of(q, "load") = Of(p, "load")
          /\ Of(q, "earlier") = Of(p, "earlier")
      BY <1>2 DEF Ops
    <3> QED BY <1>2, <2>1, <3>1 DEF WorkLock
  <2>3. Granted(q, stored)
    BY <1>2, <2>1 DEF Sound, WorkSound, Granted
  <2> QED BY <1>2, <2>2, <2>3, WorkedSound DEF Sound, WorkSound, q
<1> QED BY <1>3, <1>4

LEMMA HostPushed ==
  ASSUME panel \in Panels, Sound(panel, stored), NEW t \in Tasks, NEW a \in Answers,
         NEW kind \in {"trajectory", "limit", "select", "error"}, HostResult(t, a, kind)
  PROVE  panel' \in Panels /\ Sound(panel', stored)
<1> DEFINE later == [panel EXCEPT !.calls = {IF c.op = "prefs" THEN [c EXCEPT !.task = NoTask]
                                             ELSE c : c \in @}]
           shown == CASE kind = "trajectory" -> Render(later, t, a, FALSE)
                      [] kind = "limit"      -> ShowReadLimit(later)
                      [] kind = "select"     -> ShowSessionSelection(later)
           asked == LoadViewerPreferences(shown, FALSE)
           about == IF kind = "trajectory" THEN t ELSE NoTask
           noted == [asked EXCEPT !.calls =
                       {IF c.op = "prefs" /\ c.fresh THEN [c EXCEPT !.task = about]
                        ELSE c : c \in @}]
<1>1. panel' = IF kind = "error" THEN ShowLoadError(later)
               ELSE IF asked.asked = "settled" THEN AfterHostResult(asked, about)
               ELSE noted
  BY DEF HostResult, Act
<1>2. TRUE \in BOOLEAN /\ FALSE \in BOOLEAN /\ NoTask \in AnyTask /\ about \in AnyTask
  BY DEF AnyTask
<1>3. later \in Panels /\ Sound(later, stored)
  <2>1. later = [panel EXCEPT !.calls = {IF c.op = "prefs" /\ (TRUE \/ c.fresh)
                                         THEN [c EXCEPT !.task = NoTask] ELSE c : c \in @}]
    OBVIOUS
  <2> HIDE DEF later
  <2> QED BY <1>2, <2>1, Retagged
<1> HIDE DEF later
<1>4. CASE kind = "error"
  <2>1. panel' = ShowLoadError(later)
    BY <1>1, <1>4
  <2> QED BY <1>3, <2>1, LoadErrorShown, RedrawnSound
<1>5. CASE kind # "error"
  <2>1. Redrawn(later, shown)
    <3>1. CASE kind = "trajectory"
      BY <1>2, <1>3, <3>1, Rendered
    <3>2. CASE kind = "limit"
      BY <1>3, <3>2, ReadLimitShown
    <3>3. CASE kind = "select"
      BY <1>3, <3>3, SelectionShown
    <3> QED BY <1>5, <3>1, <3>2, <3>3
  <2> HIDE DEF shown
  <2>2. shown \in Panels /\ Sound(shown, stored)
    BY <1>3, <2>1, RedrawnSound
  <2>3. asked \in Panels /\ Sound(asked, stored)
    BY <2>2, PreferencesJoined
  <2> HIDE DEF asked, about
  <2>4. CASE asked.asked = "settled"
    <3>1. panel' = AfterHostResult(asked, about)
      BY <1>1, <1>5, <2>4
    <3> QED BY <2>3, <3>1, HostResultApplied, RedrawnSound
  <2>5. CASE asked.asked # "settled"
    <3>1. panel' = noted
      BY <1>1, <1>5, <2>5
    <3>2. noted = [asked EXCEPT !.calls = {IF c.op = "prefs" /\ (FALSE \/ c.fresh)
                                           THEN [c EXCEPT !.task = about] ELSE c : c \in @}]
      OBVIOUS
    <3> HIDE DEF noted
    <3> QED BY <1>2, <2>3, <3>1, <3>2, Retagged
  <2> QED BY <2>4, <2>5
<1> QED BY <1>4, <1>5

-----------------------------------------------------------------------------
(* What the user does, and everybody else.                                  *)

\* A request is sent that nothing of the view or the work depends on yet.
LEMMA SentView ==
  ASSUME NEW p \in Panels, NEW c \in Calls, c.op \in {"save", "load", "earlier"}
  PROVE  LET q == Send(p, c)
         IN  /\ q \in Panels /\ SameView(p, q) /\ q.work = p.work /\ q.asked = p.asked
             /\ q.default = p.default
             /\ Of(q, c.op) = Of(p, c.op) \cup {c}
             /\ \A op : op # c.op => Of(q, op) = Of(p, op) /\ Fresh(q, op) = Fresh(p, op)
<1> DEFINE q == Send(p, c)
<1>1. /\ q \in Panels /\ q = [p EXCEPT !.calls = q.calls]
      /\ Of(q, c.op) = Of(p, c.op) \cup {c}
      /\ \A op : op # c.op => Of(q, op) = Of(p, op) /\ Fresh(q, op) = Fresh(p, op)
  BY SentCall
<1> HIDE DEF q
<1>2. /\ q.work = p.work /\ q.asked = p.asked
      /\ q.presenting = p.presenting /\ q.polling = p.polling /\ q.default = p.default
      /\ q.closed = p.closed /\ q.timingBusy = p.timingBusy
      /\ q.task = p.task /\ q.revision = p.revision /\ q.pages = p.pages
      /\ q.details = p.details /\ q.timing = p.timing
      /\ q.mode = p.mode /\ q.pip = p.pip /\ q.window = p.window
      /\ q.abandoned = p.abandoned /\ q.hidden = p.hidden
      /\ q.liveTask = p.liveTask /\ q.timer = p.timer
  BY <1>1 DEF Panels
<1>3. SameView(p, q)
  BY <1>1, <1>2 DEF SameView
<1> QED BY <1>1, <1>2, <1>3 DEF q

LEMMA EarlierRequested ==
  ASSUME panel \in Panels, Sound(panel, stored), LoadEarlierRecords
  PROVE  panel' \in Panels /\ Sound(panel', stored)
<1> DEFINE w == [NoWork EXCEPT !.op = "earlier", !.stage = "read"]
           r == [panel EXCEPT !.work = w]
           c == Call("earlier", panel.task)
           q == Send(r, c)
<1>1. panel' = q /\ ~Busy(panel) /\ panel.task # NoTask
  BY DEF LoadEarlierRecords, Click, Act
<1>2. PrefsLock(panel) /\ NoneWorking(panel) /\ ViewSound(panel)
  BY <1>1 DEF Sound, WorkSound, WorkLock, Held, NoneWorking, Busy
<1>3. w \in Works /\ w.op = "earlier" /\ w.stage = "read" /\ w.level = "summary"
  BY NoTaskTyped DEF Works, NoWork, Levels
<1>4. panel.task \in Tasks /\ panel.task \in AnyTask
  BY <1>1 DEF Panels, AnyTask
<1>5. c \in Calls /\ c.op = "earlier"
  BY <1>4, CallTyped DEF Ops
<1> HIDE DEF w, c
<1>6. /\ r \in Panels /\ r.work = w /\ r.asked = panel.asked /\ SameView(panel, r)
      /\ \A op : Of(r, op) = Of(panel, op) /\ Fresh(r, op) = Fresh(panel, op)
  BY <1>3, WorkChanged
<1> HIDE DEF r
<1>7. /\ q \in Panels /\ SameView(r, q) /\ q.work = w /\ q.asked = panel.asked
      /\ Of(q, "earlier") = Of(r, "earlier") \cup {c}
      /\ \A op : op # "earlier" => Of(q, op) = Of(r, op) /\ Fresh(q, op) = Fresh(r, op)
  BY ZenonT(60), <1>5, <1>6, SentView
<1> HIDE DEF q
<1>8. PrefsLock(q)
  BY <1>2, <1>6, <1>7 DEF PrefsLock
<1>9. WorkLock(q)
  <2>1. Of(q, "save") = {} /\ Of(q, "load") = {} /\ Of(q, "earlier") = {c}
    BY <1>2, <1>6, <1>7 DEF NoneWorking
  <2> QED BY <1>3, <1>7, <2>1 DEF WorkLock, Held
<1>10. Granted(q, stored)
  BY <1>3, <1>7 DEF Granted
<1> QED BY <1>1, <1>2, <1>6, <1>7, <1>8, <1>9, <1>10, ViewTwice, WorkedSound DEF WorkSound

LEMMA ConsentGiven ==
  ASSUME panel \in Panels, Sound(panel, stored), NEW remember \in BOOLEAN,
         EnableRecordDetails(remember)
  PROVE  panel' \in Panels /\ Sound(panel', stored)
<1> DEFINE w == [NoWork EXCEPT !.op = "enable", !.stage = "save", !.task = panel.task]
           r == [panel EXCEPT !.work = w]
           c == [Call("save", NoTask) EXCEPT !.value = TRUE]
           q == Send(r, c)
<1>1. ~Busy(panel) /\ panel' = IF remember THEN q ELSE EnableDetails(r)
  BY DEF EnableRecordDetails, Click, Act
<1>2. PrefsLock(panel) /\ NoneWorking(panel) /\ ViewSound(panel)
  BY <1>1 DEF Sound, WorkSound, WorkLock, Held, NoneWorking, Busy
<1>3. panel.task \in AnyTask
  BY DEF Panels
<1>4. w \in Works /\ w.op = "enable" /\ w.stage = "save" /\ w.level = "summary"
  BY <1>3, NoTaskTyped DEF Works, NoWork, Levels
<1>5. c \in Calls /\ c.op = "save"
  <2>1. TRUE \in BOOLEAN /\ "save" \in Ops /\ "save" \notin Reads
    BY DEF Ops, Reads
  <2>2. c \in Calls
    BY <2>1, NoTaskTyped, CallTyped
  <2>3. c.op = "save"
    BY DEF Call
  <2> QED BY <2>2, <2>3
<1> HIDE DEF w, c
<1>6. /\ r \in Panels /\ r.work = w /\ r.asked = panel.asked /\ SameView(panel, r)
      /\ \A op : Of(r, op) = Of(panel, op) /\ Fresh(r, op) = Fresh(panel, op)
  BY <1>4, WorkChanged
<1> HIDE DEF r
<1>7. NoneWorking(r) /\ PrefsLock(r) /\ ViewSound(r)
  BY <1>2, <1>6, ViewKept DEF NoneWorking, PrefsLock, ViewSound
<1>8. CASE ~remember
  <2>1. PICK x : Redrawn(r, x) /\ EnableDetails(r) = [x EXCEPT !.work = NoWork]
    BY <1>6, DetailsEnabled
  <2> QED BY <1>1, <1>6, <1>7, <1>8, <2>1, WorkEnded
<1>9. CASE remember
  <2>1. /\ q \in Panels /\ SameView(r, q) /\ q.work = w /\ q.asked = panel.asked
        /\ Of(q, "save") = Of(r, "save") \cup {c}
        /\ \A op : op # "save" => Of(q, op) = Of(r, op) /\ Fresh(q, op) = Fresh(r, op)
    BY ZenonT(60), <1>5, <1>6, SentView
  <2> HIDE DEF q
  <2>2. PrefsLock(q)
    BY <1>6, <1>7, <2>1 DEF PrefsLock
  <2>3. WorkLock(q)
    <3>1. Of(q, "save") = {c} /\ Of(q, "load") = {} /\ Of(q, "earlier") = {}
      BY <1>7, <2>1 DEF NoneWorking
    <3> QED BY <1>4, <2>1, <3>1 DEF WorkLock, Held
  <2>4. Granted(q, stored)
    BY <1>4, <2>1 DEF Granted
  <2> QED BY <1>1, <1>6, <1>7, <1>9, <2>1, <2>2, <2>3, <2>4, WorkedSound DEF WorkSound
<1> QED BY <1>8, <1>9

LEMMA TimingRequested ==
  ASSUME panel \in Panels, Sound(panel, stored), LoadProjectTiming
  PROVE  panel' \in Panels /\ Sound(panel', stored)
<1> DEFINE o == ResetProjectTiming(panel)
           r == [o EXCEPT !.timingBusy = TRUE]
           c == Call("timing", panel.task)
           q == Send(r, c)
<1>1. panel' = q /\ panel.task # NoTask
  BY DEF LoadProjectTiming, Click, Act
<1>2. /\ Redrawn(panel, o) /\ Fresh(o, "timing") = {}
  BY TimingReset
<1> HIDE DEF o
<1>3. o \in Panels /\ Sound(o, stored)
  BY <1>2, RedrawnSound
<1>4. panel.task \in Tasks /\ panel.task \in AnyTask
  BY <1>1 DEF Panels, AnyTask
<1>5. c \in Calls /\ c.op = "timing" /\ c.fresh
  BY <1>4, CallTyped DEF Ops
<1> HIDE DEF c
<1>6. r \in Panels /\ r.calls = o.calls
  BY ZenonT(60), <1>3 DEF Panels
<1>7. /\ q \in Panels /\ q = [r EXCEPT !.calls = q.calls]
      /\ Fresh(q, "timing") = Fresh(r, "timing") \cup {c}
      /\ \A op : op # "timing" => Of(q, op) = Of(r, op) /\ Fresh(q, op) = Fresh(r, op)
  BY <1>5, <1>6, SentCall
<1> HIDE DEF q
<1>8. \A op : Of(r, op) = Of(o, op) /\ Fresh(r, op) = Fresh(o, op)
  BY <1>6, SameCalls
<1>9. /\ q.work = o.work /\ q.asked = o.asked
      /\ q.presenting = o.presenting /\ q.polling = o.polling /\ q.default = o.default
      /\ q.closed = o.closed /\ q.timingBusy = TRUE
      /\ q.task = o.task /\ q.revision = o.revision /\ q.pages = o.pages
      /\ q.details = o.details /\ q.timing = o.timing
      /\ q.mode = o.mode /\ q.pip = o.pip /\ q.window = o.window
      /\ q.abandoned = o.abandoned /\ q.hidden = o.hidden
      /\ q.liveTask = o.liveTask /\ q.timer = o.timer
  <2>1. /\ q.work = r.work /\ q.asked = r.asked
        /\ q.presenting = r.presenting /\ q.polling = r.polling /\ q.default = r.default
        /\ q.closed = r.closed /\ q.timingBusy = r.timingBusy
    BY ZenonT(60), <1>6, <1>7 DEF Panels
  <2>2. /\ q.task = r.task /\ q.revision = r.revision /\ q.pages = r.pages
        /\ q.details = r.details /\ q.timing = r.timing
        /\ q.mode = r.mode /\ q.pip = r.pip /\ q.window = r.window
        /\ q.abandoned = r.abandoned /\ q.hidden = r.hidden
        /\ q.liveTask = r.liveTask /\ q.timer = r.timer
    BY ZenonT(60), <1>6, <1>7 DEF Panels
  <2>3. /\ r.work = o.work /\ r.asked = o.asked
        /\ r.presenting = o.presenting /\ r.polling = o.polling /\ r.default = o.default
        /\ r.closed = o.closed /\ r.timingBusy = TRUE
    BY <1>3 DEF Panels
  <2>4. /\ r.task = o.task /\ r.revision = o.revision /\ r.pages = o.pages
        /\ r.details = o.details /\ r.timing = o.timing
        /\ r.mode = o.mode /\ r.pip = o.pip /\ r.window = o.window
        /\ r.abandoned = o.abandoned /\ r.hidden = o.hidden
        /\ r.liveTask = o.liveTask /\ r.timer = o.timer
    BY <1>3 DEF Panels
  <2> QED  BY <2>1, <2>2, <2>3, <2>4
<1> HIDE DEF r
<1>10. Fresh(q, "timing") = {c}
  BY <1>2, <1>7, <1>8
<1>11. /\ Shown(o) /\ Seen(o) /\ PollLock(o) /\ PresentLock(o)
       /\ PrefsLock(o) /\ WorkLock(o) /\ Granted(o, stored)
  BY <1>3 DEF Sound, ViewSound, WorkSound
<1>12. \A op : op # "timing" => Of(q, op) = Of(o, op) /\ Fresh(q, op) = Fresh(o, op)
  BY <1>7, <1>8
<1>13. Shown(q)
  BY <1>9, <1>11, <1>12, ShownStays
<1>14. Seen(q)
  BY <1>9, <1>11, SeenStays
<1>15. TimingLock(q)
  BY <1>9, <1>10 DEF TimingLock, Held
<1>16. PollLock(q) /\ PresentLock(q) /\ PrefsLock(q)
  <2>1. /\ Of(q, "poll") = Of(o, "poll") /\ Fresh(q, "prefs") = Fresh(o, "prefs")
        /\ Of(q, "enter") = Of(o, "enter") /\ Of(q, "undock") = Of(o, "undock")
    BY <1>12
  <2> QED BY <1>9, <1>11, <2>1 DEF PollLock, PresentLock, PrefsLock
<1>17. WorkLock(q) /\ Granted(q, stored)
  BY ZenonT(60), <1>9, <1>11, <1>12 DEF WorkLock, Granted
<1> QED BY <1>1, <1>7, <1>13, <1>14, <1>15, <1>16, <1>17 DEF Sound, ViewSound, WorkSound

LEMMA LiveEntered ==
  ASSUME panel \in Panels, Sound(panel, stored), EnterLive
  PROVE  panel' \in Panels /\ Sound(panel', stored)
<1> DEFINE p == panel
           b == IF p.full THEN "full" ELSE "summary"
           r == [p EXCEPT !.restore = b, !.presenting = TRUE, !.liveTask = p.task,
                          !.liveSnapshot = p.snapshot, !.liveRevision = 0]
           c == Call("enter", NoTask)
           q == Send(r, c)
<1>1. panel' = q /\ ~p.presenting /\ ~LiveMode(p) /\ p.task # NoTask
  BY DEF EnterLive, Click, Act
<1>2. c \in Calls /\ c.op = "enter" /\ c.fresh
  BY NoTaskTyped, CallTyped DEF Ops, Reads
<1> HIDE DEF c
<1>3. r \in Panels
  BY ZenonT(60), NoTaskTyped DEF Panels
<1>4. r.calls = p.calls
  BY DEF Panels
<1>5. /\ q \in Panels /\ q = [r EXCEPT !.calls = q.calls]
      /\ Of(q, "enter") = Of(r, "enter") \cup {c}
      /\ \A op : op # "enter" => Of(q, op) = Of(r, op) /\ Fresh(q, op) = Fresh(r, op)
  BY ZenonT(60), <1>2, <1>3, SentCall
<1> HIDE DEF q
<1>6. \A op : Of(r, op) = Of(p, op) /\ Fresh(r, op) = Fresh(p, op)
  BY <1>4, SameCalls
<1>7. /\ r.work = p.work /\ r.asked = p.asked
      /\ r.presenting = TRUE /\ r.polling = p.polling /\ r.default = p.default
      /\ r.closed = p.closed /\ r.timingBusy = p.timingBusy
      /\ r.task = p.task /\ r.revision = p.revision /\ r.pages = p.pages
      /\ r.details = p.details /\ r.timing = p.timing
      /\ r.mode = p.mode /\ r.pip = p.pip /\ r.window = p.window
      /\ r.abandoned = p.abandoned /\ r.hidden = p.hidden /\ r.timer = p.timer
      /\ r.liveTask = p.task
  BY DEF Panels
<1> HIDE DEF r
<1>8. /\ q.work = p.work /\ q.asked = p.asked
      /\ q.presenting = TRUE /\ q.polling = p.polling /\ q.default = p.default
      /\ q.closed = p.closed /\ q.timingBusy = p.timingBusy
      /\ q.task = p.task /\ q.revision = p.revision /\ q.pages = p.pages
      /\ q.details = p.details /\ q.timing = p.timing
      /\ q.mode = p.mode /\ q.pip = p.pip /\ q.window = p.window
      /\ q.abandoned = p.abandoned /\ q.hidden = p.hidden /\ q.timer = p.timer
  BY <1>3, <1>5, <1>7 DEF Panels
<1>9. \A op : op # "enter" => Of(q, op) = Of(p, op) /\ Fresh(q, op) = Fresh(p, op)
  BY <1>5, <1>6
<1>10. Of(p, "enter") = {} /\ Of(p, "undock") = {}
  BY <1>1 DEF Sound, ViewSound, PresentLock, Held
<1>11. Shown(q)
  BY <1>8, <1>9, ShownStays DEF Sound, ViewSound
<1>12. Seen(q)
  <2>1. ~LiveMode(q)
    BY <1>1, <1>8 DEF LiveMode, DockMode
  <2>2. q.liveTask = p.task
    BY <1>3, <1>5, <1>7 DEF Panels
  <2>3. Attached(q)
    BY <1>1, <2>2 DEF Attached
  <2> QED BY <1>1, <1>8, <2>1, <2>3 DEF Sound, ViewSound, Seen
<1>13. PresentLock(q)
  <2>1. Of(q, "enter") \cup Of(q, "undock") = {c}
    BY <1>5, <1>6, <1>9, <1>10
  <2> QED BY <1>8, <2>1 DEF PresentLock, Held
<1>14. PollLock(q) /\ TimingLock(q) /\ PrefsLock(q)
  BY <1>8, <1>9 DEF Sound, ViewSound, WorkSound, PollLock, TimingLock, PrefsLock
<1>15. WorkLock(q) /\ Granted(q, stored)
  BY ZenonT(60), <1>8, <1>9 DEF Sound, WorkSound, WorkLock, Granted
<1> QED BY <1>1, <1>5, <1>11, <1>12, <1>13, <1>14, <1>15 DEF Sound, ViewSound, WorkSound

LEMMA LiveLeft ==
  ASSUME panel \in Panels, Sound(panel, stored), stored \in BOOLEAN,
         NEW undock \in BOOLEAN, ExitLive(undock)
  PROVE  panel' \in Panels /\ Sound(panel', stored)
<1> DEFINE p == panel
           r == [p EXCEPT !.presenting = TRUE]
           c == Call("undock", NoTask)
           q == Send(r, c)
<1>1. /\ ~p.presenting
      /\ panel' = IF undock THEN q ELSE IF DockMode(p) THEN FinishLiveWindow(p, TRUE)
                  ELSE CloseNative(p)
  BY DEF ExitLive, Act
<1>2. CASE ~undock
  BY <1>1, <1>2, WindowLeft
<1>3. CASE undock
  <2>2. c \in Calls /\ c.op = "undock" /\ c.fresh
    BY NoTaskTyped, CallTyped DEF Ops, Reads
  <2> HIDE DEF c
  <2>3. r \in Panels /\ r.calls = p.calls
    BY DEF Panels
  <2>5. /\ q \in Panels /\ q = [r EXCEPT !.calls = q.calls]
        /\ Of(q, "undock") = Of(r, "undock") \cup {c}
        /\ \A op : op # "undock" => Of(q, op) = Of(r, op) /\ Fresh(q, op) = Fresh(r, op)
    BY <2>2, <2>3, SentCall
  <2> HIDE DEF q
  <2>6. \A op : Of(r, op) = Of(p, op) /\ Fresh(r, op) = Fresh(p, op)
    BY <2>3, SameCalls
  <2>8. /\ q.work = p.work /\ q.asked = p.asked
        /\ q.presenting = TRUE /\ q.polling = p.polling /\ q.default = p.default
        /\ q.closed = p.closed /\ q.timingBusy = p.timingBusy
        /\ q.task = p.task /\ q.revision = p.revision /\ q.pages = p.pages
        /\ q.details = p.details /\ q.timing = p.timing
        /\ q.mode = p.mode /\ q.pip = p.pip /\ q.window = p.window
        /\ q.abandoned = p.abandoned /\ q.hidden = p.hidden /\ q.timer = p.timer
        /\ q.liveTask = p.liveTask
    <3>1. /\ r.work = p.work /\ r.asked = p.asked
          /\ r.presenting = TRUE /\ r.polling = p.polling /\ r.default = p.default
          /\ r.closed = p.closed /\ r.timingBusy = p.timingBusy
          /\ r.task = p.task /\ r.revision = p.revision /\ r.pages = p.pages
          /\ r.details = p.details /\ r.timing = p.timing
          /\ r.mode = p.mode /\ r.pip = p.pip /\ r.window = p.window
          /\ r.abandoned = p.abandoned /\ r.hidden = p.hidden /\ r.timer = p.timer
          /\ r.liveTask = p.liveTask
      BY DEF Panels
    <3> HIDE DEF r
    <3> QED BY <2>3, <2>5, <3>1 DEF Panels
  <2> HIDE DEF r
  <2>9. \A op : op # "undock" => Of(q, op) = Of(p, op) /\ Fresh(q, op) = Fresh(p, op)
    BY <2>5, <2>6
  <2>10. Of(p, "enter") = {} /\ Of(p, "undock") = {}
    BY <1>1 DEF Sound, ViewSound, PresentLock, Held
  <2>11. Shown(q)
    BY <2>8, <2>9, ShownStays DEF Sound, ViewSound
  <2>12. Seen(q)
    <3>1. LiveMode(q) /\ LiveMode(p)
      BY <1>3, <2>8 DEF ExitLive, LiveMode, DockMode
    <3> QED BY <2>8, <3>1 DEF Sound, ViewSound, Seen, Attached
  <2>13. PresentLock(q)
    <3>1. Of(q, "enter") \cup Of(q, "undock") = {c}
      BY <2>5, <2>6, <2>9, <2>10
    <3> QED BY <2>8, <3>1 DEF PresentLock, Held
  <2>14. PollLock(q) /\ TimingLock(q) /\ PrefsLock(q)
    BY <2>8, <2>9 DEF Sound, ViewSound, WorkSound, PollLock, TimingLock, PrefsLock
  <2>15. WorkLock(q) /\ Granted(q, stored)
    BY <2>8, <2>9 DEF Sound, WorkSound, WorkLock, Granted
  <2> QED BY <1>1, <1>3, <2>5, <2>11, <2>12, <2>13, <2>14, <2>15
          DEF Sound, ViewSound, WorkSound
<1> QED BY <1>2, <1>3

LEMMA TimerFired ==
  ASSUME panel \in Panels, Sound(panel, stored), TimerFires
  PROVE  panel' \in Panels /\ Sound(panel', stored)
<1> DEFINE p    == panel
           u    == [p EXCEPT !.timer = FALSE]
           poll == [Call("poll", p.liveTask) EXCEPT !.revision = p.liveRevision]
           r    == [u EXCEPT !.polling = TRUE]
           q    == Send(r, poll)
           asks == LiveMode(u) /\ ~u.polling /\ ~u.hidden /\ u.liveTask # NoTask
<1>1. p.timer /\ panel' = IF asks THEN q ELSE u
  BY DEF TimerFires
<1>2. u \in Panels
  BY ZenonT(60) DEF Panels
<1>3. /\ u.calls = p.calls /\ u.work = p.work /\ u.asked = p.asked
      /\ u.presenting = p.presenting /\ u.polling = p.polling /\ u.default = p.default
      /\ u.closed = p.closed /\ u.timingBusy = p.timingBusy
      /\ u.task = p.task /\ u.revision = p.revision /\ u.pages = p.pages
      /\ u.details = p.details /\ u.timing = p.timing
      /\ u.mode = p.mode /\ u.pip = p.pip /\ u.window = p.window
      /\ u.abandoned = p.abandoned /\ u.hidden = p.hidden /\ ~u.timer
      /\ u.liveTask = p.liveTask
  BY DEF Panels
<1> HIDE DEF u
<1>4. \A op : Of(u, op) = Of(p, op) /\ Fresh(u, op) = Fresh(p, op)
  BY <1>3, SameCalls
<1>5. Shown(u)
  BY <1>3, <1>4, ShownStays DEF Sound, ViewSound
<1>6. /\ PollLock(u) /\ TimingLock(u) /\ PresentLock(u) /\ PrefsLock(u)
  <2>1. PollLock(u) /\ TimingLock(u)
    BY <1>3, <1>4 DEF Sound, ViewSound, PollLock, TimingLock
  <2>2. PresentLock(u)
    <3>1. Of(u, "enter") = Of(p, "enter") /\ Of(u, "undock") = Of(p, "undock")
      BY <1>4
    <3>2. PresentLock(p) /\ u.presenting = p.presenting
      BY <1>3 DEF Sound, ViewSound
    <3> QED BY <3>1, <3>2 DEF PresentLock
  <2>3. PrefsLock(u)
    BY <1>3, <1>4 DEF Sound, WorkSound, PrefsLock
  <2> QED BY <2>1, <2>2, <2>3
<1>7. WorkLock(u) /\ Granted(u, stored)
  BY <1>3, <1>4 DEF Sound, WorkSound, WorkLock, Granted
<1>8. Seen(p) /\ (LiveMode(u) <=> LiveMode(p)) /\ Attached(u)
  <2>1. LiveMode(u) <=> LiveMode(p)
    BY <1>3 DEF LiveMode, DockMode
  <2> QED BY <1>3, <2>1 DEF Sound, ViewSound, Seen, Attached
<1>9. CASE ~asks
  <2>1. Seen(u)
    BY <1>1, <1>3, <1>8, <1>9 DEF Seen
  <2> QED BY <1>1, <1>2, <1>5, <1>6, <1>7, <1>9, <2>1 DEF Sound, ViewSound, WorkSound
<1>10. CASE asks
  <2>1. p.liveTask \in Tasks /\ p.liveTask \in AnyTask /\ p.liveRevision \in Revisions
    BY <1>3, <1>10 DEF Panels, AnyTask
  <2>2. poll \in Calls
    BY <2>1, CallTyped DEF Ops
  <2>3. poll.op = "poll"
    BY DEF Call
  <2> HIDE DEF poll
  <2>4. r \in Panels
    BY ZenonT(60), <1>2 DEF Panels
  <2>5. /\ r.calls = u.calls /\ r.work = u.work /\ r.asked = u.asked
        /\ r.presenting = u.presenting /\ r.polling = TRUE /\ r.default = u.default
        /\ r.closed = u.closed /\ r.timingBusy = u.timingBusy
        /\ r.task = u.task /\ r.revision = u.revision /\ r.pages = u.pages
        /\ r.details = u.details /\ r.timing = u.timing
        /\ r.mode = u.mode /\ r.pip = u.pip /\ r.window = u.window
        /\ r.abandoned = u.abandoned /\ r.hidden = u.hidden /\ r.timer = u.timer
        /\ r.liveTask = u.liveTask
    BY <1>2 DEF Panels
  <2> HIDE DEF r
  <2>6. \A op : Of(r, op) = Of(u, op) /\ Fresh(r, op) = Fresh(u, op)
    BY <2>5, SameCalls
  <2>7. /\ q \in Panels /\ q = [r EXCEPT !.calls = q.calls]
        /\ Of(q, "poll") = Of(r, "poll") \cup {poll}
        /\ \A op : op # "poll" => Of(q, op) = Of(r, op) /\ Fresh(q, op) = Fresh(r, op)
    BY <2>2, <2>3, <2>4, SentCall
  <2> HIDE DEF q
  <2>8. /\ q.work = r.work /\ q.asked = r.asked
        /\ q.presenting = r.presenting /\ q.polling = r.polling /\ q.default = r.default
        /\ q.closed = r.closed /\ q.timingBusy = r.timingBusy
        /\ q.task = r.task /\ q.revision = r.revision /\ q.pages = r.pages
        /\ q.details = r.details /\ q.timing = r.timing
        /\ q.mode = r.mode /\ q.pip = r.pip /\ q.window = r.window
        /\ q.abandoned = r.abandoned /\ q.hidden = r.hidden /\ q.timer = r.timer
        /\ q.liveTask = r.liveTask
    BY <2>4, <2>7 DEF Panels
  <2>9. /\ Fresh(q, "detail") = Fresh(u, "detail") /\ Fresh(q, "timing") = Fresh(u, "timing")
        /\ Fresh(q, "prefs") = Fresh(u, "prefs")
        /\ Of(q, "enter") = Of(u, "enter") /\ Of(q, "undock") = Of(u, "undock")
        /\ Of(q, "save") = Of(u, "save") /\ Of(q, "load") = Of(u, "load")
        /\ Of(q, "earlier") = Of(u, "earlier")
    BY <2>6, <2>7
  <2>10. Shown(q)
    BY <1>5, <2>5, <2>8, <2>9, ShownStays
  <2>11. Seen(q)
    <3>1. LiveMode(q) <=> LiveMode(u)
      BY <2>5, <2>8 DEF LiveMode, DockMode
    <3> QED BY <1>3, <1>8, <2>5, <2>8, <3>1 DEF Seen, Attached
  <2>12. PollLock(q)
    <3>1. Of(u, "poll") = {}
      BY <1>6, <1>10 DEF PollLock, Held
    <3>2. Of(q, "poll") = {poll}
      BY <2>6, <2>7, <3>1
    <3> QED BY <2>5, <2>8, <3>2 DEF PollLock, Held
  <2>13. TimingLock(q) /\ PresentLock(q) /\ PrefsLock(q)
    BY <1>6, <2>5, <2>8, <2>9 DEF TimingLock, PresentLock, PrefsLock
  <2>14. WorkLock(q) /\ Granted(q, stored)
    BY ZenonT(60), <1>7, <2>5, <2>8, <2>9 DEF WorkLock, Granted
  <2> QED BY <1>1, <1>10, <2>7, <2>10, <2>11, <2>12, <2>13, <2>14
          DEF Sound, ViewSound, WorkSound
<1> QED BY <1>9, <1>10

\* A consent that another panel gives or withdraws.
LEMMA ConsentChanged ==
  ASSUME panel \in Panels, Sound(panel, stored), stored \in BOOLEAN, OtherPanel
  PROVE  panel' \in Panels /\ Sound(panel', stored') /\ stored' \in BOOLEAN
<1> DEFINE p == panel
           g == p.work.granted \/ (Busy(p) /\ stored')
           w == [p.work EXCEPT !.granted = g]
           q == [p EXCEPT !.work = w]
<1>1. stored' \in BOOLEAN
  BY DEF OtherPanel
<1>2. panel' = q
  <2>1. [panel EXCEPT !.work.granted = @ \/ (Busy(panel) /\ stored')] = q
    BY DEF Panels
  <2> QED BY <2>1 DEF OtherPanel, Act
<1>3. p.work \in Works
  BY DEF Panels
<1>4. g \in BOOLEAN /\ (p.work.granted => g) /\ (Busy(p) /\ stored' => g)
  OBVIOUS
<1> HIDE DEF g
<1>5. /\ w \in Works /\ w.op = p.work.op /\ w.stage = p.work.stage /\ w.level = p.work.level
      /\ w.forget = p.work.forget /\ w.enable = p.work.enable /\ w.granted = g
  BY <1>3, <1>4 DEF Works
<1> HIDE DEF w
<1>6. /\ q \in Panels /\ q.work = w /\ q.asked = p.asked /\ SameView(p, q)
      /\ \A op : Of(q, op) = Of(p, op) /\ Fresh(q, op) = Fresh(p, op)
  BY <1>5, WorkChanged
<1> HIDE DEF q
<1>7. PrefsLock(q)
  BY <1>6 DEF Sound, WorkSound, PrefsLock
<1>8. WorkLock(q)
  BY <1>5, <1>6 DEF Sound, WorkSound, WorkLock
<1>9. Granted(q, stored')
  <2>1. p.work.stage = "prefs" => Busy(p)
    BY DEF Sound, WorkSound, WorkLock, Busy
  <2> QED BY <1>4, <1>5, <1>6, <2>1 DEF Sound, WorkSound, Granted
<1> QED BY <1>1, <1>2, <1>6, <1>7, <1>8, <1>9, WorkedSound DEF Sound, WorkSound

LEMMA VisibilityChanged ==
  ASSUME panel \in Panels, Sound(panel, stored), VisibilityChange
  PROVE  panel' \in Panels /\ Sound(panel', stored)
<1> DEFINE p == panel
           h == ~p.hidden
           q == [p EXCEPT !.hidden = h]
           u == [q EXCEPT !.timer = FALSE]
           x == IF ~LiveMode(q) THEN q ELSE IF q.hidden THEN u ELSE StartLiveLoop(u)
<1>1. panel' = x
  BY DEF VisibilityChange, Act
<1>2. h \in BOOLEAN
  OBVIOUS
<1> HIDE DEF h
<1>3. q \in Panels
  BY <1>2 DEF Panels
<1>4. /\ q.calls = p.calls /\ q.work = p.work /\ q.asked = p.asked
      /\ q.presenting = p.presenting /\ q.polling = p.polling /\ q.default = p.default
      /\ q.closed = p.closed /\ q.timingBusy = p.timingBusy
      /\ q.task = p.task /\ q.revision = p.revision /\ q.pages = p.pages
      /\ q.details = p.details /\ q.timing = p.timing
      /\ q.mode = p.mode /\ q.pip = p.pip /\ q.window = p.window
      /\ q.abandoned = p.abandoned /\ q.timer = p.timer
      /\ q.liveTask = p.liveTask
  BY DEF Panels
<1> HIDE DEF q
<1>5. u \in Panels
  BY ZenonT(60), <1>3 DEF Panels
<1>6. /\ u.calls = q.calls /\ u.work = q.work /\ u.asked = q.asked
      /\ u.presenting = q.presenting /\ u.polling = q.polling /\ u.default = q.default
      /\ u.closed = q.closed /\ u.timingBusy = q.timingBusy
      /\ u.task = q.task /\ u.revision = q.revision /\ u.pages = q.pages
      /\ u.details = q.details /\ u.timing = q.timing
      /\ u.mode = q.mode /\ u.pip = q.pip /\ u.window = q.window
      /\ u.abandoned = q.abandoned /\ ~u.timer /\ u.hidden = q.hidden
      /\ u.liveTask = q.liveTask
  BY <1>3 DEF Panels
<1> HIDE DEF u
<1>7. \A op : /\ Of(q, op) = Of(p, op) /\ Fresh(q, op) = Fresh(p, op)
              /\ Of(u, op) = Of(p, op) /\ Fresh(u, op) = Fresh(p, op)
  BY <1>4, <1>6, SameCalls
<1>8. Shown(q) /\ Shown(u)
  BY <1>4, <1>6, <1>7, ShownStays DEF Sound, ViewSound
<1>9. /\ PollLock(q) /\ TimingLock(q) /\ PresentLock(q) /\ PrefsLock(q)
  <2>1. PollLock(q) /\ TimingLock(q)
    BY <1>4, <1>7 DEF Sound, ViewSound, PollLock, TimingLock
  <2>2. PresentLock(q)
    BY <1>4, <1>7 DEF Sound, ViewSound, PresentLock
  <2>3. PrefsLock(q)
    BY <1>4, <1>7 DEF Sound, WorkSound, PrefsLock
  <2> QED BY <2>1, <2>2, <2>3
<1>10. /\ PollLock(u) /\ TimingLock(u) /\ PresentLock(u) /\ PrefsLock(u)
  BY <1>6, <1>7, <1>9 DEF PollLock, TimingLock, PresentLock, PrefsLock
<1>11. WorkLock(q) /\ Granted(q, stored)
  BY <1>4, <1>7 DEF Sound, WorkSound, WorkLock, Granted
<1>12. WorkLock(u) /\ Granted(u, stored)
  BY ZenonT(60), <1>6, <1>7, <1>11 DEF WorkLock, Granted
<1>16. Attached(u)
  <2>1. LiveMode(u) <=> LiveMode(p)
    BY <1>4, <1>6 DEF LiveMode, DockMode
  <2> QED BY <1>4, <1>6, <2>1 DEF Sound, ViewSound, Seen, Attached
<1>13. CASE ~LiveMode(q)
  <2>1. ~LiveMode(p)
    BY <1>4, <1>13 DEF LiveMode, DockMode
  <2>2. Seen(q)
    BY <1>4, <1>13, <2>1 DEF Sound, ViewSound, Seen, Attached
  <2> QED BY <1>1, <1>3, <1>8, <1>9, <1>11, <1>13, <2>2 DEF Sound, ViewSound, WorkSound
<1>14. CASE LiveMode(q) /\ q.hidden
  <2>1. Seen(u)
    BY <1>6, <1>14, <1>16 DEF Seen
  <2> QED BY <1>1, <1>5, <1>8, <1>10, <1>12, <1>14, <2>1 DEF Sound, ViewSound, WorkSound
<1>15. CASE LiveMode(q) /\ ~q.hidden
  <2>1. Redrawn(u, StartLiveLoop(u)) /\ Seen(StartLiveLoop(u))
    BY <1>5, <1>6, <1>16, LoopStarted
  <2> QED BY <1>1, <1>8, <1>10, <1>12, <1>15, <2>1, RedrawnKeeps
          DEF Sound, ViewSound, WorkSound
<1> QED BY <1>13, <1>14, <1>15

LEMMA ClosedTyped ==
  ASSUME NEW p \in Panels
  PROVE  [p EXCEPT !.closed = TRUE, !.timer = FALSE, !.mode = "none"] \in Panels
BY ZenonT(60), NoTaskTyped DEF Panels

LEMMA PanelClosed ==
  ASSUME panel \in Panels, Sound(panel, stored), Teardown
  PROVE  panel' \in Panels /\ Sound(panel', stored)
<1> DEFINE r == ResetProjectTiming(ResetRecordDetails(panel))
           q == [r EXCEPT !.closed = TRUE, !.timer = FALSE, !.mode = "none"]
<1>1. panel' = q
  BY DEF Teardown, Act
<1>2. Redrawn(panel, r)
  BY AllReset
<1> HIDE DEF r
<1>3. r \in Panels /\ Sound(r, stored)
  BY <1>2, RedrawnSound
<1>4. q \in Panels
  BY <1>3, ClosedTyped
<1>5. /\ q.calls = r.calls /\ q.work = r.work /\ q.asked = r.asked
      /\ q.presenting = r.presenting /\ q.polling = r.polling /\ q.default = r.default
      /\ q.closed = TRUE /\ q.timingBusy = r.timingBusy
      /\ q.task = r.task /\ q.revision = r.revision /\ q.pages = r.pages
      /\ q.details = r.details /\ q.timing = r.timing /\ ~q.timer
      /\ q.mode = "none" /\ q.pip = r.pip /\ q.window = r.window
      /\ q.abandoned = r.abandoned /\ q.liveTask = r.liveTask
  BY <1>3 DEF Panels
<1> HIDE DEF q
<1>6. Shown(r) => Shown(q)
  BY <1>5, SameCalls, ShownStays
<1>7. Seen(q)
  <2>1. LiveMode(q) => LiveMode(r)
    BY <1>5 DEF LiveMode, DockMode
  <2>2. Attached(r)
    BY <1>3 DEF Sound, ViewSound, Seen
  <2>3. Attached(q)
    BY <1>5, <2>1, <2>2 DEF Attached
  <2> QED BY <1>5, <2>3 DEF Seen
<1>8. Redrawn(r, q)
  BY <1>3, <1>4, <1>5, <1>6, <1>7, CallsKept
<1> QED BY <1>1, <1>3, <1>8, RedrawnSound

\* A task is chosen, read again, or shown without its details.
LEMMA TaskChosen ==
  ASSUME panel \in Panels, Sound(panel, stored), stored \in BOOLEAN,
         (\E t \in Tasks : SelectTask(t)) \/ Refresh \/ UseSummary
  PROVE  panel' \in Panels /\ Sound(panel', stored)
<1>1. SUFFICES \E t \in Tasks, level \in Levels, forget \in BOOLEAN :
                 /\ level = "default" => ~forget
                 /\ panel' = LoadSession(panel, t, level, forget)
  <2>1. ViewSound(panel) /\ WorkSound(panel, stored)
    BY DEF Sound
  <2> QED BY <1>1, <2>1, SessionLoaded, WorkedSound
<1>2. TRUE \in BOOLEAN /\ FALSE \in BOOLEAN /\ Levels = {"summary", "full", "default"}
  BY DEF Levels
<1>3. ASSUME NEW t \in Tasks, SelectTask(t)
      PROVE  panel' = LoadSession(panel, t, "default", FALSE)
  BY <1>3 DEF SelectTask, Click, Act
<1>4. panel.task # NoTask => panel.task \in Tasks
  BY DEF Panels, AnyTask
<1>5. ASSUME Refresh
      PROVE  /\ panel.task # NoTask
             /\ panel' = LoadSession(panel, panel.task,
                                     IF panel.full THEN "full" ELSE "summary", FALSE)
  BY <1>5 DEF Refresh, Click, Act
<1>6. ASSUME UseSummary
      PROVE  panel.task # NoTask /\ panel' = LoadSession(panel, panel.task, "summary", TRUE)
  BY <1>6 DEF UseSummary, Click, Act
<1> DEFINE level == IF panel.full THEN "full" ELSE "summary"
<1>7. level \in Levels /\ level # "default"
  BY <1>2
<1> HIDE DEF level
<1>8. CASE \E t \in Tasks : SelectTask(t)
  BY <1>2, <1>3, <1>8
<1>9. CASE Refresh
  BY <1>2, <1>4, <1>5, <1>7, <1>9 DEF level
<1>10. CASE UseSummary
  BY <1>2, <1>4, <1>6, <1>10
<1> QED BY <1>8, <1>9, <1>10

-----------------------------------------------------------------------------
(* The invariant, and what it says of every panel.                         *)

ViewerInv ==
    /\ version \in [Tasks -> 1..MaxVersion] /\ stored \in BOOLEAN /\ acts \in 0..MaxActs
    /\ panel \in Panels
    /\ Sound(panel, stored)

LEMMA EmptyTyped ==
  EmptyPanel \in Panels
<1>1. NoWork \in Works
  BY NoWorkTyped
<1> QED BY <1>1, NoTaskTyped DEF EmptyPanel, Panels, Modes

LEMMA OpenTyped ==
  ASSUME NEW p \in Panels, NEW t \in AnyTask, NEW v \in Revisions, NEW w \in SUBSET Revisions
  PROVE  [p EXCEPT !.task = t, !.revision = v, !.snapshot = v, !.pages = w] \in Panels
BY DEF Panels

LEMMA KnownTyped ==
  ASSUME NEW p \in Panels, NEW b \in BOOLEAN
  PROVE  [p EXCEPT !.asked = "settled", !.default = b, !.full = b] \in Panels
BY ZenonT(60) DEF Panels

LEMMA ViewerStarts == ViewerInit => ViewerInv
<1> SUFFICES ASSUME ViewerInit PROVE ViewerInv
  OBVIOUS
<1>1. 1 \in 1..MaxVersion /\ 1 \in Revisions /\ 0 \in 0..MaxActs
  BY ViewerAssumption DEF Revisions
<1>2. version \in [Tasks -> 1..MaxVersion] /\ stored \in BOOLEAN /\ acts \in 0..MaxActs
  BY <1>1 DEF ViewerInit
<1>3. CASE panel = EmptyPanel
  <2>1. panel \in Panels
    BY <1>3, EmptyTyped
  <2>2. /\ \A op : Of(panel, op) = {} /\ Fresh(panel, op) = {}
        /\ panel.work = NoWork /\ panel.asked = "never" /\ ~panel.timingBusy
        /\ ~panel.presenting /\ ~panel.polling /\ ~panel.timer
        /\ panel.revision = 0 /\ panel.details = {} /\ panel.timing = NoTask
        /\ panel.mode = "none" /\ ~panel.pip /\ ~panel.window
    BY <1>3 DEF EmptyPanel, Of, Fresh
  <2>3. Shown(panel) /\ Seen(panel)
    BY <2>2 DEF Shown, Seen, Attached, LiveMode, DockMode
  <2>4. PollLock(panel) /\ TimingLock(panel) /\ PresentLock(panel) /\ PrefsLock(panel)
    BY <2>2 DEF PollLock, TimingLock, PresentLock, PrefsLock, Held
  <2>5. WorkLock(panel) /\ Granted(panel, stored)
    BY <2>2, NoWorkTyped DEF WorkLock, Granted, Held
  <2> QED BY <1>2, <2>1, <2>3, <2>4, <2>5 DEF ViewerInv, Sound, ViewSound, WorkSound
<1>4. ASSUME NEW t \in Tasks, panel = OpenedPanel(t)
      PROVE  ViewerInv
  <2> DEFINE e == EmptyPanel
             o == [e EXCEPT !.task = t, !.revision = 1, !.snapshot = 1, !.pages = {1}]
  <2>1. panel = [o EXCEPT !.asked = "settled", !.default = stored, !.full = stored]
    BY <1>4 DEF OpenedPanel
  <2>2. e \in Panels
    BY EmptyTyped
  <2>3. t \in AnyTask /\ {1} \in SUBSET Revisions
    BY <1>1 DEF AnyTask
  <2>4. /\ e.calls = {} /\ e.work = NoWork /\ ~e.timingBusy
        /\ ~e.presenting /\ ~e.polling /\ ~e.timer
        /\ e.details = {} /\ e.timing = NoTask /\ e.mode = "none" /\ ~e.pip /\ ~e.window
    BY DEF EmptyPanel
  <2> HIDE DEF e
  <2>5. o \in Panels /\ panel \in Panels
    <3>1. o \in Panels
      BY <1>1, <2>2, <2>3, OpenTyped
    <3> HIDE DEF o
    <3> QED BY <1>2, <2>1, <3>1, KnownTyped
  <2>6. /\ panel.calls = {} /\ panel.work = NoWork /\ panel.asked = "settled"
        /\ ~panel.timingBusy /\ ~panel.presenting /\ ~panel.polling /\ ~panel.timer
        /\ panel.revision = 1 /\ panel.pages = {1} /\ panel.details = {}
        /\ panel.timing = NoTask /\ panel.mode = "none" /\ ~panel.pip /\ ~panel.window
    BY <2>1, <2>2, <2>4 DEF Panels
  <2>7. \A op : Of(panel, op) = {} /\ Fresh(panel, op) = {}
    BY <2>6 DEF Of, Fresh
  <2>8. Shown(panel) /\ Seen(panel)
    BY <2>6, <2>7 DEF Shown, Seen, Attached, LiveMode, DockMode
  <2>9. PollLock(panel) /\ TimingLock(panel) /\ PresentLock(panel) /\ PrefsLock(panel)
    BY <2>6, <2>7 DEF PollLock, TimingLock, PresentLock, PrefsLock, Held
  <2>10. WorkLock(panel) /\ Granted(panel, stored)
    BY <2>6, <2>7, NoWorkTyped DEF WorkLock, Granted, Held
  <2> QED BY <1>2, <2>5, <2>8, <2>9, <2>10 DEF ViewerInv, Sound, ViewSound, WorkSound
<1> QED BY <1>3, <1>4 DEF ViewerInit

LEMMA ViewerSteps == ViewerInv /\ [ViewerNext]_viewerVars => ViewerInv'
<1> SUFFICES ASSUME ViewerInv, [ViewerNext]_viewerVars PROVE ViewerInv'
  OBVIOUS
<1>1. /\ panel \in Panels /\ Sound(panel, stored) /\ stored \in BOOLEAN
      /\ version \in [Tasks -> 1..MaxVersion] /\ acts \in 0..MaxActs
  BY DEF ViewerInv
<1> DEFINE Rest == version' = version /\ acts' = acts
           Held2 == panel' \in Panels /\ Sound(panel', stored') /\ stored' \in BOOLEAN
<1>2. ASSUME Rest, Held2
      PROVE  ViewerInv'
  BY <1>1, <1>2 DEF ViewerInv
\* (An act is counted.)
<1>3. ASSUME NEW p, Act(p), Held2
      PROVE  ViewerInv'
  <2>1. acts' \in 0..MaxActs /\ version' = version
    BY <1>1, <1>3, ViewerAssumption DEF Act
  <2> QED BY <1>1, <1>3, <2>1 DEF ViewerInv
<1>4. ASSUME panel' \in Panels, Sound(panel', stored), stored' = stored
      PROVE  Held2
  BY <1>1, <1>4
<1>5. CASE UNCHANGED viewerVars
  <2>1. panel' = panel /\ stored' = stored /\ Rest
    BY <1>5 DEF viewerVars
  <2> QED BY <1>1, <1>2, <2>1
<1>6. ASSUME NEW t \in Tasks, Grow(t)
      PROVE  ViewerInv'
  <2>1. /\ version' = [version EXCEPT ![t] = @ + 1] /\ version[t] < MaxVersion
        /\ panel' = panel /\ stored' = stored /\ acts' = acts
    BY <1>6 DEF Grow
  <2>2. version' \in [Tasks -> 1..MaxVersion]
    BY <1>1, <2>1, ViewerAssumption
  <2> QED BY <1>1, <2>1, <2>2 DEF ViewerInv
<1> HIDE DEF Held2
<1>7. ASSUME NEW c \in panel.calls, Serve(c)
      PROVE  ViewerInv'
  <2>1. Rest
    BY <1>7 DEF Serve
  <2> QED BY <1>1, <1>2, <1>7, <2>1, Served DEF Held2
<1>8. ASSUME NEW c \in panel.calls, Answer(c) \/ Refuse(c) \/ Fail(c) \/ Undock(c)
      PROVE  ViewerInv'
  <2>1. stored' = stored /\ Rest
    BY <1>8 DEF Answer, Refuse, Fail, Undock
  <2>2. c \in Calls
    BY <1>1 DEF Panels
  <2>3. c.op = "enter" => c.answer = NoAnswer
    BY <2>2 DEF Calls
  <2>4. PICK out \in {"ok", "limit", "fail"} :
          /\ Settle(c, out) /\ c.op # "enter"
          /\ out = "ok" => c.answer # NoAnswer \/ c.op = "undock"
    <3>1. CASE Answer(c)
      BY <2>3, <3>1 DEF Answer
    <3>2. CASE Refuse(c)
      BY <3>2 DEF Refuse
    <3>3. CASE Fail(c)
      BY <3>3 DEF Fail
    <3>4. CASE Undock(c)
      BY <3>4 DEF Undock
    <3> QED BY <1>8, <3>1, <3>2, <3>3, <3>4
  <2>5. panel' \in Panels /\ Sound(panel', stored)
    BY <1>1, <2>4, Settled
  <2> QED BY <1>2, <1>4, <2>1, <2>5
<1>9. ASSUME NEW c \in panel.calls,
             NEW mode \in {"docked", "native-pip", "inline-live"}, Present(c, mode)
      PROVE  ViewerInv'
  <2>1. stored' = stored /\ Rest
    BY <1>9 DEF Present
  <2>2. panel' \in Panels /\ Sound(panel', stored)
    BY <1>1, <1>9, WindowPresented
  <2> QED BY <1>2, <1>4, <2>1, <2>2
<1>10. ASSUME NEW t \in Tasks, NEW v \in 1..version[t], NEW r \in {0, v},
              NEW kind \in {"trajectory", "limit", "select", "error"},
              HostResult(t, [version |-> v, revision |-> r], kind)
       PROVE  ViewerInv'
  <2> DEFINE a == [version |-> v, revision |-> r]
  <2>1. a \in Answers
    <3>1. version[t] \in 1..MaxVersion
      BY <1>1
    <3>2. v \in Revisions /\ r \in Revisions
      BY <3>1, ViewerAssumption DEF Revisions
    <3> QED BY <3>2 DEF Answers
  <2>2. stored' = stored /\ \E p : Act(p)
    BY <1>10 DEF HostResult
  <2> HIDE DEF a
  <2>3. panel' \in Panels /\ Sound(panel', stored)
    BY <1>1, <1>10, <2>1, HostPushed DEF a
  <2> QED BY <1>3, <1>4, <2>2, <2>3
<1>11. CASE OtherPanel
  <2>1. \E p : Act(p)
    BY <1>11 DEF OtherPanel
  <2> QED BY <1>1, <1>3, <1>11, <2>1, ConsentChanged DEF Held2
<1>12. CASE HostInline \/ LeavePictureInPicture
  <2>1. stored' = stored /\ (Act(FinishLiveWindow(panel, TRUE)) \/ Act(CloseNative(panel)))
    BY <1>12 DEF HostInline, LeavePictureInPicture
  <2>2. panel' = FinishLiveWindow(panel, TRUE) \/ panel' = CloseNative(panel)
    BY <2>1 DEF Act
  <2>3. panel' \in Panels /\ Sound(panel', stored)
    BY <1>1, <2>2, WindowLeft
  <2> QED BY <1>3, <1>4, <2>1, <2>3
<1>13. CASE VisibilityChange
  <2>1. stored' = stored /\ \E p : Act(p)
    BY <1>13 DEF VisibilityChange
  <2> QED BY <1>1, <1>3, <1>4, <1>13, <2>1, VisibilityChanged
<1>14. CASE Teardown
  <2>1. stored' = stored /\ \E p : Act(p)
    BY <1>14 DEF Teardown
  <2> QED BY <1>1, <1>3, <1>4, <1>14, <2>1, PanelClosed
<1>15. CASE (\E t \in Tasks : SelectTask(t)) \/ Refresh \/ UseSummary
  <2>1. stored' = stored /\ \E p : Act(p)
    BY <1>15 DEF SelectTask, Refresh, UseSummary, Click
  <2> QED BY <1>1, <1>3, <1>4, <1>15, <2>1, TaskChosen
<1>16. CASE LoadEarlierRecords
  <2>1. stored' = stored /\ \E p : Act(p)
    BY <1>16 DEF LoadEarlierRecords, Click
  <2> QED BY <1>1, <1>3, <1>4, <1>16, <2>1, EarlierRequested
<1>17. CASE SelectRecord
  <2>1. stored' = stored /\ Act(LoadRecordDetails(panel))
    BY <1>17 DEF SelectRecord, Click
  <2>2. panel' = LoadRecordDetails(panel)
    BY <2>1 DEF Act
  <2>3. panel' \in Panels /\ Sound(panel', stored)
    BY <1>1, <2>2, DetailsAsked, RedrawnSound
  <2> QED BY <1>3, <1>4, <2>1, <2>3
<1>18. CASE LoadProjectTiming
  <2>1. stored' = stored /\ \E p : Act(p)
    BY <1>18 DEF LoadProjectTiming, Click
  <2> QED BY <1>1, <1>3, <1>4, <1>18, <2>1, TimingRequested
<1>19. CASE EnterLive
  <2>1. stored' = stored /\ \E p : Act(p)
    BY <1>19 DEF EnterLive, Click
  <2> QED BY <1>1, <1>3, <1>4, <1>19, <2>1, LiveEntered
<1>20. CASE TimerFires
  <2>1. stored' = stored /\ Rest
    BY <1>20 DEF TimerFires
  <2> QED BY <1>1, <1>2, <1>4, <1>20, <2>1, TimerFired
<1>21. ASSUME NEW choice \in BOOLEAN, EnableRecordDetails(choice)
       PROVE  ViewerInv'
  <2>1. stored' = stored /\ \E p : Act(p)
    BY <1>21 DEF EnableRecordDetails, Click
  <2> QED BY <1>1, <1>3, <1>4, <1>21, <2>1, ConsentGiven
<1>22. ASSUME NEW choice \in BOOLEAN, ExitLive(choice)
       PROVE  ViewerInv'
  <2>1. stored' = stored /\ \E p : Act(p)
    BY <1>22 DEF ExitLive
  <2> QED BY <1>1, <1>3, <1>4, <1>22, <2>1, LiveLeft
<1> HIDE DEF Rest
<1> QED BY <1>5, <1>6, <1>7, <1>8, <1>9, <1>10, <1>11, <1>12, <1>13, <1>14, <1>15, <1>16,
           <1>17, <1>18, <1>19, <1>20, <1>21, <1>22 DEF ViewerNext

LEMMA ViewerHolds == ViewerSpec => []ViewerInv
<1>1. ViewerInit => ViewerInv
  BY ViewerStarts
<1>2. ViewerInv /\ [ViewerNext]_viewerVars => ViewerInv'
  BY ViewerSteps
<1> QED BY <1>1, <1>2, PTL DEF ViewerSpec

\* What the page holds is always what its handlers expect of it.
THEOREM ViewerTypeCorrect == ViewerSpec => []ViewerTypeOK
<1>1. ViewerInv => ViewerTypeOK
  <2> SUFFICES ASSUME ViewerInv PROVE ViewerTypeOK
    OBVIOUS
  <2>1. panel \in Panels
    BY DEF ViewerInv
  <2>2. DOMAIN panel = DOMAIN EmptyPanel
    BY <2>1, EmptyTyped DEF Panels
  <2>3. panel.work.op \in {"idle", "load", "earlier", "enable"}
    BY <2>1 DEF Panels, Works
  <2>4. /\ panel.task \in Tasks \cup {NoTask} /\ panel.revision \in 0..MaxVersion
        /\ panel.details \subseteq Tasks \X (1..MaxVersion)
        /\ panel.mode \in {"none", "docked", "native-pip", "inline-live"}
    BY <2>1 DEF Panels, AnyTask, Revisions, Modes
  <2> QED BY <2>2, <2>3, <2>4 DEF ViewerInv, ViewerTypeOK
<1> QED BY <1>1, ViewerHolds, PTL

\* Records, earlier pages, details and timing on the screen are of one task and
\* of one revision, however requests, pushes and clicks interleave.
THEOREM ShownStaysTogether == ViewerSpec => []ShownHoldsTogether
<1>1. ViewerInv => ShownHoldsTogether
  BY DEF ViewerInv, Sound, ViewSound, Shown, ShownHoldsTogether
<1> QED BY <1>1, ViewerHolds, PTL

\* A choice of a task never turns details on by a consent withdrawn before it.
THEOREM ConsentStaysFresh == ViewerSpec => []ConsentIsFresh
<1>1. ViewerInv => ConsentIsFresh
  BY DEF ViewerInv, Sound, WorkSound, Granted, ConsentIsFresh
<1> QED BY <1>1, ViewerHolds, PTL

\* A window that can be seen always has its next poll planned or under way, and
\* one request for it at a time, except one whose task the page gave up: such a
\* window, which does not poll, is left only by a selection or a read limit that
\* came while it was open or about to open.
THEOREM PollingGoesOn == ViewerSpec => []PollingNeverStalls
<1>1. ViewerInv => PollingNeverStalls
  <2> SUFFICES ASSUME ViewerInv PROVE PollingNeverStalls
    OBVIOUS
  <2>1. Seen(panel) /\ PollLock(panel)
    BY DEF ViewerInv, Sound, ViewSound
  <2>2. Cardinality(Of(panel, "poll")) = IF panel.polling THEN 1 ELSE 0
    <3>1. CASE panel.polling
      <4>1. PICK c : Of(panel, "poll") = {c}
        BY <2>1, <3>1 DEF PollLock, Held
      <4> QED BY <3>1, <4>1, FS_Singleton
    <3>2. CASE ~panel.polling
      <4>1. Of(panel, "poll") = {}
        BY <2>1, <3>2 DEF PollLock, Held
      <4> QED BY <3>2, <4>1, FS_EmptySet
    <3> QED BY <3>1, <3>2
  <2> QED BY <2>1, <2>2 DEF Seen, Attached, Of, PollingNeverStalls
<1> QED BY <1>1, ViewerHolds, PTL

\* No control stays locked without a request that will unlock it, whether that
\* is answered, refused, times out or is cut off.
THEOREM LocksComeFree == ViewerSpec => []LocksAreHeldByRequests
<1>1. ViewerInv => LocksAreHeldByRequests
  <2> SUFFICES ASSUME ViewerInv PROVE LocksAreHeldByRequests
    OBVIOUS
  <2>1. /\ WorkLock(panel) /\ PrefsLock(panel) /\ TimingLock(panel) /\ PresentLock(panel)
        /\ panel \in Panels
    BY DEF ViewerInv, Sound, ViewSound, WorkSound
  <2>2. panel.work.stage \in {"", "prefs", "save", "read"}
        /\ panel.work.op \in {"idle", "load", "earlier", "enable"}
    BY <2>1 DEF Panels, Works
  <2>3. ASSUME Busy(panel)
        PROVE  \E c1 \in panel.calls :
                 \/ panel.work.stage = "prefs" /\ c1.op = "prefs" /\ c1.fresh
                 \/ panel.work.stage = "save" /\ c1.op = "save"
                 \/ panel.work.stage = "read" /\ c1.op = panel.work.op
    <3>1. panel.work.stage # "" /\ panel.work.op # "idle"
      BY <2>1, <2>3 DEF WorkLock, Busy
    <3>2. CASE panel.work.stage = "prefs"
      BY <2>1, <3>2 DEF WorkLock, PrefsLock, Held, Fresh
    <3>3. CASE panel.work.stage = "save"
      BY <2>1, <3>3 DEF WorkLock, Held, Of
    <3>4. CASE panel.work.stage = "read"
      <4>1. panel.work.op \in {"load", "earlier"}
        BY <2>1, <2>2, <3>1, <3>4 DEF WorkLock
      <4>2. Of(panel, panel.work.op) # {}
        BY <2>1, <3>4, <4>1 DEF WorkLock, Held
      <4> QED BY <3>4, <4>2 DEF Of
    <3> QED BY <2>2, <3>1, <3>2, <3>3, <3>4
  <2>4. panel.work.stage # "" => Busy(panel)
    BY <2>1 DEF WorkLock, Busy
  <2>5. panel.timingBusy <=> \E c1 \in panel.calls : c1.op = "timing" /\ c1.fresh
    BY <2>1 DEF TimingLock, Held, Fresh
  <2>6. panel.presenting <=> \E c1 \in panel.calls : c1.op \in {"enter", "undock"}
    <3>1. Of(panel, "enter") \cup Of(panel, "undock")
            = {c1 \in panel.calls : c1.op \in {"enter", "undock"}}
      BY DEF Of
    <3> QED BY <2>1, <3>1 DEF PresentLock, Held
  <2>7. Busy(panel) <=> \E c1 \in panel.calls :
                 \/ panel.work.stage = "prefs" /\ c1.op = "prefs" /\ c1.fresh
                 \/ panel.work.stage = "save" /\ c1.op = "save"
                 \/ panel.work.stage = "read" /\ c1.op = panel.work.op
    BY <2>3, <2>4
  <2> QED BY <2>5, <2>6, <2>7 DEF LocksAreHeldByRequests
<1> QED BY <1>1, ViewerHolds, PTL
==============================================================================
