------------------------------- MODULE Viewer -------------------------------
(* The panel of assets/trajectory.html and the requests it sends through      *)
(* assets/mcp-app-bridge.js.  The page is one JavaScript thread: what runs    *)
(* between two awaits is one step, and everything else may happen while a     *)
(* request is pending.  Requests may be answered in any order.                *)
(*                                                                            *)
(* The content of a task is the version of its log it was read at.  A         *)
(* revision names a version; an answer that was computed while its log grew   *)
(* claims none (0).                                                           *)
EXTENDS Naturals, FiniteSets

CONSTANTS Tasks,       \* tasks with a log
          NoTask,
          MaxVersion,  \* bound: versions of a log
          MaxCalls,    \* bound: requests pending at once
          MaxActs      \* bound: what user, host and another panel do

ASSUME ViewerAssumption ==
    /\ NoTask \notin Tasks
    /\ MaxVersion \in Nat \ {0} /\ MaxCalls \in Nat \ {0} /\ MaxActs \in Nat

VARIABLES version,   \* Tasks -> the version of the log now
          stored,    \* the preference "default to full details" on disk
          panel,     \* everything the page holds
          acts       \* how often user, host and another panel have acted

viewerVars == <<version, stored, panel, acts>>

NoAnswer == [version |-> 0, revision |-> 0]
Call(op, task) ==
    [op |-> op, task |-> task, revision |-> 0, fresh |-> TRUE, value |-> FALSE,
     answer |-> NoAnswer]
NoWork == [op |-> "idle", stage |-> "", task |-> NoTask, level |-> "summary",
           forget |-> FALSE, enable |-> FALSE, granted |-> FALSE]

\* `data` with its revision, the caches bound to it, and the live window (window:
\* the browser shows the native one, document.pictureInPictureElement).
\* (withdrawn: the user took the consent to details back and nobody has given it
\* since.  abandoned: the page gave up the task of a live window that stays open,
\* or that is about to open.)
EmptyPanel ==
    [calls |-> {}, closed |-> FALSE, hidden |-> FALSE,
     task |-> NoTask, revision |-> 0, snapshot |-> 0, pages |-> {},
     full |-> FALSE, details |-> {}, timing |-> NoTask, timingBusy |-> FALSE,
     asked |-> "never", default |-> FALSE, work |-> NoWork,
     mode |-> "none", pip |-> FALSE, window |-> FALSE, presenting |-> FALSE,
     restore |-> "summary", liveTask |-> NoTask, liveRevision |-> 0, liveSnapshot |-> 0,
     polling |-> FALSE, timer |-> FALSE, withdrawn |-> FALSE, abandoned |-> FALSE]

\* A panel that shows a task, and has asked for the preference.
OpenedPanel(t) ==
    [EmptyPanel EXCEPT !.task = t, !.revision = 1, !.snapshot = 1, !.pages = {1},
                       !.asked = "settled", !.default = stored, !.full = stored]

ViewerInit ==
    /\ version = [t \in Tasks |-> 1] /\ stored \in BOOLEAN /\ acts = 0
    /\ panel \in {EmptyPanel} \cup {OpenedPanel(t) : t \in Tasks}

-----------------------------------------------------------------------------
(* The functions of the page, from one state of the panel to the next.     *)

Send(p, call) == [p EXCEPT !.calls = @ \cup {call}]

\* A generation counter that moved on: pending answers are no longer current.
Outdated(p, op) ==
    [p EXCEPT !.calls = {IF c.op = op THEN [c EXCEPT !.fresh = FALSE] ELSE c : c \in @}]

DockMode(p) == p.mode \in {"docked", "inline-live"}
LiveMode(p) == DockMode(p) \/ p.mode = "native-pip" \/ p.pip \/ p.window
Busy(p)     == p.work.op # "idle"

ResetRecordDetails(p) == [Outdated(p, "detail") EXCEPT !.details = {}]
ResetProjectTiming(p) ==
    [Outdated(p, "timing") EXCEPT !.timing = NoTask, !.timingBusy = FALSE]

ScheduleLiveRefresh(p) == [p EXCEPT !.timer = LiveMode(p) /\ ~p.hidden]
StartLiveLoop(p) ==
    IF LiveMode(p) /\ ~p.polling /\ ~p.timer THEN ScheduleLiveRefresh(p) ELSE p

\* (mutant of LoadViewerPreferences) Choosing a task trusts what was read before.
LoadViewerPreferencesOnce(p, refresh) ==
    IF p.asked # "never" THEN p
    ELSE Send([Outdated(p, "prefs") EXCEPT !.asked = "pending"], Call("prefs", NoTask))

\* One read of the preference is shared by all who wait; a refresh supersedes it.
LoadViewerPreferences(p, refresh) ==
    IF p.asked # "never" /\ ~refresh THEN p
    ELSE Send([Outdated(p, "prefs") EXCEPT !.asked = "pending"], Call("prefs", NoTask))

ReadSession(p) ==
    LET enable == p.work.level = "full" \/ (p.work.level = "default" /\ p.default)
    IN Send([p EXCEPT !.work.stage = "read", !.work.enable = enable],
            Call("load", p.work.task))

AfterPreferences(p) ==
    IF p.work.forget
    THEN Send([p EXCEPT !.work.stage = "save"], Call("save", NoTask))
    ELSE ReadSession(p)

\* loadSession up to its first pending request.  (granted: the preference was on
\* at some moment since it began.)
LoadSession(p, task, level, forget) ==
    LET work == [NoWork EXCEPT !.op = "load", !.stage = "prefs", !.task = task,
                               !.level = level, !.forget = forget, !.granted = stored]
        q    == LoadViewerPreferences([p EXCEPT !.work = work], level = "default")
    IN IF Busy(p) THEN p
       ELSE IF q.asked = "settled" THEN AfterPreferences(q) ELSE q

\* (A native window stays open, without its task.)
ShowSessionSelection(p) ==
    [ResetProjectTiming(ResetRecordDetails(p)) EXCEPT
       !.full = FALSE, !.timer = FALSE, !.mode = "none", !.liveTask = NoTask,
       !.liveRevision = 0, !.liveSnapshot = 0,
       !.abandoned = p.pip \/ p.window \/ p.presenting,
       !.task = NoTask, !.revision = 0, !.snapshot = 0, !.pages = {}]

FinishLiveWindow(p, reload) ==
    LET q == [p EXCEPT !.mode = "none", !.pip = FALSE, !.timer = FALSE,
                       !.liveTask = NoTask, !.liveRevision = 0, !.liveSnapshot = 0,
                       !.abandoned = p.window \/ p.presenting]
    IN IF reload /\ p.task # NoTask /\ p.task = p.liveTask
       THEN LoadSession(q, p.task, p.restore, FALSE) ELSE q

ShowReadLimit(p) ==
    LET q == IF LiveMode(p) THEN FinishLiveWindow(p, FALSE) ELSE p
    IN IF q.task = NoTask THEN ShowSessionSelection(q) ELSE q

ShowLoadError(p) == IF p.task = NoTask THEN ShowSessionSelection(p) ELSE p

\* A snapshot replaces what is shown, with everything that was bound to it.
Render(p, task, answer, keepDetailMode) ==
    LET q == ResetProjectTiming(ResetRecordDetails(p))
    IN StartLiveLoop([q EXCEPT
         !.full = @ /\ (keepDetailMode \/ p.task = task),
         !.task = task, !.revision = answer.revision,
         !.snapshot = answer.version, !.pages = {answer.version},
         !.liveSnapshot = IF LiveMode(p) /\ task = p.liveTask THEN answer.version ELSE @])

\* An earlier page joins what is shown.
Prepend(p, answer) ==
    StartLiveLoop([p EXCEPT
      !.pages = @ \cup {answer.version}, !.revision = answer.revision,
      !.liveSnapshot = IF LiveMode(p) /\ p.task = p.liveTask THEN p.snapshot ELSE @])

LoadRecordDetails(p) ==
    IF p.full /\ p.task # NoTask /\ ~\E c \in p.calls : c.op = "detail" /\ c.fresh
    THEN Send(p, [Call("detail", p.task) EXCEPT !.revision = p.revision]) ELSE p

EnableDetails(p) ==
    [(IF p.task = p.work.task
      THEN LoadRecordDetails([p EXCEPT !.full = TRUE, !.withdrawn = FALSE]) ELSE p)
       EXCEPT !.work = NoWork]

ActivateLive(p, mode) ==
    StartLiveLoop([p EXCEPT
      !.presenting = FALSE, !.mode = mode, !.pip = mode = "native-pip",
      !.window = @ \/ mode = "native-pip",
      !.liveSnapshot = IF @ = 0 THEN p.snapshot ELSE @,
      !.liveTask = IF @ = NoTask THEN p.task ELSE @])

\* receiveHostResult once the preference is known, if no later result came.
AfterHostResult(p, task) ==
    IF p.default /\ p.task = task /\ task # NoTask /\ ~Busy(p) /\ ~LiveMode(p)
    THEN [p EXCEPT !.full = TRUE, !.withdrawn = FALSE] ELSE p

-----------------------------------------------------------------------------
(* What follows the await of each request.  `p` no longer holds the call,  *)
(* `out` is "ok", "limit" (the log is larger than may be read) or "fail"   *)
(* (an error, the timeout of the bridge, or a panel that was closed).      *)

PreferencesRead(p, c, out) ==
    LET known == IF c.fresh THEN [p EXCEPT !.asked = "settled",
                                           !.default = out = "ok" /\ c.value] ELSE p
        waits == c.fresh /\ p.work.stage = "prefs"
    IN AfterHostResult(IF waits THEN AfterPreferences(known) ELSE known, c.task)

\* (mutant of DefaultSaved) A save that fails leaves the controls locked.
DefaultSavedStuck(p, c, out) ==
    LET q == IF out = "ok" THEN [p EXCEPT !.default = c.value] ELSE p
    IN IF p.work.op = "enable" THEN EnableDetails(q)
       ELSE IF out = "ok" THEN ReadSession(q) ELSE q

DefaultSaved(p, c, out) ==
    LET q == IF out = "ok" THEN [p EXCEPT !.default = c.value] ELSE p
    IN IF p.work.op = "enable" THEN EnableDetails(q)
       ELSE IF out = "ok" THEN ReadSession(q) ELSE [q EXCEPT !.work = NoWork]

SessionRead(p, c, out) ==
    [(CASE out = "ok"    -> Render([p EXCEPT !.full = p.work.enable,
                                 !.withdrawn = p.work.forget \/ (@ /\ p.work.level # "default")],
                               c.task, c.answer, TRUE)
        [] out = "limit" -> ShowReadLimit(p)
        [] OTHER         -> ShowLoadError(p)) EXCEPT !.work = NoWork]

\* (mutant of EarlierRead) The page is merged whatever revision is shown by now.
EarlierReadUnchecked(p, c, out) ==
    [(CASE out = "ok" /\ p.task = c.task -> Prepend(p, c.answer)
        [] out = "limit"                 -> ShowReadLimit(p)
        [] OTHER                         -> ShowLoadError(p)) EXCEPT !.work = NoWork]

EarlierRead(p, c, out) ==
    [(CASE out = "ok" /\ p.task = c.task /\ p.revision = c.answer.revision
                         -> Prepend(p, c.answer)
        [] out = "limit" -> ShowReadLimit(p)
        [] OTHER         -> ShowLoadError(p)) EXCEPT !.work = NoWork]

DetailsRead(p, c, out) ==
    LET current == c.fresh /\ p.full /\ p.task = c.task
    IN IF current /\ out = "limit" THEN ShowReadLimit(p)
       ELSE IF current /\ out = "ok" /\ c.answer.revision = c.revision
       THEN [p EXCEPT !.details = @ \cup {<<c.task, c.answer.version>>}]
       ELSE p

TimingRead(p, c, out) ==
    IF ~c.fresh THEN p
    ELSE [p EXCEPT !.timingBusy = FALSE,
                   !.timing = IF out = "ok" /\ p.task = c.task THEN c.task ELSE @]

\* (mutant of LivePolled) A poll that fails is the last.
LivePolledOnce(p, c, out) ==
    LET unchanged == c.revision # 0 /\ c.answer.revision = c.revision
        r == [p EXCEPT !.polling = FALSE]
    IN IF ~LiveMode(p) \/ p.liveTask # c.task THEN ScheduleLiveRefresh(r)
       ELSE IF out = "limit" THEN ScheduleLiveRefresh(ShowReadLimit(r))
       ELSE IF out = "ok"
       THEN ScheduleLiveRefresh([r EXCEPT !.liveRevision = c.answer.revision,
                             !.liveSnapshot = IF unchanged THEN @ ELSE c.answer.version])
       ELSE r

LivePolled(p, c, out) ==
    LET unchanged == c.revision # 0 /\ c.answer.revision = c.revision
        q == IF ~LiveMode(p) \/ p.liveTask # c.task THEN p
             ELSE IF out = "limit" THEN ShowReadLimit(p)
             ELSE IF out = "ok"
             THEN [p EXCEPT !.liveRevision = c.answer.revision,
                            !.liveSnapshot = IF unchanged THEN @ ELSE c.answer.version]
             ELSE p
        r == [q EXCEPT !.polling = FALSE]
    IN IF LiveMode(r) THEN ScheduleLiveRefresh(r) ELSE r

\* The host went back to inline before the live window is closed.
Undocked(p, out) ==
    LET q == [p EXCEPT !.presenting = FALSE]
    IN IF out = "ok" /\ DockMode(p) THEN FinishLiveWindow(q, TRUE) ELSE q

Continue(p, c, out) ==
    CASE c.op = "prefs"   -> PreferencesRead(p, c, out)
      [] c.op = "save"    -> DefaultSaved(p, c, out)
      [] c.op = "load"    -> SessionRead(p, c, out)
      [] c.op = "earlier" -> EarlierRead(p, c, out)
      [] c.op = "detail"  -> DetailsRead(p, c, out)
      [] c.op = "timing"  -> TimingRead(p, c, out)
      [] c.op = "poll"    -> LivePolled(p, c, out)
      [] c.op = "undock"  -> Undocked(p, out)

\* A request leaves `pending` with its answer, its timeout or the teardown, and
\* whatever answers it afterwards finds nothing: receive and request.
Settle(c, out) ==
    panel' = Continue([panel EXCEPT !.calls = @ \ {c}], c, out)

-----------------------------------------------------------------------------
(* The environment: the server, the host and another panel.                *)

Reads == {"load", "earlier", "detail", "timing", "poll"}

Grow(t) ==
    /\ version[t] < MaxVersion
    /\ version' = [version EXCEPT ![t] = @ + 1]
    /\ UNCHANGED <<stored, panel, acts>>

\* The server handles a request; its answer is on the way.
Serve(c) ==
    /\ c.answer = NoAnswer /\ c.op \in Reads \cup {"prefs", "save"}
    /\ \E revision \in IF c.op \in Reads \ {"poll"} THEN {0, version[c.task]}
                       ELSE IF c.op = "poll" THEN {version[c.task]} ELSE {0} :
         LET answer == [version |-> IF c.op \in Reads THEN version[c.task] ELSE 1,
                        revision |-> revision]
             value  == IF c.op = "prefs" THEN stored ELSE c.value
         IN panel' = [panel EXCEPT !.calls = (@ \ {c}) \cup
                        {[c EXCEPT !.answer = answer, !.value = value]}]
    /\ stored' = IF c.op = "save" THEN c.value ELSE stored
    /\ UNCHANGED <<version, acts>>

Answer(c) ==
    /\ c.answer # NoAnswer /\ ~panel.closed
    /\ Settle(c, "ok") /\ UNCHANGED <<version, stored, acts>>

Refuse(c) ==
    /\ c.op \in {"load", "earlier", "detail", "poll"} /\ ~panel.closed
    /\ Settle(c, "limit") /\ UNCHANGED <<version, stored, acts>>

Fail(c) ==
    /\ c.op # "enter" /\ Settle(c, "fail") /\ UNCHANGED <<version, stored, acts>>

\* The host docks the panel, or the browser opens a native window, or neither.
Present(c, mode) ==
    /\ c.op = "enter"
    /\ mode = "docked" => ~panel.closed
    /\ panel' = ActivateLive([panel EXCEPT !.calls = @ \ {c}], mode)
    /\ UNCHANGED <<version, stored, acts>>

Undock(c) ==
    /\ c.op = "undock" /\ ~panel.closed
    /\ Settle(c, "ok") /\ UNCHANGED <<version, stored, acts>>

\* One step of user, host or another panel, which leaves the panel as `p`.
Act(p) ==
    /\ acts < MaxActs /\ acts' = acts + 1
    /\ Cardinality(p.calls) <= MaxCalls
    /\ panel' = p /\ UNCHANGED version

\* The host hands over the result of a tool: receiveHostResult.
HostResult(t, answer, kind) ==
    LET later == [panel EXCEPT !.calls = {IF c.op = "prefs" THEN [c EXCEPT !.task = NoTask]
                                          ELSE c : c \in @}]
        shown == CASE kind = "trajectory" -> Render(later, t, answer, FALSE)
                   [] kind = "limit"      -> ShowReadLimit(later)
                   [] kind = "select"     -> ShowSessionSelection(later)
        asked == LoadViewerPreferences(shown, FALSE)
        about == IF kind = "trajectory" THEN t ELSE NoTask
    IN /\ ~panel.closed /\ UNCHANGED stored
       /\ Act(IF kind = "error" THEN ShowLoadError(later)
              ELSE IF asked.asked = "settled" THEN AfterHostResult(asked, about)
              ELSE [asked EXCEPT !.calls =
                      {IF c.op = "prefs" /\ c.fresh THEN [c EXCEPT !.task = about]
                       ELSE c : c \in @}])

\* Another panel gives or withdraws the consent.
OtherPanel ==
    /\ stored' = ~stored
    /\ Act([panel EXCEPT !.work.granted = @ \/ (Busy(panel) /\ stored')])

HostInline ==
    /\ ~panel.closed /\ panel.mode = "docked"
    /\ Act(FinishLiveWindow(panel, TRUE)) /\ UNCHANGED stored

\* The browser closes the native window, on its own or because it was asked to.
CloseNative(p) ==
    LET q == [p EXCEPT !.window = FALSE]
    IN IF DockMode(q) THEN q ELSE FinishLiveWindow(q, TRUE)

LeavePictureInPicture ==
    /\ panel.window
    /\ Act(CloseNative(panel)) /\ UNCHANGED stored

VisibilityChange ==
    LET q == [panel EXCEPT !.hidden = ~@]
    IN /\ UNCHANGED stored
       /\ Act(IF ~LiveMode(q) THEN q
              ELSE IF q.hidden THEN [q EXCEPT !.timer = FALSE]
              ELSE StartLiveLoop([q EXCEPT !.timer = FALSE]))

Teardown ==
    /\ ~panel.closed /\ UNCHANGED stored
    /\ Act([ResetProjectTiming(ResetRecordDetails(panel)) EXCEPT
               !.closed = TRUE, !.timer = FALSE, !.mode = "none"])

-----------------------------------------------------------------------------
(* The user, whose controls are hidden behind a docked live window.        *)

Click(p) == ~DockMode(panel) /\ Act(p) /\ UNCHANGED stored

SelectTask(t) ==
    ~Busy(panel) /\ Click(LoadSession(panel, t, "default", FALSE))

Refresh ==
    /\ ~Busy(panel) /\ panel.task # NoTask
    /\ Click(LoadSession(panel, panel.task,
                         IF panel.full THEN "full" ELSE "summary", FALSE))

UseSummary ==
    /\ ~Busy(panel) /\ panel.task # NoTask /\ panel.full
    /\ Click(LoadSession(panel, panel.task, "summary", TRUE))

LoadEarlierRecords ==
    LET work == [NoWork EXCEPT !.op = "earlier", !.stage = "read"]
    IN /\ ~Busy(panel) /\ panel.task # NoTask
       /\ Click(Send([panel EXCEPT !.work = work], Call("earlier", panel.task)))

EnableRecordDetails(remember) ==
    LET work == [NoWork EXCEPT !.op = "enable", !.stage = "save", !.task = panel.task]
        q    == [panel EXCEPT !.work = work]
    IN /\ ~Busy(panel) /\ panel.task # NoTask /\ ~panel.full
       /\ Click(IF remember
                THEN Send(q, [Call("save", NoTask) EXCEPT !.value = TRUE])
                ELSE EnableDetails(q))

SelectRecord == Click(LoadRecordDetails(panel)) /\ panel' # panel

LoadProjectTiming ==
    /\ ~panel.timingBusy /\ panel.task # NoTask
    /\ Click(Send([ResetProjectTiming(panel) EXCEPT !.timingBusy = TRUE],
                  Call("timing", panel.task)))

EnterLive ==
    /\ panel.task # NoTask
    /\ ~Busy(panel) /\ ~panel.presenting /\ ~LiveMode(panel)
    /\ Click(Send([panel EXCEPT
         !.restore = IF panel.full THEN "full" ELSE "summary", !.presenting = TRUE,
         !.liveTask = panel.task, !.liveSnapshot = panel.snapshot, !.liveRevision = 0],
         Call("enter", NoTask)))

ExitLive(undock) ==
    /\ LiveMode(panel) /\ ~panel.presenting /\ UNCHANGED stored
    /\ undock => panel.mode = "docked"
    /\ Act(IF undock
           THEN Send([panel EXCEPT !.presenting = TRUE], Call("undock", NoTask))
           ELSE IF DockMode(panel) THEN FinishLiveWindow(panel, TRUE)
           ELSE CloseNative(panel))

\* The timer of the live window: refreshLiveTrajectory up to its request.
TimerFires ==
    LET q    == [panel EXCEPT !.timer = FALSE]
        poll == [Call("poll", panel.liveTask) EXCEPT !.revision = panel.liveRevision]
    IN /\ panel.timer /\ Cardinality(panel.calls) < MaxCalls
       /\ panel' = IF LiveMode(q) /\ ~q.polling /\ ~q.hidden /\ q.liveTask # NoTask
                   THEN Send([q EXCEPT !.polling = TRUE], poll) ELSE q
       /\ UNCHANGED <<version, stored, acts>>

ViewerNext ==
    \/ \E t \in Tasks : Grow(t) \/ SelectTask(t)
    \/ \E c \in panel.calls :
         \/ Serve(c) \/ Answer(c) \/ Refuse(c) \/ Fail(c) \/ Undock(c)
         \/ \E mode \in {"docked", "native-pip", "inline-live"} : Present(c, mode)
    \/ \E t \in Tasks : \E v \in 1..version[t], kind \in {"trajectory", "limit", "select", "error"} :
         \E r \in {0, v} : HostResult(t, [version |-> v, revision |-> r], kind)
    \/ OtherPanel \/ HostInline \/ LeavePictureInPicture \/ VisibilityChange
    \/ Teardown \/ Refresh \/ UseSummary \/ LoadEarlierRecords \/ SelectRecord
    \/ LoadProjectTiming \/ EnterLive \/ TimerFires
    \/ \E choice \in BOOLEAN : EnableRecordDetails(choice) \/ ExitLive(choice)

ViewerSpec == ViewerInit /\ [][ViewerNext]_viewerVars

-----------------------------------------------------------------------------
(* Properties.                                                             *)

ViewerTypeOK ==
    /\ version \in [Tasks -> 1..MaxVersion] /\ stored \in BOOLEAN /\ acts \in 0..MaxActs
    /\ DOMAIN panel = DOMAIN EmptyPanel
    /\ panel.task \in Tasks \cup {NoTask} /\ panel.revision \in 0..MaxVersion
    /\ panel.details \subseteq Tasks \X (1..MaxVersion)
    /\ panel.mode \in {"none", "docked", "native-pip", "inline-live"}
    /\ panel.work.op \in {"idle", "load", "earlier", "enable"}

\* What is on the screen belongs together: earlier pages and details that were
\* awaited while host, user or log went on are of the very revision the shown
\* records are of, and details and timing are of the shown task.
ShownHoldsTogether ==
    /\ panel.revision # 0 =>
         /\ panel.pages = {panel.revision}
         /\ panel.details \subseteq {<<panel.task, panel.revision>>}
    /\ \A d \in panel.details : d[1] = panel.task
    /\ panel.timing \in {NoTask, panel.task}

\* Choosing a task turns full details on only if the preference was on at some
\* moment after the choice, so that what another panel withdrew stays withdrawn.
ConsentIsFresh ==
    panel.work.op = "load" /\ panel.work.level = "default" /\ panel.work.enable
      => panel.work.granted

\* A live window that can be seen is polling or about to, with one request at a
\* time; a hidden one, or none, never starts a request.  The one exception is a
\* window that follows no task: it never polls, whatever task the page shows
\* later, and only a selection or a read limit that took the task away while the
\* window was open, or about to open, leaves one behind.
PollingNeverStalls ==
    /\ LiveMode(panel) /\ ~panel.hidden /\ ~panel.closed =>
         panel.timer \/ panel.polling \/ panel.liveTask = NoTask
    /\ LiveMode(panel) /\ panel.liveTask = NoTask => panel.abandoned
    /\ panel.timer => LiveMode(panel) /\ ~panel.hidden
    /\ Cardinality({c \in panel.calls : c.op = "poll"}) = IF panel.polling THEN 1 ELSE 0

\* Controls are locked only while a request is pending that will unlock them.
LocksAreHeldByRequests ==
    /\ Busy(panel) <=> \E c \in panel.calls :
         \/ panel.work.stage = "prefs" /\ c.op = "prefs" /\ c.fresh
         \/ panel.work.stage = "save" /\ c.op = "save"
         \/ panel.work.stage = "read" /\ c.op = panel.work.op
    /\ panel.timingBusy <=> \E c \in panel.calls : c.op = "timing" /\ c.fresh
    /\ panel.presenting <=> \E c \in panel.calls : c.op \in {"enter", "undock"}

\* Once the user has restored the safe summary, details stay off until somebody
\* turns them on again.
WithdrawalHolds == panel.withdrawn => ~panel.full

\* What the live window shows is at least as new as the revision it sends with
\* its next request, so that the answer "unchanged" is right for it.
LiveShowsItsRevision ==
    LiveMode(panel) => panel.liveRevision <= panel.liveSnapshot
=============================================================================
