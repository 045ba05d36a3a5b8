# Verification of codex-trajectory

TLA+ modules, TLC configurations and machine-checked proofs kept beside the
Python MCP server of codex-trajectory. Paths below are
relative to `src/plugins/codex-trajectory/scripts/codex_trajectory/` unless they
say otherwise.

## The system

codex-trajectory is a local, read-only MCP server. A Codex host starts it as a
child process and talks JSON-RPC to it over stdin/stdout. It reads the rollout
logs other Codex processes append to (and compress, archive or rotate) while it
runs, projects them into turns, tool calls, timing and token usage, and serves
them to a viewer panel that polls for updates.

| Component | State it keeps | Operations | Talks to | What makes it correct |
|---|---|---|---|---|
| MCP stdio server, `protocol.py` | handshake phase, bounded inbox, ids in flight, cancellation marks, write lock | read, register, enqueue, dispatch, cancel, send, drain, join | client (pipes), tools | one settlement per request, no stale mark, serial execution, control traffic never waits for business requests, shutdown |
| Tool layer, `tools.py`, `native_view.py` | none (metadata of one call) | validate, call one projection | server, projections | the calling task, never another one |
| Projection caches, `projection.py` | LRU of trajectories, LRU of page indexes, revision tokens, quota cache | look up, parse, re-check signature, store, evict | rollout files, page index, session index | never serves a projection under a revision it does not belong to |
| Turn projection, `projection.py` `parse_session` | turn map, current turn, open tool calls, records, usage | one handler per rollout entry | rollout reader, page index | one turn runs, calls and failures count once, what ended stays as it ended, usage is conserved |
| Overview, list and search, `projection.py` | counters of one overview | count turns and calls of one log | rollout reader, search index | the counts of the projection |
| Page index, `page_index.py` | rows of turns and records, entries they refer to | track, flush, page, detail entries | projection | a page equals the slice of a full projection, details those of a full projection |
| Session search index, `session_index.py` | one JSON file shared by processes, dirty map | lookup, store, flush | list/search tools, other server processes | a stale entry never replaces a newer one, bounded size, atomic replace |
| Rollout reader, `sessions.py` | discovery map, lineage, ordinals | iterate, discover, follow lineage, sign | Codex processes that append | a read is the history of one moment, gaps are explained, the limit holds over all files |
| Subagent usage, `subagents.py` | remembered usage per task | task usage, aggregate | projection | each member counts once or is reported missing |
| Timing, `project_timing.py` and `projection.py` | one timing per task | merge, intersect, subtract, attribute | projection | time is divided without rest or overlap, estimates are cautious |
| Token usage and quota, `projection.py` | previous and accounted counters; quota per log | sample, merge; poll | rollout reader | no token twice, none lost; the newest quota |
| Viewer preferences, `viewer_preferences.py` | one private file | read, write atomically | viewer | consent is never invented |
| Panel bridge and viewer, `assets/mcp-app-bridge.js`, `assets/trajectory.html` | pending requests, live window, generation counters | request, receive, teardown, poll, page | host | what is shown belongs together, consent is fresh, polling goes on, no control stays locked |
| Privacy, pricing, command summaries, JSON limits, file system helpers | none | pure functions | everything | left to unit tests, see "Not modelled" |

Hard behaviours: two server threads and a client that may cancel, stop reading
or disappear at any point; log files that grow, are truncated, compressed or
replaced between two reads of one call; several server processes that share the
search index; caches validated before and after a long read; a polling viewer
whose answers arrive late. `PROJECT.json` lists them one by one under `hazards`
with the line where each bites.

## Modules

### McServer: the stdio server

`McServer.tla` models `protocol.py` with one action per critical section or
blocking call. The two threads run the same dispatch code, so `Begin`,
`Complete`, `Acquire`, `Write`, `WriteFails` and `Return` take the thread as a
parameter.

| Code | Model |
|---|---|
| `_outstanding_ids`, `_cancelled_ids` | `outstanding`, `cancelled`; `Register`, `Cancel`, `Consume`, `Finish` |
| reader loop of `main` | `ReadInvalid`, `ReadInitialize`, `ReadPing`, `ReadBusiness`, `ReadInitialized`, `ReadCancel`, `Enqueue`, `Overflow`, `Eof`, `PutSentinel`, `Join` |
| `_work_loop` | `Get` (sentinel, dispatch, drain after a disconnect) |
| `_dispatch`, `send` | `Begin` (first consume), `Complete` (handler, second consume), `Acquire`, `Write`/`WriteFails`, `Return` (finally: `finish`) |
| `queue.Queue(maxsize=8)` | `inbox`, capacity `MaxPending` |
| the stdout pipe | `unread` up to `PipeRoom`, `stdout` open or broken |

Messages carry an arrival number; `arrived`, `ident`, `accepted`, `asked`,
`ran`, `replies`, `withdrawn` and `lost` are history variables the properties
speak about. What a handler computes, whether it fails, and whether its result
is over the wire budget is one nondeterministic outcome, because only the
handshake looks at it. The `null` id a too long error falls back to is not
distinguished, and bytes Python's buffered writer may retain after a failed
flush count as lost.

`RequestLedger.tla` is what the client sees: messages are admitted under a free
id or refused, settled at most once, withdrawn only when cancelled in flight,
and released. `McServer` implements it with the derived set `Held` (the
registered requests, in the inbox or in a thread's hands) for `held`.

| Run | Question | Bounds |
|---|---|---|
| `server_safety` | ids, marks, replies, order; includes the inductive invariant `IInv`; refinement of `RequestLedger` | 3 ids (symmetric), 4 messages, inbox of 2, pipe of 1, failing writes |
| `server_live` | the reader answers though a handler never returns; if handlers return, every accepted request settles and shutdown ends; deadlock checked | 3 ids, 3 messages after the handshake, inbox of 1 |
| `server_oserror` (violation) | a non-EPIPE write error kills the worker alone | 2 ids, 3 messages |

Four messages are enough for the interesting cases: the handshake takes one,
an id can be used, released and used again, one request can run while another
waits and a third overflows. `server_live` starts after the handshake
(`ReadyFairSpec`), a state every run reaches, so that all three messages can be
business requests, and uses ids for the first time in increasing order, which
loses nothing but permutations.

Fairness: each thread is scheduled while it can step, and the client eventually
drains or closes the pipe (`ControlFairness`). Nobody owes the server any input.
That a handler returns is a premise of the properties that need it
(`HandlersReturn`; a projection reads a bounded snapshot of its files) and not of
`ReaderStaysResponsive`.

#### What is proved about it

`McServer_proofs.tla` proves, for every number of ids and messages, every inbox
and pipe capacity and every set of faults, that the server keeps its types,
`SettledOnce`, `MarksAreCurrent`, `SerialExecution`, `CancelledNeverStarts`, and
that it implements `RequestLedger`. It uses only the named assumptions on the
constants. None of these properties is inductive. `IInv`, which
`server_safety` also checks, adds to them:

- *places*: a program counter is where the mode of the process allows it, a
  thread that holds a message is past `Get` or `Take`, the lock has the holder
  the program counters say;
- *one owner per id*: an id in flight is that of exactly one accepted message
  that is not settled, in the inbox or in a thread's hands;
- *marks*: every mark is for an id in flight and was asked for by a cancel
  message that arrived after the request;
- *order*: inbox and worker hold messages in arrival order, all newer than what
  already ran;
- *progress*: every accepted message is settled, lost with the pipe, or still
  held, which is what makes the refinement's `release` step possible.

The proof has one step per action; `LedgerStep` is proved in the same lemma, so
that the refinement needs only the initial states and one temporal step. The
liveness properties (`AcceptedSettles`, `ShutdownTerminates`,
`ReaderStaysResponsive`) are model-checked only.

### SessionIndex: the shared search index

`SessionIndex.tla` models one call of `list_session_overviews` per process: open
(`__init__` reads the file once), a loop over sessions (`Hit`, or `Miss` and
`StoreFields`; a listing does `Overview` and `StoreOverview`), and `flush`
(`Lock` or `Contended`, `Load`, one `Merge` per touched entry, `Replace`).
Codex changes rollouts (`Change`) between any two steps, and a process may die
or meet an `OSError` at any point (`Abandon`).

| Code | Model |
|---|---|
| the index file | `index`, a sequence of entries, least recently used first |
| `_entries`, `_touched`, `_dirty` | `entries`, `touched`; dirty exactly when something was touched |
| `_stored_signature(session_signature(path))` | a modification time and a change count |
| `flock(LOCK_EX \| LOCK_NB)` on the lock file | `holder` |
| the loop of `flush` over the entries, that of `_atomic_write` over the bytes | `Recent`, `WithinBytes`; `Trim` is one after the other |
| the limits of `_read_bounded_regular` and `_read_entries` | `Fits`, of the file with its newline (`FileBytes`) |

| Run | Question | Bounds |
|---|---|---|
| `index_safety` | one writer, a lock held no longer than a save, no lost update, no stale hit | 2 processes, 2 sessions, 1 change with 2 modification times |
| `index_limits` | eviction by count and by bytes, LRU order, a scheduled call ends whatever the lock's holder does | 2 processes that list, 3 sessions of three sizes, 2 entries, 6 bytes (4 of them for entries), rollouts at rest |
| `index_list` (violation) | `HitIsCurrent` with listings | 1 process, 1 session, 1 change |

Two processes are what a lost update needs, and one change between any two
steps what a stale hit needs. In `index_limits` only one process is fair: the
other stands for one that hangs while it holds the lock.

`HitIsCurrent` holds of searches, which sign a rollout before they read it. It
fails once listings share the index: they read the overview first
(`projection.py:589`) and sign it afterwards (`projection.py:598`), so a change
in between files old fields under the new signature. This is listed as a finding.
That a contended `flush` saves nothing is the code's stated choice (best effort).

#### What is proved about SessionIndex

`SessionIndex_proofs.tla` proves every safety property of the module, for every
set of processes and sessions, all limits and all sizes of entries: `TypeOK`,
`LockHeldWhileSaving`, `IndexReadable`, `HitIsCurrent`, `NoLostUpdate` and
`RecentlyUsedKept`. Each rests on an invariant of its own:

- *Types*: `TypeOK`, in which every dictionary has one entry of a key, and no
  signature counts more changes than there were;
- *Locks*: the program counters and the lock's holder, all
  `LockHeldWhileSaving` needs;
- *SearchInv*: every entry in the file or in a process, of whatever stage of a
  merge, was computed no earlier than it was signed and its session has not gone
  back since. An entry whose signature is current is therefore of the current
  version. The theorem assumes `Kinds = {"search"}`: with listings the property
  is false, see the finding;
- *MergeInv*: what a process in flush's critical section has merged is nowhere
  older than the file, which nobody else writes (*Locks*), and what it has
  merged of its own is either outdated by the file or among the last. What
  `Trim` drops is at the front, so a touched entry goes only when all before it
  went.

The two loops of the writer and the two limits of the reader are modelled apart.
`WithinBytesIsLeast` shows that the loop of `_atomic_write` ends, at the first rest
that is short enough with its newline; `TrimIsLeast` that what it leaves of what
the loop of `flush` left is within both limits of the reader, and is all of the end
of the merged entries that could be. That there is a first such rest is induction
over a set of numbers, which needs no operator parameter: `LeastNumber` takes the
least counterexample from `NatLessThanWellFounded`, and `EmptyFits` says that an
index without entries is short enough, for which `BytesAssumption` asks. The
termination of a scheduled call is model-checked only.

### RolloutCache: projections of logs that grow

`RolloutCache.tla` models the worker's reads and live updates while Codex appends:
`trajectory_result` takes a revision, projects, aggregates the descendant's usage
and takes the revision again; `trajectory_update_result` takes the revision once,
before. Each look at the file system is a step, so an append may come between
any two. A log is its number of appends; a projection is the version it was
computed from.

| Code | Model |
|---|---|
| `_TRAJECTORY_CACHE`, `_PAGE_INDEXES`, `subagents._USAGE` | `trajectories`, `indexes`, `usages` |
| `_cached_session_trajectory` | `Sign`, `Build`, `Keep`, `Page`, `Again`, `Detail`, `Stream`, `Streamed`, `Store` |
| `_own_usage`, `task_usage` | `OwnSign`, `OwnAgain`, `OwnParse`, `OwnKeep`, `OwnUnreadable`, `Counted` |
| result and revision of a call | `answer` (a read), `live` (what a live window keeps) |

| Run | Question | Bounds |
|---|---|---|
| `cache_safety` | caches never mix versions, claimed revisions are exact, a current live window is not stale, a polling live window shows the logs once they rest | 2 views (one with details), 1 index, 1 trajectory, each log up to version 2, two failing reads |
| `cache_bound` (violation) | at most `MAX_PAGE_INDEXES` indexes between calls | versions up to 3 |

Fairness in `cache_safety`: the worker's thread runs (`WF_vars(Step)`), and the
viewer's one-second timer polls again and again whatever other reads come
between (`SF_vars(Begin("update", Live))`). Logs rest because appends are bounded.

A descendant whose log cannot be read contributes no usage and a signature of
its own. If that happens only between two equal revisions, the totals are
incomplete under a claimed revision, or in a live window until the next change,
with the warning the code adds; the properties allow exactly that
(`Unreadable`).

`IndexesBounded` fails between two calls: the error of a detail read
(`projection.py:2650`) is raised before the eviction loop. It is a finding.

Two versions of each log let every signature, parse and re-check of a call fall
on either side of an append; one cache place and two views make every second
read evict. Two failing reads allow one in each of two calls, or two in one.

#### What is proved about it

`RolloutCache_proofs.tla` proves `TypeOK`, `PureCaches`, `RevisionIsExact` and
`LiveNotStale` for every number of appends and failures, every size of the caches
and every set of views (`BoundsAssumption`, `ViewsAssumption`). The inductive
invariant `IInv`, which `cache_safety` also checks, says that a call never
goes back in time:

- *LoadBetween*, *OwnBetween*: what is loaded was read at or after the version its
  signature was taken at, and no later than now. A re-check that finds the
  signature unchanged therefore pins the read to exactly that version
  (`PureCaches`).
- *CallBetween*: first revision, projection, family and second revision are in
  this order, so equal revisions pin everything in between (`RevisionIsExact`).
- *LiveBetween*: what the live window shows lies between the revision it is
  filed under and the logs, so a current revision means current content
  (`LiveNotStale`).
- *PlacesMatch*: which phases and kinds of call a place of the worker belongs to.

The proof has one lemma per action. The lemmas `OwnedKeeps` and `LoadedKeeps`
carry what happens when `_own_usage` and `_cached_session_trajectory` return, in
whatever phase the call is. `OthersIsPart`, `UseAddsOne`, `UseAgain` and
`NewestIsPart` state what the LRU operators do to the set of entries and to its
size. `LiveCatchesUp` needs fairness and is model-checked only.

### TurnProjection: a log becomes turns, records and pages

`TurnProjection.tla` models `parse_session`. A projection is a record and a
handler an operator from projections to projections, so that handlers call each
other as in the code and a log can be projected again, whole or in part
(`FoldLeft`). An entry is reduced to its kind, the turn and the call it names,
and how a call ended. Next to it runs `session_overview` over the same entries,
and the page index notes what it would write.

| Code | Model |
|---|---|
| `ensure_turn`, `model_step`, `add_record`, `finish_tool`, `terminal_tool`, `late_tool_marker`, `handle_completed_item` | `EnsureTurn`, `ModelStep`, `AddRecord`, `FinishTool`, `TerminalTool`, `AddMarker`, `CompletedItem` |
| branches of the loop over entries | `TaskStarted`, `TaskEnded`, `UserMessage`, `ToolCall`, `ToolOutput`, `EndEvent`, `Compacted`, `TokenCount`, ... chosen by `Handle` |
| `records`, `turn_map`, `current_turn_id`, bounded maps of calls | fields `heap`, `turns`, `kept`, `owners`, ... of `detailed` |
| `PageIndex.track`, `flush`, `page`, `detail_entries` | `Track`, `Inherit`, `Flush`, `IndexedTurns`, `DetailEntries` |
| `session_overview` | `Overview` and what it calls |

`TurnsAreSeparate`, `CountsExact`, `UsageConserved` and `EndedStaysEnded` speak of
the projection, `PageSound` of the page a call keeps, `IndexedPageAgrees` and
`DetailsAgree` compare the index with a full projection. A call that fails and is
completed again much later has two records of different outcome; details show
the failure in both (`TwoOutcomes`), which the property leaves out.

The translation was compared with the code: 20,000 random logs went through
`parse_session` and through an interpreter of these operators written for the
comparison, with the same turns, records and counts.

A record is named as the log names its item, else after its entry (`ItemId`), and
`add_record` salts a name that is on the page already (`RecordId`). One name goes
past it: the item that ends a compaction renames the record that is pending
(`Rename`, `projection.py:1522`) without a look at `visible_record_ids` and without
adding the name there. A record that has this name already, or gets it later, may
share a page with the renamed one, and since details are found by name
(`Match`) one of the two may show the details of the other. Projecting such a log
with the code shows both. The set `given` keeps the names records were renamed to;
`IdsOnPageDiffer` and `DetailsAgree` except the records that bear one of them
(`Ambiguous`) and no others. Without the exception the family `renamed` refutes both.

The exception is a disagreement with what is promised of record ids:
`docs/interface.md:139` says that the index "preserves unique record IDs when a later
request enlarges the initial page", and
`test_opaque_call_ids_stay_distinct_and_visible_record_ids_are_unique`
(`tests/test_projection.py:3034`) and
`test_enlarged_summary_preserves_unique_canonical_ids`
(`tests/test_page_index.py:503`) test it, of logs in which no compaction is renamed.
It is listed under `hazards`.

A page that is asked for before a record beyond the last is the page of the newest
records (`Slice`); the family `tools` asks for such a page. `Handle` asks whether an entry is skipped before it looks at
its kind, so that no two arms of its `CASE` apply to one entry.

`turns_mirror` is a finding: the output of a tool that is logged after its turn
ended opens a turn in the overview (`projection.py:455`) and none in the
projection, although `ensure_overview_turn` is to mirror it
(`projection.py:380`).

#### What is proved about TurnProjection

`TurnProjection_proofs.tla` proves `TypeOK`, `TurnsAreSeparate`, `CountsExact`,
`UsageConserved`, `PageSound`, `IndexedPageAgrees` and `EndedStaysEnded`, for logs of
any entries and any length, any page and all limits (`ScopesAssumption`,
`LimitsAssumption`). The invariant `ProjectionInv` holds between entries; `Good` is
its part that holds inside a handler as well:

- *Running*: the last turn runs exactly if the projection is in a turn, and the
  current step is one the turn has had;
- *Recorded*: every record is of a turn and a step of it, and a failed one says
  why; the record that awaits a result, a duration or its usage exists;
- *Remembers*: the bounded maps of calls are within their limit and name records;
- *Indexed(d, X)*: the index has every record as it is, or will flush it, except
  for the records `X` a handler is changing and has not tracked yet. At the end of
  a handler `X` is empty; after `Flush` so is what is left to flush;
- *Unsalted*: as long as no identifier repeats, each is the one its entry names;
- *Sampled*: every usage sample so far is in exactly one turn. A turn's usage is
  the set of samples added to it, so this is about sets, not sums;
- *PageFits*: what is kept is the last `limit` records below `before`, in order, and
  `owners` has the exact number of them for each turn: a new record adds one
  and the record that leaves takes one (`PageMoves`, `OwnersMore`, `OwnersLess`);
- *NamesFit*: two records of the page have one name only if a compaction was renamed
  to it (`NamesDiffer`). A name that is seen again is salted with the number of its
  record, provided that it is known to be on the page (`NamesSeen`): it is visible,
  or in `given`, or carries the number of its event, which no later entry has;
- *Counted*: see below.

`Goes` is the action half: what a later projection may not take from an earlier
one (ended turns, results, reasons of failures, the page asked for). A helper or
handler is a `Step` if it keeps `Good` and obeys `Goes`; there is one lemma per
operator, the lemmas compose as the calls do, and `HandlersAre` collects them.
`ProjectionInv` was checked with TLC over all logs of four families before it
was proved (355,489 states).

`CountsExact` compares counters with the records of the whole log. No fold is
needed, because every step changes what is on record by one element of a set. A
tool record belongs to an *account*: that of its call, or its own if it has no
call. As long as no call was forgotten (`Remembered`), `tools` is the number of
accounts, `failures` the number of those with a failed record, and the state
that is kept of a call says whether it is among them (`BooksAgree`). A handler may
add a record that is not to be counted only for a call that has an account
(`Countable`). `Opens` is what a helper may open, `Accounted` what an entry does:
the account of the call it names and no other. The overview, which reads the
same entries with code of its own, counts a name when it sees it first;
`OverviewAgrees` says that it remembers names of accounts only, each once, and if
none was forgotten all of them, so both count the same.

`DetailsAgree` is model-checked only: it relates two folds over a log.

### Viewer: the panel

`Viewer.tla` models the page and its bridge. JavaScript runs one callback at a
time, so what lies between two awaits is one step; the functions of the page are
operators on one record, `panel`. A request is a member of `panel.calls` until it
is settled by its answer, a read limit, an error, its timeout or the teardown,
in any order. The content of a task is the version of its log it was read at.

| Code | Model |
|---|---|
| `request`, `receive`, timeout and `teardown` of the bridge | `Send`, `Settle`, `Answer`, `Refuse`, `Fail` |
| `data`, `dataRevision`, `recordDetails`, `projectTiming`, `fullDetailsEnabled` | `task`, `snapshot`, `pages`, `revision`, `details`, `timing`, `full` |
| `document.pictureInPictureElement` | `window`: the native window is open, whatever the page believes of it |
| generation counters (`detailGeneration`, `projectTimingGeneration`, `preferencesRevision`) | `fresh` of a call, cleared by `Outdated` |
| `busy`, and what `loadSession`, `loadEarlierRecords` and `enableRecordDetails` wait for | `work` |
| `livePresentation`, `pipActive`, `liveTimer`, `liveBusy`, `liveSessionId`, `liveRevision` | `mode`, `pip`, `timer`, `polling`, `liveTask`, `liveRevision` |
| host pushes, another panel, the user | `HostResult`, `HostInline`, `OtherPanel`, and one action per control |

`ShownHoldsTogether`: pages, details and timing on the screen are of the shown
task, and of the shown revision if it has one. `ConsentIsFresh`: choosing a task
turns details on only if the preference was on at some moment since.
`PollingNeverStalls` and `LocksAreHeldByRequests` are the safety side of progress:
a visible live window that follows a task has a timer or a poll, a locked control
has the request that will unlock it, which the bridge settles within its timeout.

`PollingNeverStalls` has one exception. While a native window is open the host may
push a task selection: `showSessionSelection` stops the loop and clears the followed
task (`trajectory.html:1299`), but does not close the window. The trajectory that is
pushed or chosen next is shown and starts the loop again, its timer fires, and
`refreshLiveTrajectory` returns at `trajectory.html:2709` for want of a task: the window
can be seen and never polls, although `docs/interface.md:127` has the component poll
"at most one request at a time every second" and stop only "while the document is
hidden or after the live window exits". A read limit that closes the live surface
does the same. `abandoned` marks such windows, and the property says that a
live window without a task is always one of them. It is listed under `hazards`.

`panel_withdrawn` is a finding: a live window remembers the detail level of the
moment it was opened (`trajectory.html:2120`) and reloads the task at that level
when it closes (`trajectory.html:2104`). Next to a native window the user can
restore the safe summary in between; closing the window then turns details on
again.

Known limits of the panel which are in the model and of which no document
promises otherwise: `LiveShowsItsRevision` is defined and refuted (a host push
that arrives late replaces the content of a live window, and a poll of an
earlier window is answered into the next, while the revision stays; the next
change of the log mends both); after a teardown in a native window the timer
goes on, since `pipActive` stays set; a push for another task than the one the
preference was read for uses the preference as it was cached. Pages read while
a log grows carry no revision, and two of them are merged on that ground.

#### What is proved about Viewer

`Viewer_proofs.tla` proves `ViewerTypeOK`, `ShownHoldsTogether`, `ConsentIsFresh`,
`PollingNeverStalls` and `LocksAreHeldByRequests` for any number of tasks, versions,
pending requests and acts. None is inductive. `ViewerInv` adds the type of a
panel and of a pending request, and `Sound`:

- *Shown*: a request whose answer still counts is for the shown task and the
  shown revision, so an answer adds nothing foreign to the screen;
- *Seen*, *PollLock*: a visible live window that follows a task has a timer or the one
  pending poll, and one that follows none is `abandoned`;
- *TimingLock*, *PresentLock*, *PrefsLock*, *WorkLock*: each lock is held exactly
  while one request is pending whose answer will release it;
- *Granted*: a load at the default level that enables details does so by a
  preference that was on at some moment since it began.

The proof follows the page: its functions call each other, so each is shown to
keep either the view (`SameView`, what only works) or the work (`Redrawn`, what
only draws), and the cases of `Settle` and of every control compose these.
An earlier form of `ViewerInv` was checked with TLC first (768,663 states, two tasks,
one version, four acts). All of this is safety: that an answer or a timeout comes is the
bridge's, and a property of fairness.

### RolloutReader, TaskTiming, TaskUsage, TokenEpochs, AccountQuota

What is computed from the log of a task, each in a module of its own.

| Module | Code | State and steps |
|---|---|---|
| `RolloutReader` | `rollout_lineage`, `iter_jsonl`, `iter_session_jsonl` and the search's twins | files of lines with ordinals and bases; a writer that appends, forks, copies, damages and deletes; a read that resolves a segment, measures one, or reads one file per step |
| `TaskTiming` | `project_timing.py`, `session_timing_summary` | a log of turns and records that grows during a request; `Summarize` with the code's interval operators; both signatures of a request (`signature`, `revision`), the checks against each (`SameLog`, `SameRevision`) and the cache |
| `TaskUsage` | `subagents.py` | logs with parents and mentions, copies, large and unreadable ones; discovery, the walk, `Aggregate` |
| `TokenEpochs` | `token_usage_snapshot`, `merge_token_usage` | counters that grow, restart and are logged now and then; what the reader accounts |
| `AccountQuota` | `latest_account_quota`, `merge_rate_limits`, `recent_rate_limit_entries` | several logs that grow, are replaced, cut or unreadable; a poll that reads tails and merges |

Each property compares the result with a definition of its own: `HistoryIsRead`
with the entries the writer told, `TimingIsExact` with sets of milliseconds,
`FamilyIsCounted` with the closure of who belongs to whom, `TokensAreAccounted`
with the tokens that were logged, `QuotaIsCurrent` with what the polled tails
said. `OutcomeIsJust` says that appending alone never makes a read fail and that
a read fits the limit, `TimingsKeptHold` that a cached timing is that of the log
at its signature. A request signs its log twice: `_session_timing` to find and keep
an answer, `session_timing_summary` to read the log, and its checks compare with
its own signature. An answer may therefore be of a later log than the one the
request began with (`AnswerIsOfItsTime` bounds it), and only the last check of
`_session_timing` keeps it out of the cache. `Summarize` was compared with `summarize_timing` on 1,500
random inputs.

Known limits, excluded by the hypotheses of the properties: the quota of a
log that is cut in place and grows again beyond its polled size, a session
whose first line is torn, a deferred log that names two parents (the code
raises `ValueError`).

#### What is proved about TaskTiming

`TaskTiming_proofs.tla` proves `TimingTypeOK`, `TimingsKeptHold` and that every
answer is the timing of the log at one moment since its request began
(`AnswerIsOfOneLog`), for any entries and any number of requests. `TimingInv` says
that what was projected is the log of some moment since the second signature was
taken, and that from the check after the projection on the timing is that of
exactly this signature: a log only grows, so an equal length means an equal log
(`BeginningStays`). In `StoreKeeps` the second signature lies between the first and
the log as it is now, so the last check of `_session_timing` makes the three equal;
without it the theorem fails. What `Summarize` makes of a log is not looked into;
that it is right (`TimingIsExact`) is model-checked.

#### What is proved about TokenEpochs and AccountQuota

`UsageAndQuota_proofs.tla` proves `TokensAreAccounted` for any set of counters, any
limit and any calls (`EpochsAssumption`). The invariant `EpochsIInv`, which the run
`tasks` checks as part of `TypeOK`, adds:

- *Room*: once an epoch was sampled, `previous` is at most the counters and
  `accounted` plus their increase at most what was spent; before, all of the
  counters still have room. A reset can therefore only be seen in an epoch that
  was not sampled, and never counts tokens again.
- *Pending*: what was logged of an epoch is part of what was billed.
- *Exact*: below the limit, if no epoch began unnoticed, the reader's memory
  is the last sample and its sum what was billed.

One lemma per operator (`CurrentTotalAt`, `LastUsageAt`, `MergeAt`) and one per
action; `SampleRoom` and `SampleExact` split the only hard one.

It also proves `QuotaTypeOK` and `QuotaIsCurrent` for any finite set of logs, any
windows and any length of the tail but zero (`QuotaAssumption`). A poll reads only
the end of a log, so what it shows depends on what is remembered. The invariant
`QuotaInv` says of each log:

- its samples are in the order of time (`IsSamples`), a signature names an inode
  and a stamp of the log or of an earlier one;
- *Linked*: if the signature is of the same file, what is remembered is what
  the samples noticed by polls say, up to the signature's size (`Says`); only a
  file that was cut since has less, and not more until it is polled. If it is
  of another file, nothing counts as noticed;
- *QuotaKnown*: while nothing was rewritten or unreadable, some log still has
  a sample as new as the answer.

`TailRead` says what reading a tail makes of what is known: every sample not
older than it replaces what it says of a window, in order. `TailAdds` joins that
with what was noticed before, whether the tail overlaps it or leaves a gap;
`LogKeepsInv`, `RewriteKeepsInv` and `PollCurrent` are one per action. TLC checked
`QuotaInv` on two logs, one window, a tail of two, four samples, two rewrites
and one unreadable read before it was proved (498,311 states).

`FoldLeft` is defined by a recursive function over sets of positions. What it
computes is proved all the same: the function is built up to each length
(`FoldExists`) and followed along the log (`FoldApply`), both by induction over a
set of numbers (`UpTo`), which needs no operator as a parameter.

The assumption on the tail is a limit of the model: it leaves out lines that
are no samples. A sample that other lines push out of the last 256 KiB before
any poll reads it is not known to the code either, and counts as not logged.

### Composition

`MCTrajectory` puts the projection and the panel in one specification,
`MCTaskReports` the five readers. In each the parts share no variable, as the
program's do not: the panel sees of a log its version, and the readers are
called one after the other by the worker, whose caches and revisions are in
`RolloutCache`. `part` says which part runs, so that the states add up instead of
multiplying.

| Run | Question | Bounds |
|---|---|---|
| `trajectory` | projection, page index, details and overview agree over all logs of a family; the panel stays consistent | logs of 4 entries (turns; tools; paginated), 5 (details) and 6 (renamed compactions, pages of 3), other pages and turn lists of 2; 2 tasks (symmetric), 2 versions, 2 pending requests, 3 acts of user, host and another panel |
| `turns_mirror` (violation) | the overview counts the projection's turns | logs of 5 entries of one task |
| `panel_withdrawn` (violation) | withdrawn details stay off | 1 task, 1 version, 4 acts |
| `tasks` | reader, timing, usage, tokens, quota | 3 files of 3, 2 and 1 lines, 1 change other than appending; 4 timed entries, 2 requests; 2 agents with 3 logs, 1 odd one; 2 counters, 5 tokens, limit 4; 2 quota logs (which are alike, so the first sample is one of "a"), 3 samples, 1 rewrite or unreadable read |

Four entries are a call, its two ends and what comes between them, or two turns
that overlap; details need one more, since a page must leave the call behind, and a renamed
compaction two, so that a record of its name can leave a page of three and another
of it come.
Pages and turn lists of two make both overflow. Three acts are two that race
and one that set them up; every request may wait for all of them, and a second
pending request is what a first one races with. In `tasks`, three files are a
lineage with a middle, two counters let one show a reset the other hides, and
a limit below what can be spent makes counters and sums leave the safe range.

`CHECK_DEADLOCK FALSE` in `trajectory`, `tasks` and `panel_withdrawn`: a log ends, a
walk finishes, a closed panel with no request does nothing more; the acts are
bounded. `server_live` checks deadlock.

#### What is proved about the composition

`Trajectory_proofs.tla` proves that every behaviour of `MCTrajectory`, whichever
part runs and in any order, is one of `TurnProjection` and one of `Viewer`: a
step of one part is a stutter of the other (`LogSteps`, `PanelSteps`). What was
proved of each part therefore holds of both together: `TrajectoryTypeCorrect` for
`AllTypesOK`, `TrajectoryIsSound` for the safety invariants of the two.

## Plan

Done: the server, the search index, the caches, projection and page index, the
five readers, and the panel with its bridge and preferences.

Proved: the safety of the server and its refinement, of the search index, the
caches, the panel, the requests for timing, the token counters and the account
quota, of the projection all but `DetailsAgree`, and that projection and panel
together keep what each of them promises.

Left, most useful first:

- what of `HistoryIsRead` and `OutcomeIsJust` does not fold over files in
  `RolloutReader`;
- the page of records itself in `Viewer` (cursors, the window of 50 details), which
  would share `Slice` with `TurnProjection`;
- resolving a session by prefix, discovery of session files and compression.

## Not modelled

- Pricing (`pricing.py`), privacy filters (`privacy.py`), command summaries
  (`command_summary.py`), JSON limits (`json_support.py`): pure functions of
  their input, with tables and patterns that unit tests cover better.
- The file-system helpers, the launcher, release and build scripts: the
  properties worth stating are the operating system's.
- Rendering, layout and wording of the viewer, the list of recent tasks, pushes at
  detail level `full`, the handshake with the host and the transport of older
  hosts. Leaving a native window is one step (`exitPictureInPicture` is awaited), and one that
  the browser opens after the page gave up waiting for it (`withTimeout`) is left out.
- The tool layer (`tools.py`, `native_view.py`): it checks arguments and calls one
  projection, and keeps nothing between calls.
- What a handler computes, in `McServer`; the content of logs, in `RolloutCache`.
- Discovery of session files, compressed logs and the search for a session by
  prefix, in `RolloutReader`; SQLite and the byte limits of pages, in
  `TurnProjection`; what a file system keeps of a rename after a crash.

## What is only model-checked

- Liveness under fairness: `AcceptedSettles`, `ShutdownTerminates`,
  `ReaderStaysResponsive`, `FlushNeverBlocks`, `LiveCatchesUp`. Fairness and `ENABLED` are
  out of the proof system's reach here.
- What a recursive definition computes for every input: `DetailsAgree`,
  `TimingIsExact`, `FamilyIsCounted`, `HistoryIsRead` and `OutcomeIsJust`. These
  are checked over bounded inputs. The library's induction theorems take an
  operator as a parameter and cannot be used; induction over a set of numbers
  can, and gives what a fold over one sequence computes (`FoldApply`), but the
  definitions named here recurse over files, intervals and families.
- `TypeOK` of `MCTaskReports`, a conjunction over modules that share no variable:
  the parts of timing, tokens and quota are proved, those of the other readers
  are checked.
