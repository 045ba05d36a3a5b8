------------------------------ MODULE McServer ------------------------------
(***************************************************************************)
(* The stdio server of protocol.py: a reader thread (main) that answers    *)
(* control traffic itself, a worker thread (_work_loop) that executes the  *)
(* queued business requests one at a time, the cancellation marks they     *)
(* share (_CancellationState), the bounded inbox between them and the      *)
(* locked, back-pressured standard output both write to.                   *)
(*                                                                         *)
(* A message that provokes a reply has an arrival number in Msg.  Method   *)
(* names, parameters and results are abstracted to the branch of the code  *)
(* they select; one step is one critical section or one blocking call.     *)
(***************************************************************************)
EXTENDS Naturals, Sequences, Functions

CONSTANTS
    Ids,          \* valid JSON-RPC request ids
    NoId,         \* the null id a malformed message is answered with
    MaxPending,   \* MAX_PENDING_REQUESTS, the capacity of the inbox
    MaxMessages,  \* bound: messages that provoke a reply, over one run
    PipeRoom,     \* bound: replies standard output holds before a write blocks
    OsErrors      \* whether a write may fail with an OSError other than EPIPE

ASSUME IdsAssumption      == NoId \notin Ids
ASSUME PendingAssumption  == MaxPending \in Nat \ {0}
ASSUME MessagesAssumption == MaxMessages \in Nat
ASSUME PipeAssumption     == PipeRoom \in Nat \ {0}
ASSUME ErrorsAssumption   == OsErrors \in BOOLEAN

Msg     == 1..MaxMessages
Poison  == 0                       \* the None that ends the inbox
Threads == {"reader", "worker"}

VARIABLES
    phase,         \* handshake phase, local to main
    inbox,         \* queue.Queue of arrival numbers, then Poison
    outstanding,   \* _CancellationState._outstanding_ids
    cancelled,     \* _CancellationState._cancelled_ids
    pc,            \* what each thread does next
    job,           \* the message each thread is working on
    mode,          \* how it got there: refuse, initialize or registered
    ok,            \* what the reader's _dispatch(initialize) will return
    disconnected,  \* local to _work_loop
    writeLock,     \* _WRITE_LOCK: its holder, or "free"
    stdout,        \* whether the client still holds its end of the pipe
    unread,        \* replies in the pipe
    arrived,       \* history: messages read so far
    ident,         \* history: the id each message carried
    accepted,      \* history: business requests that entered the inbox
    asked,         \* history: requests the client cancelled while in flight
    ran,           \* history: requests whose handler was entered
    replies,       \* history: replies written for each message
    withdrawn,     \* history: requests dropped because of a cancellation
    lost           \* history: messages whose reply no pipe could take

marks   == <<outstanding, cancelled>>
local   == <<phase, ok, disconnected>>
threads == <<pc, job, mode>>
pipe    == <<writeLock, stdout, unread>>
record  == <<arrived, ident, accepted, asked, ran>>
fate    == <<replies, withdrawn, lost>>
history == <<record, fate>>
vars    == <<local, inbox, marks, threads, pipe, history>>

\* The registered requests: each of them owns its id until `finish` runs.
Held ==
    (Range(inbox) \ {Poison})
      \cup {job[t] : t \in {u \in Threads : mode[u] = "registered"}}

HeldIds    == {ident[k] : k \in Held}
Settled(k) == replies[k] > 0 \/ k \in withdrawn \/ k \in lost

\* The server with an empty inbox and no request in flight, in phase p.
IdleIn(p) ==
    /\ phase = p
    /\ inbox = <<>>
    /\ outstanding = {}
    /\ cancelled = {}
    /\ pc = [t \in Threads |-> IF t = "reader" THEN "read" ELSE "get"]
    /\ job = [t \in Threads |-> 0]
    /\ mode = [t \in Threads |-> "idle"]
    /\ ok = FALSE
    /\ disconnected = FALSE
    /\ writeLock = "free"
    /\ stdout = "open"
    /\ unread = 0
    /\ arrived = 0
    /\ ident = [k \in Msg |-> NoId]
    /\ accepted = {}
    /\ asked = {}
    /\ ran = {}
    /\ replies = [k \in Msg |-> 0]
    /\ withdrawn = {}
    /\ lost = {}

Init == IdleIn("new")

-----------------------------------------------------------------------------
(* _CancellationState, each operation under its lock.                      *)

Register(i) == i \notin outstanding /\ outstanding' = outstanding \cup {i}

Cancel(i) ==
    i \in outstanding /\ cancelled' = cancelled \cup {i}

Finish(i) ==
    /\ outstanding' = outstanding \ {i}
    /\ cancelled' = cancelled \ {i}

-----------------------------------------------------------------------------
(* The reader: the body of main's loop, up to the next shared access.      *)

\* The reader takes the next message, whose id is i.
Arrive(i) ==
    /\ pc["reader"] = "read"
    /\ arrived < MaxMessages
    /\ arrived' = arrived + 1
    /\ ident' = [ident EXCEPT ![arrived + 1] = i]

\* It goes on with that message at `where`.
Take(where, how) ==
    /\ pc' = [pc EXCEPT !["reader"] = where]
    /\ job' = [job EXCEPT !["reader"] = arrived + 1]
    /\ mode' = [mode EXCEPT !["reader"] = how]

\* No request changes anything else when it is read.
ReadFrame ==
    UNCHANGED <<phase, inbox, cancelled, disconnected, pipe, accepted, asked,
                ran, fate>>

\* _send_bounded_error: the reply needs no registration.
Refuse == Take("lock", "refuse") /\ UNCHANGED <<outstanding, ok>>

RegisterOrRefuse(i, where) ==
    \/ Register(i) /\ Take(where, "registered") /\ UNCHANGED ok
    \/ i \in outstanding /\ Refuse

\* A parse error, an Invalid Request or parameters that are no object.
ReadInvalid(i) == Arrive(i) /\ Refuse /\ ReadFrame

\* `initialize` is dispatched by the reader without being registered.
Handshake ==
    /\ Take("start", "initialize")
    /\ ok' = FALSE
    /\ UNCHANGED outstanding

\* (mutant of ReadInitialize) the phase is not tested.
ReadInitializeTwice(i) == Arrive(i) /\ Handshake /\ ReadFrame

ReadInitialize(i) ==
    /\ Arrive(i)
    /\ \/ phase # "new" /\ Refuse
       \/ phase = "new" /\ Handshake
    /\ ReadFrame

ReadPing(i) == Arrive(i) /\ RegisterOrRefuse(i, "start") /\ ReadFrame

ReadBusiness(i) ==
    /\ Arrive(i)
    /\ \/ phase # "ready" /\ Refuse
       \/ phase = "ready" /\ RegisterOrRefuse(i, "put")
    /\ ReadFrame

\* notifications/initialized
ReadInitialized ==
    /\ pc["reader"] = "read"
    /\ phase = "initializing"
    /\ phase' = "ready"
    /\ UNCHANGED <<ok, disconnected, inbox, marks, threads, pipe, history>>

\* notifications/cancelled
ReadCancel(i) ==
    /\ pc["reader"] = "read"
    /\ phase = "ready"
    /\ Cancel(i)
    /\ asked' = asked \cup {k \in Held : ident[k] = i}
    /\ UNCHANGED <<local, inbox, outstanding, threads, pipe, arrived, ident,
                   accepted, ran, fate>>

\* (mutant of Put) the newest request overtakes the waiting ones.
PutFirst(k) == inbox' = <<k>> \o inbox

\* put_nowait succeeds.
Put(k) == inbox' = Append(inbox, k)

Enqueue ==
    /\ pc["reader"] = "put"
    /\ Len(inbox) < MaxPending
    /\ Put(job["reader"])
    /\ accepted' = accepted \cup {job["reader"]}
    /\ pc' = [pc EXCEPT !["reader"] = "read"]
    /\ mode' = [mode EXCEPT !["reader"] = "idle"]
    /\ UNCHANGED <<local, marks, job, pipe, arrived, ident, asked, ran, fate>>

\* (mutant of Overflow) the registration is not rolled back.
OverflowKeepsId ==
    /\ pc["reader"] = "put"
    /\ Len(inbox) >= MaxPending
    /\ pc' = [pc EXCEPT !["reader"] = "lock"]
    /\ mode' = [mode EXCEPT !["reader"] = "refuse"]
    /\ UNCHANGED <<local, inbox, marks, job, pipe, history>>

\* (mutant of Overflow) a blocking put.
OverflowWaits ==
    pc["reader"] = "put" /\ Len(inbox) >= MaxPending /\ UNCHANGED vars

\* put_nowait raises queue.Full: the registration is undone, an error sent.
Overflow ==
    /\ pc["reader"] = "put"
    /\ Len(inbox) >= MaxPending
    /\ Finish(ident[job["reader"]])
    /\ pc' = [pc EXCEPT !["reader"] = "lock"]
    /\ mode' = [mode EXCEPT !["reader"] = "refuse"]
    /\ UNCHANGED <<local, inbox, job, pipe, history>>

\* End of standard input: main leaves its loop for its finally clause.
Eof ==
    /\ pc["reader"] = "read"
    /\ pc' = [pc EXCEPT !["reader"] = "sentinel"]
    /\ UNCHANGED <<local, inbox, marks, job, mode, pipe, history>>

\* inbox.put(None) blocks while the inbox is full.
PutSentinel ==
    /\ pc["reader"] = "sentinel"
    /\ Len(inbox) < MaxPending
    /\ inbox' = Append(inbox, Poison)
    /\ pc' = [pc EXCEPT !["reader"] = "join"]
    /\ UNCHANGED <<local, marks, job, mode, pipe, history>>

\* worker.join()
Join ==
    /\ pc["reader"] = "join"
    /\ pc["worker"] \in {"done", "dead"}
    /\ pc' = [pc EXCEPT !["reader"] = "done"]
    /\ UNCHANGED <<local, inbox, marks, job, mode, pipe, history>>

-----------------------------------------------------------------------------
(* The worker: the head of _work_loop.                                     *)

\* (mutant of Get) the sentinel is put back and the worker goes on.
GetReposts ==
    /\ pc["worker"] = "get"
    /\ inbox # <<>>
    /\ \/ /\ Head(inbox) = Poison
          /\ inbox' = Append(Tail(inbox), Poison)
          /\ UNCHANGED <<threads, lost>>
       \/ /\ Head(inbox) # Poison
          /\ inbox' = Tail(inbox)
          /\ ~disconnected
          /\ pc' = [pc EXCEPT !["worker"] = "start"]
          /\ job' = [job EXCEPT !["worker"] = Head(inbox)]
          /\ mode' = [mode EXCEPT !["worker"] = "registered"]
          /\ UNCHANGED lost
       \/ /\ Head(inbox) # Poison
          /\ inbox' = Tail(inbox)
          /\ disconnected
          /\ lost' = lost \cup {Head(inbox)}
          /\ UNCHANGED threads
    /\ UNCHANGED <<local, marks, pipe, record, replies, withdrawn>>

\* inbox.get(); None ends the worker, and after a broken pipe the rest is dropped.
Get ==
    /\ pc["worker"] = "get"
    /\ inbox # <<>>
    /\ inbox' = Tail(inbox)
    /\ \/ /\ Head(inbox) = Poison
          /\ pc' = [pc EXCEPT !["worker"] = "done"]
          /\ UNCHANGED <<job, mode, lost>>
       \/ /\ Head(inbox) # Poison
          /\ ~disconnected
          /\ pc' = [pc EXCEPT !["worker"] = "start"]
          /\ job' = [job EXCEPT !["worker"] = Head(inbox)]
          /\ mode' = [mode EXCEPT !["worker"] = "registered"]
          /\ UNCHANGED lost
       \/ /\ Head(inbox) # Poison
          /\ disconnected
          /\ lost' = lost \cup {Head(inbox)}
          /\ UNCHANGED threads
    /\ UNCHANGED <<local, marks, pipe, record, replies, withdrawn>>

-----------------------------------------------------------------------------
(* _dispatch, by the worker for a business request and by the reader for   *)
(* initialize and ping.                                                    *)

\* `consume` found a mark and removed it; the thread goes on at `next`.
Consume(t, next) ==
    /\ ident[job[t]] \in cancelled
    /\ cancelled' = cancelled \ {ident[job[t]]}
    /\ withdrawn' = withdrawn \cup {job[t]}
    /\ pc' = [pc EXCEPT ![t] = next]

\* (mutant of Withdraw) a marked request is still answered.
WithdrawAndReply(t) == Consume(t, "lock")

\* A request whose mark was consumed gets no reply.
Withdraw(t) == Consume(t, "finish")

\* The consume before the handler, and the handler's call.
Start(t) ==
    /\ ran' = ran \cup {job[t]}
    /\ pc' = [pc EXCEPT ![t] = "handle"]
    /\ UNCHANGED <<cancelled, withdrawn>>

DispatchRest ==
    UNCHANGED <<phase, disconnected, inbox, outstanding, job, mode, pipe,
                arrived, ident, accepted, asked, replies, lost>>

\* (mutant of Begin) no consume before the handler.
BeginUnchecked(t) ==
    pc[t] = "start" /\ Start(t) /\ UNCHANGED ok /\ DispatchRest

Begin(t) ==
    /\ pc[t] = "start"
    /\ \/ Withdraw(t) /\ UNCHANGED ran
       \/ ident[job[t]] \notin cancelled /\ Start(t)
    /\ UNCHANGED ok /\ DispatchRest

\* The handler's return or exception, and the consume after it.  Whether the
\* reply is a result or an error (a JsonRpcError, an internal error, a result
\* over the wire budget) matters to `initialize` only.
Complete(t) ==
    /\ pc[t] = "handle"
    /\ \/ Withdraw(t) /\ UNCHANGED ok
       \/ /\ ident[job[t]] \notin cancelled
          /\ ok' \in (IF mode[t] = "initialize" THEN BOOLEAN ELSE {ok})
          /\ pc' = [pc EXCEPT ![t] = "lock"]
          /\ UNCHANGED <<cancelled, withdrawn>>
    /\ UNCHANGED ran /\ DispatchRest

\* send: the encoded reply waits for _WRITE_LOCK ...
Acquire(t) ==
    /\ pc[t] = "lock"
    /\ writeLock = "free"
    /\ writeLock' = t
    /\ pc' = [pc EXCEPT ![t] = "write"]
    /\ UNCHANGED <<local, inbox, marks, job, mode, stdout, unread, history>>

PipeTakes == stdout = "open" /\ unread < PipeRoom

\* ... and is written and flushed under it, when the pipe has room;
Write(t) ==
    /\ pc[t] = "write"
    /\ PipeTakes
    /\ unread' = unread + 1
    /\ replies' = [replies EXCEPT ![job[t]] = @ + 1]
    /\ writeLock' = "free"
    /\ pc' = [pc EXCEPT ![t] = "finish"]
    /\ UNCHANGED <<local, inbox, marks, job, mode, stdout, record, withdrawn,
                   lost>>

\* a BrokenPipeError becomes SystemExit; any other OSError goes up as it is.
WriteFails(t) ==
    /\ pc[t] = "write"
    /\ \/ stdout = "broken" /\ pc' = [pc EXCEPT ![t] = "exit"]
       \/ stdout = "open" /\ OsErrors /\ pc' = [pc EXCEPT ![t] = "fail"]
    /\ lost' = lost \cup {job[t]}
    /\ writeLock' = "free"
    /\ UNCHANGED <<local, inbox, marks, job, mode, stdout, unread, record,
                   replies, withdrawn>>

\* (mutant of After) _work_loop does not catch SystemExit.
AfterExitDies(t) ==
    IF t = "reader"
    THEN IF pc[t] = "finish" THEN "read" ELSE "sentinel"
    ELSE IF pc[t] = "finish" THEN "get" ELSE "dead"

\* Where a thread goes when its call of send or of _dispatch is over.
After(t) ==
    IF t = "reader"
    THEN IF pc[t] = "finish" THEN "read" ELSE "sentinel"
    ELSE IF pc[t] = "fail" THEN "dead" ELSE "get"

\* _dispatch's finally clause (_CancellationState.finish) and its return.
Return(t) ==
    /\ pc[t] \in {"finish", "exit", "fail"}
    /\ \/ mode[t] = "refuse" /\ UNCHANGED marks
       \/ mode[t] # "refuse" /\ Finish(ident[job[t]])
    /\ phase' = IF mode[t] = "initialize" /\ pc[t] = "finish" /\ ok
                THEN "initializing" ELSE phase
    /\ disconnected' = (disconnected \/ (t = "worker" /\ pc[t] = "exit"))
    /\ pc' = [pc EXCEPT ![t] = After(t)]
    /\ mode' = [mode EXCEPT ![t] = "idle"]
    /\ UNCHANGED <<ok, inbox, job, pipe, history>>

-----------------------------------------------------------------------------
(* The client's end of standard output, and the end of the process.        *)

ClientReads ==
    /\ unread > 0
    /\ unread' = unread - 1
    /\ UNCHANGED <<local, inbox, marks, threads, writeLock, stdout, history>>

ClientCloses ==
    /\ stdout = "open"
    /\ stdout' = "broken"
    /\ UNCHANGED <<local, inbox, marks, threads, writeLock, unread, history>>

Terminated == pc["reader"] = "done" /\ UNCHANGED vars

Reader ==
    \/ \E i \in Ids \cup {NoId} : ReadInvalid(i)
    \/ \E i \in Ids : \/ ReadInitialize(i) \/ ReadPing(i) \/ ReadBusiness(i)
                      \/ ReadCancel(i)
    \/ ReadInitialized \/ Enqueue \/ Overflow \/ Eof \/ PutSentinel \/ Join

Dispatch(t) ==
    \/ Begin(t) \/ Complete(t) \/ Acquire(t) \/ Write(t) \/ WriteFails(t)
    \/ Return(t)

Next ==
    \/ Reader
    \/ Get
    \/ \E t \in Threads : Dispatch(t)
    \/ ClientReads \/ ClientCloses
    \/ Terminated

\* Threads are scheduled and the client drains the pipe; nobody owes input.
ControlFairness ==
    /\ WF_vars(Enqueue \/ Overflow \/ PutSentinel \/ Join)
    /\ WF_vars(Dispatch("reader"))
    /\ WF_vars(Get)
    /\ WF_vars(Begin("worker") \/ Acquire("worker") \/ Write("worker")
               \/ WriteFails("worker") \/ Return("worker"))
    /\ WF_vars(ClientReads)

\* A projection reads a bounded snapshot of its files, so it ends.
HandlersReturn == WF_vars(Complete("worker"))

Spec     == Init /\ [][Next]_vars
FairSpec == Spec /\ ControlFairness

-----------------------------------------------------------------------------
(* What the server promises.                                               *)

ThreadPc == {"start", "handle", "lock", "write", "finish", "exit", "fail"}

\* The types of the shared and local state of protocol.py.
TypeOK ==
    /\ phase \in {"new", "initializing", "ready"}
    /\ inbox \in Seq(Msg \cup {Poison})
    /\ outstanding \subseteq Ids
    /\ cancelled \subseteq Ids
    /\ pc \in [Threads -> ThreadPc \cup {"read", "put", "sentinel", "join",
                                          "get", "dead", "done"}]
    /\ job \in [Threads -> Msg \cup {0}]
    /\ mode \in [Threads -> {"idle", "refuse", "initialize", "registered"}]
    /\ ok \in BOOLEAN
    /\ disconnected \in BOOLEAN
    /\ writeLock \in Threads \cup {"free"}
    /\ stdout \in {"open", "broken"}
    /\ unread \in 0..PipeRoom
    /\ arrived \in Nat
    /\ ident \in [Msg -> Ids \cup {NoId}]
    /\ accepted \in SUBSET Msg
    /\ asked \in SUBSET Msg
    /\ ran \in SUBSET Msg
    /\ replies \in [Msg -> Nat]
    /\ withdrawn \in SUBSET Msg
    /\ lost \in SUBSET Msg

\* No two registered requests share an id, and _outstanding_ids holds exactly
\* the ids of the registered requests until a disconnect lets the worker drain
\* requests it never finishes (register, finish and Overflow's rollback).
OneOwnerPerId ==
    /\ \A k, l \in Held : ident[k] = ident[l] => k = l
    /\ HeldIds \subseteq outstanding
    /\ ~disconnected => outstanding = HeldIds

\* A mark in _cancelled_ids is one the client set for the request that owns
\* the id now, never one left behind by an earlier request with the same id.
MarksAreCurrent ==
    /\ cancelled \subseteq outstanding
    /\ \A k \in Held : ident[k] \in cancelled => k \in asked

\* Only a request the client cancelled while it was in flight is dropped.
WithdrawnWasAsked == withdrawn \subseteq asked

\* Every message is answered, withdrawn or lost with the pipe, at most once.
SettledOnce ==
    \A k \in Msg :
        /\ replies[k] <= 1
        /\ replies[k] = 1 => k \notin withdrawn \cup lost
        /\ k \notin withdrawn \cap lost

\* Business requests run one at a time in arrival order: when one has begun,
\* every accepted one before it is settled (main: "serially").
SerialExecution ==
    \A j, k \in accepted : j < k /\ k \in ran => Settled(j)

\* A handler never starts for a request that was cancelled before it started:
\* the reader's mark is seen by the consume at the head of _dispatch.
CancelledNeverStarts ==
    [][\A k \in ran' \ ran : k \notin asked]_vars

\* The reader settles or queues what it took, even when the handler the worker
\* runs never returns: control traffic does not wait behind business requests.
ReaderStaysResponsive ==
    \A k \in Msg :
        (job["reader"] = k /\ mode["reader"] # "idle")
            ~> (Settled(k) \/ k \in accepted)

\* Every accepted request is answered, withdrawn, or lost with the pipe, if
\* handlers return.
AcceptedSettles ==
    HandlersReturn => \A k \in Msg : k \in accepted ~> Settled(k)

\* Once standard input ends or a write ends the reader, the process ends, if
\* handlers return.
ShutdownTerminates ==
    HandlersReturn =>
        (pc["reader"] \in {"sentinel", "join"} ~> pc["reader"] = "done")

\* The server implements the ledger its client sees.
Ledger == INSTANCE RequestLedger WITH held <- Held

ImplementsLedger == Ledger!Spec

-----------------------------------------------------------------------------
(* The inductive strengthening of the invariants above.                    *)

Active(t) == mode[t] # "idle"
Queued    == Range(inbox) \ {Poison}

\* Which modes each place of a thread's code runs in, and what the handshake
\* guards: nothing is accepted, cancelled or disconnected before "ready".
PlacesMatch ==
    /\ pc["reader"] \notin {"get", "dead"}
    /\ Active("reader") <=> pc["reader"] \in ThreadPc \cup {"put"}
    /\ pc["reader"] = "put" => mode["reader"] = "registered" /\ phase = "ready"
    /\ pc["reader"] \in {"start", "handle"} => mode["reader"] # "refuse"
    /\ mode["reader"] = "initialize" => phase = "new"
    /\ pc["worker"] \in ThreadPc \cup {"get", "dead", "done"}
    /\ mode["worker"] = IF pc["worker"] \in ThreadPc THEN "registered"
                                                     ELSE "idle"
    /\ phase # "ready" => accepted = {} /\ asked = {} /\ ~disconnected

\* The reader works on the newest message; the later ones have no history.
NewestFirst ==
    /\ arrived <= MaxMessages
    /\ \A k \in Msg : k > arrived =>
           /\ replies[k] = 0
           /\ k \notin accepted \cup asked \cup ran \cup withdrawn \cup lost
    /\ Active("reader") => /\ job["reader"] = arrived
                           /\ arrived \in Msg \ accepted
    /\ pc["reader"] \in {"put", "start"} => arrived \notin ran

\* The inbox is in arrival order and ends with the sentinel.
InboxOrdered ==
    /\ \A m, n \in 1..Len(inbox) : m < n =>
           inbox[m] # Poison /\ (inbox[n] = Poison \/ inbox[m] < inbox[n])
    /\ Poison \in Range(inbox) => pc["reader"] \in {"join", "done"}

\* An accepted request waits in the inbox, then is the worker's, then settled.
AcceptedProgress ==
    /\ Queued \subseteq accepted \ ran
    /\ Active("worker") => job["worker"] \in accepted \ Queued
    /\ \A k \in accepted \ Queued :
           /\ \A j \in Queued : k < j
           /\ Active("worker") => k <= job["worker"]
           /\ Settled(k) \/ (Active("worker") /\ k = job["worker"])

\* What is still to be dispatched or written is not settled; what is about
\* to return is.
InFlightUnsettled ==
    /\ \A k \in Queued : ~Settled(k)
    /\ \A t \in Threads :
           pc[t] \in {"put", "start", "handle", "lock", "write"}
               => ~Settled(job[t])
    /\ \A t \in Threads :
           pc[t] \in {"finish", "exit", "fail"} => Settled(job[t])

\* A cancelled request keeps its mark until consume takes it.
AskedIsMarked ==
    \A k \in Held \cap asked : ident[k] \in cancelled \/ k \in withdrawn

IInv ==
    /\ TypeOK
    /\ PlacesMatch
    /\ NewestFirst
    /\ InboxOrdered
    /\ AcceptedProgress
    /\ InFlightUnsettled
    /\ OneOwnerPerId
    /\ MarksAreCurrent
    /\ AskedIsMarked
    /\ WithdrawnWasAsked
    /\ SettledOnce
=============================================================================
