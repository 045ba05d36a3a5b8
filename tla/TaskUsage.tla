------------------------------ MODULE TaskUsage ------------------------------
(***************************************************************************)
(* The tokens of a task with all its subagents (subagents.py: task_usage   *)
(* and aggregate_usage).  The logs on disk tell in two ways who belongs to *)
(* whom: a log's metadata may name its parent, and a parent's log may      *)
(* report the activity of an agent.  Logs of one agent may exist twice     *)
(* (resumed, archived), may be missing, unreadable, or too large for the   *)
(* probe that finds unrelated logs.                                        *)
(***************************************************************************)
EXTENDS Integers, Sequences, FiniteSets, SequencesExt, FiniteSetsExt

CONSTANTS
    Agents,         \* identifiers of agents, numbers: they are visited in order
    Task,           \* the identifier of the selected task, a number
    Stranger,       \* a task outside
    MaxLogs,        \* logs of agents on disk (bounds them)
    MaxOdd,         \* logs that cannot simply be read (bounds them)
    MaxTaskAgents   \* MAX_TASK_AGENTS

ASSUME UsageAssumption ==
    /\ Agents \subseteq Nat /\ Task \in Nat \ Agents
    /\ Stranger \in Nat \ (Agents \cup {Task})
    /\ MaxLogs \in Nat /\ MaxOdd \in Nat /\ MaxTaskAgents \in Nat \ {0}

VARIABLES
    own,   \* the selected task's log
    logs,  \* the agents' logs, newest first
    walk   \* the walk over the family

usageVars == <<own, logs, walk>>

NoParent == -1

\* state: "ok", "large" (its metadata is beyond the default limit) or
\* "unreadable" (all but its metadata is).  A log whose metadata names nobody, or
\* two parents, is as if it were not there.  parts: whether tokens are reported
\* without their total.
Log(id, parent, refs, state, parts) ==
    [id |-> id, parent |-> parent, refs |-> refs, state |-> state, parts |-> parts]

Odd == Cardinality({i \in DOMAIN logs : logs[i].state # "ok"})

\* Files on disk, in the order of discovery.
AddLog ==
    /\ walk.pc = "logs" /\ Len(logs) < MaxLogs
    /\ \E id \in Agents, state \in {"ok", "large", "unreadable"} :
       \E parent \in {NoParent, Task, Stranger} \cup (Agents \ {id}) :
       \E refs \in SUBSET (Agents \ {id}) :
         /\ state # "ok" => Odd < MaxOdd
         /\ logs' = Append(logs, Log(id, parent, refs, state, logs = <<>>))
    /\ UNCHANGED <<own, walk>>

\* The selected task is read first; it may mention any agent.  (Some tasks report
\* parts only, some agents do: which ones makes no difference.)
StartWalk ==
    /\ walk.pc = "logs"
    /\ \E refs \in SUBSET Agents :
         own' = Log(Task, NoParent, refs, "ok", Cardinality(refs) = 1)
    /\ walk' = [walk EXCEPT !.pc = "discover"]
    /\ UNCHANGED logs

-----------------------------------------------------------------------------
(* Discovery.                                                              *)

NoLog == 0

\* _session_link of a log, with the limit of the request or the default one.
Linked(i, related) == logs[i].state = "large" => related

Related(i) == logs[i].id \in own.refs \cup {Task}

\* The first log of an identifier wins.
NewestLog(ids, id) ==
    IF \E i \in ids : logs[i].id = id
    THEN Min({i \in ids : logs[i].id = id}) ELSE NoLog

Discover ==
    LET linked   == {i \in DOMAIN logs : Linked(i, Related(i))}
        large    == {i \in DOMAIN logs \ linked : logs[i].state = "large"}
        byId     == [a \in Agents |-> NewestLog(linked, a)]
    IN /\ walk.pc = "discover"
       /\ walk' = [walk EXCEPT
            !.pc = "visit", !.byId = byId,
            !.deferred = [a \in Agents |-> NewestLog(large, a)],
            !.byParent = [p \in Agents \cup {Task} |->
               {a \in Agents : byId[a] # NoLog /\ logs[byId[a]].parent = p}],
            !.pending = <<[id |-> Task, children |-> own.refs]>>]
       /\ UNCHANGED <<own, logs>>

-----------------------------------------------------------------------------
(* The walk, breadth first.                                                *)

\* The log of a child: one that was too large to be probed may be now, as it is
\* mentioned.
LogOf(w, child) == IF w.byId[child] # NoLog THEN w.byId[child]
                   ELSE w.deferred[child]

\* (mutant of Owned) whoever mentions an agent owns it.
OwnedByAny(i, parent) == TRUE

\* A mention cannot move an agent away from the parent its log names.
Owned(i, parent) == i # NoLog => logs[i].parent \in {NoParent, parent}

Count(w, child) ==
    LET i  == LogOf(w, child)
        ok == i # NoLog /\ logs[i].state # "unreadable"
    IN [w EXCEPT !.seen = @ \cup {child},
                 !.members = IF ok THEN Append(@, i) ELSE @,
                 !.unavailable = IF ok THEN @ ELSE @ + 1,
                 !.pending = Append(@, [id |-> child, children |->
                                          IF ok THEN logs[i].refs ELSE {}])]

VisitChild(w, parent, child) ==
    IF child \in w.seen \/ ~Owned(LogOf(w, child), parent) THEN w
    ELSE Count(w, child)

Visit ==
    LET p        == Head(walk.pending)
        children == walk.byParent[p.id] \cup p.children
        after    == FoldLeft(LAMBDA w, c : VisitChild(w, p.id, c),
                             [walk EXCEPT !.pending = Tail(@)],
                             SetToSortSeq(children, <))
    IN /\ walk.pc = "visit" /\ walk.pending # <<>>
       /\ walk' = IF Cardinality(after.seen) > MaxTaskAgents
                  THEN [walk EXCEPT !.pc = "failed"] ELSE after
       /\ UNCHANGED <<own, logs>>

-----------------------------------------------------------------------------
(* The sum.                                                                *)

\* Each log reports an amount of its own, as two parts and maybe a total.
Amount(i)    == 10 ^ i
NoTokens     == [parts |-> 0, total |-> 0, totalled |-> FALSE]
Tokens(i, l) == [parts |-> Amount(i), total |-> IF l.parts THEN 0 ELSE Amount(i),
                 totalled |-> ~l.parts]

WithTotal(t) == IF t.totalled THEN t
                ELSE [t EXCEPT !.total = t.parts, !.totalled = TRUE]

MergeTokens(a, b) == [parts |-> a.parts + b.parts, total |-> a.total + b.total,
                      totalled |-> a.totalled \/ b.totalled]

Aggregate ==
    /\ walk.pc = "visit" /\ walk.pending = <<>>
    /\ walk' = [walk EXCEPT !.pc = "done", !.tokens =
         FoldLeft(LAMBDA sum, i : MergeTokens(sum, WithTotal(Tokens(i, logs[i]))),
                  WithTotal(Tokens(0, own)), walk.members)]
    /\ UNCHANGED <<own, logs>>

UsageEnd == walk.pc \in {"done", "failed"} /\ UNCHANGED usageVars

UsageInit ==
    /\ own = Log(Task, NoParent, {}, "ok", FALSE)
    /\ logs = <<>>
    /\ walk = [pc |-> "logs", byId |-> <<>>, deferred |-> <<>>, byParent |-> <<>>,
               seen |-> {Task}, pending |-> <<>>, members |-> <<>>,
               unavailable |-> 0, tokens |-> NoTokens]

UsageNext == AddLog \/ StartWalk \/ Discover \/ Visit \/ Aggregate \/ UsageEnd

UsageSpec == UsageInit /\ [][UsageNext]_usageVars

-----------------------------------------------------------------------------
(* Properties.                                                             *)

\* The log that speaks for an agent, if a member of `family` mentions it.
Speaker(a, mentioned) ==
    LET plain == {i \in DOMAIN logs : Linked(i, Related(i)) /\ logs[i].id = a}
        large == {i \in DOMAIN logs : logs[i].state = "large" /\ logs[i].id = a}
    IN IF plain # {} THEN Min(plain)
       ELSE IF mentioned /\ large # {} THEN Min(large) ELSE NoLog

\* Who has mentioned whom, as far as the logs can be read.
Mentions(p, a) ==
    IF p = Task THEN a \in own.refs
    ELSE LET i == Speaker(p, TRUE)
         IN i # NoLog /\ logs[i].state # "unreadable" /\ a \in logs[i].refs

\* An agent belongs to p if its log says so, or if p mentions it and no log says
\* otherwise.
Belongs(a, p) ==
    LET m == Mentions(p, a)
        i == Speaker(a, m)
    IN IF i = NoLog THEN m
       ELSE logs[i].parent = p \/ (m /\ logs[i].parent = NoParent)

\* Everyone below the task, however the generations are told.
Family ==
    FoldLeft(LAMBDA f, n : f \cup {a \in Agents : \E p \in f : Belongs(a, p)},
             {Task}, [n \in 1..Cardinality(Agents) |-> n])

Available == {a \in Family \ {Task} :
                LET i == Speaker(a, TRUE)
                IN i # NoLog /\ logs[i].state # "unreadable"}

UsageTypeOK ==
    /\ Len(logs) <= MaxLogs /\ Odd <= MaxOdd
    /\ walk.pc \in {"logs", "discover", "visit", "done", "failed"}
    /\ walk.seen \subseteq Agents \cup {Task}

\* The total is that of every member of the family with a log that can be read,
\* once each, from its newest log, whatever the order of the walk and however the
\* two kinds of links contradict each other or run in circles.
FamilyCountedOnce ==
    walk.pc = "done" =>
      /\ walk.tokens.totalled
      /\ walk.tokens.total
           = Amount(0) + MapThenSumSet(LAMBDA a : Amount(Speaker(a, TRUE)), Available)

\* A total that leaves someone out says so.
MissingIsReported ==
    walk.pc = "done" =>
      walk.unavailable = Cardinality(Family \ Available) - 1

\* A total is that of the whole family, or says that it is not.
FamilyIsCounted == FamilyCountedOnce /\ MissingIsReported

=============================================================================
