---------------------------- MODULE SessionIndex ----------------------------
(***************************************************************************)
(* The persisted search index of session_index.py, shared by every server  *)
(* process of one user.  A listing or a search opens its own               *)
(* SessionSearchIndex (one read of the file), looks sessions up and stores *)
(* what it had to compute, and at the end `flush` merges the entries it    *)
(* touched into the file under a non-blocking file lock.  Meanwhile Codex  *)
(* changes the rollouts and any process may die.                           *)
(*                                                                         *)
(* A rollout is reduced to its signature: the newest modification time of  *)
(* its segments and a count of its changes, which stands for the sizes,    *)
(* change times and paths that tell two versions apart.  The search fields *)
(* an entry holds are reduced to the version they were computed from.      *)
(***************************************************************************)
EXTENDS Naturals, Sequences, SequencesExt

CONSTANTS
    Procs,       \* server processes
    NoProc,      \* the holder of a free lock
    Keys,        \* rollout paths, as _path_key tells them apart
    Kinds,       \* calls considered: "search" (with a query), "list" (without)
    MaxEntries,  \* MAX_INDEX_ENTRIES
    Weight,      \* bytes an entry of each key takes, with its comma
    Envelope,    \* bytes of an index around its entries (the last has no comma)
    MaxBytes,    \* MAX_INDEX_BYTES
    MaxTime,     \* bound: modification times are 0..MaxTime
    MaxChanges   \* bound: changes of all rollouts over one run

ASSUME ProcsAssumption   == NoProc \notin Procs
ASSUME KeysAssumption    == Keys # {}
ASSUME KindsAssumption   == Kinds \subseteq {"search", "list"}
ASSUME EntriesAssumption == MaxEntries \in Nat
ASSUME BytesAssumption   ==
    /\ Weight \in [Keys -> Nat]
    /\ Envelope \in Nat /\ MaxBytes \in Nat
    /\ Envelope + 1 < MaxBytes  \* an index without entries can be written
ASSUME BoundsAssumption  == MaxTime \in Nat /\ MaxChanges \in Nat

VARIABLES
    file,     \* the current signature of each rollout
    changes,  \* changes made so far
    index,    \* the index file: its entries, least recently used first
    holder,   \* the process that holds the lock file
    pc,       \* where each call is
    kind,     \* whether it searches or lists
    left,     \* sessions it has not visited
    entries,  \* _entries
    touched,  \* _touched; _dirty holds exactly when it is not empty
    draft,    \* the entry being made: its key and what is known of it
    merged    \* what flush will write, and the touched entries still to merge

call == <<pc, kind, left, entries, touched, draft, merged>>
vars == <<file, changes, index, holder, call>>

Signature == [time : 0..MaxTime, version : 0..MaxChanges]
Entry     == [key : Keys, sig : Signature, of : 0..MaxChanges]

\* Nothing is being made (the values have no meaning).
NoSignature == [time |-> 0, version |-> 0]
NoDraft == [key |-> CHOOSE k \in Keys : TRUE, sig |-> NoSignature, of |-> 0]
NoMerge == [entries |-> <<>>, todo |-> <<>>]

Init ==
    /\ file \in [Keys -> {f \in Signature : f.version = 0}]
    /\ changes = 0
    /\ index = <<>>
    /\ holder = NoProc
    /\ pc = [p \in Procs |-> "idle"]
    /\ kind \in [Procs -> Kinds]
    /\ left = [p \in Procs |-> {}]
    /\ entries = [p \in Procs |-> <<>>]
    /\ touched = [p \in Procs |-> <<>>]
    /\ draft = [p \in Procs |-> NoDraft]
    /\ merged = [p \in Procs |-> NoMerge]

-----------------------------------------------------------------------------
(* OrderedDict, as a sequence of entries with distinct keys.               *)

At(s, k) == {i \in DOMAIN s : s[i].key = k}
Has(s, k) == At(s, k) # {}
Get(s, k) == s[CHOOSE i \in At(s, k) : TRUE]
Drop(s, k) ==
    IF Has(s, k) THEN RemoveAt(s, CHOOSE i \in At(s, k) : TRUE) ELSE s

\* (mutant of Put) the entry is replaced where it stands.
PutInPlace(s, e) ==
    IF Has(s, e.key) THEN [i \in DOMAIN s |-> IF s[i].key = e.key THEN e ELSE s[i]]
    ELSE Append(s, e)

\* (mutant of Put) the old entry of the key stays.
PutTwice(s, e) == Append(s, e)

\* entries[e.key] = e, then move_to_end.
Put(s, e) == Append(Drop(s, e.key), e)

\* len(encoded), of an index that holds s.
Encoded(s) ==
    Envelope + FoldFunction(+, 0, [i \in DOMAIN s |-> Weight[s[i].key]])

\* The writer's first limit: popitem(last=False) while there are more than
\* MAX_INDEX_ENTRIES.
Recent(s) ==
    SubSeq(s, IF Len(s) > MaxEntries THEN Len(s) - MaxEntries + 1 ELSE 1, Len(s))

\* (mutant of ShortEnough) the newline that is written too is not counted.
ShortEnoughNoNewline(s) == Encoded(s) <= MaxBytes

\* Where the loop of _atomic_write breaks.
ShortEnough(s) == Encoded(s) + 1 <= MaxBytes

\* The writer's second limit: popitem(last=False) until the rest, encoded, is
\* short enough.
WithinBytes(s) ==
    LET Rest(n) == SubSeq(s, n + 1, Len(s))
    IN Rest(CHOOSE n \in 0..Len(s) :
               ShortEnough(Rest(n)) /\ \A m \in 0..(n - 1) : ~ShortEnough(Rest(m)))

\* flush bounds the entries, _atomic_write then the bytes.
Trim(s) == WithinBytes(Recent(s))

\* st_size of a file that holds s: what is encoded, and a newline.
FileBytes(s) == Encoded(s) + 1

\* The reader's limits: the size of the file before it is opened, the number of
\* entries once it is parsed.
Fits(s) == FileBytes(s) <= MaxBytes /\ Len(s) <= MaxEntries

\* _read_entries: a file beyond its limits is no index at all.
Read(s) == IF Fits(s) THEN s ELSE <<>>

-----------------------------------------------------------------------------
(* Codex.                                                                  *)

\* A rollout is appended to, or rewritten with any modification time.
Change(k) ==
    /\ changes < MaxChanges
    /\ changes' = changes + 1
    /\ \E t \in 0..MaxTime :
          file' = [file EXCEPT ![k] = [time |-> t, version |-> @.version + 1]]
    /\ UNCHANGED <<index, holder, call>>

-----------------------------------------------------------------------------
(* A call.                                                                 *)

Go(p, where) == pc' = [pc EXCEPT ![p] = where]

\* __init__: the index file is read once.
Open(p) ==
    /\ pc[p] = "idle"
    /\ Go(p, "scan")
    /\ kind' \in {[kind EXCEPT ![p] = how] : how \in Kinds}
    /\ left' = [left EXCEPT ![p] = Keys]
    /\ entries' = [entries EXCEPT ![p] = Read(index)]
    /\ UNCHANGED <<file, changes, index, holder, touched, draft, merged>>

Visit(p, k) ==
    /\ pc[p] = "scan"
    /\ k \in left[p]
    /\ left' = [left EXCEPT ![p] = @ \ {k}]
    /\ UNCHANGED <<file, changes, index, holder, kind, merged>>

\* The entry of k in memory describes the rollout as it is now.
Valid(p, k) == Has(entries[p], k) /\ Get(entries[p], k).sig = file[k]

\* lookup finds the session: its entry becomes the most recently used.
Hit(p, k) ==
    /\ Visit(p, k)
    /\ kind[p] = "search"
    /\ Valid(p, k)
    /\ LET e == Get(entries[p], k) IN
          /\ entries' = [entries EXCEPT ![p] = Put(@, e)]
          /\ touched' = [touched EXCEPT ![p] = Put(@, e)]
    /\ UNCHANGED <<pc, draft>>

\* lookup finds nothing: the fields will be stored under this signature.
Miss(p, k) ==
    /\ Visit(p, k)
    /\ kind[p] = "search"
    /\ ~Valid(p, k)
    /\ Go(p, "fields")
    /\ draft' = [draft EXCEPT ![p] = [key |-> k, sig |-> file[k], of |-> 0]]
    /\ UNCHANGED <<entries, touched>>

\* A listing projects the overview first.
Overview(p, k) ==
    /\ Visit(p, k)
    /\ kind[p] = "list"
    /\ Go(p, "sign")
    /\ draft' = [draft EXCEPT ![p] =
                    [key |-> k, sig |-> NoSignature, of |-> file[k].version]]
    /\ UNCHANGED <<entries, touched>>

\* store, then back to the loop.
Store(p, e) ==
    /\ entries' = [entries EXCEPT ![p] = Recent(Put(@, e))]
    /\ touched' = [touched EXCEPT ![p] = Put(@, e)]
    /\ Go(p, "scan")
    /\ draft' = [draft EXCEPT ![p] = NoDraft]
    /\ UNCHANGED <<file, changes, index, holder, kind, left, merged>>

\* (mutant of StoreFields) the rollout is signed after it is read.
StoreFieldsResigned(p) ==
    /\ pc[p] = "fields"
    /\ LET k == draft[p].key IN
          \E v \in 0..file[k].version :
             Store(p, [key |-> k, sig |-> file[k], of |-> v])

\* A search reads the fields after it took the signature.
StoreFields(p) ==
    /\ pc[p] = "fields"
    /\ Store(p, [draft[p] EXCEPT !.of = file[draft[p].key].version])

\* A listing takes the signature after it read the fields.
StoreOverview(p) ==
    /\ pc[p] = "sign"
    /\ Store(p, [draft[p] EXCEPT !.sig = file[draft[p].key]])

\* The rollout cannot be read: `continue`.
Skip(p) ==
    /\ pc[p] \in {"fields", "sign"}
    /\ Go(p, "scan")
    /\ draft' = [draft EXCEPT ![p] = NoDraft]
    /\ UNCHANGED <<file, changes, index, holder, kind, left, entries, touched,
                   merged>>

-----------------------------------------------------------------------------
(* flush.                                                                  *)

\* The call is over and its SessionSearchIndex with it.
Forget(p) ==
    /\ Go(p, "idle")
    /\ left' = [left EXCEPT ![p] = {}]
    /\ entries' = [entries EXCEPT ![p] = <<>>]
    /\ touched' = [touched EXCEPT ![p] = <<>>]
    /\ draft' = [draft EXCEPT ![p] = NoDraft]
    /\ merged' = [merged EXCEPT ![p] = NoMerge]
    /\ UNCHANGED <<file, changes, kind>>

\* (mutant of Release) the lock file stays locked.
ReleaseNothing(p) == UNCHANGED holder

\* The lock file is closed, if this process opened it.
Release(p) == holder' = IF holder = p THEN NoProc ELSE holder

\* The limit is reached or every session was visited; nothing to save.
Clean(p) ==
    /\ pc[p] = "scan"
    /\ touched[p] = <<>>
    /\ Forget(p)
    /\ UNCHANGED <<index, holder>>

Flush(p) ==
    /\ pc[p] = "scan"
    /\ touched[p] # <<>>
    /\ Go(p, "lock")
    /\ left' = [left EXCEPT ![p] = {}]
    /\ UNCHANGED <<file, changes, index, holder, kind, entries, touched, draft,
                   merged>>

\* flock(LOCK_EX | LOCK_NB) succeeds.
Lock(p) ==
    /\ pc[p] = "lock"
    /\ holder = NoProc
    /\ holder' = p
    /\ Go(p, "load")
    /\ UNCHANGED <<file, changes, index, kind, left, entries, touched, draft,
                   merged>>

\* (mutant of Contended) the lock is waited for.
ContendedWaits(p) == Lock(p)

\* Another process holds the lock: what this call learnt is not saved.
Contended(p) ==
    /\ pc[p] = "lock"
    /\ holder # NoProc
    /\ Forget(p)
    /\ UNCHANGED <<index, holder>>

\* (mutant of Load) the snapshot of the beginning of the call is merged into.
LoadStale(p) ==
    /\ pc[p] = "load"
    /\ Go(p, "merge")
    /\ merged' = [merged EXCEPT ![p] =
                     [entries |-> entries[p], todo |-> touched[p]]]
    /\ UNCHANGED <<file, changes, index, holder, kind, left, entries, touched,
                   draft>>

\* merged = _read_entries(self._path)
Load(p) ==
    /\ pc[p] = "load"
    /\ Go(p, "merge")
    /\ merged' = [merged EXCEPT ![p] =
                     [entries |-> Read(index), todo |-> touched[p]]]
    /\ UNCHANGED <<file, changes, index, holder, kind, left, entries, touched,
                   draft>>

\* The touched entry e may replace what the file holds for its rollout.
Wins(s, e) ==
    Has(s, e.key) =>
       \/ Get(s, e.key).sig = e.sig
       \/ Get(s, e.key).sig.time <= e.sig.time

\* One turn of the loop over _touched.
Merge(p) ==
    /\ pc[p] = "merge"
    /\ merged[p].todo # <<>>
    /\ LET s == merged[p].entries
           e == Head(merged[p].todo)
       IN merged' = [merged EXCEPT ![p] =
             [entries |-> IF Wins(s, e) THEN Put(s, e) ELSE s,
              todo    |-> Tail(merged[p].todo)]]
    /\ UNCHANGED <<file, changes, index, holder, pc, kind, left, entries,
                   touched, draft>>

\* _atomic_write: os.replace of a complete temporary file, then unlock.
Replace(p) ==
    /\ pc[p] = "merge"
    /\ merged[p].todo = <<>>
    /\ index' = Trim(merged[p].entries)
    /\ Release(p)
    /\ Forget(p)

\* The process dies, or flush meets an OSError: the kernel drops the lock, and
\* a temporary file that was not renamed is never read.
Abandon(p) ==
    /\ pc[p] # "idle"
    /\ Release(p)
    /\ Forget(p)
    /\ UNCHANGED index

-----------------------------------------------------------------------------

\* What the call does by itself.
Step(p) ==
    \/ \E k \in Keys : Hit(p, k) \/ Miss(p, k) \/ Overview(p, k)
    \/ StoreFields(p) \/ StoreOverview(p) \/ Skip(p)
    \/ Clean(p) \/ Flush(p)
    \/ Lock(p) \/ Contended(p) \/ Load(p) \/ Merge(p) \/ Replace(p)

Next ==
    \/ \E k \in Keys : Change(k)
    \/ \E p \in Procs : Open(p) \/ Step(p) \/ Abandon(p)

Spec == Init /\ [][Next]_vars

-----------------------------------------------------------------------------
(* Properties.                                                             *)

\* The types, and that the sequences never repeat a key.
Dict(s) == /\ s \in Seq(Entry)
           /\ \A i, j \in DOMAIN s : s[i].key = s[j].key => i = j

TypeOK ==
    /\ file \in [Keys -> Signature]
    /\ changes \in 0..MaxChanges
    /\ Dict(index)
    /\ holder \in Procs \cup {NoProc}
    /\ pc \in [Procs -> {"idle", "scan", "fields", "sign", "lock", "load",
                         "merge"}]
    /\ kind \in [Procs -> Kinds]
    /\ left \in [Procs -> SUBSET Keys]
    /\ draft \in [Procs -> Entry]
    /\ \A p \in Procs : /\ Dict(entries[p])
                        /\ Dict(touched[p])
                        /\ Dict(merged[p].entries)
                        /\ Dict(merged[p].todo)

\* What flush writes can be read back: after both of the writer's loops no index
\* exceeds either of the reader's limits, for which it would be rejected as a
\* whole and with it every session forgotten.
IndexReadable == Read(index) = index

\* The lock file is held by the process that is between reading the index it
\* merges into and replacing the file, and by nobody else: no two processes
\* write at a time, and the lock outlives neither a finished flush nor one that
\* fails or dies anywhere in between.
LockHeldWhileSaving ==
    \A p \in Procs : holder = p <=> pc[p] \in {"load", "merge"}

\* A hit never serves what another version of the session said: fields that a
\* search would accept were computed from the rollout as it is now.
HitIsCurrent ==
    \A p \in Procs : \A e \in Range(entries[p]) :
        pc[p] = "scan" /\ kind[p] = "search" /\ e.sig = file[e.key]
            => e.of = file[e.key].version

\* A process never undoes what another one saved: after any write, an entry the
\* file held is still there, or the file holds one of the same session that is
\* not older, or the entry had to leave because the index was full.
Evicted(e) ==
    \E p \in Procs : \E d \in Range(merged[p].entries) :
        /\ ~Has(index', d.key)
        /\ ~Fits(<<d>> \o index')
        /\ Has(merged[p].entries, e.key)

NoLostUpdateStep ==
    \A e \in Range(index) :
        \/ Has(index', e.key) /\ Get(index', e.key).sig.time >= e.sig.time
        \/ ~Has(index', e.key) /\ Evicted(e)
NoLostUpdate == [][NoLostUpdateStep]_vars

\* What a call just used outlives what it did not: a write drops a touched
\* entry only if another process knew a later version of its session, or if
\* nothing but touched entries is left.
RecentlyUsedStep ==
    \A p \in Procs : Replace(p) =>
        \A e \in Range(touched[p]) :
           \/ Has(index', e.key)
           \/ Has(index, e.key) /\ Get(index, e.key).sig.time > e.sig.time
           \/ \A f \in Range(index') : Has(touched[p], f.key)
RecentlyUsedKept == [][RecentlyUsedStep]_vars
=============================================================================
