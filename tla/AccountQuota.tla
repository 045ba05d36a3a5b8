---------------------------- MODULE AccountQuota ----------------------------
(***************************************************************************)
(* The account quota that is shown with any task (projection.py:           *)
(* latest_account_quota, merge_rate_limits; sessions.py:                   *)
(* recent_rate_limit_entries).  Several tasks log samples of the same      *)
(* quota.  A poll reads only the end of each log that changed, goes on     *)
(* from what it remembers of the log, and shows the log whose sample is    *)
(* the newest.  A sample may say nothing of a window, or that the window   *)
(* was retired.                                                            *)
(***************************************************************************)
EXTENDS Integers, Sequences, FiniteSets, SequencesExt, FiniteSetsExt

CONSTANTS
    QuotaLogs,   \* logs that are discovered
    Windows,     \* the windows of a quota: primary, secondary
    TailLines,   \* lines in the last 256 KiB of a log
    MaxSamples,  \* samples in all logs (bounds them)
    MaxRewrites, \* how often a log is replaced or cut (bounds it)
    MaxUnread    \* how often a log cannot be read (bounds it)

\* Lines without a sample are left out: the tail is taken to hold the last
\* sample.  One that other lines push out of it before any poll reads it is as if
\* it had not been logged.  At most MAX_QUOTA_FILES logs are discovered.
ASSUME QuotaAssumption ==
    /\ IsFiniteSet(QuotaLogs)
    /\ TailLines \in Nat \ {0}
    /\ {MaxSamples, MaxRewrites, MaxUnread} \subseteq Nat

VARIABLES
    clock,     \* samples logged so far; a sample's number is also its value
    samples,   \* log -> its samples
    identity,  \* log -> its inode, and a stamp that every change of it moves
    rewrites,  \* logs replaced or cut so far
    unread,    \* logs that could not be read so far
    cache,     \* _QUOTA_CACHE: log -> signature and merged sample
    quota,     \* the last answer
    noticed    \* log -> samples seen in the tail by a poll, since the log was
               \* last rewritten or could not be read

quotaVars == <<clock, samples, identity, rewrites, unread, cache, quota, noticed>>

Absent  == -1   \* a sample says nothing of this window
Retired == 0    \* it was retired

NoSample == [time |-> 0, window |-> [w \in Windows |-> Retired]]

\* No signature: nothing is remembered of the log.
Unknown == [inode |-> -1, stamp |-> -1, size |-> -1]

Signature(l) == [inode |-> identity[l].inode, stamp |-> identity[l].stamp,
                 size |-> Len(samples[l])]

\* A log that was cut and not polled since.  No poll can tell it from a log
\* that only grew once it is longer than it was; Codex does not cut its logs.
WasCut(l) == /\ cache[l].signature.inode = identity[l].inode
          /\ cache[l].signature.size > 0 /\ noticed[l] = {}

\* Codex logs a sample, newer than the others or at the same time as the last.
LogSample(l) ==
    /\ clock < MaxSamples
    /\ WasCut(l) => Len(samples[l]) < cache[l].signature.size
    /\ identity' = [identity EXCEPT ![l].stamp = @ + 1]
    /\ \E said \in [Windows -> {Absent, Retired, clock + 1}], tick \in {0, 1} :
         /\ \E w \in Windows : said[w] # Absent
         /\ LET last == Max({0} \cup UNION {{samples[k][i].time : i \in DOMAIN samples[k]}
                                            : k \in QuotaLogs})
            IN samples' = [samples EXCEPT ![l] =
                 Append(@, [time |-> IF last = 0 THEN 1 ELSE last + tick, window |-> said])]
    /\ clock' = clock + 1
    /\ UNCHANGED <<rewrites, unread, cache, quota, noticed>>

\* A log is replaced by a file with other samples, or the same one is cut to
\* no more than the last poll saw of it (see WasCut).
Rewrite(l) ==
    /\ rewrites < MaxRewrites /\ samples[l] # <<>>
    /\ \E n \in 0..(Len(samples[l]) - 1), inode \in {0, 1} :
         /\ inode = 0 => n <= cache[l].signature.size
         /\ samples' = [samples EXCEPT ![l] = SubSeq(@, 1, n)]
         /\ identity' = [identity EXCEPT ![l] =
                           [inode |-> @.inode + inode, stamp |-> @.stamp + 1]]
    /\ rewrites' = rewrites + 1
    /\ noticed' = [noticed EXCEPT ![l] = {}]
    /\ UNCHANGED <<clock, unread, cache, quota>>

-----------------------------------------------------------------------------
(* A poll.                                                                 *)

\* merge_rate_limits: what a sample says of a window replaces what was said.
MergeLimits(old, said) ==
    [w \in Windows |-> IF said[w] = Absent THEN old[w] ELSE said[w]]

TailOf(l) == SubSeq(samples[l], Max({1, Len(samples[l]) - TailLines + 1}),
                    Len(samples[l]))

Apply(sample, entry) ==
    IF entry.time < sample.time THEN sample
    ELSE [time |-> entry.time, window |-> MergeLimits(sample.window, entry.window)]

\* What is remembered holds while the same file grows.
Kept(l) ==
    LET was == cache[l].signature
    IN IF was.inode = identity[l].inode /\ Len(samples[l]) > was.size
       THEN cache[l].sample ELSE NoSample

\* (mutant of Refreshed) only the tail counts.
RefreshedFromTail(l) ==
    IF cache[l].signature = Signature(l) THEN cache[l].sample
    ELSE FoldLeft(Apply, NoSample, TailOf(l))

Refreshed(l) ==
    IF cache[l].signature = Signature(l) THEN cache[l].sample
    ELSE FoldLeft(Apply, Kept(l), TailOf(l))

\* The logs that were read and have the newest sample.
Newest(fresh) ==
    {l \in DOMAIN fresh : \A k \in DOMAIN fresh : fresh[k].time <= fresh[l].time}

\* Some logs may not be readable: they are forgotten and left out.
Poll ==
    \E broken \in SUBSET QuotaLogs :
      LET fresh == [l \in QuotaLogs \ broken |-> Refreshed(l)]
          seen  == {l \in DOMAIN fresh : fresh[l] # NoSample}
      IN /\ unread + Cardinality(broken) <= MaxUnread
         /\ unread' = unread + Cardinality(broken)
         /\ cache' = [l \in QuotaLogs |->
              IF l \in broken THEN [signature |-> Unknown, sample |-> NoSample]
              ELSE [signature |-> Signature(l), sample |-> fresh[l]]]
         /\ IF seen = {} THEN quota' = NoSample
            ELSE \E l \in Newest(fresh) : quota' = fresh[l]
         /\ noticed' = [l \in QuotaLogs |->
              IF l \in broken THEN {}
              ELSE noticed[l] \cup Max({1, Len(samples[l]) - TailLines + 1})
                                  ..Len(samples[l])]
         /\ UNCHANGED <<clock, samples, identity, rewrites>>

QuotaInit ==
    /\ clock = 0 /\ rewrites = 0 /\ unread = 0
    /\ samples = [l \in QuotaLogs |-> <<>>]
    /\ identity = [l \in QuotaLogs |-> [inode |-> 0, stamp |-> 0]]
    /\ cache = [l \in QuotaLogs |-> [signature |-> Unknown, sample |-> NoSample]]
    /\ quota = NoSample
    /\ noticed = [l \in QuotaLogs |-> {}]

QuotaNext == (\E l \in QuotaLogs : LogSample(l) \/ Rewrite(l)) \/ Poll

QuotaSpec == QuotaInit /\ [][QuotaNext]_quotaVars

-----------------------------------------------------------------------------
(* Properties.                                                             *)

QuotaTypeOK ==
    /\ clock \in 0..MaxSamples /\ rewrites \in 0..MaxRewrites
    /\ unread \in 0..MaxUnread
    /\ \A l \in QuotaLogs :
         /\ noticed[l] \subseteq 1..MaxSamples
         /\ cache[l].sample.window \in [Windows -> 0..MaxSamples]
    /\ quota.window \in [Windows -> 0..MaxSamples]

\* The last thing the noticed samples of a log say of a window.
LastSaid(l, w) ==
    LET said == {i \in noticed[l] \cap DOMAIN samples[l] :
                   samples[l][i].window[w] # Absent}
    IN IF said = {} THEN Retired ELSE samples[l][Max(said)].window[w]

Polled == \A l \in QuotaLogs : cache[l].signature = Signature(l)

\* Right after a poll the answer is that of one log, the newest, and shows of
\* each window the last thing this log was seen to say: samples that have left
\* the tail are not forgotten, retired windows stay retired, and nothing of a
\* file that was replaced or cut survives in its successor.
QuotaIsNewest ==
    Polled /\ (\E l \in QuotaLogs : samples[l] # <<>>) =>
      \E l \in QuotaLogs :
        /\ samples[l] # <<>> /\ quota.time = Last(samples[l]).time
        /\ \A k \in QuotaLogs :
             samples[k] # <<>> => quota.time >= Last(samples[k]).time
        /\ quota.window = [w \in Windows |-> LastSaid(l, w)]

\* While logs only grow and can be read, the answer never goes back in time.
NeverOlder == rewrites' = 0 /\ unread' = 0 => quota'.time >= quota.time

\* The answer is the newest there is, and never replaced by an older one.
QuotaIsCurrent == [][QuotaIsNewest' /\ NeverOlder]_quotaVars

=============================================================================
