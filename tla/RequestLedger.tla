---------------------------- MODULE RequestLedger ----------------------------
(***************************************************************************)
(* What a client of the server may rely on, without threads, queue, lock   *)
(* or pipe: a message is admitted under an id nobody holds, or refused; it *)
(* is settled at most once; only a request the client asked to cancel      *)
(* while it held its id is withdrawn.  McServer implements this module.    *)
(***************************************************************************)
EXTENDS Naturals

CONSTANTS Ids, NoId, MaxMessages

Msg == 1..MaxMessages

VARIABLES
    arrived,    \* messages the server has taken
    ident,      \* the id of each of them
    held,       \* the admitted requests that still own their id
    asked,      \* the requests cancelled while they owned their id
    replies,    \* replies written for each message
    withdrawn,  \* requests dropped because of a cancellation
    lost        \* messages whose reply the client did not take

ledger == <<arrived, ident, held, asked, replies, withdrawn, lost>>

Open(k) ==
    k \in 1..arrived /\ replies[k] = 0 /\ k \notin withdrawn \cup lost

Init ==
    /\ arrived = 0
    /\ ident = [k \in Msg |-> NoId]
    /\ held = {}
    /\ asked = {}
    /\ replies = [k \in Msg |-> 0]
    /\ withdrawn = {}
    /\ lost = {}

\* A message arrives; it holds its id when it is admitted.
Arrive(i) ==
    /\ arrived < MaxMessages
    /\ arrived' = arrived + 1
    /\ ident' = [ident EXCEPT ![arrived + 1] = i]
    /\ \/ held' = held
       \/ /\ i \in Ids
          /\ \A h \in held : ident[h] # i
          /\ held' = held \cup {arrived + 1}
    /\ UNCHANGED <<asked, replies, withdrawn, lost>>

Cancel(k) ==
    /\ k \in held
    /\ asked' = asked \cup {k}
    /\ UNCHANGED <<arrived, ident, held, replies, withdrawn, lost>>

Answer(k) ==
    /\ Open(k)
    /\ replies' = [replies EXCEPT ![k] = 1]
    /\ UNCHANGED <<arrived, ident, held, asked, withdrawn, lost>>

Withdraw(k) ==
    /\ Open(k)
    /\ k \in held \cap asked
    /\ withdrawn' = withdrawn \cup {k}
    /\ UNCHANGED <<arrived, ident, held, asked, replies, lost>>

Lose(k) ==
    /\ Open(k)
    /\ lost' = lost \cup {k}
    /\ held' \in {held, held \ {k}}
    /\ UNCHANGED <<arrived, ident, asked, replies, withdrawn>>

\* The id is free again: the request is settled, or its admission undone.
Release(k) ==
    /\ k \in held
    /\ held' = held \ {k}
    /\ UNCHANGED <<arrived, ident, asked, replies, withdrawn, lost>>

Next ==
    \/ \E i \in Ids \cup {NoId} : Arrive(i)
    \/ \E k \in Msg : \/ Cancel(k) \/ Answer(k) \/ Withdraw(k) \/ Lose(k)
                      \/ Release(k)

Spec == Init /\ [][Next]_ledger
=============================================================================
