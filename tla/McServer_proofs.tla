--------------------------- MODULE McServer_proofs ---------------------------
(***************************************************************************)
(* Proofs about McServer, for every set of ids, queue capacity, number of  *)
(* messages and pipe size: type correctness, the inductive invariant IInv, *)
(* and from it the safety of cancellation, settlement and execution order. *)
(***************************************************************************)
EXTENDS McServer, SequenceTheorems, TLAPS

\* The assumptions on the constants every proof may use.
USE IdsAssumption, PendingAssumption, MessagesAssumption, PipeAssumption,
    ErrorsAssumption

\* The groups of variables.
USE DEF local, marks, threads, pipe, record, fate

-----------------------------------------------------------------------------
(* The inbox as a set.                                                     *)

\* put adds one element to the inbox.
LEMMA RangeAppend ==
    ASSUME NEW S, NEW s \in Seq(S), NEW x \in S
    PROVE  Range(Append(s, x)) = Range(s) \cup {x}
BY DEF Range

\* get removes the first element and no other.
LEMMA RangeTail ==
    ASSUME NEW S, NEW s \in Seq(S), s # <<>>
    PROVE  /\ Range(s) = Range(Tail(s)) \cup {Head(s)}
           /\ Head(s) \in S
           /\ Tail(s) \in Seq(S)
           /\ Head(s) = s[1]
           /\ Len(Tail(s)) = Len(s) - 1
           /\ \A n \in 1..Len(Tail(s)) : n + 1 \in 1..Len(s) /\ Tail(s)[n] = s[n + 1]
<1>1. /\ Head(s) \in S
      /\ Tail(s) \in Seq(S)
      /\ Head(s) = s[1]
      /\ Len(s) \in Nat /\ Len(s) > 0
      /\ Len(Tail(s)) = Len(s) - 1
      /\ \A n \in 1..Len(Tail(s)) : n + 1 \in 1..Len(s) /\ Tail(s)[n] = s[n + 1]
  OBVIOUS
<1>2. Range(s) \subseteq Range(Tail(s)) \cup {Head(s)}
  <2>1. SUFFICES ASSUME NEW n \in 1..Len(s), n # 1
                 PROVE  s[n] \in Range(Tail(s))
    BY <1>1 DEF Range
  <2>2. n - 1 \in 1..Len(Tail(s)) /\ s[n] = Tail(s)[n - 1]
    BY <1>1, <2>1
  <2>3. DOMAIN Tail(s) = 1..Len(Tail(s))
    BY <1>1
  <2>4. QED BY <2>2, <2>3 DEF Range
<1>3. Range(Tail(s)) \cup {Head(s)} \subseteq Range(s)
  BY <1>1 DEF Range
<1>4. QED BY <1>1, <1>2, <1>3

\* The elements of the inbox are messages or the sentinel.
LEMMA RangeType ==
    ASSUME NEW S, NEW s \in Seq(S)
    PROVE  Range(s) \subseteq S
BY DEF Range

-----------------------------------------------------------------------------
(* The initial states.                                                     *)

LEMMA InitInv == Init => IInv
<1> SUFFICES ASSUME Init PROVE IInv
  OBVIOUS
<1> USE DEF Init, IdleIn
<1>1. Range(inbox) = {} /\ Held = {} /\ Queued = {}
  BY DEF Range, Held, Queued, Threads
<1>2. TypeOK
  <2>1. ok \in BOOLEAN /\ disconnected \in BOOLEAN
    OBVIOUS
  <2>2. inbox \in Seq(Msg \cup {Poison})
    OBVIOUS
  <2>3. ident \in [Msg -> Ids \cup {NoId}] /\ replies \in [Msg -> Nat]
    OBVIOUS
  <2>4. QED BY <2>1, <2>2, <2>3 DEF TypeOK, Threads, ThreadPc
<1>3. PlacesMatch
  BY DEF PlacesMatch, Active, ThreadPc, Threads
<1>4. NewestFirst
  BY DEF NewestFirst, Active, Threads, Msg
<1>5. InboxOrdered /\ AcceptedProgress
  BY <1>1 DEF InboxOrdered, AcceptedProgress, Active, Threads
<1>6. InFlightUnsettled
  BY <1>1 DEF InFlightUnsettled, Threads
<1>7. OneOwnerPerId /\ MarksAreCurrent /\ AskedIsMarked
  BY <1>1 DEF OneOwnerPerId, HeldIds, MarksAreCurrent, AskedIsMarked
<1>8. WithdrawnWasAsked /\ SettledOnce
  BY DEF WithdrawnWasAsked, SettledOnce
<1>9. QED
  BY <1>2, <1>3, <1>4, <1>5, <1>6, <1>7, <1>8 DEF IInv

\* A step of the server is a step of the ledger or leaves the ledger alone.
LedgerStep == Ledger!Next \/ UNCHANGED Ledger!ledger

USE DEF Ledger!Msg

-----------------------------------------------------------------------------
(* Facts every step may use.                                               *)

\* A thread that works on something works on a message of the run.
LEMMA ActiveJobs ==
    ASSUME IInv
    PROVE  /\ \A t \in Threads : Active(t) => job[t] \in Msg
           /\ \A t \in Threads : pc[t] \in ThreadPc \cup {"put"} <=> Active(t)
           /\ Queued \subseteq Msg
           /\ Held \subseteq Msg
           /\ Held = Queued \cup {job[t] : t \in {u \in Threads : mode[u] = "registered"}}
<1> USE DEF IInv
<1>1. \A t \in Threads : Active(t) => job[t] \in Msg
  BY DEF NewestFirst, AcceptedProgress, Threads, TypeOK
<1>2. \A t \in Threads : pc[t] \in ThreadPc \cup {"put"} <=> Active(t)
  BY DEF PlacesMatch, Active, Threads, ThreadPc
<1>3. Queued \subseteq Msg
  BY RangeType DEF Queued, TypeOK
<1>4. Held = Queued \cup {job[t] : t \in {u \in Threads : mode[u] = "registered"}}
  BY DEF Held, Queued
<1>5. Held \subseteq Msg
  BY <1>1, <1>3, <1>4 DEF Active
<1>6. QED BY <1>1, <1>2, <1>3, <1>4, <1>5

\* While the reader reads, every registered request is an accepted one, and
\* the message it reads next has no history.
LEMMA ReadingHeld ==
    ASSUME IInv, pc["reader"] = "read", arrived < MaxMessages
    PROVE  /\ mode["reader"] = "idle"
           /\ arrived + 1 \in Msg
           /\ Held \subseteq accepted
           /\ \A k \in accepted : k \in Msg /\ k <= arrived
           /\ \A k \in Held : k # arrived + 1
<1> USE DEF IInv
<1>1. mode["reader"] = "idle"
  BY DEF PlacesMatch, Active, ThreadPc
<1>2. arrived + 1 \in Msg
  BY DEF TypeOK, Msg
<1>3. Held \subseteq accepted
  BY <1>1, ActiveJobs DEF AcceptedProgress, Threads, Active
<1>4. \A k \in accepted : k \in Msg /\ k <= arrived
  BY DEF NewestFirst, TypeOK, Msg
<1>5. QED BY <1>1, <1>2, <1>3, <1>4, ActiveJobs DEF TypeOK, Msg

\* The reader takes a message it only answers (Refuse), or `initialize`.
LEMMA ReadUnregistered ==
    ASSUME IInv, NEW i \in Ids \cup {NoId}, Arrive(i), ReadFrame,
           UNCHANGED outstanding,
           \/ Take("lock", "refuse") /\ ok' = ok
           \/ Take("start", "initialize") /\ ok' = FALSE /\ phase = "new"
    PROVE  IInv' /\ LedgerStep
<1> USE DEF IInv
<1>1. /\ pc["reader"] = "read" /\ arrived < MaxMessages
      /\ arrived' = arrived + 1
      /\ ident' = [ident EXCEPT ![arrived + 1] = i]
  BY DEF Arrive
<1>2. /\ mode["reader"] = "idle"
      /\ arrived + 1 \in Msg
      /\ Held \subseteq accepted
      /\ \A k \in accepted : k \in Msg /\ k <= arrived
      /\ \A k \in Held : k # arrived + 1
  BY <1>1, ReadingHeld
<1>3. /\ pc' = [pc EXCEPT !["reader"] = pc'["reader"]]
      /\ job' = [job EXCEPT !["reader"] = arrived + 1]
      /\ mode' = [mode EXCEPT !["reader"] = mode'["reader"]]
      /\ pc'["reader"] \in {"lock", "start"}
      /\ mode'["reader"] \in {"refuse", "initialize"}
      /\ pc'["reader"] = "start" <=> mode'["reader"] = "initialize"
      /\ mode'["reader"] = "initialize" => phase = "new"
  BY DEF Take, TypeOK, Threads
<1>4. ok' \in BOOLEAN
  BY DEF TypeOK
<1>5. /\ Range(inbox)' = Range(inbox)
      /\ Queued' = Queued
      /\ Held' = Held
  BY <1>2, <1>3 DEF ReadFrame, Queued, Held, TypeOK, Threads
<1>6. /\ \A k \in Held : ident'[k] = ident[k]
      /\ HeldIds' = HeldIds
  BY <1>1, <1>2, <1>5 DEF HeldIds, TypeOK
<1>7. \A k \in Msg : Settled(k)' = Settled(k)
  BY DEF ReadFrame, Settled
<1>8. TypeOK'
  BY <1>1, <1>2, <1>3, <1>4 DEF TypeOK, ReadFrame, Threads, ThreadPc
<1>9. PlacesMatch'
  BY <1>2, <1>3 DEF PlacesMatch, Active, ReadFrame, ThreadPc, TypeOK, Threads
<1>10. NewestFirst'
  BY <1>1, <1>2, <1>3 DEF NewestFirst, Active, ReadFrame, TypeOK, Threads, Msg
<1>11. InboxOrdered'
  BY <1>1, <1>5 DEF InboxOrdered, ReadFrame
<1>12. AcceptedProgress'
  BY <1>2, <1>3, <1>5, <1>7 DEF AcceptedProgress, Active, ReadFrame, TypeOK, Threads
<1>13. InFlightUnsettled'
  <2>1. ~Settled(arrived + 1)
    BY <1>2 DEF NewestFirst, Settled, TypeOK, Msg
  <2>2. QED
    BY <1>2, <1>3, <1>5, <1>7, <2>1, ActiveJobs
       DEF InFlightUnsettled, TypeOK, Threads, ThreadPc, Active
<1>14. OneOwnerPerId'
  BY <1>5, <1>6 DEF OneOwnerPerId, ReadFrame
<1>15. MarksAreCurrent' /\ AskedIsMarked'
  BY <1>5, <1>6 DEF MarksAreCurrent, AskedIsMarked, ReadFrame
<1>16. WithdrawnWasAsked' /\ SettledOnce'
  BY DEF WithdrawnWasAsked, SettledOnce, ReadFrame
<1>17. LedgerStep
  <2>1. /\ arrived < MaxMessages /\ i \in Ids \cup {NoId}
        /\ UNCHANGED <<asked, replies, withdrawn, lost>>
    BY <1>1 DEF ReadFrame
  <2>2. Ledger!Arrive(i)
    BY <1>1, <1>5, <2>1 DEF Ledger!Arrive
  <2>3. QED BY <2>2 DEF LedgerStep, Ledger!Next, Msg
<1>18. QED
  BY <1>8, <1>9, <1>10, <1>11, <1>12, <1>13, <1>14, <1>15, <1>16, <1>17

\* The reader registers a request: a ping it dispatches, or a business request
\* it is about to put into the inbox.
LEMMA ReadRegistered ==
    ASSUME IInv, NEW i \in Ids, Arrive(i), ReadFrame, UNCHANGED ok,
           i \notin outstanding, outstanding' = outstanding \cup {i},
           \/ Take("start", "registered")
           \/ Take("put", "registered") /\ phase = "ready"
    PROVE  IInv' /\ LedgerStep
<1> USE DEF IInv
<1>1. /\ pc["reader"] = "read" /\ arrived < MaxMessages
      /\ arrived' = arrived + 1
      /\ ident' = [ident EXCEPT ![arrived + 1] = i]
  BY DEF Arrive
<1>2. /\ mode["reader"] = "idle"
      /\ arrived + 1 \in Msg
      /\ Held \subseteq accepted
      /\ \A k \in accepted : k \in Msg /\ k <= arrived
      /\ \A k \in Held : k # arrived + 1
  BY <1>1, ReadingHeld
<1>3. /\ pc' = [pc EXCEPT !["reader"] = pc'["reader"]]
      /\ job' = [job EXCEPT !["reader"] = arrived + 1]
      /\ mode' = [mode EXCEPT !["reader"] = "registered"]
      /\ pc'["reader"] \in {"put", "start"}
      /\ pc'["reader"] = "put" => phase = "ready"
  BY DEF Take, TypeOK, Threads
<1>5. /\ Range(inbox)' = Range(inbox)
      /\ Queued' = Queued
      /\ Held' = Held \cup {arrived + 1}
  BY <1>2, <1>3 DEF ReadFrame, Queued, Held, TypeOK, Threads
<1>6. /\ \A k \in Held : ident'[k] = ident[k]
      /\ ident'[arrived + 1] = i
      /\ HeldIds' = HeldIds \cup {i}
  BY <1>1, <1>2, <1>5, ActiveJobs DEF HeldIds, TypeOK
<1>7. \A k \in Msg : Settled(k)' = Settled(k)
  BY DEF ReadFrame, Settled
<1>8. TypeOK'
  BY <1>1, <1>2, <1>3 DEF TypeOK, ReadFrame, Threads, ThreadPc
<1>9. PlacesMatch'
  BY <1>2, <1>3 DEF PlacesMatch, Active, ReadFrame, ThreadPc, TypeOK, Threads
<1>10. NewestFirst'
  BY <1>1, <1>2, <1>3 DEF NewestFirst, Active, ReadFrame, TypeOK, Threads, Msg
<1>11. InboxOrdered'
  BY <1>1, <1>5 DEF InboxOrdered, ReadFrame
<1>12. AcceptedProgress'
  BY <1>2, <1>3, <1>5, <1>7 DEF AcceptedProgress, Active, ReadFrame, TypeOK, Threads
<1>13. InFlightUnsettled'
  <2>1. ~Settled(arrived + 1)
    BY <1>2 DEF NewestFirst, Settled, TypeOK, Msg
  <2>2. QED
    BY <1>2, <1>3, <1>5, <1>7, <2>1, ActiveJobs
       DEF InFlightUnsettled, TypeOK, Threads, ThreadPc, Active
<1>14. OneOwnerPerId'
  BY <1>5, <1>6 DEF OneOwnerPerId, HeldIds, ReadFrame
<1>15. MarksAreCurrent' /\ AskedIsMarked'
  <2>1. i \notin cancelled
    BY DEF MarksAreCurrent
  <2>2. MarksAreCurrent'
    BY <1>5, <1>6, <2>1 DEF MarksAreCurrent, ReadFrame
  <2>3. arrived + 1 \notin asked
    BY <1>2 DEF NewestFirst, TypeOK
  <2>4. QED BY <1>5, <1>6, <2>2, <2>3 DEF AskedIsMarked, ReadFrame
<1>16. WithdrawnWasAsked' /\ SettledOnce'
  BY DEF WithdrawnWasAsked, SettledOnce, ReadFrame
<1>17. LedgerStep
  <2>1. /\ arrived < MaxMessages /\ i \in Ids \cup {NoId}
        /\ UNCHANGED <<asked, replies, withdrawn, lost>>
    BY <1>1 DEF ReadFrame
  <2>2. \A h \in Held : ident[h] # i
    BY DEF OneOwnerPerId, HeldIds
  <2>3. Ledger!Arrive(i)
    BY <1>1, <1>5, <2>1, <2>2 DEF Ledger!Arrive
  <2>4. QED BY <2>1, <2>3 DEF LedgerStep, Ledger!Next, Msg
<1>18. QED
  BY <1>8, <1>9, <1>10, <1>11, <1>12, <1>13, <1>14, <1>15, <1>16, <1>17

\* The four kinds of message that provoke a reply.
LEMMA ReadStep ==
    ASSUME IInv,
           \/ \E i \in Ids \cup {NoId} : ReadInvalid(i)
           \/ \E i \in Ids : ReadInitialize(i) \/ ReadPing(i) \/ ReadBusiness(i)
    PROVE  IInv' /\ LedgerStep
<1>1. ASSUME NEW i \in Ids \cup {NoId}, ReadInvalid(i) PROVE IInv' /\ LedgerStep
  BY <1>1, ReadUnregistered DEF ReadInvalid, Refuse
<1>2. ASSUME NEW i \in Ids, ReadInitialize(i) PROVE IInv' /\ LedgerStep
  <2>1. i \in Ids \cup {NoId}
    OBVIOUS
  <2>2. QED BY <1>2, <2>1, ReadUnregistered DEF ReadInitialize, Refuse, Handshake
<1>3. ASSUME NEW i \in Ids, ReadPing(i) PROVE IInv' /\ LedgerStep
  <2>1. i \in Ids \cup {NoId}
    OBVIOUS
  <2>2. CASE Refuse
    BY <1>3, <2>1, <2>2, ReadUnregistered DEF ReadPing, Refuse
  <2>3. CASE ~Refuse
    BY <1>3, <2>3, ReadRegistered DEF ReadPing, RegisterOrRefuse, Register
  <2>4. QED BY <2>2, <2>3
<1>4. ASSUME NEW i \in Ids, ReadBusiness(i) PROVE IInv' /\ LedgerStep
  <2>1. i \in Ids \cup {NoId}
    OBVIOUS
  <2>2. CASE Refuse
    BY <1>4, <2>1, <2>2, ReadUnregistered DEF ReadBusiness, Refuse
  <2>3. CASE ~Refuse
    BY <1>4, <2>3, ReadRegistered DEF ReadBusiness, RegisterOrRefuse, Register
  <2>4. QED BY <2>2, <2>3
<1>5. QED BY <1>1, <1>2, <1>3, <1>4

\* The reader, while it reads: a cancellation, the end of the handshake, the
\* end of the input.
LEMMA ReadCancelStep ==
    ASSUME IInv, NEW i \in Ids, ReadCancel(i)
    PROVE  IInv' /\ LedgerStep
<1> USE DEF IInv
<1> DEFINE Target == {k \in Held : ident[k] = i}
<1>1. /\ cancelled' = cancelled \cup {i}
      /\ asked' = asked \cup Target
      /\ i \in outstanding
      /\ phase = "ready"
      /\ pc["reader"] = "read"
      /\ UNCHANGED <<phase, inbox, outstanding, pc, job, mode, ok,
                     disconnected, writeLock, stdout, unread, arrived, ident,
                     accepted, ran, replies, withdrawn, lost>>
  BY DEF ReadCancel, Cancel
<1> HIDE DEF Target
<1>2. /\ Range(inbox)' = Range(inbox) /\ Queued' = Queued /\ Held' = Held
      /\ HeldIds' = HeldIds
  BY <1>1 DEF Queued, Held, HeldIds
<1>3. \A k \in Msg : Settled(k)' = Settled(k)
  BY <1>1 DEF Settled
<1>4. Target \subseteq Held /\ \A k \in Held : k \in Target <=> ident[k] = i
  BY DEF Target
<1>5. TypeOK'
  BY <1>1, <1>4, ActiveJobs DEF TypeOK
<1>6. PlacesMatch' /\ InboxOrdered'
  BY <1>1, <1>2 DEF PlacesMatch, Active, InboxOrdered
<1>7. NewestFirst'
  <2>1. mode["reader"] = "idle"
    BY <1>1 DEF PlacesMatch, Active, ThreadPc
  <2>2. Held \subseteq accepted
    BY <2>1, ActiveJobs DEF AcceptedProgress, Threads, Active
  <2>3. QED BY <1>1, <1>4, <2>2 DEF NewestFirst, Active, TypeOK
<1>8. AcceptedProgress' /\ InFlightUnsettled'
  BY <1>1, <1>2, <1>3 DEF AcceptedProgress, InFlightUnsettled, Active, Settled
<1>9. OneOwnerPerId'
  BY <1>1, <1>2 DEF OneOwnerPerId
<1>10. MarksAreCurrent' /\ AskedIsMarked'
  BY <1>1, <1>2, <1>4 DEF MarksAreCurrent, AskedIsMarked
<1>11. WithdrawnWasAsked' /\ SettledOnce'
  BY <1>1 DEF WithdrawnWasAsked, SettledOnce
<1>12. LedgerStep
  <2>1. CASE Target = {}
    BY <1>1, <1>2, <2>1 DEF LedgerStep, Ledger!ledger
  <2>2. CASE Target # {}
    <3>1. PICK k \in Held : k \in Target /\ k \in Msg
      BY <1>4, <2>2, ActiveJobs
    <3>2. Target = {k}
      BY <1>4, <3>1 DEF OneOwnerPerId
    <3>3. Ledger!Cancel(k)
      BY <1>1, <1>2, <3>1, <3>2 DEF Ledger!Cancel
    <3>4. QED BY <3>1, <3>3 DEF LedgerStep, Ledger!Next, Msg
  <2>3. QED BY <2>1, <2>2
<1>13. QED
  BY <1>5, <1>6, <1>7, <1>8, <1>9, <1>10, <1>11, <1>12

LEMMA InitializedStep ==
    ASSUME IInv, ReadInitialized
    PROVE  IInv' /\ LedgerStep
<1> USE DEF IInv, ReadInitialized, history
<1>1. /\ Range(inbox)' = Range(inbox) /\ Queued' = Queued /\ Held' = Held
      /\ HeldIds' = HeldIds
  BY DEF Queued, Held, HeldIds
<1>2. TypeOK' /\ PlacesMatch' /\ NewestFirst'
  BY DEF TypeOK, PlacesMatch, NewestFirst, Active, ThreadPc
<1>3. InboxOrdered' /\ AcceptedProgress' /\ InFlightUnsettled'
  BY <1>1 DEF InboxOrdered, AcceptedProgress, InFlightUnsettled, Active, Settled
<1>4. OneOwnerPerId' /\ MarksAreCurrent' /\ AskedIsMarked'
  BY <1>1 DEF OneOwnerPerId, MarksAreCurrent, AskedIsMarked
<1>5. WithdrawnWasAsked' /\ SettledOnce'
  BY DEF WithdrawnWasAsked, SettledOnce
<1>6. LedgerStep
  BY <1>1 DEF LedgerStep, Ledger!ledger
<1>7. QED BY <1>2, <1>3, <1>4, <1>5, <1>6

\* put(None) and the steps that move the idle reader only.
LEMMA ReaderEndStep ==
    ASSUME IInv, Eof \/ PutSentinel \/ Join
    PROVE  IInv' /\ LedgerStep
<1> USE DEF IInv
<1>1. /\ pc["reader"] \in {"read", "sentinel", "join"}
      /\ pc' = [pc EXCEPT !["reader"] = pc'["reader"]]
      /\ pc'["reader"] \in {"sentinel", "join", "done"}
      /\ pc["reader"] \in {"join", "done"} => pc'["reader"] \in {"join", "done"}
      /\ UNCHANGED <<phase, outstanding, cancelled, job, mode, ok,
                     disconnected, writeLock, stdout, unread, history>>
  BY DEF Eof, PutSentinel, Join, TypeOK, Threads
<1>2. \/ inbox' = inbox
      \/ /\ inbox' = Append(inbox, Poison)
         /\ pc["reader"] = "sentinel" /\ pc'["reader"] = "join"
  BY DEF Eof, PutSentinel, Join, TypeOK, Threads
<1>3. /\ Queued' = Queued
      /\ Poison \in Range(inbox)' => Poison \in Range(inbox) \/ pc'["reader"] = "join"
  <2>1. CASE inbox' = inbox
    BY <2>1 DEF Queued, Range
  <2>2. CASE inbox' = Append(inbox, Poison) /\ pc'["reader"] = "join"
    <3>1. inbox \in Seq(Msg \cup {Poison}) /\ Poison \in Msg \cup {Poison}
      BY DEF TypeOK
    <3>2. Range(Append(inbox, Poison)) = Range(inbox) \cup {Poison}
      BY <3>1, RangeAppend
    <3>3. Range(inbox)' = Range(inbox) \cup {Poison}
      BY <2>2, <3>2 DEF Range
    <3>4. QED BY <2>2, <3>3 DEF Queued
  <2>3. QED BY <1>2, <2>1, <2>2
<1>4. Held' = Held /\ HeldIds' = HeldIds
  BY <1>1, <1>3 DEF Held, Queued, HeldIds, history
<1>5. inbox' \in Seq(Msg \cup {Poison})
  <2>1. inbox \in Seq(Msg \cup {Poison}) /\ Poison \in Msg \cup {Poison}
    BY DEF TypeOK
  <2>2. QED BY <1>2, <2>1, AppendProperties
<1>6. TypeOK' /\ PlacesMatch' /\ NewestFirst'
  BY <1>1, <1>5 DEF TypeOK, PlacesMatch, NewestFirst, Active, ThreadPc, Threads, history
<1>7. InboxOrdered'
  <2>1. CASE inbox' = inbox
    BY <1>1, <1>3, <2>1 DEF InboxOrdered, Range
  <2>2. CASE inbox' = Append(inbox, Poison) /\ pc["reader"] = "sentinel"
    <3>1. \A n \in 1..Len(inbox) : inbox[n] # Poison
      BY <2>2 DEF InboxOrdered, Range, TypeOK
    <3>2. Len(inbox') = Len(inbox) + 1 /\ inbox'[Len(inbox) + 1] = Poison
          /\ \A n \in 1..Len(inbox) : inbox'[n] = inbox[n]
      BY <2>2 DEF TypeOK
    <3>3. QED BY <1>2, <2>2, <3>1, <3>2 DEF InboxOrdered, TypeOK
  <2>3. QED BY <1>2, <2>1, <2>2
<1>8. AcceptedProgress' /\ InFlightUnsettled'
  BY <1>1, <1>3 DEF AcceptedProgress, InFlightUnsettled, Active, Settled, history,
                    Threads, TypeOK
<1>9. OneOwnerPerId' /\ MarksAreCurrent' /\ AskedIsMarked'
  BY <1>1, <1>4 DEF OneOwnerPerId, MarksAreCurrent, AskedIsMarked, history
<1>10. WithdrawnWasAsked' /\ SettledOnce'
  BY <1>1 DEF WithdrawnWasAsked, SettledOnce, history
<1>11. LedgerStep
  BY <1>1, <1>4 DEF LedgerStep, Ledger!ledger, history
<1>12. QED BY <1>6, <1>7, <1>8, <1>9, <1>10, <1>11

\* put_nowait moves the registered message from the reader into the inbox.
LEMMA EnqueueStep ==
    ASSUME IInv, Enqueue
    PROVE  IInv' /\ LedgerStep
<1> USE DEF IInv
<1> DEFINE k == job["reader"]
<1>1. /\ pc["reader"] = "put"
      /\ inbox' = Append(inbox, k)
      /\ accepted' = accepted \cup {k}
      /\ pc' = [pc EXCEPT !["reader"] = "read"]
      /\ mode' = [mode EXCEPT !["reader"] = "idle"]
      /\ UNCHANGED <<phase, outstanding, cancelled, job, ok, disconnected,
                     writeLock, stdout, unread, arrived, ident, asked, ran,
                     replies, withdrawn, lost>>
  BY DEF Enqueue, Put
<1>2. /\ mode["reader"] = "registered" /\ phase = "ready"
      /\ k = arrived /\ k \in Msg /\ k \notin accepted
      /\ ~Settled(k) /\ k # Poison
  BY <1>1 DEF PlacesMatch, NewestFirst, InFlightUnsettled, Active, Threads, Msg, Poison
<1>3. /\ \A j \in accepted : j \in Msg /\ j < k
      /\ k \notin Queued
  BY <1>2, ActiveJobs DEF NewestFirst, TypeOK, Msg, AcceptedProgress
<1>4. k \notin ran
  BY <1>1, <1>2 DEF NewestFirst
<1> HIDE DEF k
<1>5. /\ inbox \in Seq(Msg \cup {Poison}) /\ k \in Msg \cup {Poison}
      /\ inbox' \in Seq(Msg \cup {Poison})
      /\ Range(inbox)' = Range(inbox) \cup {k}
      /\ Queued' = Queued \cup {k}
  <2>1. inbox \in Seq(Msg \cup {Poison}) /\ k \in Msg \cup {Poison}
    BY <1>2 DEF TypeOK
  <2>2. Range(Append(inbox, k)) = Range(inbox) \cup {k}
    BY <2>1, RangeAppend
  <2>3. Append(inbox, k) \in Seq(Msg \cup {Poison})
    BY <2>1, AppendProperties
  <2>4. QED BY <1>1, <1>2, <2>1, <2>2, <2>3 DEF Queued, Range
<1>6. Held' = Held /\ HeldIds' = HeldIds
  <2>1. Held' = Held
    BY <1>1, <1>2, <1>5, ActiveJobs DEF Held, Queued, TypeOK, Threads, k
  <2>2. QED BY <1>1, <2>1 DEF HeldIds
<1>7. TypeOK' /\ PlacesMatch'
  BY <1>1, <1>2, <1>5 DEF TypeOK, PlacesMatch, Active, Threads, ThreadPc
<1>8. NewestFirst'
  BY <1>1, <1>2 DEF NewestFirst, Active, TypeOK, Threads, Msg
<1>9. InboxOrdered'
  <2>1. \A n \in 1..Len(inbox) : inbox[n] \in Queued /\ inbox[n] < k
    <3>1. \A n \in 1..Len(inbox) : inbox[n] # Poison
      BY <1>1 DEF InboxOrdered, Range, TypeOK
    <3>2. \A n \in 1..Len(inbox) : inbox[n] \in Queued
      BY <1>5, <3>1 DEF Queued, Range
    <3>3. QED BY <1>3, <3>2 DEF AcceptedProgress
  <2>2. Len(inbox') = Len(inbox) + 1 /\ inbox'[Len(inbox) + 1] = k
        /\ \A n \in 1..Len(inbox) : inbox'[n] = inbox[n]
    BY <1>1, <1>5
  <2>3. \A m, n \in 1..Len(inbox') : m < n =>
           inbox'[m] # Poison /\ (inbox'[n] = Poison \/ inbox'[m] < inbox'[n])
    BY <1>5, <2>1, <2>2 DEF InboxOrdered, Queued
  <2>4. Poison \notin Range(inbox)'
    BY <1>1, <1>2, <1>5 DEF InboxOrdered
  <2>5. QED BY <2>3, <2>4 DEF InboxOrdered
<1>10. AcceptedProgress'
  <2>1. accepted' \ Queued' = accepted \ Queued
    BY <1>1, <1>2, <1>3, <1>5
  <2>2. \A j \in Msg : Settled(j)' = Settled(j)
    BY <1>1 DEF Settled
  <2>3. Active("worker")' = Active("worker") /\ job'["worker"] = job["worker"]
    BY <1>1 DEF Active, TypeOK, Threads
  <2>4. Queued' \subseteq accepted' \ ran'
    BY <1>1, <1>4, <1>5 DEF AcceptedProgress
  <2>5. Active("worker") => job["worker"] \in accepted' \ Queued'
    BY <2>1 DEF AcceptedProgress
  <2>6. QED
    BY <1>3, <1>5, <2>1, <2>2, <2>3, <2>4, <2>5 DEF AcceptedProgress
<1>11. InFlightUnsettled'
  BY <1>1, <1>2, <1>5 DEF InFlightUnsettled, Settled, TypeOK, Threads
<1>12. OneOwnerPerId' /\ MarksAreCurrent' /\ AskedIsMarked'
  BY <1>1, <1>6 DEF OneOwnerPerId, MarksAreCurrent, AskedIsMarked
<1>13. WithdrawnWasAsked' /\ SettledOnce'
  BY <1>1 DEF WithdrawnWasAsked, SettledOnce
<1>14. LedgerStep
  BY <1>1, <1>6 DEF LedgerStep, Ledger!ledger
<1>15. QED
  BY <1>7, <1>8, <1>9, <1>10, <1>11, <1>12, <1>13, <1>14

\* queue.Full: the rollback frees the id of the message that found no room.
LEMMA OverflowStep ==
    ASSUME IInv, Overflow
    PROVE  IInv' /\ LedgerStep
<1> USE DEF IInv
<1> DEFINE k == job["reader"]
<1>1. /\ pc["reader"] = "put"
      /\ outstanding' = outstanding \ {ident[k]}
      /\ cancelled' = cancelled \ {ident[k]}
      /\ pc' = [pc EXCEPT !["reader"] = "lock"]
      /\ mode' = [mode EXCEPT !["reader"] = "refuse"]
      /\ UNCHANGED <<phase, inbox, job, ok, disconnected, writeLock, stdout,
                     unread, history>>
  BY DEF Overflow, Finish
<1>2. /\ mode["reader"] = "registered" /\ phase = "ready"
      /\ k = arrived /\ k \in Msg /\ k \notin accepted
      /\ ~Settled(k)
  BY <1>1 DEF PlacesMatch, NewestFirst, InFlightUnsettled, Active, Threads
<1>3. k \in Held /\ k \notin Queued
  BY <1>2 DEF Held, Threads, AcceptedProgress
<1>4. mode["worker"] = "registered" => job["worker"] # k
  BY <1>2 DEF AcceptedProgress, Active
<1> HIDE DEF k
<1>5. Queued' = Queued /\ Range(inbox)' = Range(inbox)
  BY <1>1 DEF Queued
<1>6. Held' = Held \ {k}
  BY <1>1, <1>2, <1>3, <1>4, <1>5, ActiveJobs DEF Held, Queued, TypeOK, Threads, k
<1>7. /\ \A j \in Held' : ident[j] # ident[k]
      /\ HeldIds' = HeldIds \ {ident[k]}
  BY <1>1, <1>3, <1>6 DEF OneOwnerPerId, HeldIds, history
<1>8. TypeOK' /\ PlacesMatch' /\ NewestFirst'
  BY <1>1, <1>2 DEF TypeOK, PlacesMatch, NewestFirst, Active, Threads, ThreadPc,
                    history, k
<1>9. InboxOrdered' /\ AcceptedProgress' /\ InFlightUnsettled'
  BY <1>1, <1>2, <1>5
     DEF InboxOrdered, AcceptedProgress, InFlightUnsettled, Active, Settled,
         history, TypeOK, Threads, k
<1>10. OneOwnerPerId' /\ MarksAreCurrent' /\ AskedIsMarked'
  BY <1>1, <1>6, <1>7
     DEF OneOwnerPerId, MarksAreCurrent, AskedIsMarked, history
<1>11. WithdrawnWasAsked' /\ SettledOnce'
  BY <1>1 DEF WithdrawnWasAsked, SettledOnce, history
<1>12. LedgerStep
  <2>1. Ledger!Release(k)
    BY <1>1, <1>3, <1>6 DEF Ledger!Release, history
  <2>2. QED BY <1>2, <2>1 DEF LedgerStep, Ledger!Next, Msg
<1>13. QED BY <1>8, <1>9, <1>10, <1>11, <1>12

\* The head of the inbox precedes everything else in it.
LEMMA HeadFirst ==
    ASSUME TypeOK, InboxOrdered, inbox # <<>>
    PROVE  /\ Head(inbox) \in Msg \cup {Poison}
           /\ Tail(inbox) \in Seq(Msg \cup {Poison})
           /\ Range(inbox) = Range(Tail(inbox)) \cup {Head(inbox)}
           /\ Head(inbox) = Poison => Range(Tail(inbox)) = {}
           /\ \A j \in Range(Tail(inbox)) : j = Poison \/ Head(inbox) < j
           /\ \A m, n \in 1..Len(Tail(inbox)) : m < n =>
                 /\ Tail(inbox)[m] # Poison
                 /\ Tail(inbox)[n] = Poison \/ Tail(inbox)[m] < Tail(inbox)[n]
<1>1. inbox \in Seq(Msg \cup {Poison})
  BY DEF TypeOK
<1>2. /\ Range(inbox) = Range(Tail(inbox)) \cup {Head(inbox)}
      /\ Head(inbox) \in Msg \cup {Poison}
      /\ Tail(inbox) \in Seq(Msg \cup {Poison})
      /\ Head(inbox) = inbox[1]
      /\ Len(Tail(inbox)) = Len(inbox) - 1
      /\ \A n \in 1..Len(Tail(inbox)) :
            n + 1 \in 1..Len(inbox) /\ Tail(inbox)[n] = inbox[n + 1]
  BY <1>1, RangeTail
<1>3. ASSUME NEW j \in Range(Tail(inbox))
      PROVE  Head(inbox) # Poison /\ (j = Poison \/ Head(inbox) < j)
  <2>1. PICK n \in 1..Len(Tail(inbox)) : j = inbox[n + 1]
    BY <1>2 DEF Range
  <2>2. 1 < n + 1 /\ 1 \in 1..Len(inbox) /\ n + 1 \in 1..Len(inbox)
    BY <1>1, <1>2
  <2>3. QED BY <1>2, <2>1, <2>2 DEF InboxOrdered
<1>4. \A m, n \in 1..Len(Tail(inbox)) : m < n =>
          /\ Tail(inbox)[m] # Poison
          /\ Tail(inbox)[n] = Poison \/ Tail(inbox)[m] < Tail(inbox)[n]
  <2>1. SUFFICES ASSUME NEW m \in 1..Len(Tail(inbox)),
                        NEW n \in 1..Len(Tail(inbox)), m < n
                 PROVE  /\ Tail(inbox)[m] # Poison
                        /\ Tail(inbox)[n] = Poison \/ Tail(inbox)[m] < Tail(inbox)[n]
    OBVIOUS
  <2>2. m + 1 < n + 1
    BY <1>2, <2>1
  <2>3. QED BY <1>2, <2>1, <2>2 DEF InboxOrdered
<1>5. QED BY <1>2, <1>3, <1>4

\* The worker takes the sentinel, a request to dispatch, or one to drop.
LEMMA GetStep ==
    ASSUME IInv, Get
    PROVE  IInv' /\ LedgerStep
<1> USE DEF IInv
<1>0. PICK k : k = Head(inbox)
  OBVIOUS
<1>1. /\ pc["worker"] = "get" /\ inbox # <<>> /\ inbox' = Tail(inbox)
      /\ UNCHANGED <<phase, outstanding, cancelled, ok, disconnected,
                     writeLock, stdout, unread, arrived, ident, accepted,
                     asked, ran, replies, withdrawn>>
  BY DEF Get
<1>2. \/ /\ k = Poison
         /\ pc' = [pc EXCEPT !["worker"] = "done"]
         /\ UNCHANGED <<job, mode, lost>>
      \/ /\ k # Poison /\ ~disconnected
         /\ pc' = [pc EXCEPT !["worker"] = "start"]
         /\ job' = [job EXCEPT !["worker"] = k]
         /\ mode' = [mode EXCEPT !["worker"] = "registered"]
         /\ UNCHANGED lost
      \/ /\ k # Poison /\ disconnected
         /\ lost' = lost \cup {k}
         /\ UNCHANGED <<pc, job, mode>>
  BY <1>0 DEF Get
<1>3. /\ mode["worker"] = "idle" /\ ~Active("worker")
      /\ pc["worker"] \notin ThreadPc
  BY <1>1 DEF PlacesMatch, Active, ThreadPc
<1>4. /\ k \in Msg \cup {Poison}
      /\ inbox' \in Seq(Msg \cup {Poison})
      /\ Range(inbox) = Range(inbox)' \cup {k}
      /\ k = Poison => Range(inbox)' = {}
      /\ \A j \in Range(inbox)' : j = Poison \/ k < j
      /\ \A m, n \in 1..Len(inbox') : m < n =>
            /\ inbox'[m] # Poison
            /\ inbox'[n] = Poison \/ inbox'[m] < inbox'[n]
  <2>1. Range(inbox)' = Range(Tail(inbox))
    BY <1>1
  <2>2. QED BY <1>0, <1>1, <2>1, HeadFirst
<1>5. /\ Queued \subseteq Queued' \cup {k}
      /\ Queued' \subseteq Queued
      /\ \A j \in Queued' : k < j
      /\ k # Poison => k \in Queued
      /\ k \notin Queued'
  BY <1>4 DEF Queued, Msg, Poison
<1>6. k # Poison =>
         /\ k \in Msg /\ k \in accepted /\ k \notin ran /\ ~Settled(k)
         /\ \A j \in accepted \ Queued : j < k
         /\ phase = "ready"
  BY <1>4, <1>5 DEF AcceptedProgress, InFlightUnsettled, PlacesMatch
<1>7. ASSUME NEW j \in Msg
      PROVE  /\ Settled(j) => Settled(j)'
             /\ Settled(j)' => Settled(j) \/ (j = k /\ k # Poison /\ disconnected)
             /\ (k # Poison /\ disconnected) => Settled(k)'
  BY <1>1, <1>2 DEF Settled
<1>8. /\ Held \ {k} \subseteq Held'
      /\ Held' \subseteq Held
      /\ (k = Poison \/ ~disconnected) => Held' = Held
  <2>1. Held = Queued \cup {job[t] : t \in {u \in Threads : mode[u] = "registered"}}
    BY ActiveJobs
  <2>2. Held' = Queued' \cup {job'[t] : t \in {u \in Threads : mode'[u] = "registered"}}
    BY DEF Held, Queued
  <2>3. CASE UNCHANGED <<job, mode>>
    <3>1. k = Poison => Queued' = Queued
      BY <1>5 DEF Queued
    <3>2. k # Poison => disconnected
      BY <1>2, <1>3, <2>3 DEF TypeOK, Threads, Active
    <3>3. QED BY <1>5, <2>1, <2>2, <2>3, <3>1, <3>2
  <2>4. CASE /\ k # Poison /\ job' = [job EXCEPT !["worker"] = k]
             /\ mode' = [mode EXCEPT !["worker"] = "registered"]
    <3>1. {job'[t] : t \in {u \in Threads : mode'[u] = "registered"}}
            = {job[t] : t \in {u \in Threads : mode[u] = "registered"}} \cup {k}
      BY <1>3, <2>4 DEF TypeOK, Threads, Active
    <3>2. QED BY <1>5, <2>1, <2>2, <2>4, <3>1
  <2>5. QED BY <1>2, <2>3, <2>4
<1>9. HeldIds' \subseteq HeldIds /\ (~disconnected => HeldIds' = HeldIds)
  <2>1. HeldIds' \subseteq HeldIds
    BY <1>1, <1>8 DEF HeldIds
  <2>2. ~disconnected => HeldIds' = HeldIds
    BY <1>1, <1>8 DEF HeldIds
  <2>3. QED BY <2>1, <2>2
<1>10. TypeOK'
  BY <1>1, <1>2, <1>4, <1>6 DEF TypeOK, Threads, ThreadPc
<1>11. PlacesMatch'
  BY <1>1, <1>2, <1>3 DEF PlacesMatch, Active, TypeOK, Threads, ThreadPc
<1>12. NewestFirst'
  BY <1>1, <1>2, <1>6 DEF NewestFirst, Active, TypeOK, Threads, Msg
<1>13. InboxOrdered'
  BY <1>1, <1>2, <1>4 DEF InboxOrdered, TypeOK, Threads
<1>14. AcceptedProgress'
  <2>1. Queued' \subseteq accepted' \ ran'
    BY <1>1, <1>5 DEF AcceptedProgress
  <2>2. Active("worker")' => job'["worker"] = k /\ k # Poison /\ ~disconnected
    BY <1>2, <1>3 DEF Active, TypeOK, Threads
  <2>3. (k # Poison /\ ~disconnected) => Active("worker")' /\ job'["worker"] = k
    BY <1>2 DEF Active, TypeOK, Threads
  <2>4. ASSUME NEW j \in accepted' \ Queued'
        PROVE  /\ \A n \in Queued' : j < n
               /\ Active("worker")' => j <= job'["worker"]
               /\ Settled(j)' \/ (Active("worker")' /\ j = job'["worker"])
    <3>1. j \in accepted \ Queued \/ (j = k /\ k # Poison)
      BY <1>1, <1>5 DEF Queued, TypeOK, Msg, Poison
    <3>2. CASE j \in accepted \ Queued
      <4>1. j \in Msg /\ Settled(j)
        BY <1>3, <3>2 DEF AcceptedProgress, TypeOK
      <4>2. QED
        BY <1>5, <1>6, <1>7, <2>2, <3>2, <4>1 DEF AcceptedProgress, Msg
    <3>3. CASE j = k /\ k # Poison
      BY <1>5, <1>6, <1>7, <2>2, <2>3, <3>3 DEF Msg
    <3>4. QED BY <3>1, <3>2, <3>3
  <2>5. QED BY <1>5, <1>6, <1>1, <2>1, <2>2, <2>4 DEF AcceptedProgress
<1>15. InFlightUnsettled'
  <2>1. \A j \in Queued' : ~Settled(j)'
    BY <1>5, <1>7, ActiveJobs DEF InFlightUnsettled
  <2>2. pc'["worker"] \in {"put", "start", "handle", "lock", "write"}
           => ~Settled(job["worker"])'
    BY <1>1, <1>2, <1>6, <1>7 DEF TypeOK, Threads
  <2>3. pc'["reader"] \in {"put", "start", "handle", "lock", "write"}
           => ~Settled(job["reader"])'
    <3>1. ASSUME pc["reader"] \in {"put", "start", "handle", "lock", "write"}
          PROVE  /\ job["reader"] \in Msg /\ job["reader"] # k
                 /\ ~Settled(job["reader"])
      BY <1>6, <3>1, ActiveJobs
         DEF NewestFirst, InFlightUnsettled, Threads, ThreadPc, Poison, Msg
    <3>2. pc'["reader"] = pc["reader"] /\ job'["reader"] = job["reader"]
      BY <1>2 DEF TypeOK, Threads
    <3>3. QED BY <1>7, <3>1, <3>2
  <2>4. ASSUME NEW u \in Threads, pc'[u] \in {"finish", "exit", "fail"}
        PROVE  Settled(job[u])'
    <3>1. u = "reader" /\ pc[u] \in {"finish", "exit", "fail"}
      BY <1>1, <1>2, <2>4 DEF TypeOK, Threads
    <3>2. job[u] \in Msg /\ Settled(job[u])
      BY <3>1, ActiveJobs DEF InFlightUnsettled, ThreadPc
    <3>3. job'[u] = job[u]
      BY <1>2, <3>1 DEF TypeOK, Threads
    <3>4. QED BY <1>7, <3>2, <3>3
  <2>5. QED BY <2>1, <2>2, <2>3, <2>4 DEF InFlightUnsettled, Threads
<1>16. OneOwnerPerId' /\ MarksAreCurrent' /\ WithdrawnWasAsked'
  BY <1>1, <1>8, <1>9 DEF OneOwnerPerId, MarksAreCurrent, WithdrawnWasAsked
<1>17. AskedIsMarked'
  BY <1>1, <1>8 DEF AskedIsMarked
<1>18. SettledOnce'
  BY <1>1, <1>2, <1>6 DEF SettledOnce, Settled, TypeOK
<1>19. LedgerStep
  <2>1. CASE k = Poison \/ ~disconnected
    <3>1. lost' = lost
      BY <1>2, <2>1
    <3>2. QED BY <1>1, <1>8, <2>1, <3>1 DEF LedgerStep, Ledger!ledger
  <2>2. CASE k # Poison /\ disconnected
    <3>1. /\ lost' = lost \cup {k} /\ Held' \in {Held, Held \ {k}}
          /\ k \in Msg /\ k \in 1..arrived
      <4>1. k <= arrived
        BY <1>6, <2>2 DEF NewestFirst, TypeOK, Msg
      <4>2. Held' \in {Held, Held \ {k}}
        <5>1. CASE k \in Held'
          BY <1>8, <5>1
        <5>2. CASE k \notin Held'
          BY <1>8, <5>2
        <5>3. QED BY <5>1, <5>2
      <4>3. lost' = lost \cup {k}
        BY <1>2, <2>2
      <4>4. QED BY <1>6, <2>2, <4>1, <4>2, <4>3 DEF Msg, TypeOK
    <3>2. Ledger!Open(k)
      BY <1>6, <2>2, <3>1 DEF Ledger!Open, Settled, TypeOK
    <3>3. Ledger!Lose(k)
      BY <1>1, <3>1, <3>2 DEF Ledger!Lose
    <3>4. QED BY <3>1, <3>3 DEF LedgerStep, Ledger!Next, Msg
  <2>3. QED BY <2>1, <2>2
<1>20. QED
  BY <1>10, <1>11, <1>12, <1>13, <1>14, <1>15, <1>16, <1>17, <1>18, <1>19

\* No two threads work on the same message, and none on a queued one.
LEMMA JobsDistinct ==
    ASSUME IInv
    PROVE  /\ \A t \in Threads : Active(t) => job[t] \notin Queued
           /\ \A t, u \in Threads :
                 Active(t) /\ Active(u) /\ job[t] = job[u] => t = u
BY DEF IInv, NewestFirst, AcceptedProgress, Threads

\* What _dispatch may assume of the request it works on: it is unsettled, and
\* a mark under its id was set for it (initialize can meet no mark).
LEMMA DispatchFacts ==
    ASSUME IInv, NEW t \in Threads, pc[t] \in {"start", "handle"}
    PROVE  /\ Active(t) /\ job[t] \in Msg /\ ~Settled(job[t])
           /\ mode[t] \in {"initialize", "registered"}
           /\ ident[job[t]] \in cancelled => job[t] \in Held \cap asked
<1> USE DEF IInv
<1>1. Active(t) /\ job[t] \in Msg /\ ~Settled(job[t])
  BY ActiveJobs DEF InFlightUnsettled, ThreadPc
<1>2. mode[t] \in {"initialize", "registered"}
  BY <1>1 DEF PlacesMatch, Active, Threads, TypeOK
<1>3. ASSUME mode[t] = "initialize" PROVE cancelled = {}
  <2>1. t = "reader" /\ phase = "new"
    BY <1>3 DEF PlacesMatch, Threads
  <2>2. accepted = {} /\ ~disconnected
    BY <2>1 DEF PlacesMatch
  <2>3. Queued = {} /\ mode["worker"] # "registered"
    BY <2>2 DEF AcceptedProgress, Active
  <2>4. Held = {}
    BY <1>3, <2>1, <2>3, ActiveJobs DEF Threads
  <2>5. outstanding = {}
    BY <2>2, <2>4 DEF OneOwnerPerId, HeldIds
  <2>6. QED BY <2>5 DEF MarksAreCurrent
<1>4. ASSUME mode[t] = "registered" PROVE job[t] \in Held
  BY <1>4 DEF Held
<1>5. QED BY <1>1, <1>2, <1>3, <1>4 DEF MarksAreCurrent

\* What survives every step of a thread inside _dispatch or send.
LEMMA DispatchFrame ==
    ASSUME IInv, NEW t \in Threads, Active(t), pc[t] # "put",
           NEW p \in ThreadPc, p # "start", p = "handle" => pc[t] = "start",
           pc' = [pc EXCEPT ![t] = p],
           UNCHANGED <<phase, inbox, outstanding, job, mode, disconnected,
                       arrived, ident, accepted, asked>>
    PROVE  /\ Queued' = Queued /\ Range(inbox)' = Range(inbox)
           /\ Held' = Held /\ HeldIds' = HeldIds
           /\ \A u \in Threads : Active(u)' = Active(u)
           /\ pc' \in [Threads -> ThreadPc \cup {"read", "put", "sentinel", "join",
                                                 "get", "dead", "done"}]
           /\ PlacesMatch' /\ InboxOrdered' /\ OneOwnerPerId'
<1> USE DEF IInv
<1>1. Queued' = Queued /\ Range(inbox)' = Range(inbox)
  BY DEF Queued
<1>2. Held' = Held /\ HeldIds' = HeldIds
  BY <1>1 DEF Held, HeldIds
<1>3. pc[t] \in ThreadPc
  BY ActiveJobs
<1>4. \A u \in Threads : Active(u)' = Active(u)
  BY DEF Active
<1>5. pc' \in [Threads -> ThreadPc \cup {"read", "put", "sentinel", "join",
                                         "get", "dead", "done"}]
  BY DEF TypeOK
<1>6. PlacesMatch'
  BY <1>3 DEF PlacesMatch, Active, TypeOK, Threads, ThreadPc
<1>7. InboxOrdered'
  BY <1>1, <1>3 DEF InboxOrdered, TypeOK, Threads, ThreadPc
<1>8. OneOwnerPerId'
  BY <1>2 DEF OneOwnerPerId
<1>9. QED BY <1>1, <1>2, <1>4, <1>5, <1>6, <1>7, <1>8

\* `consume` finds a mark: the request is withdrawn.
LEMMA WithdrawStep ==
    ASSUME IInv, NEW t \in Threads, pc[t] \in {"start", "handle"}, Withdraw(t),
           UNCHANGED <<phase, inbox, outstanding, job, mode, ok, disconnected,
                       writeLock, stdout, unread, arrived, ident, accepted,
                       asked, ran, replies, lost>>
    PROVE  IInv' /\ LedgerStep
<1> USE DEF IInv
<1>0. PICK k : k = job[t]
  OBVIOUS
<1>1. /\ Active(t) /\ k \in Msg /\ ~Settled(k)
      /\ k \in Held \cap asked /\ ident[k] \in cancelled
  BY <1>0, DispatchFacts DEF Withdraw, Consume
<1>2. /\ cancelled' = cancelled \ {ident[k]}
      /\ withdrawn' = withdrawn \cup {k}
      /\ pc' = [pc EXCEPT ![t] = "finish"]
  BY <1>0 DEF Withdraw, Consume
<1>3. /\ Queued' = Queued /\ Range(inbox)' = Range(inbox)
      /\ Held' = Held /\ HeldIds' = HeldIds
      /\ \A u \in Threads : Active(u)' = Active(u)
      /\ pc' \in [Threads -> ThreadPc \cup {"read", "put", "sentinel", "join",
                                            "get", "dead", "done"}]
      /\ PlacesMatch' /\ InboxOrdered' /\ OneOwnerPerId'
  BY <1>1, <1>2, DispatchFrame DEF ThreadPc
<1>4. \A j \in Msg : Settled(j)' <=> Settled(j) \/ j = k
  BY <1>2 DEF Settled
<1>5. TypeOK'
  BY <1>1, <1>2, <1>3 DEF TypeOK
<1>6. k <= arrived
  BY <1>1 DEF NewestFirst, TypeOK, Msg
<1>7. NewestFirst'
  BY <1>2, <1>3, <1>6 DEF NewestFirst, TypeOK, Threads, ThreadPc, Msg
<1>8. AcceptedProgress'
  BY <1>3, <1>4 DEF AcceptedProgress, Threads, TypeOK
<1>9. InFlightUnsettled'
  BY <1>0, <1>1, <1>2, <1>3, <1>4, JobsDistinct, ActiveJobs
     DEF InFlightUnsettled, TypeOK, ThreadPc
<1>10. MarksAreCurrent' /\ AskedIsMarked'
  BY <1>1, <1>2, <1>3 DEF MarksAreCurrent, AskedIsMarked, OneOwnerPerId
<1>11. WithdrawnWasAsked' /\ SettledOnce'
  BY <1>1, <1>2 DEF WithdrawnWasAsked, SettledOnce, Settled, TypeOK
<1>12. LedgerStep
  <2>1. Ledger!Open(k)
    BY <1>1, <1>6 DEF Ledger!Open, Settled, TypeOK, Msg
  <2>2. Ledger!Withdraw(k)
    BY <1>1, <1>2, <1>3, <2>1 DEF Ledger!Withdraw
  <2>3. QED BY <1>1, <2>2 DEF LedgerStep, Ledger!Next, Msg
<1>13. QED BY <1>3, <1>5, <1>7, <1>8, <1>9, <1>10, <1>11, <1>12

\* The handler starts or returns, or the write lock is taken.
LEMMA AdvanceStep ==
    ASSUME IInv, NEW t \in Threads, pc[t] \in {"start", "handle", "lock"},
           pc' = [pc EXCEPT ![t] = IF pc[t] = "start" THEN "handle"
                                   ELSE IF pc[t] = "handle" THEN "lock"
                                   ELSE "write"],
           ran' = IF pc[t] = "start" THEN ran \cup {job[t]} ELSE ran,
           ok' \in BOOLEAN, writeLock' \in Threads \cup {"free"},
           UNCHANGED <<phase, inbox, outstanding, cancelled, job, mode,
                       disconnected, stdout, unread, arrived, ident, accepted,
                       asked, replies, withdrawn, lost>>
    PROVE  IInv' /\ LedgerStep
<1> USE DEF IInv
<1>0. PICK k : k = job[t]
  OBVIOUS
<1>1. /\ Active(t) /\ k \in Msg /\ k \notin Queued /\ ~Settled(k)
      /\ pc[t] \in ThreadPc
  BY <1>0, ActiveJobs, JobsDistinct DEF ThreadPc, InFlightUnsettled
<1>2. PICK p \in {"handle", "lock", "write"} :
          /\ pc' = [pc EXCEPT ![t] = p]
          /\ p = "handle" => pc[t] = "start"
  OBVIOUS
<1>3. /\ Queued' = Queued /\ Range(inbox)' = Range(inbox)
      /\ Held' = Held /\ HeldIds' = HeldIds
      /\ \A u \in Threads : Active(u)' = Active(u)
      /\ pc' \in [Threads -> ThreadPc \cup {"read", "put", "sentinel", "join",
                                            "get", "dead", "done"}]
      /\ PlacesMatch' /\ InboxOrdered' /\ OneOwnerPerId'
  <2>1. p \in ThreadPc /\ p # "start" /\ pc[t] # "put"
    BY DEF ThreadPc
  <2>2. QED BY <1>1, <1>2, <2>1, DispatchFrame
<1>4. \A j \in Msg : Settled(j)' = Settled(j)
  BY DEF Settled
<1>5. ran' \in SUBSET Msg /\ ran \subseteq ran' /\ ran' \subseteq ran \cup {k}
  BY <1>0, <1>1 DEF TypeOK
<1>6. TypeOK'
  BY <1>3, <1>5 DEF TypeOK
<1>7. NewestFirst'
  <2>1. k <= arrived
    BY <1>0, <1>1 DEF NewestFirst, AcceptedProgress, TypeOK, Msg, Threads
  <2>2. pc'["reader"] \in {"put", "start"} =>
            t # "reader" /\ pc["reader"] \in {"put", "start"}
    BY <1>2 DEF TypeOK, Threads
  <2>3. pc["reader"] \in {"put", "start"} /\ t # "reader" => k # arrived
    BY <1>0, <1>1, ActiveJobs DEF NewestFirst, AcceptedProgress, Threads, ThreadPc
  <2>4. QED BY <1>3, <1>5, <2>1, <2>2, <2>3 DEF NewestFirst, TypeOK, Threads, Msg
<1>8. AcceptedProgress'
  BY <1>1, <1>3, <1>4, <1>5 DEF AcceptedProgress, Threads, TypeOK
<1>9. InFlightUnsettled'
  <2>1. ASSUME NEW u \in Threads,
               pc'[u] \in {"put", "start", "handle", "lock", "write"}
        PROVE  ~Settled(job[u])'
    <3>1. job[u] \in Msg /\ ~Settled(job[u])
      BY <1>0, <1>1, <1>2, <2>1, ActiveJobs DEF InFlightUnsettled, TypeOK, ThreadPc
    <3>2. QED BY <1>4, <3>1
  <2>2. QED BY <1>3, <1>4, <2>1, ActiveJobs DEF InFlightUnsettled
<1>10. MarksAreCurrent' /\ AskedIsMarked'
  BY <1>3 DEF MarksAreCurrent, AskedIsMarked
<1>11. WithdrawnWasAsked' /\ SettledOnce'
  BY DEF WithdrawnWasAsked, SettledOnce
<1>12. LedgerStep
  BY <1>3 DEF LedgerStep, Ledger!ledger
<1>13. QED BY <1>3, <1>6, <1>7, <1>8, <1>9, <1>10, <1>11, <1>12

\* A reply is written, or its write fails: the message is settled.
LEMMA WriteStep ==
    ASSUME IInv, NEW t \in Threads, Write(t) \/ WriteFails(t)
    PROVE  IInv' /\ LedgerStep
<1> USE DEF IInv
<1>0. PICK k : k = job[t]
  OBVIOUS
<1>1. PICK p \in {"finish", "exit", "fail"} :
          /\ pc[t] = "write" /\ pc' = [pc EXCEPT ![t] = p]
          /\ UNCHANGED <<phase, inbox, outstanding, cancelled, job, mode, ok,
                         disconnected, stdout, arrived, ident, accepted, asked,
                         ran, withdrawn>>
          /\ writeLock' = "free" /\ unread' \in 0..PipeRoom
          /\ \/ replies' = [replies EXCEPT ![k] = @ + 1] /\ lost' = lost
             \/ replies' = replies /\ lost' = lost \cup {k}
  BY <1>0 DEF Write, PipeTakes, WriteFails, TypeOK
<1>2. /\ Active(t) /\ k \in Msg /\ k \notin Queued /\ ~Settled(k)
      /\ pc[t] \in ThreadPc
  BY <1>0, <1>1, ActiveJobs, JobsDistinct DEF ThreadPc, InFlightUnsettled
<1>3. /\ Queued' = Queued /\ Range(inbox)' = Range(inbox)
      /\ Held' = Held /\ HeldIds' = HeldIds
      /\ \A u \in Threads : Active(u)' = Active(u)
      /\ pc' \in [Threads -> ThreadPc \cup {"read", "put", "sentinel", "join",
                                            "get", "dead", "done"}]
      /\ PlacesMatch' /\ InboxOrdered' /\ OneOwnerPerId'
  <2>1. p \in ThreadPc /\ p # "start" /\ pc[t] # "put" /\ p # "handle"
    BY <1>1 DEF ThreadPc
  <2>2. QED BY <1>1, <1>2, <2>1, DispatchFrame
<1>4. /\ replies[k] = 0
      /\ \A j \in Msg : j # k => (replies'[j] = replies[j] /\ (j \in lost' <=> j \in lost))
      /\ replies'[k] > 0 \/ k \in lost'
      /\ replies'[k] <= 1 /\ (k \in lost' => replies'[k] = 0)
      /\ replies' \in [Msg -> Nat] /\ lost' \in SUBSET Msg
  BY <1>1, <1>2 DEF TypeOK, Settled
<1>5. \A j \in Msg : Settled(j)' <=> Settled(j) \/ j = k
  BY <1>1, <1>2, <1>4 DEF Settled
<1>6. TypeOK'
  BY <1>1, <1>3, <1>4 DEF TypeOK
<1>7. NewestFirst'
  <2>1. k <= arrived
    BY <1>0, <1>2 DEF NewestFirst, AcceptedProgress, TypeOK, Msg, Threads
  <2>2. pc'["reader"] \in {"put", "start"} => pc["reader"] \in {"put", "start"}
    BY <1>1 DEF TypeOK, Threads
  <2>3. QED BY <1>1, <1>3, <1>4, <2>1, <2>2 DEF NewestFirst, TypeOK, Threads, Msg
<1>8. AcceptedProgress'
  BY <1>1, <1>3, <1>5 DEF AcceptedProgress, Threads, TypeOK
<1>9. InFlightUnsettled'
  <2>1. ASSUME NEW u \in Threads,
               pc'[u] \in {"put", "start", "handle", "lock", "write"}
        PROVE  ~Settled(job[u])'
    <3>1. u # t /\ pc[u] \in {"put", "start", "handle", "lock", "write"}
      BY <1>1, <2>1 DEF TypeOK
    <3>2. Active(u) /\ job[u] \in Msg /\ job[u] # k /\ ~Settled(job[u])
      BY <1>0, <1>2, <3>1, ActiveJobs, JobsDistinct DEF InFlightUnsettled, ThreadPc
    <3>3. job'[u] = job[u]
      BY <1>1
    <3>4. QED BY <1>5, <3>2, <3>3
  <2>2. \A j \in Queued' : ~Settled(j)'
    BY <1>2, <1>3, <1>5, ActiveJobs DEF InFlightUnsettled
  <2>3. ASSUME NEW u \in Threads, pc'[u] \in {"finish", "exit", "fail"}
        PROVE  Settled(job[u])'
    <3>1. u = t \/ pc[u] \in {"finish", "exit", "fail"}
      BY <1>1, <2>3 DEF TypeOK
    <3>2. job[u] \in Msg /\ (job[u] = k \/ Settled(job[u])) /\ job'[u] = job[u]
      BY <1>0, <1>1, <1>2, <3>1, ActiveJobs DEF InFlightUnsettled, ThreadPc
    <3>3. QED BY <1>5, <3>2
  <2>4. QED BY <2>1, <2>2, <2>3 DEF InFlightUnsettled
<1>10. MarksAreCurrent' /\ AskedIsMarked'
  BY <1>1, <1>3 DEF MarksAreCurrent, AskedIsMarked
<1>11. WithdrawnWasAsked' /\ SettledOnce'
  <2>1. k \notin withdrawn
    BY <1>2 DEF Settled
  <2>2. QED BY <1>1, <1>4, <2>1 DEF WithdrawnWasAsked, SettledOnce, TypeOK
<1>12. LedgerStep
  <2>1. k <= arrived
    BY <1>0, <1>2 DEF NewestFirst, AcceptedProgress, TypeOK, Msg, Threads
  <2>2. Ledger!Open(k)
    BY <1>2, <2>1 DEF Ledger!Open, Settled, TypeOK, Msg
  <2>3. Ledger!Answer(k) \/ Ledger!Lose(k)
    BY <1>1, <1>3, <1>4, <2>2 DEF Ledger!Answer, Ledger!Lose
  <2>4. QED BY <1>2, <2>3 DEF LedgerStep, Ledger!Next, Msg
<1>13. QED BY <1>3, <1>6, <1>7, <1>8, <1>9, <1>10, <1>11, <1>12

\* _dispatch's finally clause: the id and its mark go together.
LEMMA ReturnStep ==
    ASSUME IInv, NEW t \in Threads, Return(t)
    PROVE  IInv' /\ LedgerStep
<1> USE DEF IInv
<1>0. PICK k : k = job[t]
  OBVIOUS
<1>1. /\ pc[t] \in {"finish", "exit", "fail"}
      /\ \/ mode[t] = "refuse" /\ UNCHANGED <<outstanding, cancelled>>
         \/ /\ mode[t] # "refuse"
            /\ outstanding' = outstanding \ {ident[k]}
            /\ cancelled' = cancelled \ {ident[k]}
      /\ pc' = [pc EXCEPT ![t] = After(t)]
      /\ mode' = [mode EXCEPT ![t] = "idle"]
      /\ phase' \in {phase, "initializing"}
      /\ phase' # phase => mode[t] = "initialize"
      /\ disconnected' \in BOOLEAN
      /\ disconnected' # disconnected => t = "worker" /\ disconnected'
      /\ UNCHANGED <<inbox, job, ok, writeLock, stdout, unread, history>>
  BY <1>0 DEF Return, Finish, TypeOK
<1>2. /\ Active(t) /\ k \in Msg /\ k \notin Queued
      /\ pc[t] \in ThreadPc
  BY <1>0, <1>1, ActiveJobs, JobsDistinct DEF ThreadPc
<1>3. /\ t = "reader" => After(t) \in {"read", "sentinel"}
      /\ t = "worker" => After(t) \in {"get", "dead"}
  BY DEF After
<1>4. Queued' = Queued /\ Range(inbox)' = Range(inbox)
  BY <1>1 DEF Queued
<1>5. /\ mode[t] = "registered" => k \in Held /\ Held' = Held \ {k}
      /\ mode[t] # "registered" => Held' = Held
  <2>1. Held' = Queued' \cup {job'[u] : u \in {v \in Threads : mode'[v] = "registered"}}
    BY DEF Held, Queued
  <2>2. Held = Queued \cup {job[u] : u \in {v \in Threads : mode[v] = "registered"}}
    BY ActiveJobs
  <2>3. {v \in Threads : mode'[v] = "registered"}
          = {v \in Threads : mode[v] = "registered"} \ {t}
    BY <1>1 DEF TypeOK
  <2>4. \A u \in Threads : mode[u] = "registered" /\ job[u] = k /\ Active(t) => u = t
    BY <1>0, JobsDistinct DEF Active
  <2>5. CASE mode[t] = "registered"
    BY <1>0, <1>1, <1>2, <1>4, <2>1, <2>2, <2>3, <2>4, <2>5
  <2>6. CASE mode[t] # "registered"
    BY <1>1, <1>4, <2>1, <2>2, <2>3, <2>6
  <2>7. QED BY <2>5, <2>6
<1>6. mode[t] = "initialize" => /\ phase = "new" /\ ~disconnected /\ t = "reader"
                                /\ Held = {} /\ outstanding = {} /\ cancelled = {}
  <2>1. SUFFICES ASSUME mode[t] = "initialize"
                 PROVE  /\ phase = "new" /\ ~disconnected /\ t = "reader"
                        /\ Held = {} /\ outstanding = {} /\ cancelled = {}
    OBVIOUS
  <2>2. t = "reader" /\ phase = "new" /\ accepted = {} /\ ~disconnected
    BY <2>1 DEF PlacesMatch, Threads
  <2>3. Queued = {} /\ mode["worker"] # "registered"
    BY <2>2 DEF AcceptedProgress, Active
  <2>4. Held = {}
    BY <2>1, <2>2, <2>3, ActiveJobs DEF Threads
  <2>5. outstanding = {}
    BY <2>2, <2>4 DEF OneOwnerPerId, HeldIds
  <2>6. QED BY <2>2, <2>4, <2>5 DEF MarksAreCurrent
<1>7. \A j \in Msg : Settled(j)' = Settled(j)
  BY <1>1 DEF Settled, history
<1>8. TypeOK'
  BY <1>1, <1>3 DEF TypeOK, history, Threads
<1>9. PlacesMatch'
  <2>1. phase' # "ready" => phase # "ready"
    BY <1>1, <1>6
  <2>2. phase # "ready" => t = "reader"
    BY <1>2 DEF PlacesMatch, AcceptedProgress, Threads
  <2>3. QED
    BY <1>1, <1>2, <1>3, <1>6, <2>1, <2>2
       DEF PlacesMatch, Active, TypeOK, Threads, ThreadPc, history
<1>10. NewestFirst'
  BY <1>1, <1>3 DEF NewestFirst, Active, TypeOK, Threads, history
<1>11. InboxOrdered'
  BY <1>1, <1>2, <1>4 DEF InboxOrdered, TypeOK, Threads, ThreadPc
<1>12. AcceptedProgress'
  <2>1. Active("worker")' => Active("worker") /\ job'["worker"] = job["worker"]
    BY <1>1 DEF Active, TypeOK, Threads
  <2>2. ASSUME NEW j \in accepted' \ Queued', ~Settled(j)'
        PROVE  Active("worker")' /\ j = job'["worker"]
    <3>1. j \in Msg /\ j \in accepted \ Queued /\ ~Settled(j)
      BY <1>1, <1>4, <1>7, <2>2 DEF history, TypeOK
    <3>2. Active("worker") /\ j = job["worker"]
      BY <3>1 DEF AcceptedProgress
    <3>3. t # "worker"
      BY <1>0, <1>1, <3>1, <3>2 DEF InFlightUnsettled
    <3>4. QED BY <1>1, <3>2, <3>3 DEF Active, TypeOK, Threads
  <2>3. QED BY <1>1, <1>4, <2>1, <2>2 DEF AcceptedProgress, history
<1>13. InFlightUnsettled'
  <2>1. ASSUME NEW u \in Threads,
               pc'[u] \in {"put", "start", "handle", "lock", "write"}
        PROVE  ~Settled(job[u])'
    <3>1. pc[u] \in {"put", "start", "handle", "lock", "write"}
      BY <1>1, <1>3, <2>1 DEF TypeOK, Threads
    <3>2. job[u] \in Msg /\ ~Settled(job[u]) /\ job'[u] = job[u]
      BY <1>1, <3>1, ActiveJobs DEF InFlightUnsettled, ThreadPc
    <3>3. QED BY <1>7, <3>2
  <2>2. \A j \in Queued' : ~Settled(j)'
    BY <1>4, <1>7, ActiveJobs DEF InFlightUnsettled
  <2>3. ASSUME NEW u \in Threads, pc'[u] \in {"finish", "exit", "fail"}
        PROVE  Settled(job[u])'
    <3>1. pc[u] \in {"finish", "exit", "fail"}
      BY <1>1, <1>3, <2>3 DEF TypeOK, Threads
    <3>2. job[u] \in Msg /\ Settled(job[u]) /\ job'[u] = job[u]
      BY <1>1, <3>1, ActiveJobs DEF InFlightUnsettled, ThreadPc
    <3>3. QED BY <1>7, <3>2
  <2>4. QED BY <2>1, <2>2, <2>3 DEF InFlightUnsettled
<1>14. OneOwnerPerId'
  <2>1. CASE mode[t] = "registered"
    <3>1. /\ \A j \in Held' : ident[j] # ident[k]
          /\ HeldIds' = HeldIds \ {ident[k]}
      BY <1>1, <1>5, <2>1 DEF OneOwnerPerId, HeldIds, history
    <3>2. QED BY <1>1, <1>5, <2>1, <3>1 DEF OneOwnerPerId, history, TypeOK
  <2>2. CASE mode[t] = "refuse"
    BY <1>1, <1>5, <2>2 DEF OneOwnerPerId, HeldIds, history, TypeOK
  <2>3. CASE mode[t] = "initialize"
    BY <1>1, <1>5, <1>6, <2>3 DEF OneOwnerPerId, HeldIds, history
  <2>4. QED BY <1>2, <2>1, <2>2, <2>3 DEF Active, TypeOK
<1>15. MarksAreCurrent' /\ AskedIsMarked'
  <2>1. CASE mode[t] = "registered"
    BY <1>1, <1>5, <2>1 DEF OneOwnerPerId, MarksAreCurrent, AskedIsMarked, history
  <2>2. CASE mode[t] = "refuse"
    BY <1>1, <1>5, <2>2 DEF MarksAreCurrent, AskedIsMarked, history
  <2>3. CASE mode[t] = "initialize"
    BY <1>1, <1>5, <1>6, <2>3 DEF MarksAreCurrent, AskedIsMarked, history
  <2>4. QED BY <1>2, <2>1, <2>2, <2>3 DEF Active, TypeOK
<1>16. WithdrawnWasAsked' /\ SettledOnce'
  BY <1>1 DEF WithdrawnWasAsked, SettledOnce, history
<1>17. LedgerStep
  <2>1. CASE mode[t] = "registered"
    <3>1. Ledger!Release(k)
      BY <1>1, <1>5, <2>1 DEF Ledger!Release, history
    <3>2. QED BY <1>2, <3>1 DEF LedgerStep, Ledger!Next, Msg
  <2>2. CASE mode[t] # "registered"
    BY <1>1, <1>5, <2>2 DEF LedgerStep, Ledger!ledger, history
  <2>3. QED BY <2>1, <2>2
<1>18. QED
  BY <1>8, <1>9, <1>10, <1>11, <1>12, <1>13, <1>14, <1>15, <1>16, <1>17

\* The client's steps touch its end of the pipe only.
LEMMA ClientStep ==
    ASSUME IInv, ClientReads \/ ClientCloses \/ UNCHANGED vars
    PROVE  IInv' /\ LedgerStep
<1> USE DEF IInv
<1>1. /\ unread' \in 0..PipeRoom /\ stdout' \in {"open", "broken"}
      /\ UNCHANGED <<phase, inbox, outstanding, cancelled, pc, job, mode, ok,
                     disconnected, writeLock, history>>
  BY DEF ClientReads, ClientCloses, vars, TypeOK
<1>2. /\ Range(inbox)' = Range(inbox) /\ Queued' = Queued /\ Held' = Held
      /\ HeldIds' = HeldIds
  BY <1>1 DEF Queued, Held, HeldIds, history
<1>3. TypeOK' /\ PlacesMatch' /\ NewestFirst'
  BY <1>1 DEF TypeOK, PlacesMatch, NewestFirst, Active, history
<1>4. InboxOrdered' /\ AcceptedProgress' /\ InFlightUnsettled'
  BY <1>1, <1>2 DEF InboxOrdered, AcceptedProgress, InFlightUnsettled, Active,
                    Settled, history
<1>5. OneOwnerPerId' /\ MarksAreCurrent' /\ AskedIsMarked'
  BY <1>1, <1>2 DEF OneOwnerPerId, MarksAreCurrent, AskedIsMarked, history
<1>6. WithdrawnWasAsked' /\ SettledOnce'
  BY <1>1 DEF WithdrawnWasAsked, SettledOnce, history
<1>7. LedgerStep
  BY <1>1, <1>2 DEF LedgerStep, Ledger!ledger, history
<1>8. QED BY <1>3, <1>4, <1>5, <1>6, <1>7

-----------------------------------------------------------------------------
(* The theorems.                                                           *)

LEMMA NextInv == IInv /\ [Next]_vars => IInv' /\ LedgerStep
<1> SUFFICES ASSUME IInv, [Next]_vars PROVE IInv' /\ LedgerStep
  OBVIOUS
<1>1. CASE Reader
  <2>1. ASSUME NEW i \in Ids, ReadCancel(i) PROVE IInv' /\ LedgerStep
    BY <2>1, ReadCancelStep
  <2>2. QED
    BY <1>1, <2>1, ReadStep, InitializedStep, EnqueueStep, OverflowStep,
       ReaderEndStep DEF Reader
<1>2. CASE Get
  BY <1>2, GetStep
<1>3. ASSUME NEW t \in Threads, Dispatch(t) PROVE IInv' /\ LedgerStep
  <2>1. CASE Begin(t)
    <3>1. CASE Withdraw(t)
      <4>1. /\ pc[t] = "start"
            /\ UNCHANGED <<phase, inbox, outstanding, job, mode, ok, disconnected,
                           writeLock, stdout, unread, arrived, ident, accepted,
                           asked, ran, replies, lost>>
        BY <2>1, <3>1 DEF Begin, Withdraw, Consume, Start, DispatchRest
      <4>2. QED BY <3>1, <4>1, WithdrawStep
    <3>2. CASE ~Withdraw(t)
      <4>1. /\ pc[t] = "start" /\ pc' = [pc EXCEPT ![t] = "handle"]
            /\ ran' = ran \cup {job[t]}
            /\ UNCHANGED <<phase, inbox, outstanding, cancelled, job, mode, ok,
                           disconnected, writeLock, stdout, unread, arrived,
                           ident, accepted, asked, replies, withdrawn, lost>>
        BY <2>1, <3>2 DEF Begin, Start, DispatchRest
      <4>2. ok' \in BOOLEAN /\ writeLock' \in Threads \cup {"free"}
        BY <4>1 DEF IInv, TypeOK
      <4>3. QED BY <4>1, <4>2, AdvanceStep
    <3>3. QED BY <3>1, <3>2
  <2>2. CASE Complete(t)
    <3>1. CASE Withdraw(t)
      <4>1. /\ pc[t] = "handle"
            /\ UNCHANGED <<phase, inbox, outstanding, job, mode, ok, disconnected,
                           writeLock, stdout, unread, arrived, ident, accepted,
                           asked, ran, replies, lost>>
        BY <2>2, <3>1 DEF Complete, Withdraw, Consume, DispatchRest
      <4>2. QED BY <3>1, <4>1, WithdrawStep
    <3>2. CASE ~Withdraw(t)
      <4>1. ok' \in BOOLEAN
        BY <2>2, <3>2 DEF Complete, DispatchRest, IInv, TypeOK
      <4>2. /\ pc[t] = "handle" /\ pc' = [pc EXCEPT ![t] = "lock"]
            /\ UNCHANGED <<phase, inbox, outstanding, cancelled, job, mode,
                           disconnected, writeLock, stdout, unread, arrived,
                           ident, accepted, asked, ran, replies, withdrawn, lost>>
        BY <2>2, <3>2 DEF Complete, DispatchRest
      <4>3. ran' = ran /\ writeLock' \in Threads \cup {"free"}
        BY <4>2 DEF IInv, TypeOK
      <4>4. QED BY <4>1, <4>2, <4>3, AdvanceStep
    <3>3. QED BY <3>1, <3>2
  <2>3. CASE Acquire(t)
    BY <2>3, AdvanceStep DEF Acquire, IInv, TypeOK, history
  <2>4. CASE Write(t) \/ WriteFails(t)
    BY <2>4, WriteStep
  <2>5. CASE Return(t)
    BY <2>5, ReturnStep
  <2>6. QED BY <1>3, <2>1, <2>2, <2>3, <2>4, <2>5 DEF Dispatch
<1>4. CASE ClientReads \/ ClientCloses \/ Terminated \/ UNCHANGED vars
  BY <1>4, ClientStep DEF Terminated
<1>5. QED BY <1>1, <1>2, <1>3, <1>4 DEF Next

\* IInv holds in every reachable state of the server, whatever the ids, the
\* capacity of the inbox, the number of messages and the room of the pipe.
THEOREM Invariance == Spec => []IInv
<1>1. Init => IInv
  BY InitInv
<1>2. IInv /\ [Next]_vars => IInv'
  BY NextInv
<1>3. QED BY <1>1, <1>2, PTL DEF Spec

\* The state of protocol.py keeps its types.
THEOREM TypeCorrect == Spec => []TypeOK
<1>1. IInv => TypeOK
  BY DEF IInv
<1>2. QED BY <1>1, Invariance, PTL

\* A message is answered, withdrawn or lost at most once, and is withdrawn
\* only if the client cancelled that very request while it was in flight.
THEOREM SettlementCorrect == Spec => [](SettledOnce /\ WithdrawnWasAsked)
<1>1. IInv => SettledOnce /\ WithdrawnWasAsked
  BY DEF IInv
<1>2. QED BY <1>1, Invariance, PTL

\* An id in flight has one owner, and the marks under it are its own: finish
\* and the rollback of a full inbox leave nothing for the next user of an id.
THEOREM MarksCorrect == Spec => [](OneOwnerPerId /\ MarksAreCurrent)
<1>1. IInv => OneOwnerPerId /\ MarksAreCurrent
  BY DEF IInv
<1>2. QED BY <1>1, Invariance, PTL

\* Business requests run one at a time, in arrival order.
THEOREM SerialExecutionCorrect == Spec => []SerialExecution
<1>1. ASSUME IInv PROVE SerialExecution
  <2> USE <1>1 DEF IInv
  <2>1. SUFFICES ASSUME NEW j \in accepted, NEW k \in accepted, j < k, k \in ran
                 PROVE  Settled(j)
    BY DEF SerialExecution
  <2>2. j \in Msg /\ k \in Msg /\ k \notin Queued
    BY <2>1 DEF TypeOK, AcceptedProgress
  <2>3. j \notin Queued
    BY <2>1, <2>2 DEF AcceptedProgress, Msg
  <2>4. CASE Settled(k) /\ ~Settled(j)
    BY <2>1, <2>2, <2>3, <2>4 DEF AcceptedProgress, Msg, TypeOK
  <2>5. CASE ~Settled(k) /\ ~Settled(j)
    BY <2>1, <2>2, <2>3, <2>5 DEF AcceptedProgress, Msg
  <2>6. QED BY <2>4, <2>5
<1>2. QED BY <1>1, Invariance, PTL

\* A handler never starts for a request cancelled before it started.
THEOREM CancelledNeverStartsCorrect == Spec => CancelledNeverStarts
<1>1. ASSUME IInv, [Next]_vars
      PROVE  [\A k \in ran' \ ran : k \notin asked]_vars
  <2> USE <1>1 DEF IInv
  <2>1. SUFFICES ASSUME Next, NEW k \in ran' \ ran
                 PROVE  k \notin asked
    BY <1>1
  <2>2. PICK t \in Threads : /\ Begin(t) /\ k = job[t]
                             /\ ident[job[t]] \notin cancelled
    BY <2>1
       DEF Next, Reader, Dispatch, ReadInvalid, ReadInitialize, ReadPing,
           ReadBusiness, ReadFrame, ReadInitialized, ReadCancel, Enqueue,
           Overflow, Eof, PutSentinel, Join, Get, Begin, Complete, Acquire,
           Write, WriteFails, Return, Withdraw, Consume, Start, DispatchRest, ClientReads, ClientCloses, Terminated,
           vars, history
  <2>3. /\ k \in Msg /\ ~Settled(k)
        /\ mode[t] \in {"initialize", "registered"}
    BY <2>2, DispatchFacts DEF Begin
  <2>4. CASE mode[t] = "initialize"
    BY <2>2, <2>4 DEF PlacesMatch, Threads
  <2>5. CASE mode[t] = "registered"
    <3>1. k \in Held
      BY <2>2, <2>5 DEF Held
    <3>2. QED BY <2>2, <2>3, <3>1 DEF AskedIsMarked, Settled
  <2>6. QED BY <2>3, <2>4, <2>5
<1>2. QED BY <1>1, Invariance, PTL DEF Spec, CancelledNeverStarts

\* The server implements the ledger its client sees.
THEOREM ImplementsLedgerCorrect == Spec => ImplementsLedger
<1>1. Init => Ledger!Init
  <2>1. Init => Held = {}
    BY DEF Init, IdleIn, Held, Range, Threads
  <2>2. QED BY <2>1 DEF Init, IdleIn, Ledger!Init, Msg
<1>2. IInv /\ [Next]_vars => [Ledger!Next]_(Ledger!ledger)
  BY NextInv DEF LedgerStep
<1>3. QED BY <1>1, <1>2, Invariance, PTL DEF Spec, ImplementsLedger, Ledger!Spec
=============================================================================
