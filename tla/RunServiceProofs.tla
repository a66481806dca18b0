-------------------------- MODULE RunServiceProofs --------------------------
(***************************************************************************)
(* Proofs about RunService: for any number of calls of cancelRun and         *)
(* interruptRun, the numbers of the events of a run are unique, an answer    *)
(* stays true, and the registry ends a run as the store does.                *)
(***************************************************************************)
EXTENDS RunService, TLAPS

Makers == Calls \cup {Loop}

(* What is known of a record after events were added to it ...              *)
Grows(r, s) ==
    /\ Numbered(s)
    /\ \A t \in Types : HasType(r, t) => HasType(s, t)
    /\ \A n \in Nat : Free(r, n) => Free(s, n)

(* ... and of one that has them, and nothing else, new.                     *)
SameState(r, s) ==
    /\ s.status = r.status
    /\ s.reservation = r.reservation
    /\ s.signal = r.signal

-----------------------------------------------------------------------------
(* The registry.                                                            *)

(* The elements of a sequence of events with one more.                      *)
LEMMA OneMore ==
    ASSUME NEW q \in Seq(Events), NEW e \in Events
    PROVE  /\ Append(q, e) \in Seq(Events)
           /\ \A i \in DOMAIN Append(q, e) :
                  \/ i \in DOMAIN q /\ Append(q, e)[i] = q[i]
                  \/ i = Len(q) + 1 /\ Append(q, e)[i] = e
           /\ \A i \in DOMAIN q : i \in DOMAIN Append(q, e) /\ Append(q, e)[i] = q[i]
           /\ Len(q) + 1 \in DOMAIN Append(q, e) /\ Append(q, e)[Len(q) + 1] = e
           /\ Len(q) + 1 \notin DOMAIN q
  <1>1. Append(q, e) \in Seq(Events)
    OBVIOUS
  <1>2. \A i \in DOMAIN Append(q, e) :
            \/ i \in DOMAIN q /\ Append(q, e)[i] = q[i]
            \/ i = Len(q) + 1 /\ Append(q, e)[i] = e
    OBVIOUS
  <1>3. \A i \in DOMAIN q : i \in DOMAIN Append(q, e) /\ Append(q, e)[i] = q[i]
    OBVIOUS
  <1>4. /\ Len(q) + 1 \in DOMAIN Append(q, e) /\ Append(q, e)[Len(q) + 1] = e
        /\ Len(q) + 1 \notin DOMAIN q
    OBVIOUS
  <1> QED
    BY <1>1, <1>2, <1>3, <1>4

(* What writing two fields of a record leaves of it.                        *)
WithEvents(r, n, q) == [r EXCEPT !.sequence = n, !.events = q]

LEMMA WithEventsIsRecord ==
    ASSUME NEW r \in Records, NEW n \in Nat, NEW q \in Seq(Events)
    PROVE  LET s == WithEvents(r, n, q)
           IN  s \in Records /\ s.events = q /\ s.sequence = n /\ SameState(r, s)
  <1> DEFINE s == WithEvents(r, n, q)
  <1>1. s \in Records
    BY DEF Records, WithEvents
  <1>2. s.events = q /\ s.sequence = n
    BY DEF Records, WithEvents
  <1>3. s.status = r.status /\ s.reservation = r.reservation /\ s.signal = r.signal
    BY DEF Records, WithEvents
  <1> QED
    BY <1>1, <1>2, <1>3 DEF SameState

(* A record that gets an event with a number of its own, old or new, stays  *)
(* numbered, and loses nothing.                                             *)
LEMMA WithEvent ==
    ASSUME NEW r, Numbered(r), NEW s \in Records, NEW e \in Events,
           s.events = Append(r.events, e),
           s.sequence >= r.sequence, e.n <= s.sequence,
           \A i \in DOMAIN r.events : r.events[i].n # e.n
    PROVE  /\ Numbered(s)
           /\ HasType(s, e.type)
           /\ \A t \in Types : HasType(r, t) => HasType(s, t)
           /\ \A n \in Nat : n # e.n /\ Free(r, n) => Free(s, n)
  <1> r.events \in Seq(Events) /\ r.sequence \in Nat /\ s.sequence \in Nat /\ e.n \in Nat
    BY DEF Numbered, Records, Events
  <1>1. \A i \in DOMAIN r.events : r.events[i].n \in Nat
    <2> TAKE i \in DOMAIN r.events
    <2>1. r.events[i] \in Events
      OBVIOUS
    <2> QED
      BY <2>1 DEF Events
  <1>2. Numbered(s)
    <2>1. \A i \in DOMAIN s.events : s.events[i].n <= s.sequence
      BY OneMore, <1>1 DEF Numbered
    <2>2. \A i, j \in DOMAIN s.events : s.events[i].n = s.events[j].n => i = j
      BY OneMore DEF Numbered
    <2> QED
      BY <2>1, <2>2 DEF Numbered
  <1>3. HasType(s, e.type)
    BY OneMore DEF HasType
  <1>4. \A t \in Types : HasType(r, t) => HasType(s, t)
    BY OneMore DEF HasType
  <1>5. \A n \in Nat : n # e.n /\ Free(r, n) => Free(s, n)
    BY OneMore DEF Free
  <1> QED
    BY <1>2, <1>3, <1>4, <1>5

(* appendEvent gives a number that no event has.                            *)
LEMMA AppendEventGrows ==
    ASSUME NEW r, Numbered(r), NEW type \in Types, NEW maker \in Makers
    PROVE  LET s == AppendEvent(r, type, maker)
           IN  Grows(r, s) /\ SameState(r, s) /\ HasType(s, type)
  <1> DEFINE s == AppendEvent(r, type, maker)
             e == Event(r.sequence + 1, type, maker)
  <1>1. r \in Records /\ r.sequence \in Nat /\ r.events \in Seq(Events)
    BY DEF Numbered, Records
  <1>2. e \in Events /\ e.n = r.sequence + 1 /\ e.type = type
    BY <1>1 DEF Event, Events, Makers
  <1>3. Append(r.events, e) \in Seq(Events)
    BY <1>1, <1>2, OneMore
  <1>4. /\ s \in Records /\ SameState(r, s)
        /\ s.events = Append(r.events, e) /\ s.sequence = r.sequence + 1
    <2>1. r.sequence + 1 \in Nat
      BY <1>1
    <2>2. s = WithEvents(r, r.sequence + 1, Append(r.events, e))
      BY DEF AppendEvent, WithEvents
    <2> HIDE DEF s, e
    <2> QED
      BY <1>1, <1>3, <2>1, <2>2, WithEventsIsRecord
  <1>5. \A i \in DOMAIN r.events : r.events[i].n # e.n
    BY <1>1, <1>2 DEF Numbered, Events
  <1> HIDE DEF s, e
  <1>6. s.sequence >= r.sequence /\ e.n <= s.sequence
    BY <1>1, <1>2, <1>4
  <1>7. /\ Numbered(s) /\ HasType(s, e.type)
        /\ \A t \in Types : HasType(r, t) => HasType(s, t)
        /\ \A n \in Nat : n # e.n /\ Free(r, n) => Free(s, n)
    BY <1>2, <1>4, <1>5, <1>6, WithEvent
  <1>8. \A n \in Nat : Free(r, n) => n # e.n
    BY <1>1, <1>2 DEF Free
  <1> QED
    BY <1>2, <1>4, <1>7, <1>8 DEF Grows, s

LEMMA MirrorGrows ==
    ASSUME NEW r, Numbered(r), NEW type \in Types, NEW maker \in Makers
    PROVE  LET s == Mirror(r, type, maker)
           IN  Grows(r, s) /\ SameState(r, s) /\ HasType(s, type)
  <1> DEFINE isThere == \E i \in DOMAIN r.events :
                            r.events[i].type = type /\ r.events[i].maker = maker
  <1>1. CASE isThere
    BY <1>1 DEF Mirror, Grows, SameState, HasType
  <1>2. CASE ~ isThere
    <2>1. Mirror(r, type, maker) = AppendEvent(r, type, maker)
      BY <1>2 DEF Mirror
    <2> QED
      BY <2>1, AppendEventGrows
  <1> QED
    BY <1>1, <1>2

LEMMA AppendEventOnceGrows ==
    ASSUME NEW r, Numbered(r), NEW type \in Types
    PROVE  LET s == AppendEventOnce(r, type)
           IN  Grows(r, s) /\ SameState(r, s) /\ HasType(s, type)
  <1>1. CASE HasType(r, type)
    BY <1>1 DEF AppendEventOnce, Grows, SameState
  <1>2. CASE ~ HasType(r, type)
    <2>1. AppendEventOnce(r, type) = AppendEvent(r, type, Loop)
      BY <1>2 DEF AppendEventOnce
    <2>2. Loop \in Makers
      BY DEF Makers
    <2> QED
      BY <2>1, <2>2, AppendEventGrows
  <1> QED
    BY <1>1, <1>2

(* What is not about its events does not matter for the numbers.            *)
LEMMA SameEventsGrow ==
    ASSUME NEW r, Numbered(r), NEW s \in Records,
           s.events = r.events, s.sequence >= r.sequence
    PROVE  Grows(r, s)
  <1> r.sequence \in Nat /\ s.sequence \in Nat /\ r.events \in Seq(Events)
    BY DEF Numbered, Records
  <1>1. \A i \in DOMAIN r.events : r.events[i].n \in Nat
    <2> TAKE i \in DOMAIN r.events
    <2>1. r.events[i] \in Events
      OBVIOUS
    <2> QED
      BY <2>1 DEF Events
  <1>2. \A i \in DOMAIN s.events : s.events[i].n <= s.sequence
    BY <1>1 DEF Numbered
  <1>3. Numbered(s)
    BY <1>2 DEF Numbered
  <1>4. \A t \in Types : HasType(r, t) => HasType(s, t)
    BY DEF HasType
  <1>5. \A n \in Nat : Free(r, n) => Free(s, n)
    BY DEF Free
  <1> QED
    BY <1>3, <1>4, <1>5 DEF Grows

LEMMA GrowsIsTransitive ==
    ASSUME NEW r, NEW s, NEW t, Grows(r, s), Grows(s, t)
    PROVE  Grows(r, t)
  BY DEF Grows

LEMMA NewStatus ==
    ASSUME NEW r, Numbered(r), NEW status \in Statuses
    PROVE  LET s == [r EXCEPT !.status = status]
           IN  /\ Grows(r, s) /\ s.status = status
               /\ s.reservation = r.reservation /\ s.signal = r.signal
  <1> DEFINE s == [r EXCEPT !.status = status]
  <1>1. r \in Records
    BY DEF Numbered
  <1>2. s \in Records /\ s.events = r.events /\ s.sequence = r.sequence
    BY <1>1 DEF Records
  <1>3. s.status = status /\ s.reservation = r.reservation /\ s.signal = r.signal
    BY <1>1 DEF Records
  <1>4. s.sequence >= r.sequence
    BY <1>1, <1>2 DEF Records
  <1>5. Grows(r, s)
    <2> HIDE DEF s
    <2> QED
      BY <1>2, <1>4, SameEventsGrow
  <1> QED
    BY <1>3, <1>5

LEMMA AbortGrows ==
    ASSUME NEW r, Numbered(r), NEW reason \in {"cancelled", "interrupted"}
    PROVE  LET s == Abort(r, reason)
           IN  /\ Grows(r, s) /\ s.sequence = r.sequence
               /\ s.status = r.status /\ s.reservation = r.reservation
               /\ s.signal = IF r.signal = None THEN reason ELSE r.signal
  <1> DEFINE s == Abort(r, reason)
  <1>1. r \in Records
    BY DEF Numbered
  <1>2. s \in Records /\ s.events = r.events /\ s.sequence = r.sequence
    BY <1>1 DEF Records, Abort, Reasons
  <1>3. /\ s.status = r.status /\ s.reservation = r.reservation
        /\ s.signal = IF r.signal = None THEN reason ELSE r.signal
    BY <1>1 DEF Records, Abort
  <1>4. s.sequence >= r.sequence
    BY <1>1, <1>2 DEF Records
  <1>5. Grows(r, s)
    <2> HIDE DEF s
    <2> QED
      BY <1>2, <1>4, SameEventsGrow
  <1> QED
    BY <1>2, <1>3, <1>5

(* The event that is staged has a number of its own, although it is not     *)
(* among the events yet.                                                    *)
LEMMA StageTerminalGrows ==
    ASSUME NEW r, Numbered(r), NEW type \in Ends, NEW maker \in Makers
    PROVE  LET s == StageTerminal(r, type, maker)
               e == StagedEvent(r, type, maker)
           IN  /\ Grows(r, s) /\ Free(s, e.n)
               /\ e \in Events /\ e.type = type /\ e.maker = maker
               /\ \A n \in Nat : Free(r, n) => n # e.n
               /\ s.status = r.status /\ s.reservation = maker
               /\ type = "cancelled" =>
                      s.signal = IF r.signal = None THEN "cancelled" ELSE r.signal
               /\ type # "cancelled" => s.signal = r.signal
  <1> DEFINE s == StageTerminal(r, type, maker)
             e == StagedEvent(r, type, maker)
             a == IF type = "cancelled" THEN Abort(r, "cancelled") ELSE r
  <1>1. r \in Records /\ r.sequence \in Nat /\ r.events \in Seq(Events)
    BY DEF Numbered, Records
  <1>2. e \in Events /\ e.n = r.sequence + 1 /\ e.type = type /\ e.maker = maker
    BY <1>1 DEF StagedEvent, Event, Events, Types, Makers
  <1>3. /\ Grows(r, a) /\ a.sequence = r.sequence /\ a.status = r.status
        /\ type = "cancelled" =>
               a.signal = IF r.signal = None THEN "cancelled" ELSE r.signal
        /\ type # "cancelled" => a.signal = r.signal
    <2>1. CASE type = "cancelled"
      BY <2>1, AbortGrows
    <2>2. CASE type # "cancelled"
      BY <2>2 DEF Grows
    <2> QED
      BY <2>1, <2>2
  <1>4. a \in Records /\ Numbered(a)
    BY <1>3 DEF Grows, Numbered
  <1>5. s = [a EXCEPT !.sequence = a.sequence + 1, !.reservation = maker]
    BY DEF StageTerminal
  <1> HIDE DEF a
  <1> DEFINE more == a.sequence + 1
  <1>8. a.sequence \in Nat /\ more \in Nat /\ a.events \in Seq(Events)
    BY <1>4 DEF Records
  <1> HIDE DEF more
  <1>6. s \in Records /\ s.events = a.events /\ s.sequence = a.sequence + 1
    <2>1. s = [a EXCEPT !.sequence = more, !.reservation = maker]
      BY <1>5 DEF more
    <2>2. s \in Records
      BY <1>4, <1>8, <2>1 DEF Records, Makers
    <2>3. s.events = a.events /\ s.sequence = more
      BY <1>4, <2>1 DEF Records
    <2> QED
      BY <2>2, <2>3 DEF more
  <1>7. s.status = a.status /\ s.reservation = maker /\ s.signal = a.signal
    BY <1>4, <1>5 DEF Records
  <1> HIDE DEF s, e
  <1>9. Grows(a, s)
    BY <1>4, <1>6, <1>8, SameEventsGrow
  <1>10. Free(s, e.n)
    <2>1. e.n \in 1..s.sequence
      BY <1>1, <1>2, <1>3, <1>6
    <2>2. \A i \in DOMAIN s.events : s.events[i].n # e.n
      <3> TAKE i \in DOMAIN s.events
      <3>1. i \in DOMAIN a.events /\ s.events[i] = a.events[i]
        BY <1>6
      <3>2. a.events[i] \in Events /\ a.events[i].n <= a.sequence
        BY <1>4, <1>8, <3>1 DEF Numbered
      <3> QED
        BY <1>1, <1>2, <1>3, <3>1, <3>2 DEF Events
    <2> QED
      BY <2>1, <2>2 DEF Free
  <1>11. \A n \in Nat : Free(r, n) => n # e.n
    BY <1>1, <1>2 DEF Free
  <1> QED
    BY <1>2, <1>3, <1>7, <1>9, <1>10, <1>11, GrowsIsTransitive DEF s, e

LEMMA CommitTerminalGrows ==
    ASSUME NEW r, Numbered(r), NEW e \in Events, e.type \in Ends, Free(r, e.n)
    PROVE  LET s == CommitTerminal(r, e)
           IN  /\ Numbered(s) /\ s.signal = r.signal
               /\ \A t \in Types : HasType(r, t) => HasType(s, t)
               /\ \A n \in Nat : n # e.n /\ Free(r, n) => Free(s, n)
               /\ IF r.reservation = e.maker /\ r.status = "running"
                  THEN s.status = e.type /\ s.reservation = None /\ HasType(s, e.type)
                  ELSE s = r
  <1> DEFINE s == CommitTerminal(r, e)
  <1>1. r \in Records /\ r.sequence \in Nat /\ r.events \in Seq(Events)
    BY DEF Numbered, Records
  <1>2. CASE ~ (r.reservation = e.maker /\ r.status = "running")
    BY <1>2 DEF CommitTerminal
  <1>3. CASE r.reservation = e.maker /\ r.status = "running"
    <2> DEFINE q == Append(r.events, e)
    <2>1. q \in Seq(Events)
      BY <1>1, OneMore
    <2>2. s = [r EXCEPT !.status = e.type, !.events = q, !.reservation = None]
      BY <1>3 DEF CommitTerminal
    <2> HIDE DEF q
    <2>3. e.type \in Statuses
      BY DEF Statuses
    <2>4. s \in Records
      BY <1>1, <2>1, <2>2, <2>3 DEF Records
    <2>5. s.events = q /\ s.sequence = r.sequence
      BY <1>1, <2>2 DEF Records
    <2>6. s.status = e.type /\ s.reservation = None /\ s.signal = r.signal
      BY <1>1, <2>2 DEF Records
    <2> HIDE DEF s
    <2>7. /\ s.events = Append(r.events, e) /\ s.sequence >= r.sequence
          /\ e.n <= s.sequence /\ \A i \in DOMAIN r.events : r.events[i].n # e.n
      BY <1>1, <2>5 DEF q, Free
    <2>8. /\ Numbered(s) /\ HasType(s, e.type)
          /\ \A t \in Types : HasType(r, t) => HasType(s, t)
          /\ \A n \in Nat : n # e.n /\ Free(r, n) => Free(s, n)
      BY <2>4, <2>7, WithEvent
    <2> QED
      BY <1>3, <2>6, <2>8 DEF s
  <1> QED
    BY <1>2, <1>3

LEMMA AbortTerminalGrows ==
    ASSUME NEW r, Numbered(r), NEW maker
    PROVE  LET s == AbortTerminal(r, maker)
           IN  /\ Grows(r, s) /\ s.status = r.status /\ s.signal = r.signal
               /\ s.reservation = IF r.reservation = maker THEN None ELSE r.reservation
  <1> DEFINE s == AbortTerminal(r, maker)
  <1>1. r \in Records
    BY DEF Numbered
  <1>2. s \in Records /\ s.events = r.events /\ s.sequence = r.sequence
    BY <1>1 DEF Records, AbortTerminal
  <1>3. /\ s.status = r.status /\ s.signal = r.signal
        /\ s.reservation = IF r.reservation = maker THEN None ELSE r.reservation
    BY <1>1 DEF Records, AbortTerminal
  <1>4. s.sequence >= r.sequence
    BY <1>1, <1>2 DEF Records
  <1>5. Grows(r, s)
    <2> HIDE DEF s
    <2> QED
      BY <1>2, <1>4, SameEventsGrow
  <1> QED
    BY <1>3, <1>5

LEMMA FailGrows ==
    ASSUME NEW r, Numbered(r)
    PROVE  LET s == Fail(r)
           IN  /\ Grows(r, s)
               /\ s.reservation = r.reservation /\ s.signal = r.signal
               /\ IF r.status = "cancelled"
                  THEN s = r
                  ELSE s.status = "failed" /\ HasType(s, "failed")
  <1>1. CASE r.status = "cancelled"
    BY <1>1 DEF Fail, Grows
  <1>2. CASE r.status # "cancelled"
    <2> DEFINE a == [r EXCEPT !.status = "failed"]
               s == AppendEventOnce(a, "failed")
    <2>1. /\ Grows(r, a) /\ a.status = "failed"
          /\ a.reservation = r.reservation /\ a.signal = r.signal
      BY NewStatus DEF Statuses, Ends
    <2>2. Fail(r) = s
      BY <1>2 DEF Fail
    <2> HIDE DEF a
    <2>3. Grows(a, s) /\ SameState(a, s) /\ HasType(s, "failed")
      BY <2>1, AppendEventOnceGrows DEF Grows, Types, Ends
    <2> QED
      BY <1>2, <2>1, <2>2, <2>3, GrowsIsTransitive DEF SameState
  <1> QED
    BY <1>1, <1>2

LEMMA InterruptGrows ==
    ASSUME NEW r, Numbered(r)
    PROVE  LET s == Interrupt(r)
           IN  /\ Grows(r, s)
               /\ s.reservation = r.reservation /\ s.signal = r.signal
               /\ IF r.status = "running"
                  THEN s.status = "interrupted" /\ HasType(s, "interrupted")
                  ELSE s = r
  <1>1. CASE r.status # "running"
    BY <1>1 DEF Interrupt, Grows
  <1>2. CASE r.status = "running"
    <2> DEFINE a == [r EXCEPT !.status = "interrupted"]
               s == AppendEventOnce(a, "interrupted")
    <2>1. /\ Grows(r, a) /\ a.status = "interrupted"
          /\ a.reservation = r.reservation /\ a.signal = r.signal
      BY NewStatus DEF Statuses, Ends
    <2>2. Interrupt(r) = s
      BY <1>2 DEF Interrupt
    <2> HIDE DEF a
    <2>3. Grows(a, s) /\ SameState(a, s) /\ HasType(s, "interrupted")
      BY <2>1, AppendEventOnceGrows DEF Grows, Types, Ends
    <2> QED
      BY <1>2, <2>1, <2>2, <2>3, GrowsIsTransitive DEF SameState
  <1> QED
    BY <1>1, <1>2

LEMMA CancelGrows ==
    ASSUME NEW r, Numbered(r)
    PROVE  LET s == Cancel(r)
           IN  /\ Grows(r, s)
               /\ r.signal # None => s.signal = r.signal
               /\ IF CanStage(r)
                  THEN /\ s.status = "cancelled" /\ s.reservation = None
                       /\ HasType(s, "cancelled") /\ s.signal # None
                  ELSE s = r
  <1>1. CASE ~ CanStage(r)
    BY <1>1 DEF Cancel, Grows
  <1>2. CASE CanStage(r)
    <2> DEFINE a == StageTerminal(r, "cancelled", Loop)
               e == StagedEvent(r, "cancelled", Loop)
               s == CommitTerminal(a, e)
    <2>1. Cancel(r) = s
      BY <1>2 DEF Cancel
    <2>2. "cancelled" \in Ends /\ Loop \in Makers /\ Ends \subseteq Types
      BY DEF Ends, Makers, Types
    <2>3. /\ Grows(r, a) /\ Free(a, e.n)
          /\ e \in Events /\ e.type = "cancelled" /\ e.maker = Loop
          /\ \A n \in Nat : Free(r, n) => n # e.n
          /\ a.status = r.status /\ a.reservation = Loop
          /\ a.signal = IF r.signal = None THEN "cancelled" ELSE r.signal
      BY <2>2, StageTerminalGrows
    <2> HIDE DEF a, e
    <2>4. Numbered(a)
      BY <2>3 DEF Grows
    <2>5. a.reservation = e.maker /\ a.status = "running"
      BY <1>2, <2>3 DEF CanStage
    <2>6. /\ Numbered(s) /\ s.signal = a.signal
          /\ \A t \in Types : HasType(a, t) => HasType(s, t)
          /\ \A n \in Nat : n # e.n /\ Free(a, n) => Free(s, n)
          /\ s.status = e.type /\ s.reservation = None /\ HasType(s, e.type)
      BY <2>2, <2>3, <2>4, <2>5, CommitTerminalGrows
    <2>7. Grows(r, s)
      BY <2>3, <2>6 DEF Grows
    <2>8. s.signal # None
      BY <2>3, <2>6, NoneIsNoReason
    <2> HIDE DEF s
    <2> QED
      BY <1>2, <2>1, <2>3, <2>6, <2>7, <2>8
  <1> QED
    BY <1>1, <1>2

-----------------------------------------------------------------------------
(* The steps of the loop and of the calls.                                  *)

RestOfTypes ==
    /\ run \in Statuses /\ waits \in BOOLEAN
    /\ end \in [type : Ends, maker : Calls \cup {Loop}] \cup {NoEnd}
    /\ loop \in LoopSteps /\ outcome \in Statuses
    /\ call \in [Calls -> CallSteps]
    /\ staged \in [Calls -> Events \cup {None}]
    /\ outputFailed \in BOOLEAN

LEMMA TypesSplit ==
    ASSUME Numbered(registry)
    PROVE  TypeOK <=> RestOfTypes
  BY DEF TypeOK, Numbered, RestOfTypes

(* The control of the loop and the calls, apart from the numbers.           *)
Control ==
    /\ RestOfTypes
    /\ registry \in Records
    /\ RegistryFollows
    /\ StoreFirst
    /\ LoopKnows
    /\ AgreeSoFar
    /\ AnswersAreTrue

LEMMA InvariantSplit ==
    RunInvariant <=> Control /\ Numbered(registry) /\ CallHasReservation
  <1>1. ASSUME Numbered(registry) PROVE registry \in Records /\ (TypeOK <=> RestOfTypes)
    BY <1>1, TypesSplit DEF Numbered
  <1> QED
    BY <1>1 DEF RunInvariant, Control

LEMMA InvariantSplitPrimed ==
    RunInvariant' <=> Control' /\ Numbered(registry)' /\ CallHasReservation'
  BY InvariantSplit, PTL

(* A call that waits for its output to be written keeps its reservation and *)
(* the number of its event, whatever the loop appends.                      *)
LEMMA CallsKeepReservation ==
    ASSUME CallHasReservation, UNCHANGED <<call, staged>>,
           registry.reservation # None => registry'.reservation = registry.reservation,
           registry.signal # None => registry'.signal # None,
           Grows(registry, registry')
    PROVE  Numbered(registry)' /\ CallHasReservation'
  <1>1. Numbered(registry)'
    BY DEF Grows
  <1>2. CallHasReservation'
    <2> SUFFICES ASSUME NEW c \in Calls, call'[c] = "persisting"
                 PROVE  /\ registry'.reservation = c
                        /\ registry'.signal # None
                        /\ staged'[c] \in Events
                        /\ staged'[c].type = "cancelled" /\ staged'[c].maker = c
                        /\ Free(registry', staged'[c].n)
      BY DEF CallHasReservation
    <2>1. /\ registry.reservation = c /\ registry.signal # None
          /\ staged[c] \in Events
          /\ staged[c].type = "cancelled" /\ staged[c].maker = c
          /\ Free(registry, staged[c].n)
      BY DEF CallHasReservation
    <2>2. c # None
      BY MakersAreDistinct
    <2>3. staged[c].n \in Nat
      BY <2>1 DEF Events
    <2> QED
      BY <2>1, <2>2, <2>3 DEF Grows
  <1> QED
    BY <1>1, <1>2

LEMMA LoopMovesKeeps ==
    ASSUME RunInvariant,
           \/ StartRun \/ ThrowIfAborted \/ ReturnAtCursor \/ FailStageRefused
           \/ StageCommitFails \/ Finalize \/ FinalizeFails \/ FinalizeEnd
    PROVE  RunInvariant'
  <1>1. Control /\ Numbered(registry) /\ CallHasReservation
    BY InvariantSplit
  <1>2. UNCHANGED <<registry, call, staged>>
    BY DEF StartRun, ThrowIfAborted, ReturnAtCursor, FailStageRefused,
           StageCommitFails, Finalize, FinalizeFails, FinalizeEnd, OtherVars
  <1>3. Numbered(registry)' /\ CallHasReservation'
    BY <1>1, <1>2, CallsKeepReservation DEF Grows
  <1>4. /\ UNCHANGED store
        /\ \/ loop = "starting" /\ loop' = "stages" /\ UNCHANGED <<outcome, outputFailed>>
           \/ /\ loop \in {"stages", "working", "failing"} /\ loop' = "caught"
              /\ UNCHANGED <<outcome, outputFailed>>
           \/ /\ loop = "stages" /\ loop' = "returned" /\ (run # "running" \/ waits)
              /\ outcome' = run /\ UNCHANGED outputFailed
           \/ /\ loop \in {"finalizing", "ending"} /\ loop' = "over"
              /\ UNCHANGED <<outcome, outputFailed>>
           \/ /\ loop = "finalizing" /\ loop' = "caught"
              /\ outputFailed' = TRUE /\ UNCHANGED outcome
    <2>1. CASE StartRun
      BY <2>1 DEF StartRun, Goto
    <2>2. CASE ThrowIfAborted
      BY <2>2 DEF ThrowIfAborted, Goto
    <2>3. CASE ReturnAtCursor
      BY <2>3 DEF ReturnAtCursor, Goto
    <2>4. CASE FailStageRefused
      BY <2>4 DEF FailStageRefused, Goto
    <2>5. CASE StageCommitFails
      BY <2>5 DEF StageCommitFails, Goto
    <2>6. CASE Finalize
      BY <2>6 DEF Finalize, Goto
    <2>7. CASE FinalizeFails
      BY <2>7 DEF FinalizeFails, Goto
    <2>8. CASE FinalizeEnd
      BY <2>8 DEF FinalizeEnd, Goto
    <2> QED
      BY <2>1, <2>2, <2>3, <2>4, <2>5, <2>6, <2>7, <2>8
  <1>5. /\ run' = run /\ waits' = waits /\ end' = end /\ registry' = registry
        /\ call' = call /\ staged' = staged
    BY <1>2, <1>4 DEF store
  <1>6. RestOfTypes' /\ registry' \in Records
    BY <1>1, <1>4, <1>5 DEF Control, RestOfTypes, LoopSteps
  <1>7. RegistryFollows' /\ StoreFirst' /\ AnswersAreTrue'
    BY <1>1, <1>4, <1>5 DEF Control, RegistryFollows, StoreFirst, AnswersAreTrue, Settled
  <1>8. LoopKnows'
    BY <1>1, <1>4, <1>5 DEF Control, LoopKnows, Early, Settled
  <1>9. AgreeSoFar'
    BY <1>1, <1>4, <1>5 DEF Control, AgreeSoFar
  <1> QED
    BY <1>3, <1>6, <1>7, <1>8, <1>9, InvariantSplitPrimed DEF Control

(* What the store and the registry were is known where they grow.           *)
LEMMA ProgressKeeps ==
    ASSUME RunInvariant, StartStage \/ DriverEvent \/ AdvanceStage
    PROVE  RunInvariant'
  <1>1. Control /\ Numbered(registry) /\ CallHasReservation
    BY InvariantSplit
  <1>2. registry' = AppendEvent(registry, "progress", Loop) /\ UNCHANGED <<call, staged>>
    BY DEF StartStage, DriverEvent, AdvanceStage, OtherVars
  <1>3. Grows(registry, registry') /\ SameState(registry, registry')
    BY <1>1, <1>2, AppendEventGrows DEF Types, Makers
  <1>4. Numbered(registry)' /\ CallHasReservation'
    BY <1>1, <1>2, <1>3, CallsKeepReservation DEF SameState
  <1>5. /\ run' = run /\ end' = end /\ outcome' = outcome /\ outputFailed' = outputFailed
        /\ \/ /\ loop = "stages" /\ loop' = "working" /\ waits' = waits /\ ~ waits
           \/ loop = "working" /\ loop' = loop /\ waits' = waits
           \/ /\ loop = "working" /\ loop' = "stages" /\ waits' \in BOOLEAN
              /\ run = "running"
    <2>1. CASE StartStage
      BY <2>1 DEF StartStage, Goto, store
    <2>2. CASE DriverEvent
      BY <2>2 DEF DriverEvent, Goto, store
    <2>3. CASE AdvanceStage
      BY <2>3 DEF AdvanceStage, Goto, store
    <2> QED
      BY <2>1, <2>2, <2>3
  <1>6. /\ registry'.status = registry.status /\ registry'.signal = registry.signal
        /\ registry'.reservation = registry.reservation
        /\ registry' \in Records /\ \A t \in Types : HasType(registry, t) => HasType(registry', t)
    BY <1>3 DEF Grows, SameState, Numbered
  <1>7. RestOfTypes'
    BY <1>1, <1>2, <1>5 DEF Control, RestOfTypes, LoopSteps
  <1>8. RegistryFollows' /\ StoreFirst' /\ AnswersAreTrue'
    BY <1>1, <1>2, <1>5, <1>6 DEF Control, RegistryFollows, StoreFirst, AnswersAreTrue, Settled
  <1>9. LoopKnows'
    BY <1>1, <1>2, <1>5, <1>6 DEF Control, LoopKnows, Early, Settled
  <1>10. AgreeSoFar'
    BY <1>1, <1>2, <1>5, <1>6 DEF Control, AgreeSoFar, RestOfTypes, Statuses, Types
  <1> QED
    BY <1>4, <1>6, <1>7, <1>8, <1>9, <1>10, InvariantSplitPrimed DEF Control

(* Deliver and FailStage end the run in the store and tell of it: while the *)
(* run is running in the store, it is in the registry.                      *)
LEMMA RunningInBoth ==
    ASSUME RunInvariant, run = "running", ~ outputFailed
    PROVE  registry.status = "running"
  BY DEF RunInvariant, AgreeSoFar, TypeOK, Records, Statuses

LEMMA StageEndsRunKeeps ==
    ASSUME RunInvariant, Deliver \/ FailStage
    PROVE  RunInvariant'
  <1>1. Control /\ Numbered(registry) /\ CallHasReservation
    BY InvariantSplit
  <1> DEFINE a == AppendEvent(registry, "progress", Loop)
  <1>2. PICK type \in {"completed", "failed"} :
            /\ registry' = AppendEvent(a, type, Loop)
            /\ run = "running" /\ run' = type /\ end' = [type |-> type, maker |-> Loop]
            /\ loop \in {"working", "failing"} /\ loop' = "returned" /\ outcome' = type
            /\ waits' = FALSE
    <2>1. CASE Deliver
      BY <1>1, <2>1 DEF Deliver, EndInStore, Goto, Control, LoopKnows, Early
    <2>2. CASE FailStage
      BY <2>2 DEF FailStage, FinishRun, EndInStore, Goto
    <2> QED
      BY <2>1, <2>2
  <1>3. UNCHANGED <<call, staged, outputFailed>>
    BY DEF Deliver, FailStage, OtherVars
  <1>4. Grows(registry, a) /\ SameState(registry, a)
    BY <1>1, AppendEventGrows DEF Types, Makers
  <1> HIDE DEF a
  <1>5. type \in Types /\ Loop \in Makers /\ Numbered(a)
    BY <1>4 DEF Types, Ends, Makers, Grows
  <1>6. Grows(a, registry') /\ SameState(a, registry') /\ HasType(registry', type)
    BY <1>2, <1>5, AppendEventGrows
  <1>7. Grows(registry, registry') /\ SameState(registry, registry')
    BY <1>4, <1>6, GrowsIsTransitive DEF SameState
  <1>8. Numbered(registry)' /\ CallHasReservation'
    BY <1>1, <1>3, <1>7, CallsKeepReservation DEF SameState
  <1>9. /\ registry'.status = registry.status /\ registry'.signal = registry.signal
        /\ registry'.reservation = registry.reservation
        /\ registry' \in Records
    BY <1>7 DEF Grows, SameState, Numbered
  <1>10. RestOfTypes'
    BY <1>1, <1>2, <1>3 DEF Control, RestOfTypes, LoopSteps, Statuses, Ends
  <1>11. /\ registry.status \notin {"completed", "cancelled", "interrupted"}
         /\ ~ outputFailed => registry.status = "running"
    BY <1>1, <1>2, RunningInBoth DEF Control, RegistryFollows, Settled
  <1>12. RegistryFollows' /\ AnswersAreTrue'
    BY <1>1, <1>2, <1>3, <1>9, <1>11 DEF Control, RegistryFollows, AnswersAreTrue
  <1>13. StoreFirst' /\ AgreeSoFar'
    BY <1>1, <1>2, <1>3, <1>9, <1>11 DEF Control, StoreFirst, AgreeSoFar
  <1>14. end' # NoEnd
    BY <1>2, MakersAreDistinct DEF NoEnd
  <1>15. LoopKnows'
    BY <1>1, <1>2, <1>6, <1>14 DEF LoopKnows, Early, Settled
  <1> QED
    BY <1>8, <1>9, <1>10, <1>12, <1>13, <1>15, InvariantSplitPrimed DEF Control

LEMMA StageThrowsKeeps ==
    ASSUME RunInvariant, StageThrows
    PROVE  RunInvariant'
  <1>1. Control /\ Numbered(registry) /\ CallHasReservation
    BY InvariantSplit
  <1>2. UNCHANGED <<registry, call, staged, outputFailed>> /\ loop = "working"
        /\ waits = FALSE
    BY <1>1 DEF StageThrows, OtherVars, Control, LoopKnows, Early, RestOfTypes
  <1>3. Numbered(registry)' /\ CallHasReservation'
    BY <1>1, <1>2, CallsKeepReservation DEF Grows
  <1>4. /\ waits' = FALSE
        /\ \/ /\ run' = run /\ end' = end /\ outcome' = outcome
              /\ loop' \in {"caught", "failing"}
           \/ /\ run' = run /\ end' = end /\ outcome' = run /\ run # "running"
              /\ loop' = "returned"
           \/ /\ run = "running" /\ run' \in {"interrupted", "cancelled"}
              /\ run' = registry.signal
              /\ outcome' = run' /\ loop' = "returned"
              /\ end' = [type |-> run', maker |-> Loop]
    <2>1. CASE registry.signal = "interrupted"
      BY <1>2, <2>1 DEF StageThrows, InterruptInStore, EndInStore, Goto, store
    <2>2. CASE registry.signal = "cancelled" /\ Accepts("cancelled")
      BY <1>2, <2>2 DEF StageThrows, FinishRun, Accepts, EndInStore, Goto, store
    <2>3. CASE registry.signal = "cancelled" /\ ~ Accepts("cancelled")
      BY <1>2, <2>3 DEF StageThrows, Goto, store
    <2>4. CASE registry.signal = None
      BY <1>2, <2>4, NoneIsNoReason DEF StageThrows, Goto, store
    <2>5. registry.signal \in {"cancelled", "interrupted", None}
      BY <1>1 DEF Control, Records, Reasons
    <2> QED
      BY <2>1, <2>2, <2>3, <2>4, <2>5
  <1>5. run \notin {"completed", "interrupted"} /\ (run # "running" => end # NoEnd)
    BY <1>1, <1>2 DEF Control, LoopKnows, Early
  <1>6. run # "running" => registry.status # "running"
    BY <1>1, <1>2 DEF Control, StoreFirst, Settled
  <1>7. run' # "running" => end' # NoEnd
    BY <1>4, <1>5, MakersAreDistinct DEF NoEnd
  <1>8. RestOfTypes' /\ registry' \in Records
    <2>1. run' \in Statuses /\ outcome' \in Statuses /\ waits' \in BOOLEAN
      BY <1>1, <1>4 DEF Control, RestOfTypes, Statuses, Ends
    <2>2. end' \in [type : Ends, maker : Calls \cup {Loop}] \cup {NoEnd}
      BY <1>1, <1>4 DEF Control, RestOfTypes, Ends
    <2> QED
      BY <1>1, <1>2, <1>4, <2>1, <2>2 DEF Control, RestOfTypes, LoopSteps
  <1>9. RegistryFollows' /\ AnswersAreTrue'
    BY <1>1, <1>2, <1>4 DEF Control, RegistryFollows, AnswersAreTrue, Settled
  <1>10. StoreFirst'
    BY <1>1, <1>2, <1>4, <1>6 DEF StoreFirst
  <1>11. run = "running" /\ ~ outputFailed => registry.status = "running"
    BY RunningInBoth
  <1>12. AgreeSoFar'
    BY <1>1, <1>2, <1>4, <1>11 DEF Control, AgreeSoFar
  <1>13. LoopKnows'
    BY <1>1, <1>2, <1>4, <1>5, <1>7 DEF Control, LoopKnows, Early, Settled
  <1> QED
    BY <1>3, <1>8, <1>9, <1>10, <1>12, <1>13, InvariantSplitPrimed DEF Control

(* finishRun(failed) of a run that cannot start, if the store accepts it.   *)
LEMMA StartFailsKeeps ==
    ASSUME RunInvariant, StartFails
    PROVE  RunInvariant'
  <1>1. Control /\ Numbered(registry) /\ CallHasReservation
    BY InvariantSplit
  <1> DEFINE a == IF Accepts("failed")
                  THEN Mirror(registry, end'.type, end'.maker)
                  ELSE registry
  <1>2. /\ UNCHANGED <<outcome, call, staged, outputFailed>>
        /\ loop = "starting" /\ loop' = "over" /\ waits = FALSE
        /\ registry' = Fail(a)
    BY <1>1 DEF StartFails, OtherVars, Goto, Control, LoopKnows, Early, RestOfTypes
  <1>3. /\ waits' = FALSE
        /\ \/ run = "running" /\ run' = "failed" /\ end' = [type |-> "failed", maker |-> Loop]
           \/ run # "running" /\ run' = run /\ end' = end
    BY <1>2 DEF StartFails, FinishRun, EndInStore, store
  <1>4. run \notin {"completed", "interrupted"} /\ (run # "running" => end # NoEnd)
    BY <1>1, <1>2 DEF Control, LoopKnows, Early
  <1>5. run' # "running" /\ end' # NoEnd /\ run' \in Ends
    BY <1>1, <1>3, <1>4, MakersAreDistinct DEF NoEnd, Control, RestOfTypes, Statuses, Ends
  <1>6. RestOfTypes'
    <2>1. end' \in [type : Ends, maker : Calls \cup {Loop}] \cup {NoEnd}
      BY <1>1, <1>3 DEF Control, RestOfTypes, Ends
    <2>2. run' \in Statuses /\ waits' \in BOOLEAN
      BY <1>3, <1>5 DEF Statuses
    <2> QED
      BY <1>1, <1>2, <2>1, <2>2 DEF Control, RestOfTypes, LoopSteps
  <1>7. end'.type \in Types /\ end'.maker \in Makers
    BY <1>5, <1>6 DEF RestOfTypes, Types, Makers
  <1>8. Grows(registry, a) /\ SameState(registry, a)
    BY <1>1, <1>7, MirrorGrows DEF Grows, SameState
  <1> HIDE DEF a
  <1>9. /\ Grows(a, registry')
        /\ registry'.reservation = a.reservation /\ registry'.signal = a.signal
        /\ IF a.status = "cancelled"
           THEN registry' = a
           ELSE registry'.status = "failed" /\ HasType(registry', "failed")
    BY <1>2, <1>8, FailGrows DEF Grows
  <1>10. Grows(registry, registry')
    BY <1>8, <1>9, GrowsIsTransitive
  <1>11. Numbered(registry)' /\ CallHasReservation'
    BY <1>1, <1>2, <1>8, <1>9, <1>10, CallsKeepReservation DEF SameState
  <1>12. /\ registry' \in Records /\ registry'.signal = registry.signal
         /\ registry.status = "cancelled" => registry'.status = "cancelled"
         /\ registry.status # "cancelled" =>
                registry'.status = "failed" /\ HasType(registry', "failed")
         /\ \A t \in Types : HasType(registry, t) => HasType(registry', t)
    BY <1>8, <1>9, <1>10 DEF SameState, Grows, Numbered
  <1>13. registry.status # "interrupted" /\ registry.status # "completed"
    BY <1>1, <1>2 DEF Control, RegistryFollows, Settled
  <1>14. RegistryFollows' /\ StoreFirst' /\ AnswersAreTrue'
    BY <1>1, <1>2, <1>3, <1>12, <1>13
       DEF Control, RegistryFollows, StoreFirst, AnswersAreTrue, Settled
  <1>15. run # "running" => registry.status # "running"
    BY <1>1, <1>2 DEF Control, StoreFirst, Settled
  <1>16. run = "running" /\ ~ outputFailed => registry.status = "running"
    BY RunningInBoth
  <1>17. AgreeSoFar'
    <2> SUFFICES ASSUME ~ outputFailed
                 PROVE  registry'.status = run' /\ HasType(registry', run') /\ registry'.status # "running"
      BY <1>2 DEF AgreeSoFar
    <2>1. CASE registry.status = "cancelled"
      <3>1. run = "cancelled" /\ run' = run /\ HasType(registry, "cancelled")
        BY <1>1, <1>3, <2>1 DEF Control, AgreeSoFar
      <3> QED
        BY <1>12, <2>1, <3>1 DEF Types, Ends
    <2>2. CASE registry.status # "cancelled"
      <3>1. run' = "failed"
        BY <1>1, <1>3, <1>4, <1>13, <1>15, <2>2 DEF Control, AgreeSoFar, RestOfTypes, Statuses, Ends
      <3> QED
        BY <1>12, <2>2, <3>1
    <2> QED
      BY <2>1, <2>2
  <1>18. LoopKnows'
    BY <1>1, <1>2, <1>3, <1>4, <1>5 DEF LoopKnows, Early, Settled
  <1> QED
    BY <1>6, <1>11, <1>12, <1>14, <1>17, <1>18, InvariantSplitPrimed DEF Control

(* A wait ends the run, which is running in the store.                      *)
LEMMA CompleteForWaitKeeps ==
    ASSUME RunInvariant, CompleteForWait
    PROVE  RunInvariant'
  <1>1. Control /\ Numbered(registry) /\ CallHasReservation
    BY InvariantSplit
  <1> DEFINE a == AppendEvent(registry, "completed", Loop)
             b == AppendEvent(a, "progress", Loop)
  <1>2. /\ UNCHANGED <<call, staged, outcome, outputFailed, waits>>
        /\ loop = "returned" /\ loop' = "finalizing" /\ run = "running"
        /\ run' = "completed" /\ end' = [type |-> "completed", maker |-> Loop]
        /\ registry' = [b EXCEPT !.status = "completed"]
    BY <1>1 DEF CompleteForWait, OtherVars, Goto, EndInStore, Complete, Control, LoopKnows
  <1>3. "completed" \in Types /\ "progress" \in Types /\ Loop \in Makers
        /\ "completed" \in Statuses
    BY DEF Types, Ends, Makers, Statuses
  <1>4. Grows(registry, a) /\ SameState(registry, a) /\ HasType(a, "completed")
    BY <1>1, <1>3, AppendEventGrows
  <1> HIDE DEF a
  <1>5. Grows(a, b) /\ SameState(a, b)
    BY <1>3, <1>4, AppendEventGrows DEF Grows
  <1> HIDE DEF b
  <1>6. /\ Grows(b, registry') /\ registry'.status = "completed"
        /\ registry'.reservation = b.reservation /\ registry'.signal = b.signal
    BY <1>2, <1>3, <1>5, NewStatus DEF Grows
  <1>7. Grows(registry, registry')
    BY <1>4, <1>5, <1>6, GrowsIsTransitive
  <1>8. HasType(registry', "completed")
    BY <1>3, <1>4, <1>5, <1>6 DEF Grows
  <1>9. registry'.reservation = registry.reservation /\ registry'.signal = registry.signal
    BY <1>4, <1>5, <1>6 DEF SameState
  <1>10. Numbered(registry)' /\ CallHasReservation'
    BY <1>1, <1>2, <1>7, <1>9, CallsKeepReservation
  <1>11. registry' \in Records
    BY <1>7 DEF Grows, Numbered
  <1>12. RestOfTypes'
    BY <1>1, <1>2 DEF Control, RestOfTypes, LoopSteps, Statuses, Ends
  <1>13. RegistryFollows' /\ StoreFirst' /\ AnswersAreTrue'
    BY <1>1, <1>2, <1>6 DEF Control, RegistryFollows, StoreFirst, AnswersAreTrue, Settled
  <1>14. AgreeSoFar'
    BY <1>2, <1>6, <1>8 DEF AgreeSoFar
  <1>15. end' # NoEnd
    BY <1>2, MakersAreDistinct DEF NoEnd
  <1>16. LoopKnows'
    BY <1>2, <1>15 DEF LoopKnows, Early, Settled
  <1> QED
    BY <1>10, <1>11, <1>12, <1>13, <1>14, <1>16, InvariantSplitPrimed DEF Control

(* Both ways in which the loop ends a run in the registry leave the rest of *)
(* the state alone.  What matters of the registry then is this.             *)
SettledWell ==
    /\ Grows(registry, registry')
    /\ registry.reservation # None => registry'.reservation = registry.reservation
    /\ registry.signal # None => registry'.signal = registry.signal
    /\ registry'.status \in {"cancelled", "interrupted"} => run' = registry'.status
    /\ registry.status \in {"cancelled", "interrupted"} /\ run = registry.status =>
           registry'.status = registry.status
    /\ registry'.status = "running" =>
           /\ run' = "cancelled" /\ registry'.signal = "cancelled"
           /\ registry.status = "running"
           /\ registry.reservation # None
    /\ ~ outputFailed /\ registry'.status # "running" =>
           registry'.status = run' /\ HasType(registry', run')

LEMMA SettledKeeps ==
    ASSUME RunInvariant, SettledWell,
           UNCHANGED <<call, staged, outputFailed, outcome>>,
           loop' \in {"finalizing", "ending"},
           waits' \in BOOLEAN, run' # "running",
           \/ run' = run /\ end' = end
           \/ /\ run = "running" /\ run' \in Ends
              /\ end' = [type |-> run', maker |-> Loop]
              /\ run' = "interrupted" => registry.signal = "interrupted"
    PROVE  RunInvariant'
  <1>1. Control /\ Numbered(registry) /\ CallHasReservation
    BY InvariantSplit
  <1>2. Numbered(registry)' /\ CallHasReservation'
    BY <1>1, CallsKeepReservation DEF SettledWell
  <1>3. registry' \in Records
    BY DEF SettledWell, Grows, Numbered
  <1>4. RestOfTypes'
    <2>1. run' \in Statuses
      BY <1>1 DEF Control, RestOfTypes, Statuses
    <2>2. end' \in [type : Ends, maker : Calls \cup {Loop}] \cup {NoEnd}
      BY <1>1 DEF Control, RestOfTypes
    <2> QED
      BY <1>1, <2>1, <2>2 DEF Control, RestOfTypes, LoopSteps
  <1>5. RegistryFollows'
    BY DEF SettledWell, RegistryFollows, Settled
  <1>6. StoreFirst'
    BY DEF SettledWell, StoreFirst, Settled
  <1>7. AnswersAreTrue'
    BY <1>1 DEF SettledWell, Control, AnswersAreTrue
  <1>8. LoopKnows'
    <2>1. end' # NoEnd
      BY <1>1, MakersAreDistinct DEF NoEnd, Control, LoopKnows
    <2>2. run' = "interrupted" => registry'.signal = "interrupted"
      BY <1>1, NoneIsNoReason DEF SettledWell, Control, LoopKnows
    <2> QED
      BY <2>1, <2>2 DEF LoopKnows, Early, Settled
  <1>9. AgreeSoFar'
    BY <1>1 DEF SettledWell, Control, AgreeSoFar, CallHasReservation
  <1> QED
    BY <1>2, <1>3, <1>4, <1>5, <1>6, <1>7, <1>8, <1>9, InvariantSplitPrimed DEF Control

LEMMA SettleByRegistryKeeps ==
    ASSUME RunInvariant, SettleByRegistry
    PROVE  RunInvariant'
  <1>1. Control /\ Numbered(registry) /\ CallHasReservation
    BY InvariantSplit
  <1>2. /\ UNCHANGED <<call, staged, outcome, outputFailed>>
        /\ run' = run /\ end' = end /\ waits' = waits
        /\ loop = "returned" /\ loop' = "finalizing" /\ ~ waits
    BY DEF SettleByRegistry, OtherVars, Goto, store
  <1>3. /\ run # "running" /\ end # NoEnd /\ outcome \in {run, "running"}
        /\ outcome = "completed" => HasType(registry, "completed")
    BY <1>1, <1>2 DEF Control, LoopKnows
  <1>4. run \in Ends
    BY <1>1, <1>3 DEF Control, RestOfTypes, Statuses
  <1>5. /\ registry.status \in {"running", "cancelled", "failed"}
        /\ registry.status = "cancelled" => run = "cancelled"
        /\ registry.status = "running" =>
               outcome = run /\ (run = "cancelled" => registry.signal = "cancelled")
        /\ ~ outputFailed /\ registry.status # "running" =>
               registry.status = run /\ HasType(registry, run)
    BY <1>1, <1>2, <1>3 DEF Control, Records, Statuses, Ends, RegistryFollows, StoreFirst,
       AgreeSoFar, Settled
  <1>6. SettledWell
    <2>1. CASE outcome = "completed"
      <3>1. run = "completed" /\ registry' = Complete(registry)
        BY <1>3, <2>1 DEF SettleByRegistry
      <3>2. /\ Grows(registry, registry') /\ registry'.status = "completed"
            /\ registry'.reservation = registry.reservation
            /\ registry'.signal = registry.signal
        BY <1>1, <3>1, NewStatus DEF Complete, Statuses, Ends
      <3>3. HasType(registry', "completed")
        BY <1>3, <2>1, <3>2 DEF Grows, Types, Ends
      <3> QED
        BY <1>2, <1>5, <3>1, <3>2, <3>3 DEF SettledWell
    <2>2. CASE outcome = "interrupted"
      <3> DEFINE a == Mirror(registry, end.type, end.maker)
      <3>1. run = "interrupted" /\ registry' = Interrupt(a)
        BY <1>3, <2>2 DEF SettleByRegistry
      <3>2. end.type \in Types /\ end.maker \in Makers
        BY <1>1, <1>3 DEF Control, RestOfTypes, Types, Makers
      <3>3. Grows(registry, a) /\ SameState(registry, a)
        BY <1>1, <3>2, MirrorGrows
      <3> HIDE DEF a
      <3>4. /\ Grows(a, registry')
            /\ registry'.reservation = a.reservation /\ registry'.signal = a.signal
            /\ IF a.status = "running"
               THEN registry'.status = "interrupted" /\ HasType(registry', "interrupted")
               ELSE registry' = a
        BY <3>1, <3>3, InterruptGrows DEF Grows
      <3>5. Grows(registry, registry')
        BY <3>3, <3>4, GrowsIsTransitive
      <3>6. HasType(registry, run) => HasType(registry', run)
        BY <1>4, <3>5 DEF Grows, Types
      <3> QED
        BY <1>2, <1>5, <3>1, <3>3, <3>4, <3>5, <3>6 DEF SettledWell, SameState
    <2>3. CASE outcome = "cancelled"
      <3>1. run = "cancelled" /\ registry' = Cancel(registry)
        BY <1>3, <2>3 DEF SettleByRegistry
      <3>2. /\ Grows(registry, registry')
            /\ registry.signal # None => registry'.signal = registry.signal
            /\ IF CanStage(registry)
               THEN /\ registry'.status = "cancelled" /\ registry'.reservation = None
                    /\ HasType(registry', "cancelled")
               ELSE registry' = registry
        BY <1>1, <3>1, CancelGrows
      <3> QED
        BY <1>2, <1>5, <3>1, <3>2 DEF SettledWell, CanStage
    <2>4. CASE outcome \notin {"completed", "interrupted", "cancelled"}
      <3>1. registry' = Fail(registry)
        BY <2>4 DEF SettleByRegistry
      <3>2. /\ Grows(registry, registry')
            /\ registry'.reservation = registry.reservation
            /\ registry'.signal = registry.signal
            /\ IF registry.status = "cancelled"
               THEN registry' = registry
               ELSE registry'.status = "failed" /\ HasType(registry', "failed")
        BY <1>1, <3>1, FailGrows
      <3>3. ~ outputFailed /\ registry.status # "cancelled" => run = "failed"
        BY <1>3, <1>4, <1>5, <2>4 DEF Ends
      <3> QED
        BY <1>2, <1>3, <1>5, <3>2, <3>3 DEF SettledWell
    <2> QED
      BY <2>1, <2>2, <2>3, <2>4
  <1>7. waits' \in BOOLEAN
    BY <1>1, <1>2 DEF Control, RestOfTypes
  <1> QED
    BY <1>2, <1>3, <1>6, <1>7, SettledKeeps

LEMMA EndWhatIsLeftKeeps ==
    ASSUME RunInvariant, EndWhatIsLeft
    PROVE  RunInvariant'
  <1>1. Control /\ Numbered(registry) /\ CallHasReservation
    BY InvariantSplit
  <1> DEFINE a == Mirror(registry, end'.type, end'.maker)
  <1>2. /\ UNCHANGED <<call, staged, outcome, outputFailed>>
        /\ loop = "caught" /\ loop' = "ending"
    BY DEF EndWhatIsLeft, OtherVars, Goto
  <1>3. registry.signal \in {"cancelled", "interrupted", None} /\ None \notin {"cancelled", "interrupted"}
    BY <1>1, NoneIsNoReason DEF Control, Records, Reasons
  <1> DEFINE reason == IF registry.signal = None THEN "failed" ELSE registry.signal
  <1>4. /\ waits' \in BOOLEAN
        /\ \/ run # "running" /\ run' = run /\ end' = end
           \/ run = "running" /\ run' = reason /\ end' = [type |-> reason, maker |-> Loop]
    <2> waits \in BOOLEAN
      BY <1>1 DEF Control, RestOfTypes
    <2>1. CASE registry.signal = "interrupted"
      BY <1>3, <2>1 DEF EndWhatIsLeft, InterruptInStore, EndInStore, store
    <2>2. CASE registry.signal = "cancelled"
      BY <1>3, <2>2 DEF EndWhatIsLeft, FinishRun, EndInStore, store
    <2>3. CASE registry.signal = None
      BY <1>3, <2>3 DEF EndWhatIsLeft, FinishRun, EndInStore, store
    <2> QED
      BY <1>3, <2>1, <2>2, <2>3
  <1>5. reason \in Ends /\ (reason = "interrupted" => registry.signal = "interrupted")
    BY <1>3 DEF Ends
  <1>6. run' \in Ends /\ run' # "running"
    BY <1>1, <1>4, <1>5 DEF Control, RestOfTypes, Statuses, Ends
  <1>7. end'.type \in Types /\ end'.maker \in Makers
    <2>1. run # "running" => end \in [type : Ends, maker : Calls \cup {Loop}]
      BY <1>1 DEF Control, RestOfTypes, LoopKnows
    <2> QED
      BY <1>4, <1>5, <2>1 DEF Types, Makers
  <1> HIDE DEF reason
  <1>8. Grows(registry, a) /\ SameState(registry, a)
    BY <1>1, <1>7, MirrorGrows
  <1>9. /\ registry.status = "cancelled" => run = "cancelled"
        /\ registry.status = "interrupted" => run = "interrupted" /\ registry.signal = "interrupted"
        /\ registry.status = "completed" => outputFailed
        /\ registry.status = "running" /\ run # "running" =>
               /\ run = "cancelled" /\ registry.signal = "cancelled"
               /\ registry.reservation # None
        /\ ~ outputFailed /\ registry.status # "running" =>
               registry.status = run /\ HasType(registry, run) /\ run # "running"
    BY <1>1, <1>2 DEF Control, RegistryFollows, StoreFirst, LoopKnows, AgreeSoFar, Settled
  <1>10. \A s : Grows(a, s) => Grows(registry, s)
    BY <1>8, GrowsIsTransitive
  <1>11. \A s : run # "running" /\ Grows(registry, s) /\ HasType(registry, run) => HasType(s, run)
    BY <1>1 DEF Grows, Control, RestOfTypes, Statuses, Types
  <1>12. SettledWell
    <2>1. CASE registry.signal = "interrupted"
      <3>1. registry' = Interrupt(a)
        BY <1>3, <2>1 DEF EndWhatIsLeft
      <3> HIDE DEF a
      <3>2. /\ Grows(a, registry')
            /\ registry'.reservation = a.reservation /\ registry'.signal = a.signal
            /\ IF a.status = "running"
               THEN registry'.status = "interrupted" /\ HasType(registry', "interrupted")
               ELSE registry' = a
        BY <1>8, <3>1, InterruptGrows DEF Grows
      <3>3. registry.status = "running" => run' = "interrupted"
        BY <1>4, <1>9, <2>1, <1>3 DEF reason
      <3>4. registry.status # "running" /\ ~ outputFailed => run' = run
        BY <1>4, <1>9
      <3>5. Grows(registry, registry')
        BY <1>10, <3>2
      <3> QED
        BY <1>4, <1>8, <1>9, <1>11, <3>2, <3>3, <3>4, <3>5 DEF SettledWell, SameState
    <2>2. CASE registry.signal = "cancelled"
      <3>1. registry' = Cancel(a)
        BY <1>3, <2>2 DEF EndWhatIsLeft
      <3> HIDE DEF a
      <3>2. /\ Grows(a, registry')
            /\ a.signal # None => registry'.signal = a.signal
            /\ IF CanStage(a)
               THEN /\ registry'.status = "cancelled" /\ registry'.reservation = None
                    /\ HasType(registry', "cancelled")
               ELSE registry' = a
        BY <1>8, <3>1, CancelGrows DEF Grows
      <3>3. registry.status = "running" => run' = "cancelled"
        BY <1>4, <1>9, <2>2, <1>3 DEF reason
      <3>4. registry.status # "running" /\ ~ outputFailed => run' = run
        BY <1>4, <1>9
      <3>5. Grows(registry, registry')
        BY <1>10, <3>2
      <3> QED
        BY <1>3, <1>4, <1>8, <1>9, <1>11, <2>2, <3>2, <3>3, <3>4, <3>5
           DEF SettledWell, SameState, CanStage
    <2>3. CASE registry.signal = None
      <3>1. registry' = Fail(a)
        BY <1>3, <2>3 DEF EndWhatIsLeft
      <3> HIDE DEF a
      <3>2. /\ Grows(a, registry')
            /\ registry'.reservation = a.reservation /\ registry'.signal = a.signal
            /\ IF a.status = "cancelled"
               THEN registry' = a
               ELSE registry'.status = "failed" /\ HasType(registry', "failed")
        BY <1>8, <3>1, FailGrows DEF Grows
      <3>3. registry.status = "running" => run' = "failed"
        BY <1>4, <1>9, <2>3, <1>3 DEF reason
      <3>4. registry.status # "running" /\ ~ outputFailed => run' = run
        BY <1>4, <1>9
      <3>5. Grows(registry, registry')
        BY <1>10, <3>2
      <3>6. ~ outputFailed /\ registry.status # "cancelled" => run' = "failed"
        BY <1>1, <1>9, <2>3, <1>3, <3>3, <3>4 DEF Control, Records, Statuses, Ends
      <3>7. registry.status # "interrupted"
        BY <1>3, <1>9, <2>3
      <3> QED
        BY <1>4, <1>8, <1>9, <1>11, <3>2, <3>3, <3>4, <3>5, <3>6, <3>7
           DEF SettledWell, SameState
    <2> QED
      BY <1>3, <2>1, <2>2, <2>3
  <1> QED
    BY <1>2, <1>4, <1>5, <1>6, <1>12, SettledKeeps

(* A call that moves on, without one that begins to persist.                *)
LEMMA CallMoves ==
    ASSUME Control, NEW c \in Calls, NEW step \in CallSteps, CallGoto(c, step)
    PROVE  /\ call' \in [Calls -> CallSteps]
           /\ call'[c] = step
           /\ \A d \in Calls : d # c => call'[d] = call[d]
  BY DEF Control, RestOfTypes, CallGoto

LEMMA AnswerKeeps ==
    ASSUME RunInvariant, NEW c \in Calls, Answer(c)
    PROVE  RunInvariant'
  <1>1. Control /\ Numbered(registry) /\ CallHasReservation
    BY InvariantSplit
  <1>2. /\ registry' = registry /\ staged' = staged /\ outputFailed' = outputFailed
        /\ run' = run /\ waits' = waits /\ end' = end
        /\ loop' = loop /\ outcome' = outcome
        /\ call[c] # "persisting"
    BY DEF Answer, LoopVars, store
  <1>3. PICK step \in {"cancelled", "interrupted", "refused"} :
            /\ CallGoto(c, step)
            /\ step # "refused" => registry.status = step
    BY DEF Answer
  <1>4. step \in CallSteps
    BY DEF CallSteps, Answers
  <1>5. /\ call' \in [Calls -> CallSteps] /\ call'[c] = step
        /\ \A d \in Calls : d # c => call'[d] = call[d]
    BY <1>1, <1>3, <1>4, CallMoves
  <1>6. Numbered(registry)' /\ CallHasReservation'
    BY <1>1, <1>2, <1>3, <1>5 DEF CallHasReservation
  <1>7. RestOfTypes' /\ registry' \in Records /\ RegistryFollows' /\ StoreFirst' /\ LoopKnows'
    BY <1>1, <1>2, <1>5 DEF Control, RestOfTypes, RegistryFollows, StoreFirst, LoopKnows
  <1>8. AgreeSoFar'
    BY <1>1, <1>2, <1>5 DEF Control, AgreeSoFar
  <1>9. AnswersAreTrue'
    BY <1>1, <1>2, <1>3, <1>5 DEF Control, AnswersAreTrue, RegistryFollows
  <1> QED
    BY <1>6, <1>7, <1>8, <1>9, InvariantSplitPrimed DEF Control

(* Where a call goes that waits for the loop, or need not.                  *)
LEMMA CallWaits ==
    ASSUME Control, NEW c \in Calls, AwaitLoop(c)
    PROVE  /\ call' \in [Calls -> CallSteps]
           /\ call'[c] \in {"waiting", "answering"}
           /\ \A d \in Calls : d # c => call'[d] = call[d]
  BY CallMoves DEF AwaitLoop, CallSteps

LEMMA InterruptRunKeeps ==
    ASSUME RunInvariant, NEW c \in Calls, InterruptRun(c)
    PROVE  RunInvariant'
  <1>1. Control /\ Numbered(registry) /\ CallHasReservation
    BY InvariantSplit
  <1>2. /\ staged' = staged /\ outputFailed' = outputFailed
        /\ run' = run /\ waits' = waits /\ end' = end
        /\ loop' = loop /\ outcome' = outcome
        /\ call[c] = "idle" /\ AwaitLoop(c) /\ registry' = RequestAbort(registry)
    BY DEF InterruptRun, LoopVars, store
  <1>3. /\ call' \in [Calls -> CallSteps] /\ call'[c] \in {"waiting", "answering"}
        /\ \A d \in Calls : d # c => call'[d] = call[d]
    BY <1>1, <1>2, CallWaits
  <1>4. /\ Grows(registry, registry') /\ registry'.status = registry.status
        /\ registry'.reservation = registry.reservation
        /\ registry.signal # None => registry'.signal = registry.signal
    <2>1. CASE registry.status = "running"
      BY <1>1, <1>2, <2>1, AbortGrows DEF RequestAbort
    <2>2. CASE registry.status # "running"
      BY <1>1, <1>2, <2>2 DEF RequestAbort, Grows
    <2> QED
      BY <2>1, <2>2
  <1>5. \A d \in Calls : call'[d] = "persisting" <=> call[d] = "persisting"
    BY <1>2, <1>3
  <1>6. /\ registry' \in Records /\ Numbered(registry')
        /\ \A t \in Types : HasType(registry, t) => HasType(registry', t)
        /\ \A n \in Nat : Free(registry, n) => Free(registry', n)
    BY <1>4 DEF Grows, Numbered
  <1>7. CallHasReservation'
    <2> SUFFICES ASSUME NEW d \in Calls, call'[d] = "persisting"
                 PROVE  /\ registry'.reservation = d
                        /\ registry'.signal # None
                        /\ staged[d] \in Events
                        /\ staged[d].type = "cancelled" /\ staged[d].maker = d
                        /\ Free(registry', staged[d].n)
      BY <1>2 DEF CallHasReservation
    <2>1. /\ registry.reservation = d /\ registry.signal # None
          /\ staged[d] \in Events
          /\ staged[d].type = "cancelled" /\ staged[d].maker = d
          /\ Free(registry, staged[d].n)
      BY <1>1, <1>5 DEF CallHasReservation
    <2>2. staged[d].n \in Nat
      BY <2>1 DEF Events
    <2> QED
      BY <1>4, <1>6, <2>1, <2>2
  <1>8. RestOfTypes'
    BY <1>1, <1>2, <1>3 DEF Control, RestOfTypes
  <1>9. RegistryFollows' /\ StoreFirst'
    BY <1>1, <1>2, <1>4, NoneIsNoReason DEF Control, RegistryFollows, StoreFirst
  <1>10. LoopKnows'
    BY <1>1, <1>2, <1>4, <1>6, NoneIsNoReason DEF Control, LoopKnows, Types, Ends
  <1>11. AgreeSoFar'
    BY <1>1, <1>2, <1>4, <1>5, <1>6 DEF Control, AgreeSoFar, RestOfTypes, Statuses, Types
  <1>12. AnswersAreTrue'
    BY <1>1, <1>2, <1>3, <1>4 DEF Control, AnswersAreTrue
  <1> QED
    BY <1>6, <1>7, <1>8, <1>9, <1>10, <1>11, <1>12, InvariantSplitPrimed DEF Control

LEMMA CancelRunKeeps ==
    ASSUME RunInvariant, NEW c \in Calls, CancelRun(c)
    PROVE  RunInvariant'
  <1>1. Control /\ Numbered(registry) /\ CallHasReservation
    BY InvariantSplit
  <1>2. /\ outputFailed' = outputFailed
        /\ run' = run /\ waits' = waits /\ end' = end
        /\ loop' = loop /\ outcome' = outcome /\ call[c] = "idle"
    BY DEF CancelRun, LoopVars, store
  <1>3. CASE ~ CanStage(registry)
    <2>1. AwaitLoop(c) /\ registry' = registry /\ staged' = staged
      BY <1>3 DEF CancelRun
    <2>2. /\ call' \in [Calls -> CallSteps] /\ call'[c] \in {"waiting", "answering"}
          /\ \A d \in Calls : d # c => call'[d] = call[d]
      BY <1>1, <2>1, CallWaits
    <2>3. \A d \in Calls : call'[d] = "persisting" <=> call[d] = "persisting"
      BY <1>2, <2>2
    <2>4. Numbered(registry)' /\ CallHasReservation'
      BY <1>1, <2>1, <2>3 DEF CallHasReservation
    <2>5. RestOfTypes' /\ registry' \in Records /\ RegistryFollows' /\ StoreFirst' /\ LoopKnows'
      BY <1>1, <1>2, <2>1, <2>2 DEF Control, RestOfTypes, RegistryFollows, StoreFirst, LoopKnows
    <2>6. AgreeSoFar'
      BY <1>1, <1>2, <2>1, <2>3 DEF Control, AgreeSoFar
    <2>7. AnswersAreTrue'
      BY <1>1, <1>2, <2>1, <2>2 DEF Control, AnswersAreTrue
    <2> QED
      BY <2>4, <2>5, <2>6, <2>7, InvariantSplitPrimed DEF Control
  <1>4. CASE CanStage(registry)
    <2> DEFINE e == StagedEvent(registry, "cancelled", c)
    <2>1. /\ registry' = StageTerminal(registry, "cancelled", c)
          /\ staged' = [staged EXCEPT ![c] = e]
          /\ CallGoto(c, "persisting")
      BY <1>4 DEF CancelRun
    <2>2. "cancelled" \in Ends /\ c \in Makers /\ "persisting" \in CallSteps
      BY DEF Ends, Makers, CallSteps
    <2>3. /\ Grows(registry, registry') /\ Free(registry', e.n)
          /\ e \in Events /\ e.type = "cancelled" /\ e.maker = c
          /\ registry'.status = registry.status /\ registry'.reservation = c
          /\ registry'.signal = IF registry.signal = None THEN "cancelled" ELSE registry.signal
      BY <1>1, <2>1, <2>2, StageTerminalGrows
    <2> HIDE DEF e
    <2>4. /\ call' \in [Calls -> CallSteps] /\ call'[c] = "persisting"
          /\ \A d \in Calls : d # c => call'[d] = call[d]
      BY <1>1, <2>1, <2>2, CallMoves
    <2>5. /\ registry.status = "running" /\ registry.reservation = None
          /\ registry'.signal # None
      BY <1>4, <2>3, NoneIsNoReason DEF CanStage
    <2>6. \A d \in Calls : call[d] # "persisting"
      BY <1>1, <2>5, MakersAreDistinct DEF CallHasReservation
    <2>7. /\ staged' \in [Calls -> Events \cup {None}] /\ staged'[c] = e
      BY <1>1, <2>1, <2>3 DEF Control, RestOfTypes
    <2>8. /\ registry' \in Records /\ Numbered(registry')
          /\ \A t \in Types : HasType(registry, t) => HasType(registry', t)
      BY <2>3 DEF Grows, Numbered
    <2>9. CallHasReservation'
      BY <2>3, <2>4, <2>5, <2>6, <2>7 DEF CallHasReservation
    <2>10. RestOfTypes'
      BY <1>1, <1>2, <2>4, <2>7 DEF Control, RestOfTypes
    <2>11. RegistryFollows' /\ StoreFirst'
      BY <1>1, <1>2, <2>3, <2>5, NoneIsNoReason DEF Control, RegistryFollows, StoreFirst
    <2>12. LoopKnows'
      BY <1>1, <1>2, <2>3, <2>8, NoneIsNoReason DEF Control, LoopKnows, Types, Ends
    <2>13. AgreeSoFar'
      BY <2>3, <2>4, <2>5 DEF AgreeSoFar
    <2>14. AnswersAreTrue'
      BY <1>1, <1>2, <2>3, <2>4 DEF Control, AnswersAreTrue
    <2> QED
      BY <2>8, <2>9, <2>10, <2>11, <2>12, <2>13, <2>14, InvariantSplitPrimed DEF Control
  <1> QED
    BY <1>3, <1>4

(* Only one call at a time has the reservation, so that when it is done     *)
(* with it there is no call left that has a number for its event.           *)
LEMMA NoOtherPersists ==
    ASSUME CallHasReservation, NEW c \in Calls, call[c] = "persisting",
           call'[c] # "persisting", \A d \in Calls : d # c => call'[d] = call[d]
    PROVE  registry.reservation = c /\ CallHasReservation'
  <1>1. registry.reservation = c
    BY DEF CallHasReservation
  <1>2. \A d \in Calls : call'[d] # "persisting"
    BY <1>1 DEF CallHasReservation
  <1> QED
    BY <1>1, <1>2 DEF CallHasReservation

LEMMA PersistTerminalKeeps ==
    ASSUME RunInvariant, NEW c \in Calls, PersistTerminal(c)
    PROVE  RunInvariant'
  <1>1. Control /\ Numbered(registry) /\ CallHasReservation
    BY InvariantSplit
  <1>2. /\ outputFailed' = outputFailed /\ staged' = staged
        /\ loop' = loop /\ outcome' = outcome
        /\ call[c] = "persisting" /\ CallGoto(c, "answering")
        /\ run \in {"running", "cancelled"}
        /\ registry' = CommitTerminal(registry, staged[c])
    BY DEF PersistTerminal, LoopVars, Accepts
  <1>3. /\ call' \in [Calls -> CallSteps] /\ call'[c] = "answering"
        /\ \A d \in Calls : d # c => call'[d] = call[d]
    BY <1>1, <1>2, CallMoves DEF CallSteps
  <1>4. registry.reservation = c /\ CallHasReservation'
    BY <1>1, <1>2, <1>3, NoOtherPersists
  <1>5. /\ staged[c] \in Events /\ staged[c].type = "cancelled" /\ staged[c].maker = c
        /\ Free(registry, staged[c].n)
    BY <1>1, <1>2 DEF CallHasReservation
  <1>6. /\ Numbered(registry') /\ registry'.signal = registry.signal
        /\ IF registry.status = "running"
           THEN registry'.status = "cancelled" /\ HasType(registry', "cancelled")
           ELSE registry' = registry
    BY <1>1, <1>2, <1>4, <1>5, CommitTerminalGrows DEF Ends
  <1>7. registry' \in Records
    BY <1>6 DEF Numbered
  <1>8. /\ run' = "cancelled" /\ waits' \in {waits, FALSE}
        /\ run = "cancelled" => waits' = waits
        /\ \/ run = "running" /\ waits' = FALSE /\ end' = [type |-> "cancelled", maker |-> c]
           \/ run = "cancelled" /\ end' = end
    <2>1. CASE run = "running"
      BY <2>1 DEF PersistTerminal, FinishRun, EndInStore
    <2>2. CASE run # "running"
      BY <1>2, <2>2 DEF PersistTerminal, FinishRun, store
    <2> QED
      BY <2>1, <2>2
  <1>9. /\ end' \in [type : Ends, maker : Calls \cup {Loop}] \cup {NoEnd}
        /\ end' # NoEnd
    BY <1>1, <1>8, MakersAreDistinct DEF Control, RestOfTypes, LoopKnows, NoEnd, Ends
  <1>10. RestOfTypes'
    BY <1>1, <1>2, <1>3, <1>8, <1>9 DEF Control, RestOfTypes, Statuses, Ends
  <1>11. registry'.status # "running"
    BY <1>6
  <1>12. RegistryFollows' /\ StoreFirst'
    BY <1>1, <1>2, <1>6, <1>8, <1>11 DEF Control, RegistryFollows, StoreFirst
  <1>13. LoopKnows'
    BY <1>1, <1>2, <1>8, <1>9 DEF Control, LoopKnows
  <1>14. AgreeSoFar'
    BY <1>1, <1>2, <1>6, <1>8, <1>11 DEF Control, AgreeSoFar
  <1>15. AnswersAreTrue'
    BY <1>1, <1>2, <1>3, <1>6, <1>8 DEF Control, AnswersAreTrue
  <1> QED
    BY <1>4, <1>6, <1>7, <1>10, <1>12, <1>13, <1>14, <1>15, InvariantSplitPrimed DEF Control

(* The reservation is taken again for the event run.failed, and kept when   *)
(* the store has ended the run in another way.                              *)
LEMMA PersistFailsKeeps ==
    ASSUME RunInvariant, NEW c \in Calls, PersistFails(c)
    PROVE  RunInvariant'
  <1> DEFINE released == AbortTerminal(registry, c)
             failure == StageTerminal(released, "failed", c)
             e == StagedEvent(released, "failed", c)
  <1>1. Control /\ Numbered(registry) /\ CallHasReservation
    BY InvariantSplit
  <1>2. /\ staged' = staged /\ loop' = loop /\ outcome' = outcome
        /\ call[c] = "persisting"
        /\ outputFailed' \in {outputFailed \/ Accepts("cancelled"), TRUE}
    BY DEF PersistFails, LoopVars
  <1>3. /\ outputFailed' \in BOOLEAN
        /\ ~ outputFailed' => ~ outputFailed /\ run # "cancelled"
    BY <1>1, <1>2 DEF Accepts, Control, RestOfTypes
  <1>4. \/ /\ ~ CanStage(released) /\ UNCHANGED store
           /\ registry' = released /\ CallGoto(c, "answering")
        \/ /\ CanStage(released) /\ Accepts("failed") /\ FinishRun("failed", c)
           /\ registry' = CommitTerminal(failure, e) /\ CallGoto(c, "answering")
        \/ /\ CanStage(released) /\ ~ Accepts("failed") /\ UNCHANGED store
           /\ registry' = failure /\ CallGoto(c, "refused")
    BY DEF PersistFails
  <1>5. PICK step \in {"answering", "refused"} : CallGoto(c, step)
    BY <1>4
  <1>6. step \in CallSteps
    BY DEF CallSteps, Answers
  <1>7. /\ call' \in [Calls -> CallSteps] /\ call'[c] \in {"answering", "refused"}
        /\ \A d \in Calls : d # c => call'[d] = call[d]
    BY <1>1, <1>5, <1>6, CallMoves
  <1>8. registry.reservation = c /\ CallHasReservation'
    BY <1>1, <1>2, <1>7, NoOtherPersists
  <1>9. /\ Grows(registry, released) /\ Numbered(released)
        /\ released.status = registry.status /\ released.signal = registry.signal
        /\ released.reservation = None
    BY <1>1, <1>8, AbortTerminalGrows DEF Grows
  <1>10. CanStage(released) <=> registry.status = "running"
    BY <1>9 DEF CanStage
  <1>11. "failed" \in Ends /\ c \in Makers /\ "failed" \in Types
    BY DEF Ends, Makers, Types
  <1> HIDE DEF released
  <1>12. /\ Grows(released, failure) /\ Numbered(failure) /\ Free(failure, e.n)
         /\ e \in Events /\ e.type = "failed" /\ e.maker = c
         /\ failure.status = released.status /\ failure.reservation = c
         /\ failure.signal = released.signal
    BY <1>9, <1>11, StageTerminalGrows DEF Grows
  <1> HIDE DEF failure, e
  <1>13. CASE registry.status # "running"
    <2>1. UNCHANGED store /\ registry' = released
      BY <1>4, <1>10, <1>13
    <2>2. run' = run /\ waits' = waits /\ end' = end
      BY <2>1 DEF store
    <2>3. Numbered(registry)' /\ registry' \in Records
      BY <1>9, <2>1 DEF Numbered
    <2>4. \A t \in Types : HasType(registry, t) => HasType(registry', t)
      BY <1>9, <2>1 DEF Grows
    <2>5. RestOfTypes'
      BY <1>1, <1>2, <1>3, <1>7, <2>2 DEF Control, RestOfTypes
    <2>6. RegistryFollows' /\ StoreFirst'
      BY <1>1, <1>2, <1>3, <1>9, <1>13, <2>1, <2>2
         DEF Control, RegistryFollows, StoreFirst, RestOfTypes
    <2>7. LoopKnows'
      BY <1>1, <1>2, <1>9, <2>1, <2>2, <2>4 DEF Control, LoopKnows, Types, Ends
    <2>8. AgreeSoFar'
      BY <1>1, <1>3, <1>9, <1>13, <2>1, <2>2, <2>4
         DEF Control, AgreeSoFar, RestOfTypes, Statuses, Types
    <2>9. AnswersAreTrue'
      BY <1>1, <1>7, <1>9, <2>1, <2>2 DEF Control, AnswersAreTrue
    <2> QED
      BY <1>8, <2>3, <2>5, <2>6, <2>7, <2>8, <2>9, InvariantSplitPrimed DEF Control
  <1>14. CASE registry.status = "running" /\ Accepts("failed")
    <2>1. FinishRun("failed", c) /\ registry' = CommitTerminal(failure, e)
      BY <1>4, <1>10, <1>14
    <2>2. run \in {"running", "failed"}
      BY <1>14 DEF Accepts
    <2>3. /\ Numbered(registry') /\ registry'.signal = failure.signal
          /\ registry'.status = "failed" /\ registry'.reservation = None
          /\ HasType(registry', "failed")
      BY <1>9, <1>11, <1>12, <1>14, <2>1, CommitTerminalGrows
    <2>4. Numbered(registry)' /\ registry' \in Records
      BY <2>3 DEF Numbered
    <2>5. /\ run' = "failed" /\ waits' \in {waits, FALSE}
          /\ run = "failed" => waits' = waits
          /\ \/ run = "running" /\ waits' = FALSE /\ end' = [type |-> "failed", maker |-> c]
             \/ run = "failed" /\ end' = end
      <3>1. CASE run = "running"
        BY <2>1, <3>1 DEF FinishRun, EndInStore
      <3>2. CASE run # "running"
        BY <2>1, <2>2, <3>2 DEF FinishRun, store
      <3> QED
        BY <3>1, <3>2
    <2>6. /\ end' \in [type : Ends, maker : Calls \cup {Loop}] \cup {NoEnd}
          /\ end' # NoEnd
      BY <1>1, <2>5, MakersAreDistinct DEF Control, RestOfTypes, LoopKnows, NoEnd, Ends
    <2>7. RestOfTypes'
      BY <1>1, <1>2, <1>3, <1>7, <2>5, <2>6 DEF Control, RestOfTypes, Statuses, Ends
    <2>8. RegistryFollows' /\ StoreFirst'
      BY <2>3 DEF RegistryFollows, StoreFirst
    <2>9. LoopKnows'
      BY <1>1, <1>2, <2>2, <2>5, <2>6 DEF Control, LoopKnows
    <2>10. AgreeSoFar'
      BY <2>3, <2>5 DEF AgreeSoFar
    <2>11. AnswersAreTrue'
      BY <1>1, <1>7, <1>14 DEF Control, AnswersAreTrue
    <2> QED
      BY <1>8, <2>4, <2>7, <2>8, <2>9, <2>10, <2>11, InvariantSplitPrimed DEF Control
  <1>15. CASE registry.status = "running" /\ ~ Accepts("failed")
    <2>1. UNCHANGED store /\ registry' = failure
      BY <1>4, <1>10, <1>15
    <2>2. run' = run /\ waits' = waits /\ end' = end /\ run \notin {"running", "failed"}
      BY <1>15, <2>1 DEF store, Accepts
    <2>3. Numbered(registry)' /\ registry' \in Records
      BY <1>12, <2>1 DEF Numbered
    <2>4. \A t \in Types : HasType(registry, t) => HasType(registry', t)
      BY <1>9, <1>12, <2>1 DEF Grows
    <2>5. /\ registry'.status = "running" /\ registry'.reservation # None
          /\ registry'.signal = registry.signal
      BY <1>9, <1>12, <1>15, <2>1, MakersAreDistinct
    <2>6. RestOfTypes'
      BY <1>1, <1>2, <1>3, <1>7, <2>2 DEF Control, RestOfTypes
    <2>7. RegistryFollows' /\ StoreFirst'
      BY <1>1, <1>2, <1>15, <2>2, <2>5 DEF Control, RegistryFollows, StoreFirst
    <2>8. LoopKnows'
      BY <1>1, <1>2, <2>2, <2>4, <2>5 DEF Control, LoopKnows, Types, Ends
    <2>9. AgreeSoFar'
      BY <1>1, <1>3, <2>2, <2>5 DEF Control, AgreeSoFar, RestOfTypes, Statuses, Ends
    <2>10. AnswersAreTrue'
      BY <1>1, <1>7, <1>15 DEF Control, AnswersAreTrue
    <2> QED
      BY <1>8, <2>3, <2>6, <2>7, <2>8, <2>9, <2>10, InvariantSplitPrimed DEF Control
  <1> QED
    BY <1>13, <1>14, <1>15

-----------------------------------------------------------------------------
(* The theorems.                                                            *)

LEMMA Starts ==
    Init => RunInvariant
  <1> SUFFICES ASSUME Init PROVE RunInvariant
    OBVIOUS
  <1>1. /\ registry = NewRecord /\ run = "running" /\ waits = FALSE /\ end = NoEnd
        /\ loop = "starting" /\ outcome = "running" /\ outputFailed = FALSE
        /\ call = [c \in Calls |-> "idle"] /\ staged = [c \in Calls |-> None]
    BY DEF Init
  <1>2. /\ NewRecord \in Records
        /\ NewRecord.status = "running" /\ NewRecord.reservation = None
        /\ NewRecord.events = <<>>
    BY DEF NewRecord, Records, Statuses, Reasons
  <1>3. Numbered(registry)
    <2>1. \A i \in DOMAIN registry.events : FALSE
      BY <1>1, <1>2
    <2> QED
      BY <1>1, <1>2, <2>1 DEF Numbered
  <1>4. RestOfTypes
    BY <1>1 DEF RestOfTypes, Statuses, LoopSteps, CallSteps
  <1>5. CallHasReservation /\ AnswersAreTrue
    BY <1>1 DEF CallHasReservation, AnswersAreTrue
  <1>6. RegistryFollows /\ StoreFirst /\ AgreeSoFar
    BY <1>1, <1>2 DEF RegistryFollows, StoreFirst, AgreeSoFar
  <1>7. LoopKnows
    BY <1>1 DEF LoopKnows, Early, Settled
  <1> QED
    BY <1>1, <1>2, <1>3, <1>4, <1>5, <1>6, <1>7, InvariantSplit DEF Control

LEMMA LoopKeeps ==
    ASSUME RunInvariant, LoopStep
    PROVE  RunInvariant'
  <1>1. CASE StartRun \/ ThrowIfAborted \/ ReturnAtCursor \/ FailStageRefused
                \/ StageCommitFails \/ Finalize \/ FinalizeFails \/ FinalizeEnd
    BY <1>1, LoopMovesKeeps
  <1>2. CASE StartStage \/ DriverEvent \/ AdvanceStage
    BY <1>2, ProgressKeeps
  <1>3. CASE Deliver \/ FailStage
    BY <1>3, StageEndsRunKeeps
  <1>4. CASE StageThrows
    BY <1>4, StageThrowsKeeps
  <1>5. CASE StartFails
    BY <1>5, StartFailsKeeps
  <1>6. CASE CompleteForWait
    BY <1>6, CompleteForWaitKeeps
  <1>7. CASE SettleByRegistry
    BY <1>7, SettleByRegistryKeeps
  <1>8. CASE EndWhatIsLeft
    BY <1>8, EndWhatIsLeftKeeps
  <1> QED
    BY <1>1, <1>2, <1>3, <1>4, <1>5, <1>6, <1>7, <1>8 DEF LoopStep, LoopGoesOn, StageEnds

LEMMA CallKeeps ==
    ASSUME RunInvariant, NEW c \in Calls, CallStep(c)
    PROVE  RunInvariant'
  <1>1. CASE CancelRun(c)
    BY <1>1, CancelRunKeeps
  <1>2. CASE InterruptRun(c)
    BY <1>2, InterruptRunKeeps
  <1>3. CASE PersistTerminal(c)
    BY <1>3, PersistTerminalKeeps
  <1>4. CASE PersistFails(c)
    BY <1>4, PersistFailsKeeps
  <1>5. CASE Answer(c)
    BY <1>5, AnswerKeeps
  <1> QED
    BY <1>1, <1>2, <1>3, <1>4, <1>5 DEF CallStep, CallGoesOn

LEMMA StutterKeeps ==
    ASSUME RunInvariant, UNCHANGED vars
    PROVE  RunInvariant'
  <1>1. Control /\ Numbered(registry) /\ CallHasReservation
    BY InvariantSplit
  <1>2. /\ registry' = registry /\ run' = run /\ waits' = waits /\ end' = end
        /\ loop' = loop /\ outcome' = outcome
        /\ call' = call /\ staged' = staged /\ outputFailed' = outputFailed
    BY DEF vars, store
  <1>3. Numbered(registry)' /\ CallHasReservation'
    BY <1>1, <1>2 DEF CallHasReservation
  <1>4. Control'
    BY <1>1, <1>2 DEF Control, RestOfTypes, RegistryFollows, StoreFirst, LoopKnows,
                      AgreeSoFar, AnswersAreTrue
  <1> QED
    BY <1>3, <1>4, InvariantSplitPrimed

(* task-execution-loop.ts, newide-backend-service.ts:1331-1461, 2420-2461:  *)
(* between any two steps of the loop and of the calls, the registry is as   *)
(* far as the store, or somebody who will bring it there holds the run.     *)
THEOREM InvariantHolds ==
    Spec => []RunInvariant
  <1>1. RunInvariant /\ [Next]_vars => RunInvariant'
    BY LoopKeeps, CallKeeps, StutterKeeps DEF Next
  <1> QED
    BY Starts, <1>1, PTL DEF Spec

(* run-registry.ts:481-485: no two events of a run have the same number,    *)
(* and every part of the state keeps its type.                              *)
THEOREM TypesHold ==
    Spec => []TypeOK
  <1>1. RunInvariant => TypeOK
    BY DEF RunInvariant
  <1> QED
    BY <1>1, InvariantHolds, PTL

(* newide-backend-service.ts:2100-2137: a call that was answered cancelled  *)
(* or interrupted was told the truth, and it stays the truth.               *)
THEOREM AnswersStayTrue ==
    Spec => []AnswersAreTrue
  <1>1. RunInvariant => AnswersAreTrue
    BY DEF RunInvariant
  <1> QED
    BY <1>1, InvariantHolds, PTL

(* newide-backend-service.ts:1331-1461, 2420-2461: when all is over and the *)
(* output could be written, the registry ended the run as the store did.    *)
THEOREM RegistryEndsAsStore ==
    Spec => []EndsAgree
  <1>1. RunInvariant => EndsAgree
    <2> SUFFICES ASSUME RunInvariant, Over, ~ outputFailed
                 PROVE  /\ run # "running"
                        /\ registry.status = run
                        /\ HasType(registry, run)
      BY DEF EndsAgree
    <2>1. loop = "over" /\ \A c \in Calls : call[c] # "persisting"
      BY DEF Over
    <2>2. run # "running"
      BY <2>1 DEF RunInvariant, LoopKnows, Settled
    <2>3. registry.status # "running"
      BY <2>1, <2>2 DEF RunInvariant, StoreFirst, AgreeSoFar
    <2> QED
      BY <2>2, <2>3 DEF RunInvariant, AgreeSoFar
  <1> QED
    BY <1>1, InvariantHolds, PTL

(* What leaves an ended run live: only an output that could not be written. *)
(* Whatever was cancelled or interrupted in whatever order, the registry    *)
(* lets go of the run otherwise, for any number of calls.                   *)
THEOREM OnlyLostOutputKeepsRunLive ==
    Spec => [](outputFailed \/ EndedRunIsNotLive)
  <1>1. EndsAgree => outputFailed \/ EndedRunIsNotLive
    BY DEF EndsAgree, EndedRunIsNotLive
  <1> QED
    BY <1>1, RegistryEndsAsStore, PTL

=============================================================================
