--------------------------- MODULE IOEventsProof ---------------------------
(***************************************************************************)
(* Proofs about module IOEvents, for any fds, waiters and polling threads. *)
(***************************************************************************)
EXTENDS IOEventsProps, FiniteSetTheorems, TLAPS

Report == [fd : Fds, events : SUBSET Events, hangup : BOOLEAN]
Interest == {{e} : e \in Events} \cup {Events, None}

\* What Ctl registers with epoll, for any set of events.
LEMMA InterestOfEvents ==
    ASSUME NEW S \in SUBSET Events
    PROVE  (IF S = {} THEN None ELSE S) \in Interest
<1>1. S = {} \/ S = {"READ"} \/ S = {"WRITE"} \/ S = Events
  BY DEF Events
<1> QED BY <1>1 DEF Interest, Events

LEMMA CtlType ==
    ASSUME TypeOK, NEW fd \in Fds, NEW S \in SUBSET Events, Ctl(fd, S)
    PROVE  /\ interest' \in [Fds -> Interest]
           /\ ready' \in SUBSET Fds
           /\ interest'[fd] = IF S = {} THEN None ELSE S
           /\ \A g \in Fds \ {fd} : interest'[g] = interest[g]
           /\ ready \subseteq ready' \cup {fd}
           /\ S # {} /\ level[fd] \cap S # {} => fd \in ready'
<1>1. (IF S = {} THEN None ELSE S) \in Interest
  BY InterestOfEvents
<1>2. interest \in [Fds -> Interest] /\ ready \in SUBSET Fds
  BY DEF TypeOK, Interest
<1>3. interest' = [interest EXCEPT ![fd] = IF S = {} THEN None ELSE S]
  BY DEF Ctl
<1>4. /\ interest' \in [Fds -> Interest]
      /\ interest'[fd] = IF S = {} THEN None ELSE S
      /\ \A g \in Fds \ {fd} : interest'[g] = interest[g]
  BY <1>1, <1>2, <1>3
<1>5. /\ ready' \in SUBSET Fds
      /\ ready \subseteq ready' \cup {fd}
      /\ S # {} /\ level[fd] \cap S # {} => fd \in ready'
  BY <1>2 DEF Ctl
<1> QED BY <1>4, <1>5

LEMMA PairCardinality ==
    ASSUME NEW a, NEW b, a # b
    PROVE  IsFiniteSet({a, b}) /\ Cardinality({a, b}) = 2
<1>1. IsFiniteSet({a}) /\ Cardinality({a}) = 1
  BY FS_Singleton
<1>2. /\ IsFiniteSet({a} \cup {b})
      /\ Cardinality({a} \cup {b}) = IF b \in {a} THEN Cardinality({a})
                                    ELSE Cardinality({a}) + 1
  BY <1>1, FS_AddElement
<1>3. {a, b} = {a} \cup {b} /\ b \notin {a}
  OBVIOUS
<1> QED BY <1>1, <1>2, <1>3

\* The registered events of one fd, as pairs.
Of(fd, S) == {r \in {fd} \X Events : r[2] \in S}

LEMMA CardinalityOf ==
    ASSUME NEW fd, NEW S \in SUBSET Events
    PROVE  IsFiniteSet(Of(fd, S)) /\ Cardinality(Of(fd, S)) = Cardinality(S)
<1>1. CASE S = {}
  BY <1>1, FS_EmptySet DEF Of
<1>2. ASSUME NEW e \in Events, S = {e}
      PROVE  IsFiniteSet(Of(fd, S)) /\ Cardinality(Of(fd, S)) = Cardinality(S)
  <2>1. Of(fd, S) = {<<fd, e>>}
    BY <1>2 DEF Of
  <2> QED BY <1>2, <2>1, FS_Singleton
<1>3. CASE S = Events
  <2>1. Of(fd, S) = {<<fd, "READ">>, <<fd, "WRITE">>}
    BY <1>3 DEF Of, Events
  <2>2. <<fd, "READ">> # <<fd, "WRITE">> /\ "READ" # "WRITE"
    OBVIOUS
  <2> QED BY <1>3, <2>1, <2>2, PairCardinality DEF Events
<1>4. S = {} \/ S = {"READ"} \/ S = {"WRITE"} \/ S = Events
  BY DEF Events
<1> QED BY <1>1, <1>2, <1>3, <1>4 DEF Events

\* m_pendingCnt after events of an fd were taken out of event_type.
LEMMA CountDown ==
    ASSUME TypeOK, Counted, NEW fd \in Fds, NEW S \in SUBSET type[fd],
           type' = [type EXCEPT ![fd] = @ \ S],
           pending' = pending - Cardinality(S)
    PROVE  Counted' /\ pending' \in Nat
<1>1. type \in [Fds -> SUBSET Events] /\ S \in SUBSET Events
  BY DEF TypeOK
<1>2. Of(fd, S) \subseteq Registered
  BY <1>1 DEF Of, Registered
<1>3. Registered' = Registered \ Of(fd, S)
  BY <1>1 DEF Of, Registered
<1>4. Registered \cap Of(fd, S) = Of(fd, S)
  BY <1>2
<1>5. /\ IsFiniteSet(Registered \ Of(fd, S))
      /\ Cardinality(Registered \ Of(fd, S))
           = Cardinality(Registered) - Cardinality(Registered \cap Of(fd, S))
  BY FS_Difference DEF Counted
<1>6. Cardinality(Registered') \in Nat
  BY <1>3, <1>5, FS_CardinalityType
<1> QED BY <1>1, <1>3, <1>4, <1>5, <1>6, CardinalityOf DEF Counted

LEMMA CountUp ==
    ASSUME TypeOK, Counted, NEW fd \in Fds, NEW e \in Events \ type[fd],
           type' = [type EXCEPT ![fd] = @ \cup {e}], pending' = pending + 1
    PROVE  Counted' /\ pending' \in Nat
<1>1. type \in [Fds -> SUBSET Events]
  BY DEF TypeOK
<1>2. <<fd, e>> \notin Registered
  BY <1>1 DEF Registered
<1>3. Registered' = Registered \cup {<<fd, e>>}
  BY <1>1 DEF Registered
<1>4. /\ IsFiniteSet(Registered') /\ Cardinality(Registered') = Cardinality(Registered) + 1
  BY <1>2, <1>3, FS_AddElement DEF Counted
<1> QED BY <1>4, FS_CardinalityType DEF Counted

-----------------------------------------------------------------------------
\* triggerEvent for registered events: whoever is triggered is held no more.
LEMMA TriggerBooks ==
    ASSUME TypeOK, HeldIffRegistered, HeldWait, HeldOnce, Counted,
           NEW fd \in Fds, NEW S \in SUBSET type[fd], Trigger(fd, S)
    PROVE  /\ type' \in [Fds -> SUBSET Events]
           /\ holder' \in [Fds -> [Events -> Waiters \cup {None}]]
           /\ status' \in [Waiters -> {"free", "waiting", "queued"}]
           /\ pending' \in Nat
           /\ HeldIffRegistered' /\ HeldWait' /\ HeldOnce' /\ Counted'
<1>1. /\ type \in [Fds -> SUBSET Events]
      /\ holder \in [Fds -> [Events -> Waiters \cup {None}]]
      /\ status \in [Waiters -> {"free", "waiting", "queued"}]
      /\ S \subseteq Events
  BY DEF TypeOK
<1>2. /\ type' = [type EXCEPT ![fd] = @ \ S]
      /\ holder' = [holder EXCEPT ![fd] =
                       [e \in Events |-> IF e \in S THEN None ELSE @[e]]]
      /\ status' = [w \in Waiters |->
                       IF \E e \in S : holder[fd][e] = w THEN "queued" ELSE status[w]]
      /\ pending' = pending - Cardinality(S)
  BY DEF Trigger
<1>3. /\ type' \in [Fds -> SUBSET Events]
      /\ holder' \in [Fds -> [Events -> Waiters \cup {None}]]
      /\ status' \in [Waiters -> {"free", "waiting", "queued"}]
  BY <1>1, <1>2
<1>4. \A g \in Fds, e \in Events :
          /\ holder'[g][e] = IF g = fd /\ e \in S THEN None ELSE holder[g][e]
          /\ e \in type'[g] <=> e \in type[g] /\ ~(g = fd /\ e \in S)
  BY <1>1, <1>2
<1>5. Counted' /\ pending' \in Nat
  BY <1>2, CountDown
<1>6. HeldIffRegistered'
  BY <1>4 DEF HeldIffRegistered
<1>7. HeldOnce'
  BY <1>4, EventAssumption DEF HeldOnce, Waits
<1>8. HeldWait'
  <2> SUFFICES ASSUME NEW w \in Waiters
               PROVE  status'[w] = "waiting" <=> \E g \in Fds, e \in Events : holder'[g][e] = w
    BY DEF HeldWait, Waits
  <2>1. CASE \E e \in S : holder[fd][e] = w
    <3>1. status'[w] = "queued"
      BY <1>2, <2>1
    <3>2. \A g \in Fds, e \in Events : holder'[g][e] # w
      BY <1>1, <1>4, <2>1, EventAssumption DEF HeldOnce, Waits
    <3> QED BY <3>1, <3>2
  <2>2. CASE ~\E e \in S : holder[fd][e] = w
    <3>1. status'[w] = status[w]
      BY <1>2, <2>2
    <3>2. \A g \in Fds, e \in Events : holder'[g][e] = w <=> holder[g][e] = w
      BY <1>1, <1>4, <2>2, EventAssumption
    <3> QED BY <3>1, <3>2 DEF HeldWait, Waits
  <2> QED BY <2>1, <2>2
<1> QED BY <1>3, <1>5, <1>6, <1>7, <1>8

\* An fd whose registration is renewed by epoll_ctl to what event_type is then:
\* what is ready already comes back on the ready list.
LEMMA RearmKeeps ==
    ASSUME TypeOK, EpollAgrees, NoMissedEvent, Running,
           NEW fd \in Fds, NEW S \in SUBSET Events, Ctl(fd, S),
           type' = [type EXCEPT ![fd] = S], level' = level, torn' = torn,
           \A p \in Pollers, r \in Report : r \in batch[p] /\ r.fd # fd => r \in batch'[p]
    PROVE  EpollAgrees' /\ NoMissedEvent'
<1>1. /\ type \in [Fds -> SUBSET Events]
      /\ batch \in [Pollers -> SUBSET Report]
      /\ type'[fd] = S /\ \A g \in Fds \ {fd} : type'[g] = type[g]
  BY DEF TypeOK, Report
<1>2. EpollAgrees'
  BY <1>1, CtlType DEF EpollAgrees
<1>3. NoMissedEvent'
  <2> SUFFICES ASSUME NEW g \in Fds, NEW e \in type'[g], g \notin torn, e \in level[g]
               PROVE  \/ g \in ready'
                      \/ \E p \in Pollers : \E r \in batch'[p] :
                             r.fd = g /\ e \in RealEvents(r)'
    BY DEF NoMissedEvent
  <2>1. CASE g = fd
    BY <1>1, <2>1, CtlType
  <2>2. CASE g # fd
    <3>1. e \in type[g]
      BY <1>1, <2>2
    <3>2. CASE g \in ready
      BY <2>2, <3>2, CtlType
    <3>3. ASSUME NEW p \in Pollers, NEW r \in batch[p], r.fd = g, e \in RealEvents(r)
          PROVE  \E q \in Pollers : \E t \in batch'[q] : t.fd = g /\ e \in RealEvents(t)'
      <4>1. r \in batch'[p]
        BY <1>1, <2>2, <3>3
      <4>2. e \in RealEvents(r)'
        BY <1>1, <2>2, <3>3 DEF RealEvents
      <4> QED BY <3>3, <4>1, <4>2
    <3> QED BY <3>1, <3>2, <3>3 DEF NoMissedEvent
  <2> QED BY <2>1, <2>2
<1> QED BY <1>2, <1>3

-----------------------------------------------------------------------------
LEMMA InitEventsInv == Init => EventsInv
<1> SUFFICES ASSUME Init PROVE EventsInv
  OBVIOUS
<1>1. TypeOK
  <2>1. interest \in [Fds -> {{e} : e \in Events} \cup {Events, None}]
    BY DEF Init
  <2> QED BY <2>1, EventAssumption DEF Init, TypeOK
<1>2. Counted
  <2>1. Registered = {}
    BY DEF Init, Registered
  <2> QED BY <2>1, FS_EmptySet DEF Init, Counted
<1>3. HeldIffRegistered /\ HeldWait /\ HeldOnce
  BY EventAssumption DEF Init, HeldIffRegistered, HeldWait, HeldOnce, Waits
<1>4. EpollAgrees /\ NoMissedEvent
  BY DEF Init, EpollAgrees, NoMissedEvent
<1> QED BY <1>1, <1>2, <1>3, <1>4 DEF EventsInv

\* addEvent: the assertion that the EventContext is empty cannot fail.
LEMMA AddEventKeeps ==
    ASSUME EventsInv, NEW w \in Waiters, NEW fd \in Fds, NEW e \in Events,
           AddEvent(w, fd, e)
    PROVE  EventsInv'
<1>1. /\ TypeOK /\ Running /\ EpollAgrees /\ NoMissedEvent
      /\ HeldIffRegistered /\ HeldWait /\ HeldOnce /\ Counted
  BY DEF EventsInv, AddEvent
<1>2. size' \in Nat
  <2>1. fd \in Nat /\ size \in Nat
    BY <1>1, EventAssumption DEF TypeOK
  <2>2. \A n \in Nat : (3 * n) \div 2 \in Nat
    OBVIOUS
  <2>3. NewSize(fd) \in Nat
    BY <2>1, <2>2 DEF NewSize
  <2> QED BY <2>3 DEF AddEvent
<1>3. CASE fd >= size'
  <2>1. /\ crash' = "context index"
        /\ UNCHANGED <<type, holder, pending, status, interest, ready, kernelVars,
                       batch, closing, torn>>
    BY <1>3 DEF AddEvent
  <2> QED BY <1>1, <1>2, <2>1 DEF EventsInv, TypeOK, Running, EpollAgrees,
                                  NoMissedEvent, kernelVars
<1>4. CASE ~(fd >= size')
  <2>1. /\ e \notin type[fd] /\ Ctl(fd, type[fd] \cup {e})
        /\ pending' = pending + 1
        /\ type' = [type EXCEPT ![fd] = @ \cup {e}]
        /\ crash' = IF holder[fd][e] = None THEN crash ELSE "addEvent"
        /\ holder' = [holder EXCEPT ![fd][e] = w]
        /\ status' = [status EXCEPT ![w] = "waiting"]
        /\ level' = level /\ hangup' = hangup
        /\ UNCHANGED <<batch, closing, torn>> /\ status[w] = "free"
    BY <1>4 DEF AddEvent, kernelVars
  <2>2. /\ type \in [Fds -> SUBSET Events] /\ type[fd] \cup {e} \in SUBSET Events
        /\ holder \in [Fds -> [Events -> Waiters \cup {None}]]
        /\ status \in [Waiters -> {"free", "waiting", "queued"}]
    BY <1>1 DEF TypeOK
  <2>3. crash' = "no"
    BY <1>1, <2>1 DEF HeldIffRegistered, Running
  <2>4. Counted' /\ pending' \in Nat
    BY <1>1, <2>1, CountUp
  <2>5. /\ type' \in [Fds -> SUBSET Events]
        /\ holder' \in [Fds -> [Events -> Waiters \cup {None}]]
        /\ status' \in [Waiters -> {"free", "waiting", "queued"}]
    BY <2>1, <2>2
  <2>6. /\ interest' \in [Fds -> Interest] /\ ready' \in SUBSET Fds
    BY <1>1, <2>1, <2>2, CtlType
  <2>7. TypeOK'
    BY <1>1, <1>2, <2>1, <2>3, <2>4, <2>5, <2>6 DEF TypeOK, Interest
  <2>8. \A g \in Fds, x \in Events :
            /\ holder'[g][x] = IF g = fd /\ x = e THEN w ELSE holder[g][x]
            /\ x \in type'[g] <=> x \in type[g] \/ (g = fd /\ x = e)
    BY <2>1, <2>2
  <2>9. HeldIffRegistered'
    BY <1>1, <2>8, EventAssumption DEF HeldIffRegistered
  <2>10. \A g \in Fds, x \in Events : holder[g][x] # w
    BY <1>1, <2>1 DEF HeldWait, Waits
  <2>11. HeldOnce'
    BY <1>1, <2>8, <2>10 DEF HeldOnce, Waits
  <2>12. HeldWait'
    <3> SUFFICES ASSUME NEW v \in Waiters
                 PROVE  status'[v] = "waiting" <=> \E g \in Fds, x \in Events : holder'[g][x] = v
      BY DEF HeldWait, Waits
    <3>1. CASE v = w
      BY <2>1, <2>2, <2>8, <3>1
    <3>2. CASE v # w
      <4>1. status'[v] = status[v]
        BY <2>1, <3>2
      <4>2. \A g \in Fds, x \in Events : holder'[g][x] = v <=> holder[g][x] = v
        BY <1>1, <2>1, <2>8, <3>2, EventAssumption DEF HeldIffRegistered
      <4> QED BY <1>1, <4>1, <4>2 DEF HeldWait, Waits
    <3> QED BY <3>1, <3>2
  <2>13. EpollAgrees' /\ NoMissedEvent'
    BY <1>1, <2>1, <2>2, RearmKeeps
  <2> QED BY <2>4, <2>7, <2>9, <2>11, <2>12, <2>13 DEF EventsInv
<1> QED BY <1>3, <1>4

\* delEvent: whoever waited runs on, and is held no more.
LEMMA DelEventKeeps ==
    ASSUME EventsInv, NEW fd \in Fds, NEW e \in Events, DelEvent(fd, e)
    PROVE  EventsInv'
<1> DEFINE w == holder[fd][e]
<1>1. /\ TypeOK /\ Running /\ EpollAgrees /\ NoMissedEvent
      /\ HeldIffRegistered /\ HeldWait /\ HeldOnce /\ Counted
  BY DEF EventsInv, DelEvent
<1>2. /\ e \in type[fd] /\ Ctl(fd, type[fd] \ {e})
      /\ type' = [type EXCEPT ![fd] = @ \ {e}]
      /\ holder' = [holder EXCEPT ![fd][e] = None]
      /\ status' = [status EXCEPT ![w] = "free"]
      /\ pending' = pending - 1
      /\ level' = level /\ hangup' = hangup
      /\ UNCHANGED <<size, batch, closing, torn, crash>>
  BY DEF DelEvent, kernelVars
<1>3. /\ type \in [Fds -> SUBSET Events] /\ type[fd] \ {e} \in SUBSET Events
      /\ holder \in [Fds -> [Events -> Waiters \cup {None}]]
      /\ status \in [Waiters -> {"free", "waiting", "queued"}]
  BY <1>1 DEF TypeOK
<1>4. w \in Waiters
  BY <1>1, <1>2, <1>3 DEF HeldIffRegistered
<1>5. pending' = pending - Cardinality({e}) /\ {e} \in SUBSET type[fd]
  BY <1>2, FS_Singleton
<1>6. Counted' /\ pending' \in Nat
  BY <1>1, <1>2, <1>5, CountDown
<1>7. /\ type' \in [Fds -> SUBSET Events]
      /\ holder' \in [Fds -> [Events -> Waiters \cup {None}]]
      /\ status' \in [Waiters -> {"free", "waiting", "queued"}]
  BY <1>2, <1>3, <1>4
<1>8. /\ interest' \in [Fds -> Interest] /\ ready' \in SUBSET Fds
  BY <1>1, <1>2, <1>3, CtlType
<1>9. TypeOK'
  BY <1>1, <1>2, <1>6, <1>7, <1>8 DEF TypeOK, Interest
<1>10. \A g \in Fds, x \in Events :
            /\ holder'[g][x] = IF g = fd /\ x = e THEN None ELSE holder[g][x]
            /\ x \in type'[g] <=> x \in type[g] /\ ~(g = fd /\ x = e)
  BY <1>2, <1>3
<1>11. HeldIffRegistered'
  BY <1>1, <1>10 DEF HeldIffRegistered
<1>12. HeldOnce'
  BY <1>1, <1>10, EventAssumption DEF HeldOnce, Waits
<1>13. HeldWait'
  <2> SUFFICES ASSUME NEW v \in Waiters
               PROVE  status'[v] = "waiting" <=> \E g \in Fds, x \in Events : holder'[g][x] = v
    BY DEF HeldWait, Waits
  <2>1. CASE v = w
    <3>1. \A g \in Fds, x \in Events : holder'[g][x] # v
      BY <1>1, <1>4, <1>10, <2>1, EventAssumption DEF HeldOnce, Waits
    <3>2. status'[v] = "free"
      BY <1>2, <1>3, <1>4, <2>1
    <3> QED BY <3>1, <3>2
  <2>2. CASE v # w
    <3>1. status'[v] = status[v]
      BY <1>2, <1>3, <2>2
    <3>2. \A g \in Fds, x \in Events : holder'[g][x] = v <=> holder[g][x] = v
      BY <1>10, <2>2, EventAssumption
    <3> QED BY <1>1, <3>1, <3>2 DEF HeldWait, Waits
  <2> QED BY <2>1, <2>2
<1>14. EpollAgrees' /\ NoMissedEvent'
  BY <1>1, <1>2, <1>3, RearmKeeps
<1> QED BY <1>6, <1>9, <1>11, <1>12, <1>13, <1>14 DEF EventsInv

\* cancelEvent, and cancelAll in a close().
LEMMA CancelEventKeeps ==
    ASSUME EventsInv, NEW fd \in Fds, NEW e \in Events, CancelEvent(fd, e)
    PROVE  EventsInv'
<1>1. /\ TypeOK /\ Running /\ EpollAgrees /\ NoMissedEvent
      /\ HeldIffRegistered /\ HeldWait /\ HeldOnce /\ Counted
  BY DEF EventsInv, CancelEvent
<1>2. /\ {e} \in SUBSET type[fd] /\ Ctl(fd, type[fd] \ {e}) /\ Trigger(fd, {e})
      /\ UNCHANGED <<size, level, hangup, batch, closing, torn, crash>>
  BY DEF CancelEvent, kernelVars
<1>3. type[fd] \ {e} \in SUBSET Events /\ type' = [type EXCEPT ![fd] = type[fd] \ {e}]
  BY <1>1, <1>2 DEF TypeOK, Trigger
<1>4. /\ interest' \in [Fds -> Interest] /\ ready' \in SUBSET Fds
  BY <1>1, <1>2, <1>3, CtlType
<1>5. /\ type' \in [Fds -> SUBSET Events]
      /\ holder' \in [Fds -> [Events -> Waiters \cup {None}]]
      /\ status' \in [Waiters -> {"free", "waiting", "queued"}]
      /\ pending' \in Nat
      /\ HeldIffRegistered' /\ HeldWait' /\ HeldOnce' /\ Counted'
  BY <1>1, <1>2, TriggerBooks
<1>6. TypeOK'
  BY <1>1, <1>2, <1>4, <1>5 DEF TypeOK, Interest
<1>7. EpollAgrees' /\ NoMissedEvent'
  BY <1>1, <1>2, <1>3, RearmKeeps
<1> QED BY <1>5, <1>6, <1>7 DEF EventsInv

LEMMA CloseCancelsKeeps ==
    ASSUME EventsInv, NEW fd \in Fds, CloseCancels(fd)
    PROVE  EventsInv'
<1>1. /\ TypeOK /\ Running /\ EpollAgrees /\ NoMissedEvent
      /\ HeldIffRegistered /\ HeldWait /\ HeldOnce /\ Counted
  BY DEF EventsInv, CloseCancels
<1>2. /\ CancelAll(fd) /\ closing' = closing \cup {fd}
      /\ UNCHANGED <<size, level, hangup, batch, torn, crash>>
  BY DEF CloseCancels, kernelVars
<1>3. closing' \subseteq Fds
  BY <1>1, <1>2 DEF TypeOK
<1>4. CASE fd < size /\ type[fd] # {} /\ ~CtlFails(fd, type[fd])
  <2>1. Ctl(fd, {}) /\ Trigger(fd, type[fd])
    BY <1>2, <1>4 DEF CancelAll
  <2>2. {} \in SUBSET Events /\ type' = [type EXCEPT ![fd] = {}]
    BY <1>1, <2>1 DEF TypeOK, Trigger
  <2>3. /\ interest' \in [Fds -> Interest] /\ ready' \in SUBSET Fds
    BY <1>1, <2>1, <2>2, CtlType
  <2>4. /\ type' \in [Fds -> SUBSET Events]
        /\ holder' \in [Fds -> [Events -> Waiters \cup {None}]]
        /\ status' \in [Waiters -> {"free", "waiting", "queued"}]
        /\ pending' \in Nat
        /\ HeldIffRegistered' /\ HeldWait' /\ HeldOnce' /\ Counted'
    BY <1>1, <2>1, TriggerBooks
  <2>5. TypeOK'
    BY <1>1, <1>2, <1>3, <2>3, <2>4 DEF TypeOK, Interest
  <2>6. EpollAgrees' /\ NoMissedEvent'
    BY <1>1, <1>2, <2>1, <2>2, RearmKeeps
  <2> QED BY <2>4, <2>5, <2>6 DEF EventsInv
<1>5. CASE ~(fd < size /\ type[fd] # {} /\ ~CtlFails(fd, type[fd]))
  <2>1. UNCHANGED <<type, holder, pending, status, interest, ready>>
    BY <1>2, <1>5 DEF CancelAll
  <2>2. TypeOK'
    BY <1>1, <1>2, <1>3, <2>1 DEF TypeOK
  <2>3. HeldIffRegistered' /\ HeldWait' /\ HeldOnce' /\ Counted'
    BY <1>1, <2>1 DEF HeldIffRegistered, HeldWait, HeldOnce, Counted, Registered, Waits
  <2>4. EpollAgrees' /\ NoMissedEvent'
    BY <1>1, <1>2, <2>1 DEF EpollAgrees, NoMissedEvent, RealEvents, Running
  <2> QED BY <2>2, <2>3, <2>4 DEF EventsInv
<1> QED BY <1>4, <1>5

\* close_f: epoll forgets the fd; whoever is registered is left behind (torn).
LEMMA CloseFdKeeps ==
    ASSUME EventsInv, NEW fd \in Fds, CloseFd(fd)
    PROVE  EventsInv'
<1>1. /\ TypeOK /\ Running /\ EpollAgrees /\ NoMissedEvent
      /\ HeldIffRegistered /\ HeldWait /\ HeldOnce /\ Counted
  BY DEF EventsInv, CloseFd
<1>2. TypeOK'
  BY <1>1 DEF CloseFd, TypeOK
<1>3. HeldIffRegistered' /\ HeldWait' /\ HeldOnce' /\ Counted'
  BY <1>1 DEF CloseFd, HeldIffRegistered, HeldWait, HeldOnce, Counted, Registered, Waits
<1>4. /\ interest' = [interest EXCEPT ![fd] = None] /\ level' = [level EXCEPT ![fd] = {}]
      /\ ready' = ready \ {fd} /\ type' = type /\ batch' = batch /\ crash' = crash
      /\ torn' = IF type[fd] = {} THEN torn ELSE torn \cup {fd}
  BY DEF CloseFd
<1>5. EpollAgrees'
  <2> SUFFICES ASSUME NEW g \in Fds \ torn'
               PROVE  interest'[g] = IF type[g] = {} THEN None ELSE type[g]
    BY <1>4 DEF EpollAgrees
  <2>1. interest'[g] = IF g = fd THEN None ELSE interest[g]
    BY <1>1, <1>4 DEF TypeOK
  <2>2. g \notin torn /\ (g = fd => type[g] = {})
    BY <1>4
  <2> QED BY <1>1, <2>1, <2>2 DEF EpollAgrees
<1>6. NoMissedEvent'
  <2>1. \A g \in Fds : level'[g] = IF g = fd THEN {} ELSE level[g]
    BY <1>1, <1>4 DEF TypeOK
  <2> QED BY <1>1, <1>4, <2>1 DEF NoMissedEvent, RealEvents
<1> QED BY <1>2, <1>3, <1>5, <1>6 DEF EventsInv

\* The task of a triggered waiter is run.
LEMMA ResumeKeeps ==
    ASSUME EventsInv, NEW w \in Waiters, Resume(w)
    PROVE  EventsInv'
<1>1. /\ TypeOK /\ Running /\ EpollAgrees /\ NoMissedEvent
      /\ HeldIffRegistered /\ HeldWait /\ HeldOnce /\ Counted
  BY DEF EventsInv, Resume
<1>2. TypeOK'
  BY <1>1 DEF Resume, TypeOK, kernelVars
<1>3. HeldIffRegistered' /\ HeldOnce' /\ Counted'
  BY <1>1 DEF Resume, HeldIffRegistered, HeldOnce, Counted, Registered, Waits
<1>4. \A v \in Waiters : status'[v] = "waiting" <=> status[v] = "waiting"
  BY <1>1 DEF Resume, TypeOK
<1>5. HeldWait'
  BY <1>1, <1>4 DEF Resume, HeldWait, Waits
<1>6. EpollAgrees' /\ NoMissedEvent'
  BY <1>1 DEF Resume, EpollAgrees, NoMissedEvent, RealEvents, kernelVars
<1> QED BY <1>2, <1>3, <1>5, <1>6 DEF EventsInv

-----------------------------------------------------------------------------
\* The steps of epoll, of the peer and of epoll_wait leave who waits alone.
LEMMA BooksUnchanged ==
    ASSUME EventsInv, Running, UNCHANGED <<type, holder, pending, status>>
    PROVE  HeldIffRegistered' /\ HeldWait' /\ HeldOnce' /\ Counted'
<1>1. HeldIffRegistered /\ HeldWait /\ HeldOnce /\ Counted
  BY DEF EventsInv
<1> QED BY <1>1 DEF HeldIffRegistered, HeldWait, HeldOnce, Counted, Registered, Waits

\* epoll_wait empties the ready list into the batch of the thread, and leaves
\* out only what is not registered with epoll or has not happened.
LEMMA EpollWaitKeeps ==
    ASSUME EventsInv, NEW p \in Pollers, EpollWait(p)
    PROVE  EventsInv'
<1> DEFINE got == {[fd |-> fd, events |-> Returned(fd), hangup |-> hangup[fd]] : fd \in Reported}
<1>1. TypeOK /\ Running /\ EpollAgrees /\ NoMissedEvent
  BY DEF EventsInv, EpollWait
<1>2. /\ batch[p] = {} /\ batch' = [batch EXCEPT ![p] = got] /\ ready' = {}
      /\ UNCHANGED <<type, holder, size, pending, status, interest, level, hangup,
                     closing, torn, crash>>
  BY DEF EpollWait, kernelVars
<1>3. got \subseteq Report
  <2> SUFFICES ASSUME NEW fd \in Reported
               PROVE  [fd |-> fd, events |-> Returned(fd), hangup |-> hangup[fd]] \in Report
    OBVIOUS
  <2>1. fd \in Fds
    BY <1>1 DEF Reported, TypeOK
  <2>2. Returned(fd) \subseteq Events /\ hangup[fd] \in BOOLEAN
    BY <1>1, <2>1 DEF Returned, TypeOK
  <2> QED BY <2>1, <2>2 DEF Report
<1>4. batch' \in [Pollers -> SUBSET Report]
  BY <1>1, <1>2, <1>3 DEF TypeOK, Report
<1>5. TypeOK'
  BY <1>1, <1>2, <1>4 DEF TypeOK, Report
<1>6. EpollAgrees'
  BY <1>1, <1>2 DEF EpollAgrees, Running
<1>7. NoMissedEvent'
  <2> SUFFICES ASSUME NEW fd \in Fds, NEW e \in type[fd], fd \notin torn, e \in level[fd]
               PROVE  \E q \in Pollers : \E r \in batch'[q] : r.fd = fd /\ e \in RealEvents(r)'
    BY <1>2 DEF NoMissedEvent
  <2>1. \A q \in Pollers : batch[q] \subseteq batch'[q]
    BY <1>1, <1>2 DEF TypeOK
  <2>2. \A r : RealEvents(r)' = RealEvents(r)
    BY <1>2 DEF RealEvents
  <2>3. CASE fd \in ready
    <3> DEFINE r == [fd |-> fd, events |-> Returned(fd), hangup |-> hangup[fd]]
    <3>1. interest[fd] = type[fd]
      BY <1>1 DEF EpollAgrees
    <3>2. type[fd] \in SUBSET Events
      BY <1>1 DEF TypeOK
    <3>3. e \in Returned(fd) /\ interest[fd] # None
      BY <3>1, <3>2, EventAssumption DEF Returned
    <3>4. fd \in Reported
      BY <2>3, <3>3 DEF Reported
    <3>5. batch'[p] = got
      BY <1>1, <1>2 DEF TypeOK
    <3>6. r \in batch'[p]
      BY <3>4, <3>5
    <3>7. r.fd = fd /\ e \in RealEvents(r)
      BY <3>3 DEF RealEvents
    <3> QED BY <2>2, <3>6, <3>7
  <2>4. CASE fd \notin ready
    BY <1>1, <2>1, <2>2, <2>4 DEF NoMissedEvent
  <2> QED BY <2>3, <2>4
<1> QED BY <1>1, <1>2, <1>5, <1>6, <1>7, BooksUnchanged DEF EventsInv

\* An fd that is not torn is registered with epoll if it has events: there is
\* no epoll_ctl for it that fails.
LEMMA CtlSucceeds ==
    ASSUME TypeOK, EpollAgrees, Running, NEW fd \in Fds \ torn
    PROVE  ~CtlFails(fd, type[fd])
<1>1. type[fd] \in SUBSET Events
  BY DEF TypeOK
<1> QED BY <1>1, EventAssumption DEF EpollAgrees, CtlFails

LEMMA SkipEventKeeps ==
    ASSUME EventsInv, NEW p \in Pollers, NEW r \in batch[p], SkipEvent(p, r)
    PROVE  EventsInv'
<1>1. TypeOK /\ Running /\ EpollAgrees /\ NoMissedEvent
  BY DEF EventsInv, SkipEvent
<1>2. /\ type[r.fd] \cap RealEvents(r) = {} \/ CtlFails(r.fd, type[r.fd])
      /\ batch' = [batch EXCEPT ![p] = @ \ {r}]
      /\ UNCHANGED <<type, holder, size, pending, status, interest, level, hangup,
                     ready, closing, torn, crash>>
  BY DEF SkipEvent, kernelVars
<1>3. TypeOK'
  BY <1>1, <1>2 DEF TypeOK
<1>4. EpollAgrees'
  BY <1>1, <1>2 DEF EpollAgrees, Running
<1>5. NoMissedEvent'
  <2> SUFFICES ASSUME NEW fd \in Fds, NEW e \in type[fd], fd \notin torn, e \in level[fd],
                      fd \notin ready
               PROVE  \E q \in Pollers : \E t \in batch'[q] : t.fd = fd /\ e \in RealEvents(t)'
    BY <1>2 DEF NoMissedEvent
  <2>1. PICK q \in Pollers : \E t \in batch[q] : t.fd = fd /\ e \in RealEvents(t)
    BY <1>1 DEF NoMissedEvent
  <2>2. PICK t \in batch[q] : t.fd = fd /\ e \in RealEvents(t)
    BY <2>1
  <2>3. t # r
    BY <1>1, <1>2, <2>2, CtlSucceeds
  <2>4. t \in batch'[q]
    BY <1>1, <1>2, <2>3 DEF TypeOK
  <2>5. e \in RealEvents(t)'
    BY <1>2, <2>2 DEF RealEvents
  <2> QED BY <2>2, <2>4, <2>5
<1> QED BY <1>1, <1>2, <1>3, <1>4, <1>5, BooksUnchanged DEF EventsInv

\* Idle triggers what has happened and re-arms the rest.
LEMMA HandleEventKeeps ==
    ASSUME EventsInv, NEW p \in Pollers, NEW r \in batch[p], HandleEvent(p, r)
    PROVE  EventsInv'
<1> DEFINE fd == r.fd
           real == RealEvents(r)
<1>1. /\ TypeOK /\ Running /\ EpollAgrees /\ NoMissedEvent
      /\ HeldIffRegistered /\ HeldWait /\ HeldOnce /\ Counted
  BY DEF EventsInv, HandleEvent
<1>2. /\ batch' = [batch EXCEPT ![p] = @ \ {r}] /\ Ctl(fd, type[fd] \ real)
      /\ UNCHANGED <<size, level, hangup, closing, torn>>
      /\ IF real \subseteq type[fd]
         THEN Trigger(fd, real) /\ UNCHANGED crash
         ELSE crash' = "triggerEvent" /\ UNCHANGED <<type, holder, pending, status>>
  BY DEF HandleEvent, kernelVars
<1>3. /\ batch \in [Pollers -> SUBSET Report]
      /\ r \in Report /\ fd \in Fds /\ type[fd] \ real \in SUBSET Events
  <2>1. batch \in [Pollers -> SUBSET Report] /\ type \in [Fds -> SUBSET Events]
    BY <1>1 DEF TypeOK, Report
  <2>2. r \in Report
    BY <2>1
  <2>3. fd \in Fds
    BY <2>2 DEF Report
  <2> QED BY <2>1, <2>2, <2>3
<1>4. /\ batch' \in [Pollers -> SUBSET Report]
      /\ \A q \in Pollers, t \in Report : t \in batch[q] /\ t.fd # fd => t \in batch'[q]
  BY <1>2, <1>3
<1>5. /\ interest' \in [Fds -> Interest] /\ ready' \in SUBSET Fds
  BY <1>1, <1>2, <1>3, CtlType
<1>6. CASE real \subseteq type[fd]
  <2>1. Trigger(fd, real) /\ crash' = crash /\ real \in SUBSET type[fd]
    BY <1>2, <1>6
  <2>2. type' = [type EXCEPT ![fd] = type[fd] \ real]
    BY <2>1 DEF Trigger
  <2>3. /\ type' \in [Fds -> SUBSET Events]
        /\ holder' \in [Fds -> [Events -> Waiters \cup {None}]]
        /\ status' \in [Waiters -> {"free", "waiting", "queued"}]
        /\ pending' \in Nat
        /\ HeldIffRegistered' /\ HeldWait' /\ HeldOnce' /\ Counted'
    BY <1>1, <1>3, <2>1, TriggerBooks
  <2>4. TypeOK'
    BY <1>1, <1>2, <1>4, <1>5, <2>1, <2>3 DEF TypeOK, Interest, Report
  <2>5. EpollAgrees' /\ NoMissedEvent'
    BY <1>1, <1>2, <1>3, <1>4, <2>2, RearmKeeps
  <2> QED BY <2>3, <2>4, <2>5 DEF EventsInv
<1>7. CASE ~(real \subseteq type[fd])
  <2>1. crash' = "triggerEvent" /\ UNCHANGED <<type, holder, pending, status>>
    BY <1>2, <1>7
  <2>2. TypeOK'
    BY <1>1, <1>2, <1>4, <1>5, <2>1 DEF TypeOK, Interest, Report
  <2> QED BY <2>1, <2>2 DEF EventsInv, EpollAgrees, NoMissedEvent, Running
<1> QED BY <1>6, <1>7

-----------------------------------------------------------------------------
\* An fd that becomes ready goes on the ready list if epoll is asked for it.
LEMMA EnvironmentKeeps ==
    ASSUME EventsInv, Environment
    PROVE  EventsInv'
<1>1. PICK fd \in Fds : \/ \E e \in Events : BecomesReady(fd, e) \/ UsedUp(fd, e)
                        \/ HangsUp(fd)
  BY DEF Environment
<1>2. TypeOK /\ Running /\ EpollAgrees /\ NoMissedEvent
  BY <1>1 DEF EventsInv, BecomesReady, UsedUp, HangsUp
<1>3. UNCHANGED <<type, holder, size, pending, status, interest, batch, closing, torn, crash>>
  BY <1>1 DEF BecomesReady, UsedUp, HangsUp
<1>4. TypeOK'
  <2>1. level \in [Fds -> SUBSET Events] /\ hangup \in [Fds -> BOOLEAN] /\ ready \subseteq Fds
    BY <1>2 DEF TypeOK
  <2>2. level' \in [Fds -> SUBSET Events]
    BY <1>1, <2>1 DEF BecomesReady, UsedUp, HangsUp
  <2>3. hangup' \in [Fds -> BOOLEAN] /\ ready' \subseteq Fds
    BY <1>1, <2>1 DEF BecomesReady, UsedUp, HangsUp
  <2> QED BY <1>2, <1>3, <2>2, <2>3 DEF TypeOK
<1>5. EpollAgrees'
  BY <1>2, <1>3 DEF EpollAgrees, Running
<1>6. NoMissedEvent'
  <2>1. type \in [Fds -> SUBSET Events] /\ level \in [Fds -> SUBSET Events] /\ fd \in Fds
    BY <1>2 DEF TypeOK
  <2>2. \A g \in Fds : g \in ready => g \in ready'
    BY <1>1 DEF BecomesReady, UsedUp, HangsUp
  <2>3. \A g \in Fds, e \in Events : e \in level'[g] /\ e \notin level[g] =>
            g = fd /\ (interest[fd] # None /\ e \in interest[fd] => fd \in ready')
    BY <1>1, <2>1 DEF BecomesReady, UsedUp, HangsUp
  <2>4. \A e \in type[fd] : fd \notin torn => interest[fd] # None /\ e \in interest[fd]
    BY <1>2, <2>1, EventAssumption DEF EpollAgrees
  <2>5. \A g \in Fds : \A e \in type[g] :
            g \notin torn /\ e \in level'[g] => e \in level[g] \/ g \in ready'
    BY <2>1, <2>3, <2>4
  <2> QED BY <1>2, <1>3, <2>1, <2>2, <2>5 DEF NoMissedEvent, RealEvents
<1> QED BY <1>2, <1>3, <1>4, <1>5, <1>6, BooksUnchanged DEF EventsInv

LEMMA NextKeepsEventsInv == EventsInv /\ [Next]_vars => EventsInv'
<1> SUFFICES ASSUME EventsInv, [Next]_vars PROVE EventsInv'
  OBVIOUS
<1>1. CASE Register
  BY <1>1, AddEventKeeps DEF Register
<1>2. CASE Withdraw
  BY <1>2, DelEventKeeps, CancelEventKeeps DEF Withdraw
<1>3. CASE \E fd \in Fds : CloseCancels(fd) \/ CloseFd(fd)
  BY <1>3, CloseCancelsKeeps, CloseFdKeeps
<1>4. CASE \E w \in Waiters : Resume(w)
  BY <1>4, ResumeKeeps
<1>5. CASE \E p \in Pollers : Poll(p)
  BY <1>5, EpollWaitKeeps, SkipEventKeeps, HandleEventKeeps DEF Poll
<1>6. CASE Environment
  BY <1>6, EnvironmentKeeps
<1>7. CASE UNCHANGED vars
  <2>1. UNCHANGED <<type, holder, size, pending, status, interest, level, hangup, ready,
                    batch, closing, torn, crash>>
    BY <1>7 DEF vars, kernelVars
  <2>2. TypeOK'
    BY <2>1 DEF EventsInv, TypeOK
  <2>3. EpollAgrees' /\ NoMissedEvent'
    BY <2>1 DEF EventsInv, EpollAgrees, NoMissedEvent, RealEvents, Running
  <2> QED BY <2>1, <2>2, <2>3, BooksUnchanged DEF EventsInv, Running
<1> QED BY <1>1, <1>2, <1>3, <1>4, <1>5, <1>6, <1>7 DEF Next

\* The books of the event operations are right in every reachable state: what
\* the theorems below are read off (IOManager.cc:60-239, 305-352).
THEOREM EventsInvariant == Spec => []EventsInv
<1>1. Init => EventsInv
  BY InitEventsInv
<1>2. EventsInv /\ [Next]_vars => EventsInv'
  BY NextKeepsEventsInv
<1> QED BY <1>1, <1>2, PTL DEF Spec

\* m_pendingCnt, which CanStop trusts, is the number of registered events for
\* any number of fds, waiters and polling threads (IOManager.cc:107-108,
\* 150-151, 191-192, 225-232, 344-351).
THEOREM PendingIsExact == Spec => []PendingExact
<1>1. EventsInv => PendingExact
  BY DEF EventsInv, PendingExact, Counted
<1> QED BY <1>1, EventsInvariant, PTL

\* A waiter that waits is held by one event, whoever does not by none.
LEMMA WaitersAreExact == EventsInv => WaitersExact
<1> SUFFICES ASSUME EventsInv, Running PROVE WaitersExact
  BY DEF WaitersExact
<1>1. TypeOK /\ HeldIffRegistered /\ HeldWait /\ HeldOnce
  BY DEF EventsInv
<1>2. ASSUME NEW w \in Waiters
      PROVE  Cardinality({r \in Registered : Waits(w, r[1], r[2])})
                 = IF status[w] = "waiting" THEN 1 ELSE 0
  <2> DEFINE held == {r \in Registered : Waits(w, r[1], r[2])}
  <2>1. CASE status[w] = "waiting"
    <3>1. PICK fd \in Fds, e \in Events : Waits(w, fd, e)
      BY <1>1, <2>1 DEF HeldWait
    <3>2. <<fd, e>> \in Registered
      BY <1>1, <3>1, EventAssumption DEF HeldIffRegistered, Registered, Waits
    <3>3. \A r \in held : r = <<fd, e>>
      BY <1>1, <3>1 DEF HeldOnce, Registered
    <3>4. held = {<<fd, e>>}
      BY <3>1, <3>2, <3>3
    <3> QED BY <2>1, <3>4, FS_Singleton
  <2>2. CASE status[w] # "waiting"
    <3>1. held = {}
      BY <1>1, <2>2 DEF HeldWait, Registered
    <3> QED BY <2>2, <3>1, FS_EmptySet
  <2> QED BY <2>1, <2>2
<1> QED BY <1>1, <1>2 DEF WaitersExact, HeldIffRegistered

\* The waiters, event_type and what epoll was asked for agree after every
\* interleaving of the event operations; the assertion of addEvent that the
\* EventContext is empty is part of it (IOManager.cc:84-239, 305-352).
THEOREM EventsAreExact == Spec => []EventsExact
<1>1. EventsInv => EventsExact
  BY WaitersAreExact DEF EventsInv, EventsExact
<1> QED BY <1>1, EventsInvariant, PTL

\* An event that is registered and has happened is on the ready list or in what
\* some thread's epoll_wait returned and its Idle has yet to handle
\* (IOManager.cc:305-352).
THEOREM NoEventIsMissed == Spec => []NoMissedEvent
<1>1. EventsInv => NoMissedEvent
  BY DEF EventsInv
<1> QED BY <1>1, EventsInvariant, PTL
=============================================================================
