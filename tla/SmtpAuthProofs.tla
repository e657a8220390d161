---------------------------- MODULE SmtpAuthProofs ----------------------------
(***************************************************************************)
(* Proofs about SmtpAuth, for any peers and addresses, any limit, any      *)
(* TLS modes and any number of faults.                                     *)
(***************************************************************************)
EXTENDS SmtpAuth, FiniteSetTheorems, TLAPS

\* The invariant's part about one connection, and about one address.
Honest(p) ==
    /\ session[p].authenticated => p \in own
    /\ session[p].mail => session[p].authenticated
    /\ mode = "starttls" /\ (Authenticating(p) \/ session[p].authenticated)
           => session[p].tls
    /\ session[p].pc = "data" => session[p].mail

PeersAt(a) == {p \in Peers : AddressOf[p] = a}
LetInAt(a) == {p \in Peers : AddressOf[p] = a /\ LetIn(p)}

Exact(a) ==
    /\ guesses[a] = entry[a].attempts
    /\ entry[a].lock = "none" <=> entry[a].attempts < Limit

Room(a) == guesses[a] + Cardinality(LetInAt(a)) < Limit + Cardinality(PeersAt(a))

LEMMA IInvParts ==
    IInv <=> /\ TypeOK
             /\ \A p \in Peers : Honest(p)
             /\ \A a \in Addresses : Exact(a) /\ Room(a)
  BY DEF IInv, MarksAreOwn, AttemptsExact, Honest, Exact, Room, PeersAt, LetInAt

LEMMA IInvPartsNext ==
    /\ TypeOK'
    /\ (\A p \in Peers : Honest(p))' /\ (\A a \in Addresses : Exact(a) /\ Room(a))'
    => IInv'
  BY DEF IInv, MarksAreOwn, AttemptsExact, Honest, Exact, Room, PeersAt, LetInAt

LEMMA LimitType == Limit \in Nat /\ Limit > 0
  BY BFMaxAssumption DEF Limit

LEMMA PeerHasAddress == \A p \in Peers : AddressOf[p] \in Addresses
  BY AddressAssumption

\* Sets of peers can be counted.
LEMMA PeerCounts ==
    ASSUME NEW S \in SUBSET Peers, NEW T \in SUBSET S
    PROVE  /\ IsFiniteSet(S) /\ Cardinality(S) \in Nat
           /\ IsFiniteSet(T) /\ Cardinality(T) \in Nat
           /\ Cardinality(T) <= Cardinality(S)
  <1>1. IsFiniteSet(S) /\ IsFiniteSet(T) /\ Cardinality(T) <= Cardinality(S)
    BY PeersAssumption, FS_Subset
  <1> QED
    BY <1>1, FS_CardinalityType

\* Below the limit an address has room for all its connections.
LEMMA RoomBelowLimit ==
    ASSUME NEW a \in Addresses, guesses'[a] \in Nat, guesses'[a] < Limit
    PROVE  Room(a)'
  <1>1. LetInAt(a)' \subseteq PeersAt(a) /\ PeersAt(a) \subseteq Peers
    BY DEF LetInAt, PeersAt
  <1>2. /\ Cardinality(LetInAt(a)') \in Nat /\ Cardinality(PeersAt(a)) \in Nat
        /\ Cardinality(LetInAt(a)') <= Cardinality(PeersAt(a))
    BY <1>1, PeerCounts
  <1>3. guesses'[a] + Cardinality(LetInAt(a)') < Limit + Cardinality(PeersAt(a))
    BY <1>2, LimitType
  <1> QED
    BY <1>3 DEF Room, PeersAt, LetInAt

\* A step that lets nobody in leaves the room that is there.
LEMMA RoomKept ==
    ASSUME TypeOK, NEW a \in Addresses, Room(a), guesses'[a] = guesses[a],
           \A q \in Peers : LetIn(q)' => LetIn(q)
    PROVE  Room(a)'
  <1>1. LetInAt(a)' \subseteq LetInAt(a) /\ LetInAt(a) \subseteq Peers /\ PeersAt(a) \subseteq Peers
    BY DEF LetInAt, PeersAt
  <1>2. /\ Cardinality(LetInAt(a)') \in Nat /\ Cardinality(LetInAt(a)) \in Nat
        /\ Cardinality(PeersAt(a)) \in Nat
        /\ Cardinality(LetInAt(a)') <= Cardinality(LetInAt(a))
    BY <1>1, PeerCounts
  <1>3. guesses'[a] + Cardinality(LetInAt(a)') < Limit + Cardinality(PeersAt(a))
    BY <1>2, LimitType DEF Room, TypeOK
  <1> QED
    BY <1>3 DEF Room, PeersAt, LetInAt

\* A failure takes the room of the connection that is done with it.
LEMMA RoomTaken ==
    ASSUME TypeOK, NEW p \in Peers, NEW a \in Addresses, a = AddressOf[p], Room(a),
           guesses'[a] = guesses[a] + 1, LetIn(p), ~LetIn(p)',
           \A q \in Peers : LetIn(q)' => LetIn(q)
    PROVE  Room(a)'
  <1>1. /\ LetInAt(a)' \subseteq LetInAt(a) \ {p} /\ p \in LetInAt(a)
        /\ LetInAt(a) \subseteq Peers /\ PeersAt(a) \subseteq Peers
    BY DEF LetInAt, PeersAt
  <1>2. /\ Cardinality(LetInAt(a)') \in Nat /\ Cardinality(LetInAt(a)) \in Nat
        /\ Cardinality(PeersAt(a)) \in Nat
        /\ Cardinality(LetInAt(a)') <= Cardinality(LetInAt(a) \ {p})
        /\ IsFiniteSet(LetInAt(a))
    BY <1>1, PeerCounts
  <1>3. Cardinality(LetInAt(a) \ {p}) = Cardinality(LetInAt(a)) - 1
    BY <1>1, <1>2, FS_RemoveElement
  <1>4. guesses'[a] + Cardinality(LetInAt(a)') < Limit + Cardinality(PeersAt(a))
    BY <1>2, <1>3, LimitType DEF Room, TypeOK
  <1> QED
    BY <1>4 DEF Room, PeersAt, LetInAt

\* The sessions connections begin with.
LEMMA FirstSessions ==
    /\ NewSession \in Sessions /\ Closed \in Sessions
    /\ Closed.pc = "closed" /\ ~Closed.authenticated /\ ~Closed.mail
    /\ NewSession.pc = "idle" /\ ~NewSession.authenticated /\ ~NewSession.mail
    /\ \A b \in BOOLEAN :
        LET s == [NewSession EXCEPT !.tls = b] IN
        s \in Sessions /\ s.pc = "idle" /\ ~s.authenticated /\ ~s.mail
  BY DEF Sessions, NewSession, Closed

\* A session record with some fields replaced is a session.
LEMMA SessionTypes ==
    ASSUME NEW s \in Sessions
    PROVE  /\ \A pc \in {"closed", "idle", "auth", "await_check", "judge", "await_record", "data"} :
                  [s EXCEPT !.pc = pc] \in Sessions
           /\ [s EXCEPT !.mail = TRUE] \in Sessions
           /\ [s EXCEPT !.pc = "idle", !.mail = FALSE] \in Sessions
           /\ [s EXCEPT !.pc = "idle", !.flag = TRUE, !.authenticated = TRUE] \in Sessions
  BY DEF Sessions

LEMMA InitInvariant == Init => IInv
  <1> SUFFICES ASSUME Init PROVE IInv
    OBVIOUS
  <1>1. /\ Closed \in Sessions /\ Closed.pc = "closed"
        /\ ~Closed.authenticated /\ ~Closed.mail
    BY FirstSessions
  <1>2. TypeOK
    BY <1>1 DEF Init, TypeOK, Entries, Fresh
  <1>3. \A p \in Peers : Honest(p) /\ ~LetIn(p)
    BY <1>1 DEF Init, Honest, Authenticating, LetIn
  <1>4. ASSUME NEW a \in Addresses PROVE Exact(a) /\ Room(a)
    <2>1. guesses[a] = 0 /\ entry[a].attempts = 0 /\ entry[a].lock = "none"
      BY DEF Init, Fresh
    <2>2. LetInAt(a) = {} /\ PeersAt(a) \subseteq Peers
      BY <1>3 DEF LetInAt, PeersAt
    <2>3. Cardinality(LetInAt(a)) = 0 /\ Cardinality(PeersAt(a)) \in Nat
      BY <2>2, PeerCounts, FS_EmptySet
    <2> QED
      BY <2>1, <2>3, LimitType DEF Exact, Room
  <1> QED
    BY <1>2, <1>3, <1>4, IInvParts

\* What a step does to one session, the others being left alone.
LEMMA OneSession ==
    ASSUME TypeOK, NEW p \in Peers, NEW s \in Sessions, session' = [session EXCEPT ![p] = s]
    PROVE  /\ session' \in [Peers -> Sessions] /\ session'[p] = s
           /\ \A q \in Peers \ {p} : session'[q] = session[q]
  BY DEF TypeOK

\* A step of one connection that lets nobody in and records nothing leaves the
\* invariant true if the connection's own marks stay honest.
LEMMA OneConnection ==
    ASSUME IInv, NEW p \in Peers, NEW s \in Sessions, session' = [session EXCEPT ![p] = s],
           s.pc \in {"judge", "await_record"} => LetIn(p), UNCHANGED <<mode, entry, api, guesses>>,
           own' \subseteq Peers, authed_peers' \subseteq Peers, faults' \in Nat,
           \A q \in Peers \ {p} : q \in own' <=> q \in own,
           Honest(p)'
    PROVE  IInv'
  <1>1. /\ TypeOK
        /\ \A q \in Peers : Honest(q)
        /\ \A a \in Addresses : Exact(a) /\ Room(a)
    BY IInvParts
  <1>2. /\ session' \in [Peers -> Sessions] /\ session'[p] = s
        /\ \A q \in Peers \ {p} : session'[q] = session[q]
    BY <1>1, OneSession
  <1>3. TypeOK'
    BY <1>1, <1>2 DEF TypeOK
  <1>4. \A q \in Peers : LetIn(q)' => LetIn(q)
    BY <1>2 DEF LetIn
  <1>5. (\A q \in Peers : Honest(q))'
    BY <1>1, <1>2 DEF Honest, Authenticating, LetIn
  <1>6. (\A a \in Addresses : Exact(a) /\ Room(a))'
    BY <1>1, <1>4, RoomKept DEF Exact
  <1> QED
    BY <1>3, <1>5, <1>6, IInvPartsNext

\* A step of one connection that does something to the counter of its address.
LEMMA OneAddress ==
    ASSUME IInv, NEW p \in Peers, NEW s \in Sessions, session' = [session EXCEPT ![p] = s],
           UNCHANGED <<mode, api, faults>>, TypeOK' <=> session' \in [Peers -> Sessions],
           own \subseteq own', own' \subseteq own \cup {p}, Honest(p)',
           (\A a \in Addresses : Exact(a))',
           \A a \in Addresses \ {AddressOf[p]} : guesses'[a] = guesses[a],
           Room(AddressOf[p])'
    PROVE  IInv'
  <1>1. /\ TypeOK
        /\ \A q \in Peers : Honest(q)
        /\ \A a \in Addresses : Exact(a) /\ Room(a)
    BY IInvParts
  <1>2. /\ session' \in [Peers -> Sessions] /\ session'[p] = s
        /\ \A q \in Peers \ {p} : session'[q] = session[q]
    BY <1>1, OneSession
  <1>3. (\A q \in Peers : Honest(q))'
    BY <1>1, <1>2 DEF Honest, Authenticating, LetIn
  <1>4. ASSUME NEW a \in Addresses, a # AddressOf[p] PROVE Room(a)'
    <2>1. LetInAt(a)' = LetInAt(a) /\ PeersAt(a)' = PeersAt(a)
      BY <1>2, <1>4 DEF LetInAt, PeersAt, LetIn
    <2> QED
      BY <1>1, <1>4, <2>1 DEF Room
  <1> QED
    BY <1>2, <1>3, <1>4, IInvPartsNext

\* An address put back to the Fresh entry.
LEMMA ReleasedStep ==
    ASSUME TypeOK, NEW a \in Addresses, Released(a), \A b \in Addresses : Exact(b)
    PROVE  /\ entry' \in [Addresses -> Entries] /\ guesses' \in [Addresses -> Nat]
           /\ entry'[a] = Fresh /\ guesses'[a] = 0
           /\ \A b \in Addresses \ {a} : entry'[b] = entry[b] /\ guesses'[b] = guesses[b]
           /\ (\A b \in Addresses : Exact(b))'
  <1>1. Fresh \in Entries /\ Fresh.lock = "none" /\ Fresh.attempts = 0
    BY DEF Fresh, Entries
  <1>2. /\ entry' \in [Addresses -> Entries] /\ entry'[a] = Fresh
        /\ \A b \in Addresses \ {a} : entry'[b] = entry[b]
    BY <1>1 DEF Released, TypeOK
  <1>3. /\ guesses' \in [Addresses -> Nat] /\ guesses'[a] = 0
        /\ \A b \in Addresses \ {a} : guesses'[b] = guesses[b]
    BY DEF Released, TypeOK
  <1> QED
    BY <1>1, <1>2, <1>3, LimitType DEF Exact

\* A failure recorded, be the address locked meanwhile or not.
LEMMA FailureStep ==
    ASSUME TypeOK, NEW a \in Addresses, RecordFailure(a), \A b \in Addresses : Exact(b)
    PROVE  /\ entry' \in [Addresses -> Entries] /\ guesses' \in [Addresses -> Nat]
           /\ guesses'[a] = guesses[a] + 1
           /\ \A b \in Addresses \ {a} : entry'[b] = entry[b] /\ guesses'[b] = guesses[b]
           /\ entry'[a].lock = IF guesses[a] + 1 >= Limit THEN "active" ELSE "none"
           /\ (\A b \in Addresses : Exact(b))'
  <1> DEFINE n == entry[a].attempts + 1
             e == [attempts |-> n, lock |-> IF Locks(n) THEN "active" ELSE entry[a].lock]
  <1>1. entry[a] \in Entries /\ entry[a].attempts \in Nat /\ guesses[a] = entry[a].attempts
    BY DEF TypeOK, Entries, Exact
  <1>2. n >= BF_MAX <=> n >= Limit
    BY <1>1, BFMaxAssumption DEF Limit
  <1>3. n < Limit => entry[a].lock = "none"
    BY <1>1, LimitType DEF Exact
  <1>4. /\ e \in Entries /\ e.attempts = guesses[a] + 1
        /\ e.lock = IF guesses[a] + 1 >= Limit THEN "active" ELSE "none"
    BY <1>1, <1>2, <1>3, LimitType DEF Entries, Locks
  <1>5. entry' = [entry EXCEPT ![a] = e] /\ guesses' = [guesses EXCEPT ![a] = @ + 1]
    BY DEF RecordFailure
  <1> HIDE DEF e, n
  <1>6. /\ entry' \in [Addresses -> Entries] /\ entry'[a] = e
        /\ \A b \in Addresses \ {a} : entry'[b] = entry[b]
    BY <1>4, <1>5 DEF TypeOK
  <1>7. /\ guesses' \in [Addresses -> Nat] /\ guesses'[a] = guesses[a] + 1
        /\ \A b \in Addresses \ {a} : guesses'[b] = guesses[b]
    BY <1>5 DEF TypeOK
  <1>8. Exact(a)'
    BY <1>1, <1>4, <1>6, <1>7, LimitType DEF Exact
  <1>9. ASSUME NEW b \in Addresses, b # a PROVE Exact(b)'
    BY <1>6, <1>7, <1>9 DEF Exact
  <1> QED
    BY <1>4, <1>6, <1>7, <1>8, <1>9

\* is_locked lets somebody in: the address is below the limit, or is again.
LEMMA CheckStep ==
    ASSUME IInv, NEW p \in Peers, Check(p)
    PROVE  /\ entry' \in [Addresses -> Entries] /\ guesses' \in [Addresses -> Nat]
           /\ guesses'[AddressOf[p]] < Limit
           /\ guesses' = [guesses EXCEPT ![AddressOf[p]] = IF @ >= Limit THEN 0 ELSE @]
           /\ entry'[AddressOf[p]].lock = "none"
           /\ \A b \in Addresses \ {AddressOf[p]} : entry'[b] = entry[b] /\ guesses'[b] = guesses[b]
           /\ (\A b \in Addresses : Exact(b))'
  <1> DEFINE a == AddressOf[p]
  <1>1. TypeOK /\ (\A b \in Addresses : Exact(b)) /\ a \in Addresses
    BY IInvParts, PeerHasAddress
  <1>2. ~IsLocked(a) /\ Cleared(a)
    BY DEF Check
  <1>3. guesses \in [Addresses -> Nat] /\ entry[a] \in Entries
    BY <1>1 DEF TypeOK
  <1> HIDE DEF a
  <1>4. CASE entry[a].lock = "expired"
    <2>1. Released(a)
      BY <1>2, <1>4 DEF Cleared, Released
    <2>2. guesses[a] >= Limit
      BY <1>1, <1>3, <1>4, LimitType DEF Exact, Entries
    <2>3. guesses' = [guesses EXCEPT ![a] = 0]
      BY <2>1 DEF Released
    <2>4. guesses' = [guesses EXCEPT ![a] = IF @ >= Limit THEN 0 ELSE @]
      BY <2>2, <2>3
    <2>5. Fresh.lock = "none"
      BY DEF Fresh
    <2> QED
      BY <1>1, <2>1, <2>4, <2>5, ReleasedStep, LimitType DEF a
  <1>5. CASE entry[a].lock # "expired"
    <2>1. entry' = entry /\ guesses' = guesses
      BY <1>2, <1>5 DEF Cleared, Lockout
    <2>2. entry[a].lock = "none"
      BY <1>2, <1>3, <1>5 DEF IsLocked, Entries
    <2>3. guesses[a] < Limit /\ guesses[a] \in Nat
      BY <1>1, <1>3, <2>2 DEF Exact
    <2>4. [guesses EXCEPT ![a] = IF @ >= Limit THEN 0 ELSE @] = guesses
      BY <1>3, <2>3, LimitType
    <2>5. (\A b \in Addresses : Exact(b))'
      BY <1>1, <2>1 DEF Exact
    <2>6. entry' \in [Addresses -> Entries]
      BY <1>1, <2>1 DEF TypeOK
    <2> QED
      BY <1>3, <2>1, <2>2, <2>3, <2>4, <2>5, <2>6 DEF a
  <1> QED
    BY <1>4, <1>5

\* The judgement of a password, and what leads to it.
LEMMA JudgementStep ==
    ASSUME IInv, NEW p \in Peers, Check(p) \/ Reject(p) \/ Admit(p)
    PROVE  IInv'
  <1>1. /\ TypeOK /\ Honest(p)
        /\ \A b \in Addresses : Exact(b) /\ Room(b)
    BY IInvParts
  <1>2. AddressOf[p] \in Addresses /\ session[p] \in Sessions
    BY <1>1, PeerHasAddress DEF TypeOK
  <1>3. CASE Check(p)
    <2> DEFINE s == [session[p] EXCEPT !.pc = "judge"]
    <2>1. s \in Sessions /\ session' = [session EXCEPT ![p] = s]
      BY <1>2, <1>3, SessionTypes DEF Check, Goto
    <2>2. /\ s.tls = session[p].tls /\ s.mail = session[p].mail /\ s.pc = "judge"
          /\ s.authenticated = session[p].authenticated
      BY <1>2 DEF Sessions
    <2>3. session[p].pc \in {"auth", "await_check"} /\ UNCHANGED <<mode, authed_peers, own, api, faults>>
      BY <1>3 DEF Check
    <2> HIDE DEF s
    <2>4. session'[p] = s
      BY <1>1, <2>1, OneSession
    <2>5. Honest(p)'
      BY <1>1, <2>2, <2>3, <2>4 DEF Honest, Authenticating
    <2>6. Room(AddressOf[p])'
      BY <1>2, <1>3, CheckStep, RoomBelowLimit
    <2>7. TypeOK' <=> session' \in [Peers -> Sessions]
      BY <1>1, <1>3, <2>3, CheckStep DEF TypeOK
    <2> QED
      BY <1>3, <2>1, <2>3, <2>5, <2>6, <2>7, CheckStep, OneAddress
  <1>4. CASE Reject(p)
    <2> DEFINE s == [session[p] EXCEPT !.pc = "idle"]
    <2>1. s \in Sessions /\ session' = [session EXCEPT ![p] = s]
      BY <1>2, <1>4, SessionTypes DEF Reject, Goto
    <2>2. /\ s.tls = session[p].tls /\ s.mail = session[p].mail /\ s.pc = "idle"
          /\ s.authenticated = session[p].authenticated
      BY <1>2 DEF Sessions
    <2>3. LetIn(p) /\ RecordFailure(AddressOf[p]) /\ UNCHANGED <<mode, authed_peers, own, api, faults>>
      BY <1>4 DEF Reject, LetIn
    <2> HIDE DEF s
    <2>4. session'[p] = s /\ \A q \in Peers \ {p} : session'[q] = session[q]
      BY <1>1, <2>1, OneSession
    <2>5. Honest(p)'
      BY <1>1, <2>2, <2>3, <2>4 DEF Honest, Authenticating, LetIn
    <2>6. ~LetIn(p)' /\ \A q \in Peers : LetIn(q)' => LetIn(q)
      BY <2>2, <2>3, <2>4 DEF LetIn
    <2>7. /\ entry' \in [Addresses -> Entries] /\ guesses' \in [Addresses -> Nat]
          /\ guesses'[AddressOf[p]] = guesses[AddressOf[p]] + 1
          /\ \A b \in Addresses \ {AddressOf[p]} : guesses'[b] = guesses[b]
          /\ (\A b \in Addresses : Exact(b))'
      BY <1>1, <1>2, <2>3, FailureStep
    <2>8. Room(AddressOf[p])'
      BY <1>1, <1>2, <2>3, <2>6, <2>7, RoomTaken
    <2>9. TypeOK' <=> session' \in [Peers -> Sessions]
      BY <1>1, <2>3, <2>7 DEF TypeOK
    <2> QED
      BY <2>1, <2>3, <2>5, <2>7, <2>8, <2>9, OneAddress
  <1>5. CASE Admit(p)
    <2> DEFINE s == [session[p] EXCEPT !.pc = "idle", !.flag = TRUE, !.authenticated = TRUE]
    <2>1. s \in Sessions /\ session' = [session EXCEPT ![p] = s]
      BY <1>2, <1>5, SessionTypes DEF Admit
    <2>2. s.pc = "idle" /\ s.tls = session[p].tls /\ s.mail = session[p].mail /\ s.authenticated
      BY <1>2 DEF Sessions
    <2>3. LetIn(p) /\ Released(AddressOf[p]) /\ UNCHANGED <<mode, api, faults>>
          /\ authed_peers' = authed_peers \cup {p} /\ own' = own \cup {p}
      BY <1>5 DEF Admit, Marked, LetIn
    <2> HIDE DEF s
    <2>4. session'[p] = s
      BY <1>1, <2>1, OneSession
    <2>5. Honest(p)'
      BY <1>1, <2>2, <2>3, <2>4 DEF Honest, Authenticating, LetIn
    <2>6. /\ entry' \in [Addresses -> Entries] /\ guesses' \in [Addresses -> Nat]
          /\ guesses'[AddressOf[p]] = 0
          /\ \A b \in Addresses \ {AddressOf[p]} : guesses'[b] = guesses[b]
          /\ (\A b \in Addresses : Exact(b))'
      BY <1>1, <1>2, <2>3, ReleasedStep
    <2>7. Room(AddressOf[p])'
      BY <1>2, <2>6, LimitType, RoomBelowLimit
    <2>8. TypeOK' <=> session' \in [Peers -> Sessions]
      BY <1>1, <2>3, <2>6 DEF TypeOK
    <2> QED
      BY <2>1, <2>3, <2>5, <2>6, <2>7, <2>8, OneAddress
  <1> QED
    BY <1>3, <1>4, <1>5

\* The other steps of a connection.
LEMMA ConnectionStep ==
    ASSUME IInv, NEW p \in Peers,
           \/ Connect(p) \/ StartTls(p) \/ Auth(p) \/ QueueCheck(p) \/ Refuse(p)
           \/ UnknownMechanism(p) \/ QueueRecord(p) \/ Contended(p) \/ MailFrom(p) \/ Data(p) \/ DataDone(p) \/ Quit(p) \/ Drop(p)
    PROVE  IInv'
  <1>1. TypeOK /\ Honest(p)
    BY IInvParts
  <1>2. session[p] \in Sessions
    BY <1>1 DEF TypeOK
  <1>3. /\ UNCHANGED <<mode, entry, api, guesses>>
        /\ own' \subseteq Peers /\ authed_peers' \subseteq Peers /\ faults' \in Nat
        /\ \A q \in Peers \ {p} : q \in own' <=> q \in own
    BY <1>1 DEF Connect, StartTls, Auth, QueueCheck, Refuse, UnknownMechanism, QueueRecord, Contended, MailFrom, Data,
       DataDone, Quit, Drop, Lockout, Fault, TypeOK
  \* A session without marks.
  <1>4. ASSUME NEW s \in Sessions, session' = [session EXCEPT ![p] = s],
               s.pc \in {"idle", "closed"}, ~s.authenticated, ~s.mail
        PROVE  IInv'
    <2>1. session'[p] = s
      BY <1>1, <1>4, OneSession
    <2>2. Honest(p)'
      BY <1>4, <2>1 DEF Honest, Authenticating, LetIn
    <2> QED
      BY <1>3, <1>4, <2>2, OneConnection
  \* A session that goes on with its marks at another point.
  <1>5. ASSUME NEW pc \in {"idle", "auth", "await_check", "await_record", "data"}, Goto(p, pc), own' = own,
               pc = "auth" => TlsSuffices(p),
               pc \in {"await_check", "await_record"} => Authenticating(p),
               pc = "await_record" => LetIn(p),
               pc = "data" => session[p].mail
        PROVE  IInv'
    <2> DEFINE s == [session[p] EXCEPT !.pc = pc]
    <2>1. s \in Sessions /\ session' = [session EXCEPT ![p] = s]
      BY <1>2, <1>5, SessionTypes DEF Goto
    <2>2. /\ s.pc = pc /\ s.tls = session[p].tls /\ s.mail = session[p].mail
          /\ s.authenticated = session[p].authenticated
      BY <1>2 DEF Sessions
    <2> HIDE DEF s
    <2>3. session'[p] = s
      BY <1>1, <2>1, OneSession
    <2>4. Honest(p)'
      BY <1>1, <1>3, <1>5, <2>2, <2>3 DEF Honest, TlsSuffices, Authenticating, LetIn
    <2> QED
      BY <1>3, <1>5, <2>1, <2>2, <2>4, OneConnection
  <1>6. CASE Connect(p)
    BY <1>4, <1>6, FirstSessions DEF Connect
  <1>7. CASE StartTls(p)
    BY <1>4, <1>7, FirstSessions, TlsSeenAssumption DEF StartTls
  <1>8. CASE Auth(p)
    BY <1>5, <1>8 DEF Auth, Authenticating, LetIn
  <1>9. CASE Refuse(p) \/ UnknownMechanism(p) \/ Contended(p)
    BY <1>5, <1>9 DEF Refuse, UnknownMechanism, Contended
  <1>10. CASE MailFrom(p)
    <2> DEFINE s == [session[p] EXCEPT !.mail = TRUE]
    <2>1. /\ s \in Sessions /\ session' = [session EXCEPT ![p] = s]
          /\ session[p].pc = "idle" /\ session[p].authenticated /\ own' = own
      BY <1>2, <1>10, SessionTypes DEF MailFrom, AuthRequired
    <2>2. /\ s.pc = "idle" /\ s.tls = session[p].tls
          /\ s.authenticated = session[p].authenticated
      BY <1>2, <2>1 DEF Sessions
    <2> HIDE DEF s
    <2>3. session'[p] = s
      BY <1>1, <2>1, OneSession
    <2>4. Honest(p)'
      BY <1>1, <1>3, <2>1, <2>2, <2>3 DEF Honest, Authenticating, LetIn
    <2> QED
      BY <1>3, <2>1, <2>2, <2>4, OneConnection
  <1>11. CASE Data(p)
    BY <1>5, <1>11 DEF Data
  <1>12. CASE DataDone(p)
    <2> DEFINE s == [session[p] EXCEPT !.pc = "idle", !.mail = FALSE]
    <2>1. s \in Sessions /\ session' = [session EXCEPT ![p] = s] /\ own' = own
      BY <1>2, <1>12, SessionTypes DEF DataDone
    <2>2. /\ s.pc = "idle" /\ s.tls = session[p].tls /\ ~s.mail
          /\ s.authenticated = session[p].authenticated
      BY <1>2 DEF Sessions
    <2> HIDE DEF s
    <2>3. session'[p] = s
      BY <1>1, <2>1, OneSession
    <2>4. Honest(p)'
      BY <1>1, <1>3, <2>1, <2>2, <2>3 DEF Honest, Authenticating, LetIn
    <2> QED
      BY <1>3, <2>1, <2>2, <2>4, OneConnection
  <1>13. CASE Quit(p) \/ Drop(p)
    BY <1>4, <1>13, FirstSessions DEF Quit, Drop
  <1>14. CASE QueueCheck(p)
    BY <1>5, <1>14 DEF QueueCheck, Authenticating
  <1>15. CASE QueueRecord(p)
    BY <1>5, <1>15 DEF QueueRecord, Authenticating, LetIn
  <1> QED
    BY <1>6, <1>7, <1>8, <1>9, <1>10, <1>11, <1>12, <1>13, <1>14, <1>15

\* The administrator, the clock, and a new process.
LEMMA WorldStep ==
    ASSUME IInv,
           \/ ApiTakes \/ Status
           \/ \E a \in Addresses : ResetIp(a) \/ LockRunsOut(a)
           \/ \E tls_mode \in Modes : Restart(tls_mode)
    PROVE  IInv'
  <1>1. /\ TypeOK
        /\ \A q \in Peers : Honest(q)
        /\ \A b \in Addresses : Exact(b) /\ Room(b)
    BY IInvParts
  <1>2. ASSUME UNCHANGED <<mode, session, authed_peers, own, faults>>, api' \in BOOLEAN,
               entry' \in [Addresses -> Entries], guesses' \in [Addresses -> Nat],
               (\A b \in Addresses : Exact(b))',
               \A b \in Addresses : guesses'[b] = guesses[b] \/ guesses'[b] < Limit
        PROVE  IInv'
    <2>1. TypeOK'
      BY <1>1, <1>2 DEF TypeOK
    <2>2. (\A q \in Peers : Honest(q))'
      BY <1>1, <1>2 DEF Honest, Authenticating, LetIn
    <2>3. \A q \in Peers : LetIn(q)' => LetIn(q)
      BY <1>2 DEF LetIn
    <2>4. ASSUME NEW b \in Addresses PROVE Room(b)'
      BY <1>1, <1>2, <2>3, RoomKept, RoomBelowLimit
    <2> QED
      BY <1>2, <2>1, <2>2, <2>4, IInvPartsNext
  <1>3. CASE ApiTakes \/ Status
    <2>1. UNCHANGED <<mode, session, authed_peers, own, faults, entry, guesses>> /\ api' \in BOOLEAN
      BY <1>3 DEF ApiTakes, Status, Lockout
    <2> QED
      BY <1>1, <1>2, <2>1 DEF TypeOK, Exact
  <1>4. ASSUME NEW a \in Addresses, ResetIp(a) PROVE IInv'
    <2>1. Released(a) /\ api' \in BOOLEAN /\ UNCHANGED <<mode, session, authed_peers, own, faults>>
      BY <1>4 DEF ResetIp
    <2> QED
      BY <1>1, <1>2, <2>1, ReleasedStep, LimitType
  <1>5. ASSUME NEW a \in Addresses, LockRunsOut(a) PROVE IInv'
    <2> DEFINE e == [entry[a] EXCEPT !.lock = "expired"]
    <2>1. entry[a] \in Entries
      BY <1>1 DEF TypeOK
    <2>2. e \in Entries /\ e.lock = "expired" /\ e.attempts = entry[a].attempts
      BY <2>1 DEF Entries
    <2>3. entry[a].lock = "active" /\ entry' = [entry EXCEPT ![a] = e]
          /\ UNCHANGED <<mode, session, authed_peers, own, api, guesses, faults>>
      BY <1>5 DEF LockRunsOut
    <2> HIDE DEF e
    <2>4. /\ entry' \in [Addresses -> Entries] /\ entry'[a] = e
          /\ \A b \in Addresses \ {a} : entry'[b] = entry[b]
      BY <1>1, <2>2, <2>3 DEF TypeOK
    <2>5. ASSUME NEW b \in Addresses PROVE Exact(b)'
      BY <1>1, <2>2, <2>3, <2>4 DEF Exact
    <2>6. guesses' \in [Addresses -> Nat] /\ api' \in BOOLEAN
      BY <1>1, <2>3 DEF TypeOK
    <2> QED
      BY <1>2, <2>3, <2>4, <2>5, <2>6
  <1>6. ASSUME NEW tls_mode \in Modes, Restart(tls_mode) PROVE IInv'
    <2>1. Closed \in Sessions /\ Closed.pc = "closed" /\ ~Closed.authenticated /\ ~Closed.mail
      BY FirstSessions
    <2>2. TypeOK'
      <3>1. entry' \in [Addresses -> Entries] /\ guesses' \in [Addresses -> Nat]
        BY <1>6 DEF Restart, Entries, Fresh
      <3>2. faults' \in Nat
        BY <1>1, <1>6 DEF Restart, Fault, TypeOK
      <3>3. api' \in BOOLEAN
        BY <1>6, Zenon DEF Restart
      <3>4. /\ mode' \in Modes /\ session' \in [Peers -> Sessions]
            /\ authed_peers' \subseteq Peers /\ own' \subseteq Peers
        BY <1>6, <2>1 DEF Restart
      <3> QED
        BY <3>1, <3>2, <3>3, <3>4 DEF TypeOK
    <2>3. \A p \in Peers : session'[p] = Closed
      BY <1>6 DEF Restart
    <2>4. (\A p \in Peers : Honest(p))'
      BY <2>1, <2>3 DEF Honest, Authenticating, LetIn
    <2>5. ASSUME NEW a \in Addresses PROVE Exact(a)' /\ Room(a)'
      <3>1. entry'[a].attempts = 0 /\ entry'[a].lock = "none" /\ guesses'[a] = 0
        BY <1>6 DEF Restart, Fresh
      <3> QED
        BY <3>1, LimitType, RoomBelowLimit DEF Exact
    <2> QED
      BY <2>2, <2>4, <2>5, IInvPartsNext
  <1> QED
    BY <1>3, <1>4, <1>5, <1>6

\* The inductive invariant holds in every behaviour of the engine.
THEOREM Invariance == Spec => []IInv
  <1>1. IInv /\ [Next]_vars => IInv'
    <2> SUFFICES ASSUME IInv, [Next]_vars PROVE IInv'
      OBVIOUS
    <2>1. CASE UNCHANGED vars
      BY <2>1 DEF vars, IInv, TypeOK, MarksAreOwn, AttemptsExact, Authenticating, LetIn
    <2> QED
      BY <2>1, JudgementStep, ConnectionStep, WorldStep DEF Next
  <1> QED
    BY InitInvariant, <1>1, PTL DEF Spec

\* Type correctness of sessions, the table of peers and the lockout's entries.
THEOREM TypeCorrect == Spec => []TypeOK
  <1>1. IInv => TypeOK
    BY DEF IInv
  <1> QED
    BY Invariance, <1>1, PTL

\* No mail is taken on but over a connection that gave the right password.
THEOREM AuthPrecedesRelay == Spec => []NoRelayWithoutAuth
  <1>1. IInv => NoRelayWithoutAuth
    BY DEF IInv, MarksAreOwn, NoRelayWithoutAuth
  <1> QED
    BY Invariance, <1>1, PTL

\* In the mode "starttls" no mail is taken on in the clear.
THEOREM TlsPrecedesRelay == Spec => []EncryptedAsDemanded
  <1>1. IInv => EncryptedAsDemanded
    BY DEF IInv, MarksAreOwn, EncryptedAsDemanded
  <1> QED
    BY Invariance, <1>1, PTL

\* However many connections an address has, and however they wait for the lock,
\* it gets one wrong password for each of them beyond the limit at most.
THEOREM GuessesAreBounded == Spec => []GuessesBounded
  <1>1. IInv => GuessesBounded
    <2> SUFFICES ASSUME IInv, NEW a \in Addresses
                 PROVE  guesses[a] < Limit + Cardinality(PeersAt(a))
      BY DEF GuessesBounded, PeersAt
    <2>1. TypeOK /\ Room(a)
      BY IInvParts
    <2>2. LetInAt(a) \subseteq PeersAt(a) /\ PeersAt(a) \subseteq Peers
      BY DEF LetInAt, PeersAt
    <2>3. Cardinality(LetInAt(a)) \in Nat /\ Cardinality(PeersAt(a)) \in Nat
      BY <2>2, PeerCounts
    <2> QED
      BY <2>1, <2>3, LimitType DEF Room, TypeOK
  <1> QED
    BY Invariance, <1>1, PTL

----------------------------------------------------------------------------
(* The engine keeps the promise of SubmissionGate. *)

Shut == {a \in Addresses : IsLocked(a)}
Judging == {p \in Peers : LetIn(p)}
Taking == {p \in Peers : session[p].pc = "data"}

\* A step that leaves the lockout alone changes nothing of an address.
LEMMA LockoutKept == UNCHANGED Lockout => guesses' = guesses /\ Shut' = Shut
<1> QED BY DEF Lockout, Shut, IsLocked

\* A step of one connection changes what becomes of itself only.
LEMMA SetsOfOne ==
    ASSUME TypeOK, NEW p \in Peers, NEW s \in Sessions, session' = [session EXCEPT ![p] = s]
    PROVE  /\ Taking' = IF s.pc = "data" THEN Taking \cup {p} ELSE Taking \ {p}
           /\ Judging' = IF s.pc \in {"judge", "await_record"} THEN Judging \cup {p} ELSE Judging \ {p}
<1>1. session'[p] = s /\ \A q \in Peers \ {p} : session'[q] = session[q]
  BY OneSession
<1> QED BY <1>1 DEF Taking, Judging, LetIn

\* Where nothing but the point of a connection changes, and not to or from the
\* taking of mail or the judgement, the gate does not move.
LEMMA GateStutters ==
    ASSUME TypeOK, NEW p \in Peers, NEW s \in Sessions, session' = [session EXCEPT ![p] = s],
           s.pc # "data", session[p].pc # "data",
           s.pc \in {"judge", "await_record"} <=> LetIn(p), UNCHANGED <<own, Lockout>>
    PROVE  UNCHANGED Gate!vars
<1>1. Taking' = Taking /\ Judging' = Judging
  BY SetsOfOne DEF Taking, Judging
<1> QED BY <1>1, LockoutKept DEF Gate!vars, Shut, Taking, Judging

\* A connection that was let in, or not, ends without a password that counts.
LEMMA GateUndecided ==
    ASSUME TypeOK, NEW p \in Peers, NEW s \in Sessions, session' = [session EXCEPT ![p] = s],
           s.pc = "idle", session[p].pc # "data", UNCHANGED <<own, Lockout>>
    PROVE  Gate!Undecided(p)
<1>1. Taking' = Taking /\ Judging' = Judging \ {p}
  BY SetsOfOne DEF Taking
<1> QED BY <1>1, LockoutKept DEF Gate!Undecided, Shut, Taking, Judging

\* A connection that ends, or begins anew, leaves.
LEMMA GateLeft ==
    ASSUME TypeOK, NEW p \in Peers, NEW s \in Sessions, session' = [session EXCEPT ![p] = s],
           s.pc \in {"idle", "closed"}, own' = own \ {p}, UNCHANGED Lockout
    PROVE  Gate!Leave(p)
<1>1. Taking' = Taking \ {p} /\ Judging' = Judging \ {p}
  BY SetsOfOne
<1> QED BY <1>1, LockoutKept DEF Gate!Leave, Shut, Taking, Judging

\* The store forgets an address as the promise has it, and the history with it.
LEMMA GateForgives ==
    ASSUME TypeOK, NEW a \in Addresses, Released(a)
    PROVE  Gate!Forgive(a)
<1>1. /\ entry'[a].lock = "none"
      /\ \A b \in Addresses \ {a} : entry'[b] = entry[b]
      /\ guesses' = [guesses EXCEPT ![a] = 0]
  BY DEF Released, Fresh, TypeOK
<1>2. Shut' = Shut \ {a}
  BY <1>1 DEF Shut, IsLocked
<1> QED BY <1>1, <1>2 DEF Gate!Forgive, Shut

\* is_locked lets in whom the gate lets in, and clears what the gate forgets.
LEMMA GateCheck ==
    ASSUME IInv, NEW p \in Peers, Check(p)
    PROVE  Gate!LetIn(p)
<1>0. TypeOK
  BY DEF IInv
<1> DEFINE a == AddressOf[p]
           s == [session[p] EXCEPT !.pc = "judge"]
<1>1. a \in Addresses /\ session[p] \in Sessions
  BY <1>0, PeerHasAddress DEF TypeOK
<1>2. s \in Sessions /\ s.pc = "judge" /\ session[p].pc # "data"
  BY <1>1 DEF Sessions, Check
<1>3. session' = [session EXCEPT ![p] = s] /\ own' = own /\ ~IsLocked(a)
  BY DEF Check, Goto
<1> HIDE DEF s
<1>4. Taking' = Taking /\ Judging' = Judging \cup {p}
  BY <1>0, <1>2, <1>3, SetsOfOne DEF Taking
<1>5. /\ guesses' = [guesses EXCEPT ![a] = IF @ >= Limit THEN 0 ELSE @]
      /\ entry'[a].lock = "none"
      /\ \A b \in Addresses \ {a} : entry'[b] = entry[b]
  BY CheckStep
<1> HIDE DEF a
<1>6. Shut' = Shut /\ a \notin Shut
  BY <1>1, <1>3, <1>5 DEF Shut, IsLocked
<1> QED BY <1>3, <1>4, <1>5, <1>6 DEF Gate!LetIn, Shut, Taking, Judging, a

\* A wrong password is one try more, and the last one shuts the address out.
LEMMA GateReject ==
    ASSUME IInv, NEW p \in Peers, Reject(p)
    PROVE  Gate!Wrong(p)
<1>0. TypeOK /\ \A b \in Addresses : Exact(b)
  BY IInvParts
<1> DEFINE a == AddressOf[p]
           s == [session[p] EXCEPT !.pc = "idle"]
<1>1. a \in Addresses /\ session[p] \in Sessions
  BY <1>0, PeerHasAddress DEF TypeOK
<1>2. s \in Sessions /\ s.pc = "idle" /\ session[p].pc # "data" /\ p \in Judging
  BY <1>1 DEF Sessions, Reject, Judging, LetIn
<1>3. session' = [session EXCEPT ![p] = s] /\ own' = own /\ RecordFailure(a)
  BY DEF Reject, Goto
<1> HIDE DEF s, a
<1>4. Taking' = Taking /\ Judging' = Judging \ {p}
  BY <1>0, <1>2, <1>3, SetsOfOne DEF Taking
<1>5. /\ entry'[a].lock = IF guesses[a] + 1 >= Limit THEN "active" ELSE "none"
      /\ \A b \in Addresses \ {a} : entry'[b] = entry[b]
  BY <1>0, <1>1, <1>3, FailureStep
<1>6. guesses' = [guesses EXCEPT ![a] = @ + 1]
  BY <1>3 DEF RecordFailure
<1>7. Shut' = IF guesses[a] + 1 >= Limit THEN Shut \cup {a} ELSE Shut
  <2>1. guesses[a] \in Nat /\ guesses[a] = entry[a].attempts
    BY <1>0, <1>1 DEF TypeOK, Exact
  <2>2. a \in Shut' <=> guesses[a] + 1 >= Limit
    BY <1>1, <1>5 DEF Shut, IsLocked
  <2>3. a \in Shut => guesses[a] >= Limit
    BY <1>0, <1>1, <2>1, LimitType DEF Shut, IsLocked, Exact
  <2>4. \A b \in Addresses \ {a} : b \in Shut' <=> b \in Shut
    BY <1>5 DEF Shut, IsLocked
  <2>5. Shut \subseteq Addresses /\ Shut' \subseteq Addresses
    BY DEF Shut
  <2>6. guesses[a] + 1 < Limit => a \notin Shut
    BY <2>1, <2>3, LimitType
  <2> QED BY <1>1, <2>1, <2>2, <2>4, <2>5, <2>6, LimitType
<1> QED BY <1>2, <1>3, <1>4, <1>6, <1>7 DEF Gate!Wrong, Shut, Taking, Judging, a

\* The right password opens the gate to the peer.
LEMMA GateAdmit ==
    ASSUME IInv, NEW p \in Peers, Admit(p)
    PROVE  Gate!Right(p)
<1>0. TypeOK
  BY DEF IInv
<1> DEFINE s == [session[p] EXCEPT !.pc = "idle", !.flag = TRUE, !.authenticated = TRUE]
<1>1. session[p] \in Sessions /\ session[p].pc # "data" /\ p \in Judging /\ AddressOf[p] \in Addresses
  BY <1>0, PeerHasAddress DEF Admit, TypeOK, Judging, LetIn
<1>2. s \in Sessions /\ s.pc = "idle"
  BY <1>1 DEF Sessions
<1>3. session' = [session EXCEPT ![p] = s] /\ Released(AddressOf[p]) /\ own' = own \cup {p}
  BY DEF Admit
<1> HIDE DEF s
<1>4. Taking' = Taking /\ Judging' = Judging \ {p}
  BY <1>0, <1>1, <1>2, <1>3, SetsOfOne DEF Taking
<1>5. Gate!Forgive(AddressOf[p])
  BY <1>0, <1>1, <1>3, GateForgives
<1> QED BY <1>1, <1>3, <1>4, <1>5 DEF Gate!Right, Shut, Taking, Judging

\* handle_DATA and what follows it.
LEMMA GateMail ==
    ASSUME IInv, NEW p \in Peers
    PROVE  /\ Data(p) => Gate!Take(p)
           /\ DataDone(p) => Gate!Taken(p)
<1>0. TypeOK /\ Honest(p)
  BY IInvParts
<1>1. session[p] \in Sessions
  BY <1>0 DEF TypeOK
<1>2. ASSUME Data(p) PROVE Gate!Take(p)
  <2>1. p \in own
    BY <1>0, <1>2 DEF Honest, Data
  <2> DEFINE s == [session[p] EXCEPT !.pc = "data"]
  <2>2. s \in Sessions /\ s.pc = "data"
    BY <1>1 DEF Sessions
  <2>4. session' = [session EXCEPT ![p] = s]
    BY <1>2 DEF Data, Goto
  <2> HIDE DEF s
  <2>3. Taking' = Taking \cup {p} /\ Judging' = Judging
    BY <1>0, <1>2, <2>2, <2>4, SetsOfOne DEF Data, Judging, LetIn
  <2> QED BY <1>2, <2>1, <2>3, LockoutKept DEF Data, Gate!Take, Shut, Taking, Judging
<1>3. ASSUME DataDone(p) PROVE Gate!Taken(p)
  <2> DEFINE s == [session[p] EXCEPT !.pc = "idle", !.mail = FALSE]
  <2>1. s \in Sessions /\ s.pc = "idle"
    BY <1>1 DEF Sessions
  <2>2. session' = [session EXCEPT ![p] = s]
    BY <1>3 DEF DataDone
  <2> HIDE DEF s
  <2>3. Taking' = Taking \ {p} /\ Judging' = Judging
    BY <1>0, <1>3, <2>1, <2>2, SetsOfOne DEF DataDone, Judging, LetIn
  <2> QED BY <1>3, <2>3, LockoutKept DEF DataDone, Gate!Taken, Shut, Taking, Judging
<1> QED BY <1>2, <1>3

\* A connection's other steps.
LEMMA GateConnection ==
    ASSUME IInv, NEW p \in Peers
    PROVE  /\ Connect(p) \/ Auth(p) \/ QueueCheck(p) \/ QueueRecord(p) \/ Refuse(p) \/ MailFrom(p)
                  => UNCHANGED Gate!vars
           /\ UnknownMechanism(p) \/ Contended(p) => Gate!Undecided(p)
           /\ StartTls(p) \/ Quit(p) \/ Drop(p) => Gate!Leave(p)
<1>0. TypeOK
  BY DEF IInv
<1>1. session[p] \in Sessions
  BY <1>0 DEF TypeOK
<1>2. ASSUME NEW pc \in {"idle", "auth", "await_check", "await_record"}, Goto(p, pc),
             session[p].pc # "data", pc = "await_record" <=> LetIn(p), UNCHANGED <<own, Lockout>>
      PROVE  UNCHANGED Gate!vars
  <2> DEFINE s == [session[p] EXCEPT !.pc = pc]
  <2>1. s \in Sessions /\ s.pc = pc
    BY <1>1 DEF Sessions
  <2>2. session' = [session EXCEPT ![p] = s]
    BY <1>2 DEF Goto
  <2> HIDE DEF s
  <2> QED BY <1>0, <1>2, <2>1, <2>2, GateStutters
<1>3. ASSUME \/ Connect(p) \/ Auth(p) \/ QueueCheck(p) \/ QueueRecord(p) \/ Refuse(p) \/ MailFrom(p)
      PROVE  UNCHANGED Gate!vars
  <2>1. CASE Connect(p)
    BY <1>0, <2>1, FirstSessions, GateStutters DEF Connect, LetIn
  <2>2. CASE Auth(p)
    BY <1>2, <2>2 DEF Auth, LetIn
  <2>3. CASE QueueCheck(p)
    BY <1>2, <2>3 DEF QueueCheck, LetIn
  <2>4. CASE QueueRecord(p)
    BY <1>2, <2>4 DEF QueueRecord, LetIn
  <2>5. CASE Refuse(p)
    BY <1>2, <2>5 DEF Refuse, LetIn
  <2>6. CASE MailFrom(p)
    <3> DEFINE s == [session[p] EXCEPT !.mail = TRUE]
    <3>1. s \in Sessions /\ s.pc = session[p].pc
      BY <1>1 DEF Sessions
    <3>2. session' = [session EXCEPT ![p] = s] /\ session[p].pc = "idle" /\ UNCHANGED <<own, Lockout>>
      BY <2>6 DEF MailFrom
    <3> HIDE DEF s
    <3> QED BY <1>0, <3>1, <3>2, GateStutters DEF LetIn
  <2> QED BY <1>3, <2>1, <2>2, <2>3, <2>4, <2>5, <2>6
<1>4. ASSUME UnknownMechanism(p) \/ Contended(p)
      PROVE  Gate!Undecided(p)
  <2> DEFINE s == [session[p] EXCEPT !.pc = "idle"]
  <2>1. s \in Sessions /\ s.pc = "idle"
    BY <1>1 DEF Sessions
  <2>2. /\ session' = [session EXCEPT ![p] = s] /\ session[p].pc # "data"
        /\ UNCHANGED <<own, Lockout>>
    BY <1>4 DEF UnknownMechanism, Contended, Goto
  <2> HIDE DEF s
  <2> QED BY <1>0, <2>1, <2>2, GateUndecided
<1>5. ASSUME StartTls(p) \/ Quit(p) \/ Drop(p)
      PROVE  Gate!Leave(p)
  <2>1. CASE StartTls(p)
    <3> DEFINE s == [NewSession EXCEPT !.tls = TlsSeen]
    <3>1. s \in Sessions /\ s.pc = "idle"
      BY TlsSeenAssumption DEF NewSession, Sessions
    <3>2. session' = [session EXCEPT ![p] = s] /\ own' = own \ {p} /\ UNCHANGED Lockout
      BY <2>1 DEF StartTls
    <3> HIDE DEF s
    <3> QED BY <1>0, <3>1, <3>2, GateLeft
  <2>2. CASE Quit(p) \/ Drop(p)
    BY <1>0, <2>2, FirstSessions, GateLeft DEF Quit, Drop
  <2> QED BY <1>5, <2>1, <2>2
<1> QED BY <1>3, <1>4, <1>5

\* The API, the clock, and the end of the process.
LEMMA GateWorld ==
    ASSUME IInv
    PROVE  /\ ApiTakes \/ Status => UNCHANGED Gate!vars
           /\ \A a \in Addresses : ResetIp(a) => Gate!Open(a)
           /\ \A a \in Addresses : LockRunsOut(a) => Gate!RunsOut(a)
           /\ \A m \in Modes : Restart(m) => Gate!Restart
<1>0. TypeOK
  BY DEF IInv
<1>1. ASSUME ApiTakes \/ Status PROVE UNCHANGED Gate!vars
  <2>1. UNCHANGED <<session, own, Lockout>>
    BY <1>1 DEF ApiTakes, Status
  <2> QED BY <2>1, LockoutKept DEF Gate!vars, Shut, LetIn
<1>2. ASSUME NEW a \in Addresses, ResetIp(a) PROVE Gate!Open(a)
  <2>1. Gate!Forgive(a) /\ UNCHANGED <<session, own>>
    BY <1>0, <1>2, GateForgives DEF ResetIp
  <2> QED BY <2>1 DEF Gate!Open, LetIn
<1>3. ASSUME NEW a \in Addresses, LockRunsOut(a) PROVE Gate!RunsOut(a)
  <2>1. /\ entry'[a].lock = "expired"
        /\ \A b \in Addresses \ {a} : entry'[b] = entry[b]
    BY <1>0, <1>3 DEF LockRunsOut, TypeOK, Entries
  <2>2. UNCHANGED <<guesses, own, session>>
    BY <1>3 DEF LockRunsOut
  <2>3. Shut' = Shut \ {a}
    BY <2>1 DEF Shut, IsLocked
  <2> QED BY <2>2, <2>3 DEF Gate!RunsOut, Shut, LetIn
<1>4. ASSUME NEW m \in Modes, Restart(m) PROVE Gate!Restart
  <2>1. /\ guesses' = [a \in Addresses |-> 0] /\ own' = {}
        /\ Shut' = {} /\ Taking' = {} /\ Judging' = {}
    BY <1>4, FirstSessions DEF Restart, Shut, Taking, Judging, LetIn, IsLocked, Fresh
  <2> QED BY <2>1 DEF Gate!Restart, Shut, Taking, Judging
<1> QED BY <1>1, <1>2, <1>3, <1>4

\* The engine implements the gate: each of its steps is one of the gate's, or
\* none, for any number of peers and addresses, every limit and TLS mode.
THEOREM GateKept == Spec => GateRefinement
<1>1. Init => Gate!Init
  BY FirstSessions DEF Init, Gate!Init, IsLocked, LetIn, Fresh
<1>2. IInv /\ [Next]_vars => [Gate!Next]_Gate!vars
  <2> SUFFICES ASSUME IInv, [Next]_vars PROVE Gate!Next \/ UNCHANGED Gate!vars
    OBVIOUS
  <2>1. CASE UNCHANGED vars
    BY <2>1, LockoutKept DEF vars, Lockout, Gate!vars, Shut, LetIn
  <2>2. ASSUME NEW p \in Peers, Check(p) \/ Reject(p) \/ Admit(p) \/ Data(p) \/ DataDone(p)
        PROVE  Gate!Next \/ UNCHANGED Gate!vars
    BY <2>2, GateCheck, GateReject, GateAdmit, GateMail DEF Gate!Next
  <2>3. ASSUME NEW p \in Peers,
               \/ Connect(p) \/ StartTls(p) \/ Auth(p) \/ QueueCheck(p) \/ Refuse(p)
               \/ UnknownMechanism(p) \/ QueueRecord(p) \/ Contended(p) \/ MailFrom(p)
               \/ Quit(p) \/ Drop(p)
        PROVE  Gate!Next \/ UNCHANGED Gate!vars
    BY <2>3, GateConnection DEF Gate!Next
  <2>4. CASE ApiTakes \/ Status
    BY <2>4, GateWorld
  <2>5. ASSUME NEW a \in Addresses, ResetIp(a) \/ LockRunsOut(a) PROVE Gate!Next
    BY <2>5, GateWorld DEF Gate!Next
  <2>6. ASSUME NEW m \in Modes, Restart(m) PROVE Gate!Next
    BY <2>6, GateWorld DEF Gate!Next
  <2> QED BY <2>1, <2>2, <2>3, <2>4, <2>5, <2>6 DEF Next
<1> QED BY <1>1, <1>2, Invariance, PTL DEF Spec, GateRefinement, Gate!Spec
=============================================================================
