--------------------------- MODULE TokenCacheProofs ---------------------------
(***************************************************************************)
(* Proofs about TokenCache, for any number of deliveries, any margin and   *)
(* any lifetimes beyond it.                                                *)
(***************************************************************************)
EXTENDS TokenCache, TLAPS

\* Types of what the code keeps, and of the history's two parts that are no
\* truth values.
Data ==
    /\ now \in Nat
    /\ cache = None \/ cache \in Entries
    /\ refresh \in Nat
    /\ newest \in Nat
    /\ job \in [Deliveries -> Jobs]

Traces == strays \in Nat /\ sole \in Deliveries \cup {None}

\* The fields of a delivery in progress, and of one that is not.
LEMMA JobTypes ==
    ASSUME Data
    PROVE  /\ \A d \in Deliveries :
                /\ job[d] \in Jobs
                /\ job[d].entry \in Entries
                /\ job[d].answer \in Nat \cup {None}
                /\ job[d].issued \in Nat /\ job[d].lifetime \in Nat
                /\ job[d].since \in Nat /\ job[d].presented \in Nat
           /\ NoEntry \in Entries
           /\ Idle \in Jobs
  BY DEF Data, Jobs, Entries, Idle, NoEntry

LEMMA InitInvariant == Init => IInv
  <1> SUFFICES ASSUME Init PROVE IInv
    OBVIOUS
  <1>1. Data /\ Reckoning
    BY DEF Init, Data, Reckoning, Jobs, Entries, Idle, NoEntry
  <1>2. disturbed \in BOOLEAN
    BY Zenon DEF Init
  <1>3. Traces /\ SoleFetch
    BY DEF Init, Traces, SoleFetch
  <1>4. Undisturbed
    BY DEF Init, Undisturbed, Fetching, Idle
  <1> QED
    BY <1>1, <1>2, <1>3, <1>4 DEF IInv, TypeOK, Data, Traces

\* What a step does to the deliveries: one is set to a new state, all are given
\* up, or only the clock moves.
LEMMA NextData == IInv /\ [Next]_vars => Data' /\ Reckoning'
  <1> SUFFICES ASSUME IInv, [Next]_vars PROVE Data' /\ Reckoning'
    OBVIOUS
  <1>0. Data
    BY DEF IInv, TypeOK, Data
  <1> USE MarginAssumption, LifetimesAssumption, <1>0, JobTypes DEF IInv
  <1>1. ASSUME NEW d \in Deliveries, Check(d) PROVE Data' /\ Reckoning'
    <2>1. CASE cache # None /\ Lasts(cache) /\ Hand(d, cache)
      <3>1. job'[d] = [Idle EXCEPT !.pc = "use", !.entry = cache, !.since = now]
        BY <2>1 DEF Hand, Goto, Data
      <3>2. job'[d] \in Jobs
        BY <2>1, <3>1 DEF Idle, Jobs, Data
      <3>3. Data'
        BY <1>1, <2>1, <3>1, <3>2 DEF Check, Hand, Goto, Data
      <3>4. Reckoning'
        BY <1>1, <2>1, <3>1 DEF Check, Hand, Goto, Data, Idle, Reckoning, Lasts, Entries
      <3> QED
        BY <3>3, <3>4
    <2>2. CASE Goto(d, [Idle EXCEPT !.pc = "queued"])
      BY <1>1, <2>2 DEF Check, Goto, Data, Idle, Jobs, Reckoning
    <2> QED
      BY <1>1, <2>1, <2>2 DEF Check
  <1>2. ASSUME NEW d \in Deliveries, Present(d) PROVE Data' /\ Reckoning'
    BY <1>2 DEF Present, Goto, Data, Jobs, Reckoning
  <1>3. ASSUME NEW d \in Deliveries, NEW lifetime \in Lifetimes,
               NEW answer \in {None, job[d].presented, newest + 1}, Issue(d, lifetime, answer)
        PROVE  Data' /\ Reckoning'
    <2>1. answer \in Nat \cup {None} /\ newest' \in Nat
      BY <1>3 DEF Issue, Data
    <2>2. job'[d] = [job[d] EXCEPT !.pc = "answered", !.issued = now, !.answer = answer,
                                   !.lifetime = lifetime, !.entry.token = now + lifetime]
      BY <1>3 DEF Issue, Goto, Data
    <2>3. job'[d].entry \in Entries
      BY <2>2 DEF Data, Entries, Jobs
    <2>4. job'[d] \in Jobs
      BY <2>1, <2>2, <2>3 DEF Data, Jobs
    <2>5. Data'
      BY <1>3, <2>1, <2>2, <2>4 DEF Issue, Goto, Data
    <2>6. Reckoning'
      BY <1>3, <2>2 DEF Issue, Goto, Data, Jobs, Entries, Reckoning
    <2> QED
      BY <2>5, <2>6
  <1>4. ASSUME NEW d \in Deliveries, Denied(d) \/ AnswerLost(d) \/ Relay(d) \/ Cancel(d)
        PROVE  Data' /\ Reckoning'
    BY <1>4 DEF Denied, AnswerLost, Relay, Cancel, Goto, Data, Idle, Reckoning
  <1>5. ASSUME NEW d \in Deliveries, Store(d) PROVE Data' /\ Reckoning'
    <2>1. /\ job[d].pc = "answered"
          /\ now' = now
          /\ cache' = [token |-> job[d].entry.token, expires_at |-> now + job[d].lifetime,
                       lag |-> now - job[d].issued]
      BY <1>5 DEF Store, ExpiresAt
    <2>2. /\ cache' \in Entries
          /\ cache'.expires_at = cache'.token + cache'.lag
          /\ cache'.expires_at > now + Margin
      BY <2>1 DEF Reckoning, Entries, Data
    <2>3. job'[d] = [Idle EXCEPT !.pc = "use", !.entry = cache', !.since = now]
      BY <1>5 DEF Store, Hand, Goto, Data
    <2>4. job'[d] \in Jobs
      BY <2>2, <2>3 DEF Idle, Jobs, Data
    <2>5. refresh' \in Nat
      BY <1>5 DEF Store, Rotated, Data
    <2>6. Data'
      BY <1>5, <2>2, <2>3, <2>4, <2>5 DEF Store, Hand, Goto, Data
    <2>7. \A e \in Deliveries \ {d} : job'[e] = job[e]
      BY <1>5 DEF Store, Hand, Goto, Data
    <2>8. job'[d].pc = "use" /\ job'[d].since = now /\ job'[d].entry = cache'
      BY <2>3 DEF Idle
    <2>9. /\ job'[d].since <= now'
          /\ job'[d].entry.expires_at = job'[d].entry.token + job'[d].entry.lag
          /\ job'[d].entry.expires_at > job'[d].since + Margin
      BY <2>1, <2>2, <2>8 DEF Data
    <2>10. Reckoning'
      BY <2>1, <2>2, <2>7, <2>8, <2>9 DEF Reckoning
    <2> QED
      BY <2>6, <2>10
  <1>6. ASSUME NEW left, Restart(left) PROVE Data' /\ Reckoning'
    BY <1>6 DEF Restart, Data, Idle, Reckoning
  <1>7. CASE StrayEnds
    BY <1>7 DEF StrayEnds, Data, Reckoning
  <1>8. CASE Tick
    BY <1>8 DEF Tick, Data, Reckoning
  <1>9. CASE UNCHANGED vars
    BY <1>9 DEF vars, Data, Reckoning
  <1> QED
    BY <1>1, <1>2, <1>3, <1>4, <1>5, <1>6, <1>7, <1>8, <1>9 DEF Next

LEMMA NextType == IInv /\ [Next]_vars => TypeOK'
  <1> SUFFICES ASSUME IInv, [Next]_vars PROVE TypeOK'
    OBVIOUS
  <1>1. Data'
    BY NextData
  <1>2. Traces /\ disturbed \in BOOLEAN
    BY DEF IInv, TypeOK, Traces
  <1>3. \/ UNCHANGED disturbed
        \/ disturbed' = TRUE
        \/ disturbed' = (disturbed \/ \E e \in Deliveries : Fetching(e))
        \/ \E d \in Deliveries : disturbed' = (disturbed /\ ~(sole = d /\ BringsNew(d)))
        \/ \E d \in Deliveries :
               disturbed' = (disturbed \/ (job[d].pc = "answered" /\ BringsNew(d)))
    BY Zenon DEF Next, Check, Present, Issue, Denied, AnswerLost, Store, Relay, Cancel,
                 StrayEnds, Restart, Tick, vars, history
  <1>4. disturbed' \in BOOLEAN
    BY <1>2, <1>3, Zenon
  <1>5. \/ UNCHANGED sole
        \/ \E d \in Deliveries :
               sole' = IF strays = 0 /\ \A e \in Deliveries : ~Fetching(e) THEN d ELSE None
    BY Zenon DEF Next, Check, Present, Issue, Denied, AnswerLost, Store, Relay, Cancel,
                 StrayEnds, Restart, Tick, vars, history
  <1>6. sole' \in Deliveries \cup {None}
    BY <1>2, <1>5 DEF Traces
  <1>7. \/ strays' \in {strays, strays + 1}
        \/ strays > 0 /\ strays' = strays - 1
        \/ strays' \in 0..MaxStrays
    BY Zenon DEF Next, Check, Present, Issue, Denied, AnswerLost, Store, Relay, Cancel,
                 StrayEnds, Restart, Tick, vars
  <1>8. strays' \in Nat
    BY <1>2, <1>7, StraysAssumption DEF Traces
  <1> QED
    BY <1>1, <1>4, <1>6, <1>8 DEF TypeOK, Data

\* How a step leaves the fetch that Microsoft answers no other beside.
LEMMA NextSole == IInv /\ [Next]_vars => SoleFetch'
  <1> SUFFICES ASSUME IInv, [Next]_vars PROVE SoleFetch'
    OBVIOUS
  <1>0. Data /\ Traces /\ SoleFetch
    BY DEF IInv, TypeOK, Data, Traces
  <1>1. ASSUME NEW d \in Deliveries, Check(d) PROVE SoleFetch'
    <2>1. CASE Hand(d, cache) /\ UNCHANGED history
      BY <1>0, <1>1, <2>1 DEF Check, Hand, Goto, Idle, Data, SoleFetch, Fetching, BringsNew, history
    <2>2. CASE /\ Goto(d, [Idle EXCEPT !.pc = "queued"])
               /\ sole' = IF strays = 0 /\ \A e \in Deliveries : ~Fetching(e) THEN d ELSE None
      BY <1>0, <1>1, <2>2 DEF Check, Goto, Idle, Data, SoleFetch, Fetching, BringsNew
    <2> QED
      BY <1>1, <2>1, <2>2 DEF Check
  <1>2. ASSUME NEW d \in Deliveries, Present(d) PROVE SoleFetch'
    BY <1>0, <1>2 DEF Present, Goto, Data, SoleFetch, Fetching, BringsNew, history
  <1>3. ASSUME NEW d \in Deliveries, NEW lifetime \in Lifetimes,
               NEW answer \in {None, job[d].presented, newest + 1}, Issue(d, lifetime, answer)
        PROVE  SoleFetch'
    <2>1. /\ job[d].pc = "asked" /\ sole' = sole /\ strays' = strays
          /\ newest' = IF answer = newest + 1 THEN answer ELSE newest
          /\ job'[d].pc = "answered" /\ job'[d].answer = answer
          /\ job'[d].presented = job[d].presented
          /\ \A e \in Deliveries \ {d} : job'[e] = job[e]
      BY <1>0, <1>3 DEF Issue, Goto, Data, Jobs, history
    <2> SUFFICES ASSUME sole # None, Fetching(sole)'
                 PROVE  /\ strays = 0
                        /\ \A e \in Deliveries : Fetching(e)' => e = sole
                        /\ job'[sole].pc = "answered" /\ BringsNew(sole)'
                               => job'[sole].answer = newest'
      BY <2>1 DEF SoleFetch, BringsNew, Fetching
    <2>2. \A e \in Deliveries : Fetching(e) <=> Fetching(e)'
      BY <2>1 DEF Fetching
    <2>3. sole \in Deliveries /\ strays = 0 /\ \A e \in Deliveries : Fetching(e) => e = sole
      BY <1>0, <2>1, <2>2 DEF SoleFetch, Traces, Fetching
    <2>4. d = sole
      BY <2>1, <2>3 DEF Fetching
    <2> QED
      BY <2>1, <2>2, <2>3, <2>4 DEF BringsNew
  <1>4. ASSUME NEW d \in Deliveries, Denied(d) \/ AnswerLost(d) \/ Relay(d) \/ Cancel(d)
        PROVE  SoleFetch'
    <2>1. /\ sole' = sole /\ newest' = newest /\ job'[d].pc = "idle"
          /\ \A e \in Deliveries \ {d} : job'[e] = job[e]
      BY <1>0, <1>4 DEF Denied, AnswerLost, Relay, Cancel, Goto, Idle, Data, history
    <2>2. strays' = strays \/ Fetching(d)
      BY <1>4 DEF Denied, AnswerLost, Relay, Cancel, Fetching
    <2> QED
      BY <1>0, <2>1, <2>2 DEF SoleFetch, Fetching, BringsNew, Traces
  <1>5. ASSUME NEW d \in Deliveries, Store(d) PROVE SoleFetch'
    <2>1. /\ sole' = sole /\ newest' = newest /\ strays' = strays /\ job'[d].pc = "use"
          /\ \A e \in Deliveries \ {d} : job'[e] = job[e]
      BY <1>0, <1>5 DEF Store, Hand, Goto, Idle, Data
    <2> QED
      BY <1>0, <2>1 DEF SoleFetch, Fetching, BringsNew, Traces
  <1>6. ASSUME NEW left, Restart(left) PROVE SoleFetch'
    BY <1>0, <1>6 DEF Restart, Idle, SoleFetch, Fetching, Traces
  <1>7. CASE StrayEnds
    BY <1>0, <1>7 DEF StrayEnds, SoleFetch, Fetching
  <1>8. CASE Tick \/ UNCHANGED vars
    BY <1>0, <1>8 DEF Tick, vars, history, SoleFetch, Fetching, BringsNew
  <1> QED
    BY <1>1, <1>2, <1>3, <1>4, <1>5, <1>6, <1>7, <1>8 DEF Next

\* What Undisturbed says of a process that nothing disturbed.
Quiet ==
    /\ \A d, e \in Deliveries : Fetching(d) /\ Fetching(e) => d = e
    /\ \A d \in Deliveries : job[d].pc \in {"asked", "answered"} => job[d].presented = refresh
    /\ \A d \in Deliveries : job[d].pc = "answered" => Rotated(job[d].answer) = newest
    /\ (\A d \in Deliveries : job[d].pc # "answered") => refresh = newest

\* A step that disturbs nothing leaves the only fetch with the newest token.
LEMMA NextQuiet == IInv /\ [Next]_vars /\ ~disturbed /\ ~disturbed' => Quiet'
  <1> SUFFICES ASSUME IInv, [Next]_vars, ~disturbed, ~disturbed' PROVE Quiet'
    OBVIOUS
  <1>0. Data /\ Quiet
    BY DEF IInv, TypeOK, Undisturbed, Data, Quiet
  <1>1. ASSUME NEW d \in Deliveries, Check(d) PROVE Quiet'
    <2>1. CASE Hand(d, cache)
      BY <1>0, <1>1, <2>1 DEF Check, Hand, Goto, Idle, Data, Quiet, Fetching, Rotated
    <2>2. CASE /\ Goto(d, [Idle EXCEPT !.pc = "queued"])
               /\ disturbed' = (disturbed \/ \E e \in Deliveries : Fetching(e))
      <3>1. \A e \in Deliveries : ~Fetching(e)
        BY <2>2, Zenon
      <3> QED
        BY <1>0, <1>1, <2>2, <3>1 DEF Check, Goto, Idle, Data, Quiet, Fetching, Rotated
    <2> QED
      BY <1>1, <2>1, <2>2 DEF Check
  <1>2. ASSUME NEW d \in Deliveries, Present(d) PROVE Quiet'
    BY <1>0, <1>2 DEF Present, Goto, Data, Quiet, Fetching, Rotated
  <1>3. ASSUME NEW d \in Deliveries, NEW lifetime \in Lifetimes,
               NEW answer \in {None, job[d].presented, newest + 1}, Issue(d, lifetime, answer)
        PROVE  Quiet'
    <2>1. /\ job[d].pc = "asked" /\ refresh' = refresh
          /\ newest' = IF answer = newest + 1 THEN answer ELSE newest
          /\ job'[d].pc = "answered" /\ job'[d].answer = answer
          /\ job'[d].presented = job[d].presented
          /\ \A e \in Deliveries \ {d} : job'[e] = job[e]
      BY <1>0, <1>3 DEF Issue, Goto, Data, Jobs
    <2>2. \A e \in Deliveries \ {d} : ~Fetching(e)
      BY <1>0, <2>1 DEF Quiet, Fetching
    <2>3. refresh = newest /\ job[d].presented = refresh
      BY <1>0, <2>1, <2>2 DEF Quiet, Fetching
    <2>4. newest \in Nat /\ newest + 1 # None /\ newest # newest + 1
      BY <1>0, NoneAssumption DEF Data
    <2>5. (IF answer = None THEN refresh' ELSE answer) = newest'
      BY <2>1, <2>3, <2>4
    <2> QED
      BY <2>1, <2>2, <2>3, <2>5 DEF Quiet, Fetching, Rotated
  <1>4. ASSUME NEW d \in Deliveries, Denied(d) \/ AnswerLost(d) \/ Relay(d)
        PROVE  Quiet'
    BY <1>0, <1>4 DEF Denied, AnswerLost, Relay, Goto, Idle, Data, Quiet, Fetching, Rotated
  <1>5. ASSUME NEW d \in Deliveries, Cancel(d) PROVE Quiet'
    <2>1. ~(job[d].pc = "answered" /\ BringsNew(d))
      BY <1>5, Zenon DEF Cancel
    <2>2. job[d].pc = "answered" => refresh = newest
      BY <1>0, <2>1 DEF Quiet, BringsNew, Rotated
    <2>3. /\ refresh' = refresh /\ newest' = newest /\ job'[d].pc = "idle"
          /\ \A e \in Deliveries \ {d} : job'[e] = job[e]
      BY <1>0, <1>5 DEF Cancel, Goto, Idle, Data
    <2>4. job[d].pc = "answered" => \A e \in Deliveries \ {d} : ~Fetching(e)
      BY <1>0 DEF Quiet, Fetching
    <2> QED
      BY <1>0, <2>2, <2>3, <2>4 DEF Quiet, Fetching, Rotated
  <1>6. ASSUME NEW d \in Deliveries, Store(d) PROVE Quiet'
    <2>1. /\ job[d].pc = "answered" /\ newest' = newest
          /\ refresh' = Rotated(job[d].answer)
          /\ job'[d].pc = "use"
          /\ \A e \in Deliveries \ {d} : job'[e] = job[e]
      BY <1>0, <1>6 DEF Store, Hand, Goto, Idle, Data
    <2>2. \A e \in Deliveries \ {d} : ~Fetching(e)
      BY <1>0, <2>1 DEF Quiet, Fetching
    <2>3. refresh' = newest'
      BY <1>0, <2>1 DEF Quiet
    <2> QED
      BY <2>1, <2>2, <2>3 DEF Quiet, Fetching
  <1>7. ASSUME NEW left, Restart(left) PROVE Quiet'
    BY <1>7, Zenon DEF Restart
  <1>8. CASE StrayEnds
    <2>1. newest' = newest
      BY <1>8, Zenon DEF StrayEnds
    <2> QED
      BY <1>0, <1>8, <2>1 DEF StrayEnds, Quiet, Fetching, Rotated
  <1>9. CASE Tick \/ UNCHANGED vars
    BY <1>0, <1>9 DEF Tick, vars, Quiet, Fetching, Rotated
  <1> QED
    BY <1>1, <1>2, <1>3, <1>4, <1>5, <1>6, <1>7, <1>8, <1>9 DEF Next

\* The one step that makes good what was missed: the only fetch brings a new token.
LEMMA NextMakesGood == IInv /\ [Next]_vars /\ disturbed /\ ~disturbed' => Quiet'
  <1> SUFFICES ASSUME IInv, [Next]_vars, disturbed, ~disturbed' PROVE Quiet'
    OBVIOUS
  <1>0. Data /\ SoleFetch
    BY DEF IInv, TypeOK, Data
  <1>1. PICK d \in Deliveries : Store(d) /\ sole = d /\ BringsNew(d)
    BY Zenon DEF Next, Check, Present, Issue, Denied, AnswerLost, Store, Relay, Cancel,
                 StrayEnds, Restart, Tick, vars, history
  <1>2. d # None
    BY NoneAssumption
  <1>3. /\ job[d].pc = "answered" /\ newest' = newest
        /\ refresh' = Rotated(job[d].answer)
        /\ job'[d].pc = "use"
        /\ \A e \in Deliveries \ {d} : job'[e] = job[e]
    BY <1>0, <1>1 DEF Store, Hand, Goto, Idle, Data
  <1>4. job[d].answer = newest /\ \A e \in Deliveries : Fetching(e) => e = d
    BY <1>0, <1>1, <1>2, <1>3 DEF SoleFetch, Fetching
  <1>5. refresh' = newest'
    BY <1>1, <1>3, <1>4 DEF Rotated, BringsNew
  <1> QED
    BY <1>3, <1>4, <1>5 DEF Quiet, Fetching

LEMMA NextUndisturbed == IInv /\ [Next]_vars => Undisturbed'
  <1> SUFFICES ASSUME IInv, [Next]_vars, ~disturbed' PROVE Quiet'
    BY Zenon DEF Undisturbed, Quiet
  <1> QED
    BY NextQuiet, NextMakesGood, Zenon

\* The inductive invariant holds in every behaviour of the token cache.
THEOREM Invariance == Spec => []IInv
  <1>1. IInv /\ [Next]_vars => IInv'
    BY NextType, NextData, NextSole, NextUndisturbed DEF IInv
  <1> QED
    BY InitInvariant, <1>1, PTL DEF Spec

\* Type correctness of the cache, the account and the deliveries in progress.
THEOREM TypeCorrect == Spec => []TypeOK
  <1>1. IInv => TypeOK
    BY DEF IInv
  <1> QED
    BY Invariance, <1>1, PTL

\* A token is presented in time unless answer and use together took longer than
\* the margin: for any margin, and however the deliveries overlap.
THEOREM MarginSuffices == Spec => []ExpiredOnlyIfLate
  <1>1. IInv => ExpiredOnlyIfLate
    <2> SUFFICES ASSUME IInv, NEW d \in Deliveries, job[d].pc = "use",
                        now >= job[d].entry.token
                 PROVE  job[d].entry.lag + (now - job[d].since) > Margin
      BY DEF ExpiredOnlyIfLate
    <2>1. /\ now \in Nat /\ job[d].since \in Nat
          /\ job[d].entry.token \in Nat /\ job[d].entry.lag \in Nat
      BY DEF IInv, TypeOK, Jobs, Entries
    <2>2. job[d].entry.token + job[d].entry.lag > job[d].since + Margin
      BY DEF IInv, Reckoning
    <2> QED
      BY <2>1, <2>2, MarginAssumption
  <1> QED
    BY Invariance, <1>1, PTL

\* The refresh token in memory is the newest one unless a rotation was missed in
\* one of the four ways, and none since was made good: for any number of
\* deliveries, overlaps and requests that nobody waits for.
THEOREM NewestKept == Spec => []RefreshIsNewest
  <1>1. IInv => RefreshIsNewest
    BY Zenon DEF IInv, Undisturbed, RefreshIsNewest
  <1> QED
    BY Invariance, <1>1, PTL
=============================================================================
