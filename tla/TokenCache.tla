------------------------------ MODULE TokenCache ------------------------------
(***************************************************************************)
(* The access token of one account as the deliveries of a process share it *)
(* (oauth_client.py): the cache is read and filled under a lock, with the  *)
(* fetch in between, in a thread of its own.  Expiry is counted from the   *)
(* moment the answer is stored; a refresh token that Microsoft rotates     *)
(* lives in memory only.  A call that raises before its first await (no    *)
(* refresh token, unknown flow) changes nothing and is no action.          *)
(***************************************************************************)
EXTENDS Integers, FiniteSets

CONSTANTS
    Deliveries,     \* deliveries in progress at a time
    Flow,           \* flow_type of the account
    Lifetimes,      \* the values of expires_in that Microsoft may answer
    Margin,         \* how long before expires_at a cached token is given up
    MaxTime,        \* bound on the clock
    MaxRotations,   \* bound on refresh tokens issued
    MaxStrays,      \* bound on requests whose answer nobody waits for
    None            \* no entry, no refresh token in an answer, no delivery

ASSUME FlowAssumption == Flow \in {"client_credentials", "delegated"}
ASSUME MarginAssumption == Margin \in Nat
\* Microsoft's tokens live for an hour and more.
ASSUME LifetimesAssumption == \A l \in Lifetimes : l \in Nat /\ l > Margin
ASSUME StraysAssumption == MaxStrays \in Nat
ASSUME NoneAssumption == None \notin Nat \cup Deliveries

VARIABLES
    now,        \* the clock, in the unit of Margin
    cache,      \* _token_cache[oauth.id], or None
    refresh,    \* oauth.refresh_token: which one Microsoft issued, 0 is the file's
    newest,     \* history: the last one issued
    job,        \* deliveries in progress
    strays,     \* requests under way whose answer nobody waits for
    sole,       \* history: the fetch that Microsoft answers no other beside, if any
    disturbed   \* history: memory may have missed a rotation

vars == <<now, cache, refresh, newest, job, strays, sole, disturbed>>

history == <<sole, disturbed>>

\* token: when Microsoft stops accepting it.  lag (history): its age when stored.
Entries == [token : Nat, expires_at : Nat, lag : Nat]
NoEntry == [token |-> 0, expires_at |-> 0, lag |-> 0]

\* presented, answer: refresh tokens; issued: when the token in hand was issued;
\* since: when get_access_token returned it.
Jobs == [pc : {"idle", "queued", "asked", "answered", "use"}, entry : Entries,
         lifetime : Nat, presented : Nat, answer : Nat \cup {None}, issued : Nat, since : Nat]

Idle == [pc |-> "idle", entry |-> NoEntry, lifetime |-> 0, presented |-> 0,
         answer |-> None, issued |-> 0, since |-> 0]

TypeOK ==
    /\ now \in Nat
    /\ cache = None \/ cache \in Entries
    /\ refresh \in Nat
    /\ newest \in Nat
    /\ job \in [Deliveries -> Jobs]
    /\ strays \in Nat
    /\ sole \in Deliveries \cup {None}
    /\ disturbed \in BOOLEAN

Init ==
    /\ now = 0
    /\ cache = None
    /\ refresh = 0
    /\ newest = 0
    /\ job = [d \in Deliveries |-> Idle]
    /\ strays = 0
    /\ sole = None
    /\ disturbed = FALSE

Goto(d, state) == job' = [job EXCEPT ![d] = state]

Fetching(d) == job[d].pc \in {"queued", "asked", "answered"}

Hand(d, entry) == Goto(d, [Idle EXCEPT !.pc = "use", !.entry = entry, !.since = now])
----------------------------------------------------------------------------
LastsUntilExpiry(entry) == entry.expires_at > now

\* A cached token is used if it lasts for another minute.
Lasts(entry) == entry.expires_at > now + Margin

\* get_access_token up to its first await: the cached token, or a fetch.
Check(d) ==
    /\ job[d].pc = "idle"
    /\ IF cache # None /\ Lasts(cache)
       THEN Hand(d, cache) /\ UNCHANGED history
       ELSE /\ Goto(d, [Idle EXCEPT !.pc = "queued"])
            /\ sole' = IF strays = 0 /\ \A e \in Deliveries : ~Fetching(e) THEN d ELSE None
            /\ disturbed' = (disturbed \/ \E e \in Deliveries : Fetching(e))
    /\ UNCHANGED <<now, cache, refresh, newest, strays>>

\* The executor's thread reads the account's refresh token and asks for a token.
Present(d) ==
    /\ job[d].pc = "queued"
    /\ Goto(d, [job[d] EXCEPT !.pc = "asked", !.presented = refresh])
    /\ UNCHANGED <<now, cache, refresh, newest, strays, history>>

\* Microsoft issues a token, with no refresh token, the one it was shown, or
\* a new one.
Issue(d, lifetime, answer) ==
    /\ job[d].pc = "asked"
    /\ answer # None => Flow = "delegated"
    /\ newest' = IF answer = newest + 1 THEN answer ELSE newest
    /\ Goto(d, [job[d] EXCEPT !.pc = "answered", !.issued = now, !.answer = answer,
                              !.lifetime = lifetime, !.entry.token = now + lifetime])
    /\ UNCHANGED <<now, cache, refresh, strays, history>>

\* OAuthError, or an exception of msal before Microsoft issued anything.
Denied(d) ==
    /\ job[d].pc = "asked"
    /\ Goto(d, Idle)
    /\ UNCHANGED <<now, cache, refresh, newest, strays, history>>

\* The same exception with the request under way, or its answer: a connection
\* that breaks, a time-out.
AnswerLost(d) ==
    /\ job[d].pc = "asked"
    /\ Goto(d, Idle)
    /\ strays' = strays + 1
    /\ UNCHANGED <<now, cache, refresh, newest, history>>

RotationIgnored(answer) == refresh

RotationUnchecked(answer) == answer

\* _delegated: the account in memory takes over a refresh token that differs.
Rotated(answer) == IF answer = None THEN refresh ELSE answer

ExpiresAt(d) == now + job[d].lifetime

\* The answer brings a refresh token other than the one presented.
BringsNew(d) == job[d].answer \notin {None, job[d].presented}

\* The coroutine goes on with the answer and fills the cache.
Store(d) ==
    /\ job[d].pc = "answered"
    /\ refresh' = Rotated(job[d].answer)
    /\ cache' = [token |-> job[d].entry.token, expires_at |-> ExpiresAt(d),
                 lag |-> now - job[d].issued]
    /\ Hand(d, cache')
    /\ disturbed' = (disturbed /\ ~(sole = d /\ BringsNew(d)))
    /\ UNCHANGED <<now, newest, strays, sole>>

\* relay_email presents the token to Microsoft 365.
Relay(d) ==
    /\ job[d].pc = "use"
    /\ Goto(d, Idle)
    /\ UNCHANGED <<now, cache, refresh, newest, strays, history>>

\* The client goes away and its coroutine is cancelled; the thread that fetches
\* goes on, or its answer is dropped.
Cancel(d) ==
    /\ job[d].pc # "idle"
    /\ Goto(d, Idle)
    /\ strays' = IF job[d].pc \in {"queued", "asked"} THEN strays + 1 ELSE strays
    /\ disturbed' = (disturbed \/ (job[d].pc = "answered" /\ BringsNew(d)))
    /\ UNCHANGED <<now, cache, refresh, newest, sole>>

\* Microsoft answers a request that nobody waits for, with a new refresh token
\* or without; or the request never gets there.
StrayEnds ==
    /\ strays > 0
    /\ strays' = strays - 1
    /\ \/ Flow = "delegated" /\ newest' = newest + 1 /\ disturbed' = TRUE
       \/ UNCHANGED <<newest, disturbed>>
    /\ UNCHANGED <<now, cache, refresh, job, sole>>

\* The process ends and reads the configuration file again; left of its requests
\* may still be under way.
Restart(left) ==
    /\ left <= strays + Cardinality({d \in Deliveries : job[d].pc = "asked"})
    /\ cache' = None
    /\ refresh' = 0
    /\ job' = [d \in Deliveries |-> Idle]
    /\ strays' = left
    /\ disturbed' = TRUE
    /\ UNCHANGED <<now, newest, sole>>

Tick ==
    /\ now < MaxTime
    /\ now' = now + 1
    /\ UNCHANGED <<cache, refresh, newest, job, strays, history>>

Next ==
    \/ \E d \in Deliveries :
        \/ Check(d)
        \/ Present(d)
        \/ \E lifetime \in Lifetimes :
            \E answer \in {None, job[d].presented, newest + 1} :
                newest < MaxRotations /\ Issue(d, lifetime, answer)
        \/ Denied(d)
        \/ strays < MaxStrays /\ AnswerLost(d)
        \/ Store(d)
        \/ Relay(d)
        \/ strays < MaxStrays /\ Cancel(d)
    \/ newest < MaxRotations /\ StrayEnds
    \/ \E left \in 0..MaxStrays : Restart(left)
    \/ Tick

Spec == Init /\ [][Next]_vars
----------------------------------------------------------------------------
(* Properties *)

\* A token that has expired by the time it is presented was on its way for more
\* than the margin: from Microsoft's issuing it to the cache, and from
\* get_access_token's return to its use (expires_at is counted from the answer,
\* and the margin of a minute is to cover both).
ExpiredOnlyIfLate ==
    \A d \in Deliveries :
        job[d].pc = "use" /\ now >= job[d].entry.token
            => job[d].entry.lag + (now - job[d].since) > Margin

\* The account in memory falls behind the last refresh token Microsoft issued
\* in four ways only: a fetch that overlaps another one, an answer lost on its
\* way, one that comes to a cancelled coroutine, and a restart.  And one fetch
\* that Microsoft answers no other beside, and that brings a new token, makes it
\* good (_delegated takes over a token that differs, whichever it is).
RefreshIsNewest ==
    refresh = newest \/ disturbed \/ \E d \in Deliveries : job[d].pc = "answered"
----------------------------------------------------------------------------
(* The inductive invariant *)

\* The cache overstates a token's life by the time its answer took, and a token
\* handed out has the margin left by the cache's own reckoning.
Reckoning ==
    /\ cache # None => cache.expires_at = cache.token + cache.lag
    /\ \A d \in Deliveries :
        /\ job[d].pc = "answered" =>
               /\ job[d].issued <= now
               /\ job[d].lifetime > Margin
               /\ job[d].entry.token = job[d].issued + job[d].lifetime
        /\ job[d].pc = "use" =>
               /\ job[d].since <= now
               /\ job[d].entry.expires_at = job[d].entry.token + job[d].entry.lag
               /\ job[d].entry.expires_at > job[d].since + Margin

\* Whatever happened before, a fetch that is the only one presents the token in
\* memory and, if its answer brings a new one, brings the newest.
SoleFetch ==
    sole # None /\ Fetching(sole) =>
        /\ strays = 0
        /\ \A d \in Deliveries : Fetching(d) => d = sole
        /\ job[sole].pc = "answered" /\ BringsNew(sole) => job[sole].answer = newest

\* As long as memory missed no rotation, there is one fetch at most, it presents
\* the newest token, and its answer leaves the newest one in memory.
Undisturbed ==
    ~disturbed =>
        /\ \A d, e \in Deliveries : Fetching(d) /\ Fetching(e) => d = e
        /\ \A d \in Deliveries : job[d].pc \in {"asked", "answered"} => job[d].presented = refresh
        /\ \A d \in Deliveries : job[d].pc = "answered" => Rotated(job[d].answer) = newest
        /\ (\A d \in Deliveries : job[d].pc # "answered") => refresh = newest

IInv == TypeOK /\ Reckoning /\ SoleFetch /\ Undisturbed
=============================================================================
