------------------------------- MODULE SmtpAuth -------------------------------
(***************************************************************************)
(* Who may hand mail to the aiosmtpd engine: connections, STARTTLS, AUTH   *)
(* with its lockout by address (brute_force.py), and the two places that   *)
(* ask whether a connection has authenticated - aiosmtpd at MAIL FROM, and *)
(* the engine at DATA, by a flag of the session and by a table of peers.   *)
(* What becomes of the mail is module SmtpData's.                          *)
(***************************************************************************)
EXTENDS Naturals, FiniteSets

CONSTANTS
    Peers,        \* address and port of the other end of a connection
    Addresses,    \* the addresses of the peers
    AddressOf,    \* the address of each peer
    Modes,        \* smtp_tls_mode, whose value the process finds
    BF_MAX,       \* bf_max_attempts
    TlsSeen,      \* whether aiosmtpd's sessions have the attribute tls_handshaked
    MaxFaults     \* bound on dropped connections, restarts and contended locks

ASSUME PeersAssumption == IsFiniteSet(Peers)
ASSUME AddressAssumption == AddressOf \in [Peers -> Addresses]
ASSUME ModesAssumption == Modes \subseteq {"starttls", "starttls_optional", "tls", "plain"}
ASSUME BFMaxAssumption == BF_MAX \in Nat
ASSUME TlsSeenAssumption == TlsSeen \in BOOLEAN
ASSUME MaxFaultsAssumption == MaxFaults \in Nat

VARIABLES
    mode,         \* smtp_tls_mode of the running process
    session,      \* the connection of each peer, if any
    authed_peers, \* _authed_peers
    entry,        \* BruteForceProtection._store; no entry is the Fresh one
    api,          \* the API's thread has BruteForceProtection._lock, or waits for it
    own,          \* history: connections over which the right password came,
                  \* since their session began, as the TLS mode demands
    guesses,      \* history: passwords answered with 535 since the last release
    faults        \* failures of the environment so far

vars == <<mode, session, authed_peers, entry, api, own, guesses, faults>>

\* "auth": before is_locked; "judge": let in by it, the coroutine running; at
\* the two awaits it waits for the lock in is_locked, or in record_failure or
\* record_success; "data": handle_DATA has taken the mail on.
Sessions ==
    [pc : {"closed", "idle", "auth", "await_check", "judge", "await_record", "data"},
     tls : BOOLEAN, flag : BOOLEAN, authenticated : BOOLEAN, mail : BOOLEAN]

NewSession ==
    [pc |-> "idle", tls |-> FALSE, flag |-> FALSE, authenticated |-> FALSE, mail |-> FALSE]
Closed == [NewSession EXCEPT !.pc = "closed"]

Entries == [attempts : Nat, lock : {"none", "active", "expired"}]
Fresh == [attempts |-> 0, lock |-> "none"]

TypeOK ==
    /\ mode \in Modes
    /\ session \in [Peers -> Sessions]
    /\ authed_peers \subseteq Peers
    /\ entry \in [Addresses -> Entries]
    /\ api \in BOOLEAN
    /\ own \subseteq Peers
    /\ guesses \in [Addresses -> Nat]
    /\ faults \in Nat

Init ==
    /\ mode \in Modes
    /\ session = [p \in Peers |-> Closed]
    /\ authed_peers = {}
    /\ entry = [a \in Addresses |-> Fresh]
    /\ api = FALSE
    /\ own = {}
    /\ guesses = [a \in Addresses |-> 0]
    /\ faults = 0

Fault ==
    /\ faults < MaxFaults
    /\ faults' = faults + 1

Goto(p, pc) == session' = [session EXCEPT ![p].pc = pc]
----------------------------------------------------------------------------
(* The lockout *)

\* Wrong passwords in a row that lock an address.
Limit == IF BF_MAX = 0 THEN 1 ELSE BF_MAX

Lockout == <<entry, guesses>>

Waiting == {p \in Peers : session[p].pc \in {"await_check", "await_record"}}

\* is_locked let the connection in, and how it fared is not recorded yet.
LetIn(p) == session[p].pc \in {"judge", "await_record"}

Authenticating(p) == session[p].pc \in {"auth", "await_check"} \/ LetIn(p)

\* From is_locked's return to the next await nothing else runs in the SMTP loop.
Undisturbed(p) == \A q \in Peers \ {p} : session[q].pc # "judge"

\* asyncio.Lock: a coroutine that finds it free with nobody waiting goes on at
\* once; one of those that wait goes on when it is free.  (The lock wakes them
\* in turn, which is left open here.)
Turn(p) ==
    /\ ~api
    /\ Undisturbed(p)
    /\ p \in Waiting \/ Waiting = {}

\* The others wait, whoever has the lock.
MustWait(p) ==
    /\ api \/ Waiting # {}
    /\ Undisturbed(p)

RunOutIgnored(a) == entry[a].lock # "none"

\* locked_until > utcnow(): the lock still lasts.
IsLocked(a) == entry[a].lock = "active"

LockOnlyCleared(a) ==
    /\ entry' = [entry EXCEPT ![a].lock = IF @ = "expired" THEN "none" ELSE @]
    /\ UNCHANGED guesses

\* is_locked clears a lock that has run out, and the attempts with it.
Cleared(a) ==
    IF entry[a].lock = "expired"
    THEN entry' = [entry EXCEPT ![a] = Fresh] /\ guesses' = [guesses EXCEPT ![a] = 0]
    ELSE UNCHANGED Lockout

LocksLate(n) == n > BF_MAX

Locks(n) == n >= BF_MAX

RecordFailure(a) ==
    LET n == entry[a].attempts + 1 IN
    /\ entry' = [entry EXCEPT ![a] = [attempts |-> n,
                                      lock |-> IF Locks(n) THEN "active" ELSE entry[a].lock]]
    /\ guesses' = [guesses EXCEPT ![a] = @ + 1]

\* record_success and reset_ip alike.
Released(a) ==
    /\ entry' = [entry EXCEPT ![a] = Fresh]
    /\ guesses' = [guesses EXCEPT ![a] = 0]
----------------------------------------------------------------------------
(* A connection *)

Connect(p) ==
    /\ session[p].pc = "closed"
    /\ session' = [session EXCEPT ![p] = NewSession]
    /\ UNCHANGED <<mode, authed_peers, own, Lockout, api, faults>>

\* The session begins anew, and so does what it knows of the client.
StartTls(p) ==
    /\ mode \in {"starttls", "starttls_optional"}
    /\ session[p].pc = "idle" /\ ~session[p].tls
    /\ session' = [session EXCEPT ![p] = [NewSession EXCEPT !.tls = TlsSeen]]
    /\ own' = own \ {p}
    /\ UNCHANGED <<mode, authed_peers, Lockout, api, faults>>

TlsNotAsked(p) == TRUE

\* 538 for AUTH in the clear, but only in the mode "starttls".
TlsSuffices(p) == mode = "starttls" => session[p].tls

\* AUTH, which aiosmtpd takes once in a session.
Auth(p) ==
    /\ session[p].pc = "idle" /\ ~session[p].authenticated
    /\ TlsSuffices(p)
    /\ Goto(p, "auth")
    /\ UNCHANGED <<mode, authed_peers, own, Lockout, api, faults>>

\* The lock is taken: is_locked waits for it, and so does record_*.
QueueCheck(p) ==
    /\ session[p].pc = "auth"
    /\ MustWait(p)
    /\ Goto(p, "await_check")
    /\ UNCHANGED <<mode, authed_peers, own, Lockout, api, faults>>

QueueRecord(p) ==
    /\ session[p].pc = "judge"
    /\ MustWait(p)
    /\ Goto(p, "await_record")
    /\ UNCHANGED <<mode, authed_peers, own, Lockout, api, faults>>

\* 421 while the address is locked.
Refuse(p) ==
    /\ session[p].pc \in {"auth", "await_check"}
    /\ Turn(p)
    /\ IsLocked(AddressOf[p])
    /\ Goto(p, "idle")
    /\ UNCHANGED <<mode, authed_peers, own, Lockout, api, faults>>

Check(p) ==
    /\ session[p].pc \in {"auth", "await_check"}
    /\ Turn(p)
    /\ ~IsLocked(AddressOf[p])
    /\ Cleared(AddressOf[p])
    /\ Goto(p, "judge")
    /\ UNCHANGED <<mode, authed_peers, own, api, faults>>

\* 504: neither LOGIN nor PLAIN.
UnknownMechanism(p) ==
    /\ session[p].pc = "judge"
    /\ Goto(p, "idle")
    /\ UNCHANGED <<mode, authed_peers, own, Lockout, api, faults>>

\* 535: wrong or empty credentials.
Reject(p) ==
    /\ session[p].pc \in {"judge", "await_record"}
    /\ Turn(p)
    /\ RecordFailure(AddressOf[p])
    /\ Goto(p, "idle")
    /\ UNCHANGED <<mode, authed_peers, own, api, faults>>

MarkedByAddress(p) == authed_peers \cup {AddressOf[p]}

\* _mark_authed
Marked(p) == authed_peers \cup {p}

\* record_success, _mark_authed, and aiosmtpd's own mark.
Admit(p) ==
    /\ session[p].pc \in {"judge", "await_record"}
    /\ Turn(p)
    /\ Released(AddressOf[p])
    /\ session' = [session EXCEPT ![p] = [@ EXCEPT !.pc = "idle", !.flag = TRUE,
                                                   !.authenticated = TRUE]]
    /\ authed_peers' = Marked(p)
    /\ own' = own \cup {p}
    /\ UNCHANGED <<mode, api, faults>>

\* The lock belongs to the event loop that first waited for it: if that is the
\* API's, waiting for it raises RuntimeError, and the client gets an error.
Contended(p) ==
    /\ session[p].pc \in {"auth", "judge"}
    /\ api
    /\ Goto(p, "idle")
    /\ Fault
    /\ UNCHANGED <<mode, authed_peers, own, Lockout, api>>

NoAuthRequired == FALSE

\* auth_required, as create_controller passes it.
AuthRequired == TRUE

\* aiosmtpd answers 530 to MAIL FROM unless the session is authenticated.
MailFrom(p) ==
    /\ session[p].pc = "idle" /\ ~session[p].mail
    /\ AuthRequired => session[p].authenticated
    /\ session' = [session EXCEPT ![p].mail = TRUE]
    /\ UNCHANGED <<mode, authed_peers, own, Lockout, api, faults>>

IsAuthed(p) == session[p].flag \/ p \in authed_peers \/ session[p].authenticated

\* handle_DATA: 530 unless one of the three marks is there.
Data(p) ==
    /\ session[p].pc = "idle" /\ session[p].mail
    /\ IsAuthed(p)
    /\ Goto(p, "data")
    /\ UNCHANGED <<mode, authed_peers, own, Lockout, api, faults>>

\* handle_DATA returns, and the next envelope begins.
DataDone(p) ==
    /\ session[p].pc = "data"
    /\ session' = [session EXCEPT ![p] = [@ EXCEPT !.pc = "idle", !.mail = FALSE]]
    /\ UNCHANGED <<mode, authed_peers, own, Lockout, api, faults>>

\* handle_QUIT, the one place where a peer leaves the table.
Quit(p) ==
    /\ session[p].pc = "idle"
    /\ session' = [session EXCEPT ![p] = Closed]
    /\ authed_peers' = authed_peers \ {p}
    /\ own' = own \ {p}
    /\ UNCHANGED <<mode, Lockout, api, faults>>

\* The connection ends without QUIT; a handler at work is cancelled.
Drop(p) ==
    /\ session[p].pc \notin {"closed", "judge"}
    /\ session' = [session EXCEPT ![p] = Closed]
    /\ own' = own \ {p}
    /\ Fault
    /\ UNCHANGED <<mode, authed_peers, Lockout, api>>
----------------------------------------------------------------------------
(* The rest of the world *)

\* A request to the API, in its own thread: it goes for the lock while no
\* coroutine of the SMTP loop waits for it (else it gets the RuntimeError).
ApiTakes ==
    /\ ~api /\ Waiting = {}
    /\ api' = TRUE
    /\ UNCHANGED <<mode, session, authed_peers, own, Lockout, faults>>

\* GET /brute-force has read the entries.
Status ==
    /\ api
    /\ api' = FALSE
    /\ UNCHANGED <<mode, session, authed_peers, own, Lockout, faults>>

\* POST /brute-force/reset
ResetIp(a) ==
    /\ api
    /\ api' = FALSE
    /\ Released(a)
    /\ UNCHANGED <<mode, session, authed_peers, own, faults>>

\* Time passes.
LockRunsOut(a) ==
    /\ entry[a].lock = "active"
    /\ entry' = [entry EXCEPT ![a].lock = "expired"]
    /\ UNCHANGED <<mode, session, authed_peers, own, api, guesses, faults>>

\* All of it is kept in memory, and the mode is read when the process starts.
Restart(tls_mode) ==
    /\ mode' = tls_mode
    /\ session' = [p \in Peers |-> Closed]
    /\ authed_peers' = {}
    /\ entry' = [a \in Addresses |-> Fresh]
    /\ api' = FALSE
    /\ own' = {}
    /\ guesses' = [a \in Addresses |-> 0]
    /\ Fault

Next ==
    \/ \E p \in Peers :
        \/ Connect(p) \/ StartTls(p) \/ Auth(p) \/ QueueCheck(p) \/ Refuse(p) \/ Check(p)
        \/ UnknownMechanism(p) \/ QueueRecord(p) \/ Reject(p) \/ Admit(p) \/ Contended(p)
        \/ MailFrom(p) \/ Data(p) \/ DataDone(p) \/ Quit(p) \/ Drop(p)
    \/ ApiTakes \/ Status
    \/ \E a \in Addresses : ResetIp(a) \/ LockRunsOut(a)
    \/ \E tls_mode \in Modes : Restart(tls_mode)

Spec == Init /\ [][Next]_vars

\* Locks run out, the API releases the lock it took and the SMTP loop serves
\* every AUTH; each peer has a device that comes back and tries the right
\* password now and then (which may have to wait for the lock to be recorded),
\* whatever else is tried in between over the same connection.
FairSpec ==
    /\ Spec
    /\ \A a \in Addresses : WF_vars(LockRunsOut(a))
    /\ WF_vars(Status \/ \E a \in Addresses : ResetIp(a))
    /\ \A p \in Peers : WF_vars(QueueCheck(p)) /\ SF_vars(Refuse(p) \/ Check(p))
    /\ \A p \in Peers : WF_vars(Connect(p)) /\ SF_vars(StartTls(p)) /\ SF_vars(Auth(p))
    /\ \A p \in Peers : SF_vars(QueueRecord(p)) /\ SF_vars(Admit(p))
----------------------------------------------------------------------------
(* Properties *)

\* handle_DATA takes a mail on only from a connection over which the right
\* password came: the entry that a dropped connection leaves in _authed_peers
\* serves no later connection from the same address and port.
NoRelayWithoutAuth == \A p \in Peers : session[p].pc = "data" => p \in own

\* Where STARTTLS is demanded, no mail is taken on in the clear, neither after
\* a MAIL FROM that came before STARTTLS nor by the marks of another session.
EncryptedAsDemanded ==
    \A p \in Peers : mode = "starttls" /\ session[p].pc = "data" => session[p].tls

\* What a counter under a lock of its own bounds: is_locked lets nobody in once
\* bf_max_attempts passwords (at least one) were wrong, but those it let in
\* before may still wait to record theirs, one for each connection of the
\* address beyond the first.
GuessesBounded ==
    \A a \in Addresses : guesses[a] < Limit + Cardinality({p \in Peers : AddressOf[p] = a})

\* The promise of an authenticated relay: nobody's password is judged unless
\* is_locked let the connection in while the address was not locked, one
\* password each time; the bf_max_attempts-th wrong one locks the address; one
\* let in after its lock has run out starts with no attempts (or the next wrong
\* one would lock it again); and handle_DATA takes mail only from connections
\* that authenticated and have not ended or begun anew since, whichever of the
\* three marks it goes by.
Gate == INSTANCE SubmissionGate WITH
    tries <- guesses,
    shut <- {a \in Addresses : IsLocked(a)},
    judging <- {p \in Peers : LetIn(p)},
    inside <- own,
    taking <- {p \in Peers : session[p].pc = "data"}

GateRefinement == Gate!Spec

\* An address that is locked out gets in again.
LetInAgain ==
    \A a \in Addresses :
        entry[a].lock = "active" ~> \E p \in Peers : AddressOf[p] = a /\ session[p].authenticated
----------------------------------------------------------------------------
(* The inductive invariant *)

MarksAreOwn ==
    \A p \in Peers :
        /\ session[p].authenticated => p \in own
        /\ session[p].mail => session[p].authenticated
        /\ mode = "starttls" /\ (Authenticating(p) \/ session[p].authenticated)
               => session[p].tls
        /\ session[p].pc = "data" => session[p].mail

\* Attempts are counted exactly, an address is locked, or its lock has run out,
\* from the Limit-th on, and each connection let in stands for one more at most.
AttemptsExact ==
    \A a \in Addresses :
        /\ guesses[a] = entry[a].attempts
        /\ entry[a].lock = "none" <=> entry[a].attempts < Limit
        /\ guesses[a] + Cardinality({p \in Peers : AddressOf[p] = a /\ LetIn(p)})
               < Limit + Cardinality({p \in Peers : AddressOf[p] = a})

IInv == TypeOK /\ MarksAreOwn /\ AttemptsExact
=============================================================================
