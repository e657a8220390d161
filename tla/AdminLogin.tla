------------------------------ MODULE AdminLogin ------------------------------
(***************************************************************************)
(* The failure counter of the admin login for one client address: a row    *)
(* in SQLite that concurrent logins and the administrator's reset read and *)
(* write back.  A SELECT takes no lock; a write needs SQLite's only writer *)
(* lock, which a row inserted and not yet committed keeps until the        *)
(* request commits or its session is closed.                               *)
(***************************************************************************)
EXTENDS Naturals

CONSTANTS
    Requests,     \* requests in progress at a time
    BF_MAX,       \* ADMIN_BF_MAX_ATTEMPTS
    Outcomes,     \* how logins may fare: "fail", "success", "need_totp"
    AdminResets,  \* whether the administrator resets the address
    MaxFailures,  \* bound: failures and count at which right passwords and resets end
    None          \* no row, no request, nobody

ASSUME BFMaxAssumption == BF_MAX \in Nat \ {0}
ASSUME OutcomesAssumption == Outcomes \subseteq {"fail", "success", "need_totp"}

VARIABLES
    row,          \* the committed row, or None
    writer,       \* the request whose uncommitted INSERT holds the writer lock
    req,          \* requests in progress
    failures,     \* history: failed logins recorded since the last reset
    overlap,      \* history: a request began before another had ended
    crowded       \* history: a request began before two others had ended

vars == <<row, writer, req, failures, overlap, crowded>>

\* "active" and "expired": locked_until is set, and in the future or not.
Locks == {"none", "active", "expired"}
Rows == [count : Nat, lock : Locks]
Fresh == [count |-> 0, lock |-> "none"]

Request ==
    [pc : {"insert", "judge", "verify", "select_fail", "select_success", "fail", "success",
           "reset"},
     row : Rows]

ASSUME NoneAssumption == None \notin Requests \cup Rows \cup Request \cup Locks \cup Nat

TypeOK ==
    /\ row \in Rows \cup {None}
    /\ writer \in Requests \cup {None}
    /\ req \in [Requests -> Request \cup {None}]
    /\ failures \in Nat
    /\ overlap \in BOOLEAN
    /\ crowded \in BOOLEAN

Init ==
    /\ row = None
    /\ writer = None
    /\ req = [r \in Requests |-> None]
    /\ failures = 0
    /\ overlap = FALSE
    /\ crowded = FALSE
----------------------------------------------------------------------------
At(r, pc) == req[r] # None /\ req[r].pc = pc

Goto(r, pc, loaded) == req' = [req EXCEPT ![r] = [pc |-> pc, row |-> loaded]]
Return(r) == req' = [req EXCEPT ![r] = None]

\* History only: whether the request that begins overlaps another, or two others.
Busy == {r \in Requests : req[r] # None}

NoteOverlap ==
    /\ overlap' = (overlap \/ Busy # {})
    /\ crowded' = (crowded \/ \E r, s \in Busy : r # s)

\* What a SELECT of request r sees: its own uncommitted row, or the committed one.
Visible(r) == IF writer = r THEN Fresh ELSE row

MayWrite(r) == writer \in {None, r}

\* The flush writes the columns the handler changed; Keep stands for a column
\* it left alone, and a new time of the lock is always a change.
Keep == None

Overwritten(new, old, current) == new

Column(new, old, current) == IF new = Keep \/ new = old THEN current ELSE new

LockColumn(new, old, current) == IF new = "active" THEN new ELSE Column(new, old, current)

Commit(r, count, lock) ==
    /\ MayWrite(r)
    /\ row' = [count |-> Column(count, req[r].row.count, Visible(r).count),
               lock |-> LockColumn(lock, req[r].row.lock, Visible(r).lock)]
    /\ writer' = None

\* is_locked: the SELECT of get_brute_force.
LoginSelect(r) ==
    /\ req[r] = None
    /\ IF row = None THEN Goto(r, "insert", Fresh) ELSE Goto(r, "judge", row)
    /\ NoteOverlap
    /\ UNCHANGED <<row, writer, failures>>

\* get_brute_force adds the row it did not find; if another request has
\* committed one meanwhile, the INSERT fails and so does the request.
LoginInsert(r) ==
    /\ At(r, "insert")
    /\ writer = None
    /\ IF row = None
       THEN writer' = r /\ Goto(r, "verify", Fresh)
       ELSE Return(r) /\ UNCHANGED writer
    /\ UNCHANGED <<row, failures>>

NeverBlocked(lock) == lock # "active"

\* is_locked clears a lock that has run out, and the count with it.
RunOut(lock) == lock = "expired"

\* is_locked: 429 while the lock lasts, a fresh count after it.
Judge(r) ==
    /\ At(r, "judge")
    /\ LET lock == req[r].row.lock IN
       IF lock = "active"
       THEN Return(r) /\ UNCHANGED <<row, writer, failures>>
       ELSE IF RunOut(lock)
       THEN /\ Commit(r, 0, "none")
            /\ failures' = 0
            /\ Goto(r, "verify", Fresh)
       ELSE Goto(r, "verify", req[r].row) /\ UNCHANGED <<row, writer, failures>>

SessionLeft(r) == UNCHANGED writer

\* Closing the session rolls back what was not committed.
SessionClosed(r) == writer' = IF writer = r THEN None ELSE writer

\* Password and TOTP code; a page that only asks for the code commits nothing.
Verify(r, outcome) ==
    /\ At(r, "verify")
    /\ outcome = "success" => failures < MaxFailures /\ Visible(r).count < MaxFailures
    /\ IF outcome = "need_totp"
       THEN Return(r) /\ SessionClosed(r)
       ELSE Goto(r, IF outcome = "fail" THEN "select_fail" ELSE "select_success", req[r].row)
            /\ UNCHANGED writer
    /\ UNCHANGED <<row, failures>>

\* record_failure and record_success read the row again.
Reload(r) ==
    /\ \/ /\ At(r, "select_fail")
          /\ Goto(r, "fail", Visible(r))
       \/ /\ At(r, "select_success")
          /\ Goto(r, "success", Visible(r))
    /\ UNCHANGED <<row, writer, failures>>

OneMore(n) == n + 1

LockAboveMax(n) == IF n > BF_MAX THEN "active" ELSE Keep

\* The lock that a failure which makes the count n sets, if any.
LockAt(n) == IF n >= BF_MAX THEN "active" ELSE Keep

RecordFailure(r) ==
    /\ At(r, "fail")
    /\ Commit(r, OneMore(req[r].row.count), LockAt(OneMore(req[r].row.count)))
    /\ failures' = failures + 1
    /\ Return(r)

CountForgotten == 0

\* "keep attempt_count for audit visibility"
CountAfterSuccess == Keep

\* Only the lock goes, the count stays.
RecordSuccess(r) ==
    /\ At(r, "success")
    /\ Commit(r, CountAfterSuccess, "none")
    /\ Return(r)
    /\ UNCHANGED failures

\* The administrator resets the address on the security page.
ResetSelect(r) ==
    /\ AdminResets
    /\ req[r] = None
    /\ row # None
    /\ failures < MaxFailures /\ row.count < MaxFailures
    /\ Goto(r, "reset", row)
    /\ NoteOverlap
    /\ UNCHANGED <<row, writer, failures>>

ResetCommit(r) ==
    /\ At(r, "reset")
    /\ Commit(r, 0, "none")
    /\ failures' = 0
    /\ Return(r)

Expired(loaded) == IF loaded.lock = "active" THEN [loaded EXCEPT !.lock = "expired"] ELSE loaded

\* A write waits for SQLite's writer lock for 5 seconds, then the request fails.
LockTimeout(r) ==
    /\ \E pc \in {"insert", "judge", "fail", "success", "reset"} : At(r, pc)
    /\ ~MayWrite(r)
    /\ Return(r)
    /\ UNCHANGED <<row, writer, failures>>

\* Time passes.  Locks last far longer than requests, so that no request is
\* still under way that began before the lock.
LockExpires ==
    /\ row # None
    /\ row.lock = "active"
    /\ \A r \in Busy : At(r, "judge") /\ req[r].row.lock = "active"
    /\ row' = Expired(row)
    /\ req' = [r \in Requests |-> IF req[r] = None THEN None
                                  ELSE [req[r] EXCEPT !.row = Expired(@)]]
    /\ UNCHANGED <<writer, failures, overlap, crowded>>

Proceed(r) ==
    /\ \/ LoginInsert(r)
       \/ Judge(r)
       \/ \E outcome \in Outcomes : Verify(r, outcome)
       \/ Reload(r)
       \/ RecordFailure(r)
       \/ RecordSuccess(r)
       \/ ResetCommit(r)
       \/ LockTimeout(r)
    /\ UNCHANGED <<overlap, crowded>>

Next ==
    \/ \E r \in Requests : LoginSelect(r) \/ ResetSelect(r) \/ Proceed(r)
    \/ LockExpires

Spec == Init /\ [][Next]_vars

\* The event loop serves every request, and clients go on trying to log in.
FairSpec == Spec /\ \A r \in Requests : WF_vars(Proceed(r)) /\ WF_vars(LoginSelect(r))
----------------------------------------------------------------------------
(* Properties *)

\* The security page shows the failures there were: as long as no two requests
\* of the address overlapped, the count is the number of failed logins since
\* the last reset, through locks, time-outs, successes and rolled back rows.
CountIsExact == row # None /\ ~overlap => row.count = failures

\* Two overlapping logins put the count back, yet only so often: while it is
\* at one value, each of them can hold it back there once, so that at most
\* 2 + 3 + ... + BF_MAX failures precede the lock (record_failure reads the
\* count in one step and writes it in another), whatever resets, successes and
\* expired locks come in between.  Where three requests meet there is no such
\* bound: one may keep an old count while a success of the second lifts the
\* lock that a failure of the third has set.
FailuresBounded ==
    ~crowded /\ row # None /\ row.lock = "none" /\ row.count < BF_MAX
        => 2 * failures <= (BF_MAX - 1) * (BF_MAX + 2)

\* SQLite's writer lock never outlives the request that took it, whichever way
\* that request returns.
WriterInService == writer # None => req[writer] # None

\* The invariant behind WriterInService: the request that inserted the row and
\* has not committed stands at a point it leaves with a commit or a closed session.
WriterUnfinished ==
    writer # None =>
        /\ req[writer] # None
        /\ req[writer].pc \in {"verify", "select_fail", "select_success", "fail", "success"}

\* Once past its first SELECT, a request finds a row, be it its own.
RowKnown ==
    \A r \in Requests :
        req[r] # None /\ req[r].pc # "insert" => row # None \/ writer = r

IInv == TypeOK /\ WriterUnfinished /\ RowKnown

\* The invariant behind CountIsExact: a request that has the address to itself
\* stores what it computed from the very row the table holds.
OneAtATime ==
    \A r, s \in Requests : req[r] # None /\ req[s] # None => r = s

UpToDate ==
    \A r \in Requests : req[r] # None =>
        /\ req[r].pc \in {"judge", "reset"} => writer = None /\ req[r].row = row
        /\ req[r].pc \in {"fail", "success"} => req[r].row = Visible(r)

CountKept ==
    /\ row = None => failures = 0
    /\ row # None => writer = None /\ row.count = failures

ExactInv == ~overlap => OneAtATime /\ UpToDate /\ CountKept

\* The invariant behind FailuresBounded, while three never met.  Above(n)
\* is twice the sum (BF_MAX - n + 1) + ... + BF_MAX: what the failures that
\* brought the count to n can have been at most.
Above(n) == n * (2 * BF_MAX + 1 - n)

AtMostTwo == \A r, s, t \in Busy : r = s \/ s = t \/ r = t

\* A login that the lock, if there is one by now, came too late to stop.
Admitted(r) ==
    /\ req[r] # None
    /\ \/ req[r].pc \in {"verify", "select_fail", "select_success", "fail", "success"}
       \/ req[r].pc = "judge" /\ req[r].row.lock = "none"

\* Before the first commit there is no failure, and only the writer has a row.
FirstRow ==
    /\ row = None => failures = 0
    /\ row # None => writer = None
    /\ writer # None /\ req[writer].pc = "fail" => req[writer].row = Fresh

\* Of two requests that will write what they have read, one has read the latest.
LastLoaded ==
    \A r, s \in Requests :
        /\ r # s /\ row # None
        /\ \A t \in {r, s} : \E pc \in {"judge", "reset", "fail", "success"} : At(t, pc)
        => row.count \in {req[r].row.count, req[s].row.count}

\* A lock stops all but the login that it came too late for, and that one too
\* once the count is below the threshold again.
LockStops ==
    row # None /\ row.lock # "none" =>
        /\ \A r, s \in Requests : Admitted(r) /\ Admitted(s) => r = s
        /\ \A r \in Requests : Admitted(r) => row.count >= BF_MAX
        /\ \A r, s \in Requests : At(r, "reset") /\ req[r].row.lock = "none" => ~Admitted(s)

\* A login that is about to record a failure has all the failures behind it
\* that may precede the count it read, and those that raised the count since.
FailuresSoFar ==
    row # None /\ row.lock = "none" =>
        /\ row.count >= BF_MAX =>
               \A r \in Requests : At(r, "fail") => req[r].row.count >= BF_MAX - 1
        /\ row.count < BF_MAX =>
               /\ 2 * failures <= Above(row.count)
               /\ \A r \in Requests : At(r, "fail") /\ req[r].row.count <= row.count =>
                      2 * failures <= Above(req[r].row.count) + 2 * (row.count - req[r].row.count)

BoundInv == FirstRow /\ LastLoaded /\ LockStops /\ FailuresSoFar

UncrowdedInv == ~crowded => AtMostTwo /\ BoundInv

\* From when on no login gets through and nobody resets the address, the lock
\* sets in, and again each time it has run out, however the requests overlap and
\* whatever they stored before.
EventuallyLocked ==
    <>[][\A r \in Requests :
            ~(RecordSuccess(r) \/ ResetCommit(r) \/ Verify(r, "need_totp"))]_vars
        => []<>(row # None /\ row.lock = "active")
=============================================================================
