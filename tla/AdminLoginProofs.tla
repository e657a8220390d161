--------------------------- MODULE AdminLoginProofs ---------------------------
(***************************************************************************)
(* Proofs about AdminLogin, for any number of requests and any threshold:  *)
(* type correctness, that SQLite's writer lock never outlives the request  *)
(* that took it, that the count is exact unless requests overlapped; and,  *)
(* unless three requests met, how many failures can precede the lock.      *)
(***************************************************************************)
EXTENDS AdminLogin, Integers, TLAPS

\* A login that failed makes the count a positive number, and the lock it sets
\* is either none of its business or active.
LEMMA CountingType ==
    ASSUME NEW n \in Nat
    PROVE  /\ OneMore(n) \in Nat
           /\ LockAt(OneMore(n)) \in {"active", Keep}
  BY DEF OneMore, LockAt

\* What a SELECT returns is a row, whenever there is one to return.
LEMMA VisibleType ==
    ASSUME TypeOK, NEW r \in Requests, row # None \/ writer = r
    PROVE  Visible(r) \in Rows
  BY DEF TypeOK, Visible, Fresh, Rows, Locks

\* A flush leaves a row, and gives the writer lock back.
LEMMA CommitType ==
    ASSUME TypeOK, NEW r \in Requests, req[r] # None, row # None \/ writer = r,
           NEW count \in Nat \cup {Keep}, NEW lock \in Locks \cup {Keep},
           Commit(r, count, lock)
    PROVE  row' \in Rows /\ writer' = None
  <1>1. Visible(r) \in Rows
    BY VisibleType
  <1>2. req[r].row \in Rows
    BY DEF TypeOK, Request
  <1>3. Column(count, req[r].row.count, Visible(r).count) \in Nat
    BY <1>1 DEF Column, Rows
  <1>4. LockColumn(lock, req[r].row.lock, Visible(r).lock) \in Locks
    BY <1>1 DEF LockColumn, Column, Rows, Locks
  <1> QED
    BY <1>3, <1>4 DEF Commit, Rows

\* The types of what the handlers read and write; the rest is history.
Data ==
    /\ row \in Rows \cup {None}
    /\ writer \in Requests \cup {None}
    /\ req \in [Requests -> Request \cup {None}]
    /\ failures \in Nat

\* No row, no request, no insert under way at the start.
LEMMA InitInvariant == Init => IInv
  <1> SUFFICES ASSUME Init PROVE IInv
    OBVIOUS
  <1>1. Data /\ WriterUnfinished /\ RowKnown
    BY DEF Init, Data, WriterUnfinished, RowKnown
  <1>2. overlap \in BOOLEAN /\ crowded \in BOOLEAN
    BY Zenon DEF Init
  <1> QED
    BY <1>1, <1>2, Zenon DEF IInv, TypeOK, Data

\* Every step of every handler preserves those types.
LEMMA NextData == IInv /\ [Next]_vars => Data'
  <1> SUFFICES ASSUME IInv, [Next]_vars PROVE Data'
    OBVIOUS
  <1> USE DEF IInv
  <1>1. \A r \in Requests : req[r] # None => req[r] \in Request /\ req[r].row \in Rows
    BY DEF TypeOK, Data, Request
  <1>2. Fresh \in Rows
    BY DEF Fresh, Rows, Locks
  <1>3. ASSUME NEW r \in Requests, LoginSelect(r) PROVE Data'
    BY <1>3, <1>2 DEF LoginSelect, Goto, TypeOK, Data, Request
  <1>4. ASSUME NEW r \in Requests, LoginInsert(r) PROVE Data'
    BY <1>4, <1>2 DEF LoginInsert, Goto, Return, TypeOK, Data, Request
  <1>5. ASSUME NEW r \in Requests, Judge(r) PROVE Data'
    <2>1. CASE Commit(r, 0, "none") /\ failures' = 0 /\ Goto(r, "verify", Fresh)
      <3>1. row' \in Rows /\ writer' = None
        BY <1>5, <2>1, CommitType DEF Judge, At, RowKnown, Locks
      <3> QED
        BY <2>1, <3>1, <1>2 DEF Goto, TypeOK, Data, Request
    <2>2. CASE Return(r) /\ UNCHANGED <<row, writer, failures>>
      BY <2>2 DEF Return, TypeOK, Data
    <2>3. CASE Goto(r, "verify", req[r].row) /\ UNCHANGED <<row, writer, failures>>
      BY <2>3, <1>5, <1>1 DEF Judge, At, Goto, TypeOK, Data, Request
    <2> QED
      BY <1>5, <2>1, <2>2, <2>3 DEF Judge
  <1>6. ASSUME NEW r \in Requests, NEW outcome \in Outcomes, Verify(r, outcome) PROVE Data'
    BY <1>6, <1>1 DEF Verify, At, Goto, Return, SessionClosed, TypeOK, Data, Request
  <1>7. ASSUME NEW r \in Requests, Reload(r) PROVE Data'
    <2>1. Visible(r) \in Rows
      BY <1>7, VisibleType DEF Reload, At, RowKnown
    <2> QED
      BY <1>7, <2>1 DEF Reload, Goto, TypeOK, Data, Request
  <1>8. ASSUME NEW r \in Requests, RecordFailure(r) PROVE Data'
    <2>1. req[r] # None /\ (row # None \/ writer = r) /\ req[r].row.count \in Nat
      BY <1>8, <1>1 DEF RecordFailure, At, RowKnown, Rows
    <2>2. /\ OneMore(req[r].row.count) \in Nat
          /\ LockAt(OneMore(req[r].row.count)) \in Locks \cup {Keep}
      BY <2>1, CountingType DEF Locks
    <2>3. Commit(r, OneMore(req[r].row.count), LockAt(OneMore(req[r].row.count)))
      BY <1>8 DEF RecordFailure
    <2>4. row' \in Rows /\ writer' = None
      BY <2>1, <2>2, <2>3, CommitType
    <2> QED
      BY <1>8, <2>4 DEF RecordFailure, Return, TypeOK, Data
  <1>9. ASSUME NEW r \in Requests, RecordSuccess(r) PROVE Data'
    <2>1. row' \in Rows /\ writer' = None
      BY <1>9, CommitType DEF RecordSuccess, CountAfterSuccess, At, RowKnown, Locks
    <2> QED
      BY <1>9, <2>1 DEF RecordSuccess, Return, TypeOK, Data
  <1>10. ASSUME NEW r \in Requests, ResetSelect(r) PROVE Data'
    BY <1>10 DEF ResetSelect, Goto, TypeOK, Data, Request
  <1>11. ASSUME NEW r \in Requests, ResetCommit(r) PROVE Data'
    <2>1. row' \in Rows /\ writer' = None
      BY <1>11, CommitType DEF ResetCommit, At, RowKnown, Locks
    <2> QED
      BY <1>11, <2>1 DEF ResetCommit, Return, TypeOK, Data
  <1>12. ASSUME NEW r \in Requests, LockTimeout(r) PROVE Data'
    BY <1>12 DEF LockTimeout, Return, TypeOK, Data
  <1>13. CASE LockExpires
    <2>1. \A loaded \in Rows : Expired(loaded) \in Rows
      BY DEF Expired, Rows, Locks
    <2>2. \A r \in Requests : req[r] # None => [req[r] EXCEPT !.row = Expired(@)] \in Request
      BY <1>1, <2>1 DEF Request
    <2> QED
      BY <1>13, <2>1, <2>2 DEF LockExpires, TypeOK, Data
  <1>14. CASE UNCHANGED vars
    BY <1>14 DEF vars, TypeOK, Data
  <1> QED
    BY <1>3, <1>4, <1>5, <1>6, <1>7, <1>8, <1>9, <1>10, <1>11, <1>12, <1>13, <1>14
    DEF Next, Proceed

\* The history variables stay truth values, so that all types are preserved.
LEMMA NextType == IInv /\ [Next]_vars => TypeOK'
  <1> SUFFICES ASSUME IInv, [Next]_vars PROVE TypeOK'
    OBVIOUS
  <1>1. Data'
    BY NextData
  <1>2. overlap \in BOOLEAN /\ crowded \in BOOLEAN
    BY DEF IInv, TypeOK
  <1>3. UNCHANGED <<overlap, crowded>> \/ NoteOverlap
    BY Zenon DEF Next, Proceed, LoginSelect, ResetSelect, LockExpires, vars
  <1>4. overlap' \in BOOLEAN /\ crowded' \in BOOLEAN
    BY <1>2, <1>3, Zenon DEF NoteOverlap
  <1> QED
    BY <1>1, <1>4, Zenon DEF TypeOK, Data

\* The writer lock and the row are only given up together with the request that
\* holds them: the argument looks at what each step does to row, writer and req.
LEMMA NextWriter == IInv /\ [Next]_vars => WriterUnfinished' /\ RowKnown'
  <1> SUFFICES ASSUME IInv, [Next]_vars PROVE WriterUnfinished' /\ RowKnown'
    OBVIOUS
  <1> USE NoneAssumption DEF IInv
  <1> DEFINE Unfinished == {"verify", "select_fail", "select_success", "fail", "success"}
  <1>1. ASSUME row' \in Rows, writer' = None PROVE WriterUnfinished' /\ RowKnown'
    <2>1. row' # None
      BY <1>1
    <2> QED
      BY <1>1, <2>1 DEF WriterUnfinished, RowKnown
  <1>a. ASSUME NEW pc \in Unfinished, NEW loaded \in Rows
        PROVE  [pc |-> pc, row |-> loaded] # None
    <2>1. [pc |-> pc, row |-> loaded] \in Request
      BY DEF Request
    <2> QED
      BY <2>1
  <1>b. Fresh \in Rows /\ \A r \in Requests : req[r] # None => req[r].row \in Rows
    BY DEF Fresh, Rows, Locks, TypeOK, Request
  <1>2. ASSUME NEW r \in Requests, LoginSelect(r) PROVE WriterUnfinished' /\ RowKnown'
    BY <1>2 DEF LoginSelect, Goto, TypeOK, WriterUnfinished, RowKnown
  <1>3. ASSUME NEW r \in Requests, LoginInsert(r) PROVE WriterUnfinished' /\ RowKnown'
    <2>1. At(r, "insert") /\ writer = None /\ UNCHANGED row
      BY <1>3 DEF LoginInsert
    <2>2. CASE writer' = r /\ Goto(r, "verify", Fresh)
      <3>1. [pc |-> "verify", row |-> Fresh] # None
        BY <1>a, <1>b
      <3>2. req'[r] = [pc |-> "verify", row |-> Fresh] /\ \A s \in Requests \ {r} : req'[s] = req[s]
        BY <2>2 DEF Goto, TypeOK
      <3> QED
        BY <2>1, <2>2, <3>1, <3>2 DEF WriterUnfinished, RowKnown
    <2>3. CASE Return(r) /\ UNCHANGED writer
      BY <2>1, <2>3 DEF Return, At, TypeOK, WriterUnfinished, RowKnown
    <2> QED
      BY <1>3, <2>2, <2>3 DEF LoginInsert
  <1>4. ASSUME NEW r \in Requests, Judge(r) PROVE WriterUnfinished' /\ RowKnown'
    <2>1. req[r] # None /\ req[r].pc = "judge" /\ writer # r /\ row # None
      BY <1>4 DEF Judge, At, WriterUnfinished, RowKnown
    <2>2. CASE Commit(r, 0, "none")
      BY <1>1, <2>1, <2>2, CommitType DEF Locks
    <2>3. CASE (Return(r) \/ Goto(r, "verify", req[r].row)) /\ UNCHANGED <<row, writer, failures>>
      BY <2>1, <2>3 DEF Goto, Return, TypeOK, WriterUnfinished, RowKnown
    <2> QED
      BY <1>4, <2>2, <2>3 DEF Judge
  <1>5. ASSUME NEW r \in Requests, NEW outcome \in Outcomes, Verify(r, outcome)
        PROVE  WriterUnfinished' /\ RowKnown'
    <2>1. At(r, "verify") /\ UNCHANGED row
      BY <1>5 DEF Verify
    <2>2. CASE Return(r) /\ SessionClosed(r)
      BY <2>1, <2>2 DEF At, Return, SessionClosed, TypeOK, WriterUnfinished, RowKnown
    <2>3. ASSUME NEW pc \in {"select_fail", "select_success"}, Goto(r, pc, req[r].row), UNCHANGED writer
          PROVE  WriterUnfinished' /\ RowKnown'
      BY <2>1, <2>3, <1>a, <1>b DEF At, Goto, TypeOK, WriterUnfinished, RowKnown
    <2> QED
      BY <1>5, <2>2, <2>3 DEF Verify
  <1>6. ASSUME NEW r \in Requests, Reload(r) PROVE WriterUnfinished' /\ RowKnown'
    <2>1. UNCHANGED <<row, writer>> /\ (At(r, "select_fail") \/ At(r, "select_success"))
      BY <1>6 DEF Reload
    <2>2. Visible(r) \in Rows
      BY <2>1, VisibleType DEF At, RowKnown
    <2>3. ASSUME NEW pc \in {"fail", "success"}, Goto(r, pc, Visible(r))
          PROVE  WriterUnfinished' /\ RowKnown'
      BY <2>1, <2>2, <2>3, <1>a DEF At, Goto, TypeOK, WriterUnfinished, RowKnown
    <2> QED
      BY <1>6, <2>3 DEF Reload
  <1>7. ASSUME NEW r \in Requests, RecordFailure(r) PROVE WriterUnfinished' /\ RowKnown'
    <2>1. req[r] # None /\ (row # None \/ writer = r) /\ req[r].row.count \in Nat
      BY <1>7 DEF RecordFailure, At, RowKnown, TypeOK, Request, Rows
    <2>2. /\ OneMore(req[r].row.count) \in Nat
          /\ LockAt(OneMore(req[r].row.count)) \in Locks \cup {Keep}
      BY <2>1, CountingType DEF Locks
    <2>3. Commit(r, OneMore(req[r].row.count), LockAt(OneMore(req[r].row.count)))
      BY <1>7 DEF RecordFailure
    <2> QED
      BY <1>1, <2>1, <2>2, <2>3, CommitType
  <1>8. ASSUME NEW r \in Requests, RecordSuccess(r) PROVE WriterUnfinished' /\ RowKnown'
    BY <1>1, <1>8, CommitType DEF RecordSuccess, CountAfterSuccess, At, RowKnown, Locks
  <1>9. ASSUME NEW r \in Requests, ResetSelect(r) PROVE WriterUnfinished' /\ RowKnown'
    BY <1>9 DEF ResetSelect, Goto, TypeOK, WriterUnfinished, RowKnown
  <1>10. ASSUME NEW r \in Requests, ResetCommit(r) PROVE WriterUnfinished' /\ RowKnown'
    BY <1>1, <1>10, CommitType DEF ResetCommit, At, RowKnown, Locks
  <1>11. ASSUME NEW r \in Requests, LockTimeout(r) PROVE WriterUnfinished' /\ RowKnown'
    BY <1>11 DEF LockTimeout, MayWrite, At, Return, TypeOK, WriterUnfinished, RowKnown
  <1>12. CASE LockExpires
    <2>1. writer = None /\ row' # None
      <3>1. row \in Rows /\ row' = Expired(row)
        BY <1>12 DEF LockExpires, TypeOK
      <3>2. Expired(row) \in Rows
        BY <3>1 DEF Expired, Rows, Locks
      <3>3. writer = None
        BY <1>12 DEF LockExpires, Busy, At, TypeOK, WriterUnfinished
      <3> QED
        BY <3>1, <3>2, <3>3
    <2> QED
      BY <1>12, <2>1 DEF LockExpires, WriterUnfinished, RowKnown
  <1>13. CASE UNCHANGED vars
    BY <1>13 DEF vars, WriterUnfinished, RowKnown
  <1> QED
    BY <1>2, <1>3, <1>4, <1>5, <1>6, <1>7, <1>8, <1>9, <1>10, <1>11, <1>12, <1>13
    DEF Next, Proceed

\* The inductive invariant holds in every behaviour of the admin login.
THEOREM Invariance == Spec => []IInv
  <1>1. IInv /\ [Next]_vars => IInv'
    BY NextType, NextWriter DEF IInv
  <1> QED
    BY InitInvariant, <1>1, PTL DEF Spec

\* Type correctness of the counter's row, of SQLite's writer lock and of the
\* requests in progress.
THEOREM TypeCorrect == Spec => []TypeOK
  <1>1. IInv => TypeOK
    BY DEF IInv
  <1> QED
    BY Invariance, <1>1, PTL

\* SQLite's writer lock never outlives the request that took it, for any number
\* of overlapping logins and resets and however each of them returns.
THEOREM WriterReleased == Spec => []WriterInService
  <1>1. IInv => WriterInService
    BY DEF IInv, WriterUnfinished, WriterInService
  <1> QED
    BY Invariance, <1>1, PTL

\* Without an overlap the request at hand is the only one, and what it loaded
\* is what the table holds.
LEMMA InitExact == Init => ExactInv
  BY DEF Init, ExactInv, OneAtATime, UpToDate, CountKept

\* A flush of what was computed from the current row counts from the current count.
LEMMA CommitExact ==
    ASSUME TypeOK, ExactInv, ~overlap, NEW r \in Requests, req[r] # None,
           row # None \/ writer = r, req[r].row = Visible(r),
           NEW count \in Nat \cup {Keep}, NEW lock \in Locks \cup {Keep},
           Commit(r, count, lock)
    PROVE  /\ row' # None /\ writer' = None
           /\ row'.count = (IF count = Keep THEN failures ELSE count)
  <1>1. row' \in Rows /\ writer' = None
    BY CommitType
  <1>2. Visible(r).count = failures
    BY NoneAssumption DEF ExactInv, CountKept, Visible, Fresh
  <1>3. row'.count = Column(count, req[r].row.count, Visible(r).count)
    BY DEF Commit
  <1> QED
    BY <1>1, <1>2, <1>3, NoneAssumption DEF Column

\* Each step of a request that has the address to itself keeps the count exact.
LEMMA NextExact == IInv /\ ExactInv /\ [Next]_vars => ExactInv'
  <1> SUFFICES ASSUME IInv, ExactInv, [Next]_vars, ~overlap'
               PROVE  OneAtATime' /\ UpToDate' /\ CountKept'
    BY Zenon DEF ExactInv
  <1> USE NoneAssumption DEF IInv
  <1>0. ~overlap
    BY Zenon DEF Next, Proceed, LoginSelect, ResetSelect, LockExpires, vars, NoteOverlap
  <1>1. OneAtATime /\ UpToDate /\ CountKept
    BY <1>0, Zenon DEF ExactInv
  <1>2. \A r \in Requests : req[r] # None => req[r] \in Request /\ req[r].row \in Rows
    BY DEF TypeOK, Request
  <1>3. ASSUME NEW r \in Requests, NoteOverlap PROVE \A s \in Requests : req[s] = None
    BY <1>3, Zenon DEF NoteOverlap, Busy
  <1>a. ASSUME NEW r \in Requests, NEW pc, NEW loaded, Goto(r, pc, loaded),
               \A s \in Requests : req[s] # None => s = r, CountKept',
               pc \in {"judge", "reset"} => writer' = None /\ loaded = row',
               pc \in {"fail", "success"} => loaded = Visible(r)'
        PROVE  OneAtATime' /\ UpToDate' /\ CountKept'
    <2>1. req' = [s \in Requests |-> IF s = r THEN [pc |-> pc, row |-> loaded] ELSE req[s]]
      BY <1>a DEF Goto, TypeOK
    <2>2. OneAtATime'
      BY <1>a, <2>1 DEF OneAtATime
    <2>3. ASSUME NEW s \in Requests, req'[s] # None
          PROVE  /\ req'[s].pc \in {"judge", "reset"} => writer' = None /\ req'[s].row = row'
                 /\ req'[s].pc \in {"fail", "success"} => req'[s].row = Visible(s)'
      <3>1. s = r
        BY <1>a, <2>1, <2>3
      <3> QED
        BY <1>a, <2>1, <3>1
    <2> QED
      BY <1>a, <2>2, <2>3 DEF UpToDate
  <1>b. ASSUME NEW r \in Requests, req[r] # None, Return(r), CountKept'
        PROVE  OneAtATime' /\ UpToDate' /\ CountKept'
    BY <1>b, <1>1 DEF OneAtATime, UpToDate, Return, TypeOK
  <1>4. ASSUME NEW r \in Requests, LoginSelect(r) PROVE OneAtATime' /\ UpToDate' /\ CountKept'
    <2>1. \A s \in Requests : req[s] = None
      BY <1>4, <1>3 DEF LoginSelect
    <2>2. UNCHANGED <<row, writer, failures>> /\ writer = None
      BY <1>4, <2>1 DEF LoginSelect, WriterUnfinished, TypeOK
    <2>3. CountKept'
      BY <1>1, <2>2 DEF CountKept
    <2> QED
      BY <1>4, <1>a, <2>1, <2>2, <2>3 DEF LoginSelect
  <1>5. ASSUME NEW r \in Requests, ResetSelect(r) PROVE OneAtATime' /\ UpToDate' /\ CountKept'
    <2>1. \A s \in Requests : req[s] = None
      BY <1>5, <1>3 DEF ResetSelect
    <2>2. UNCHANGED <<row, writer, failures>> /\ writer = None
      BY <1>5, <2>1 DEF ResetSelect, WriterUnfinished, TypeOK
    <2>3. CountKept'
      BY <1>1, <2>2 DEF CountKept
    <2> QED
      BY <1>5, <1>a, <2>1, <2>2, <2>3 DEF ResetSelect
  <1>6. ASSUME NEW r \in Requests, LoginInsert(r) PROVE OneAtATime' /\ UpToDate' /\ CountKept'
    <2>1. req[r] # None /\ UNCHANGED <<row, failures>> /\ \A s \in Requests : req[s] # None => s = r
      BY <1>6, <1>1 DEF LoginInsert, At, OneAtATime
    <2>2. CASE row = None /\ writer' = r /\ Goto(r, "verify", Fresh)
      <3>1. CountKept'
        BY <1>1, <2>1, <2>2 DEF CountKept
      <3> QED
        BY <2>1, <2>2, <3>1, <1>a
    <2>3. CASE Return(r) /\ UNCHANGED writer
      <3>1. CountKept'
        BY <1>1, <2>1, <2>3 DEF CountKept
      <3> QED
        BY <2>1, <2>3, <3>1, <1>b
    <2> QED
      BY <1>6, <2>2, <2>3 DEF LoginInsert
  <1>7. ASSUME NEW r \in Requests, Judge(r) PROVE OneAtATime' /\ UpToDate' /\ CountKept'
    <2>1. /\ req[r] # None /\ writer = None /\ row # None /\ req[r].row = row
          /\ \A s \in Requests : req[s] # None => s = r
      BY <1>7, <1>1 DEF Judge, At, UpToDate, OneAtATime, RowKnown
    <2>2. CASE Commit(r, 0, "none") /\ failures' = 0 /\ Goto(r, "verify", Fresh)
      <3>1. req[r].row = Visible(r)
        BY <2>1 DEF Visible
      <3>2. row' # None /\ writer' = None /\ row'.count = 0
        BY <1>0, <2>1, <2>2, <3>1, CommitExact DEF Locks, Keep
      <3>3. CountKept'
        BY <2>2, <3>2 DEF CountKept
      <3> QED
        BY <2>1, <2>2, <3>3, <1>a
    <2>3. CASE (Return(r) \/ Goto(r, "verify", req[r].row)) /\ UNCHANGED <<row, writer, failures>>
      <3>1. CountKept'
        BY <1>1, <2>3 DEF CountKept
      <3> QED
        BY <2>1, <2>3, <3>1, <1>a, <1>b
    <2> QED
      BY <1>7, <2>2, <2>3 DEF Judge
  <1>8. ASSUME NEW r \in Requests, NEW outcome \in Outcomes, Verify(r, outcome)
        PROVE  OneAtATime' /\ UpToDate' /\ CountKept'
    <2>1. /\ req[r] # None /\ UNCHANGED <<row, failures>>
          /\ \A s \in Requests : req[s] # None => s = r
      BY <1>8, <1>1 DEF Verify, At, OneAtATime
    <2>2. CASE Return(r) /\ SessionClosed(r)
      <3>1. CountKept'
        BY <1>1, <2>1, <2>2 DEF CountKept, SessionClosed
      <3> QED
        BY <2>1, <2>2, <3>1, <1>b
    <2>3. ASSUME NEW pc \in {"select_fail", "select_success"}, Goto(r, pc, req[r].row),
                 UNCHANGED writer
          PROVE  OneAtATime' /\ UpToDate' /\ CountKept'
      <3>1. CountKept'
        BY <1>1, <2>1, <2>3 DEF CountKept
      <3> QED
        BY <2>1, <2>3, <3>1, <1>a
    <2> QED
      BY <1>8, <2>2, <2>3 DEF Verify
  <1>9. ASSUME NEW r \in Requests, Reload(r) PROVE OneAtATime' /\ UpToDate' /\ CountKept'
    <2>1. /\ req[r] # None /\ UNCHANGED <<row, writer, failures>>
          /\ \A s \in Requests : req[s] # None => s = r
      BY <1>9, <1>1 DEF Reload, At, OneAtATime
    <2>2. CountKept' /\ Visible(r)' = Visible(r)
      BY <1>1, <2>1 DEF CountKept, Visible
    <2>3. Goto(r, "fail", Visible(r)) \/ Goto(r, "success", Visible(r))
      BY <1>9 DEF Reload
    <2> QED
      BY <2>1, <2>2, <2>3, <1>a
  <1>10. ASSUME NEW r \in Requests, RecordFailure(r) PROVE OneAtATime' /\ UpToDate' /\ CountKept'
    <2>1. /\ req[r] # None /\ req[r].row \in Rows /\ (row # None \/ writer = r)
          /\ req[r].row = Visible(r)
      BY <1>10, <1>1, <1>2 DEF RecordFailure, At, UpToDate, RowKnown
    <2>2. /\ OneMore(req[r].row.count) \in Nat
          /\ LockAt(OneMore(req[r].row.count)) \in Locks \cup {Keep}
      BY <2>1, CountingType DEF Rows, Locks
    <2>3. Commit(r, OneMore(req[r].row.count), LockAt(OneMore(req[r].row.count)))
      BY <1>10 DEF RecordFailure
    <2>4. row' # None /\ writer' = None /\ row'.count = OneMore(req[r].row.count)
      BY <1>0, <2>1, <2>2, <2>3, CommitExact DEF Keep
    <2>5. req[r].row.count = failures /\ failures' = failures + 1 /\ Return(r)
      BY <1>10, <1>1, <2>1 DEF RecordFailure, CountKept, Visible, Fresh
    <2>6. CountKept'
      BY <2>4, <2>5 DEF CountKept, OneMore
    <2> QED
      BY <2>1, <2>5, <2>6, <1>b
  <1>11. ASSUME NEW r \in Requests, RecordSuccess(r) PROVE OneAtATime' /\ UpToDate' /\ CountKept'
    <2>1. /\ req[r] # None /\ (row # None \/ writer = r) /\ req[r].row = Visible(r)
          /\ Return(r) /\ failures' = failures /\ Commit(r, Keep, "none")
      BY <1>11, <1>1 DEF RecordSuccess, CountAfterSuccess, At, UpToDate, RowKnown
    <2>2. row' # None /\ writer' = None /\ row'.count = failures
      BY <1>0, <2>1, CommitExact DEF Locks, Keep
    <2>3. CountKept'
      BY <2>1, <2>2 DEF CountKept
    <2> QED
      BY <2>1, <2>3, <1>b
  <1>12. ASSUME NEW r \in Requests, ResetCommit(r) PROVE OneAtATime' /\ UpToDate' /\ CountKept'
    <2>1. /\ req[r] # None /\ writer = None /\ row # None /\ req[r].row = row
          /\ Return(r) /\ failures' = 0 /\ Commit(r, 0, "none")
      BY <1>12, <1>1 DEF ResetCommit, At, UpToDate, RowKnown
    <2>2. req[r].row = Visible(r)
      BY <2>1 DEF Visible
    <2>3. row' # None /\ writer' = None /\ row'.count = 0
      BY <1>0, <2>1, <2>2, CommitExact DEF Locks, Keep
    <2>4. CountKept'
      BY <2>1, <2>3 DEF CountKept
    <2> QED
      BY <2>1, <2>4, <1>b
  <1>13. ASSUME NEW r \in Requests, LockTimeout(r) PROVE OneAtATime' /\ UpToDate' /\ CountKept'
    <2>1. req[r] # None /\ Return(r) /\ UNCHANGED <<row, writer, failures>>
      BY <1>13 DEF LockTimeout, At
    <2>2. CountKept'
      BY <1>1, <2>1 DEF CountKept
    <2> QED
      BY <2>1, <2>2, <1>b
  <1>14. CASE LockExpires
    <2>1. row \in Rows /\ row' = Expired(row) /\ UNCHANGED <<writer, failures>>
      BY <1>14 DEF LockExpires, TypeOK
    <2>2. row' # None /\ row'.count = row.count
      BY <2>1 DEF Expired, Rows, Locks
    <2>3. CountKept'
      BY <1>1, <2>1, <2>2 DEF CountKept
    <2>4. ASSUME NEW r \in Requests, req'[r] # None
          PROVE  req[r] # None /\ req'[r].pc = "judge" /\ req'[r].row = row' /\ writer' = None
      <3>1. At(r, "judge") /\ req'[r] = [req[r] EXCEPT !.row = Expired(@)]
        BY <1>14, <2>4 DEF LockExpires, Busy
      <3>2. writer = None /\ req[r].row = row /\ req[r] \in Request
        BY <1>1, <1>2, <3>1 DEF UpToDate, At
      <3> QED
        BY <2>1, <3>1, <3>2 DEF At, Request
    <2> QED
      BY <1>1, <2>3, <2>4 DEF OneAtATime, UpToDate
  <1>15. CASE UNCHANGED vars
    BY <1>1, <1>15 DEF vars, OneAtATime, UpToDate, CountKept, Visible
  <1> QED
    BY <1>4, <1>5, <1>6, <1>7, <1>8, <1>9, <1>10, <1>11, <1>12, <1>13, <1>14, <1>15
    DEF Next, Proceed

\* The security page shows the failures there were: as long as no two requests
\* overlapped, the stored count is the number of failed logins since the last
\* reset, for any threshold, through locks, successes and rolled back rows.
THEOREM CountIsExactAlone == Spec => []CountIsExact
  <1>1. ExactInv => CountIsExact
    BY DEF ExactInv, CountKept, CountIsExact
  <1> QED
    BY Invariance, InitExact, NextExact, <1>1, PTL DEF Spec

\* What one more failure adds to the bound, and that the bound grows with the count.
LEMMA AboveGrows ==
    ASSUME NEW n \in Nat, n <= BF_MAX
    PROVE  /\ Above(n) \in Int /\ Above(n) >= 0
           /\ Above(n + 1) = Above(n) + 2 * (BF_MAX - n)
           /\ \A m \in 0..n : Above(m) <= Above(n)
  <1> USE BFMaxAssumption
  <1>1. Above(n + 1) = Above(n) + 2 * (BF_MAX - n)
    BY DEF Above
  <1>2. ASSUME NEW m \in 0..n PROVE Above(n) - Above(m) >= 0
    <2> DEFINE d == n - m
               e == 2 * BF_MAX + 1 - n - m
    <2>1. d \in Nat /\ e \in Nat
      BY <1>2
    <2>2. d * e >= 0
      <3> HIDE DEF d, e
      <3> QED
        BY <2>1
    <2>3. Above(n) - Above(m) = d * e
      BY <1>2 DEF Above
    <2> QED
      BY <2>2, <2>3
  <1>3. Above(n) \in Int /\ \A m \in 0..n : Above(m) \in Int
    BY DEF Above
  <1>4. Above(0) = 0
    BY DEF Above
  <1> QED
    BY <1>1, <1>2, <1>3, <1>4

\* No row and no failure at the start.
LEMMA InitBound == Init => BoundInv
  BY NoneAssumption DEF Init, BoundInv, FirstRow, LastLoaded, LockStops, FailuresSoFar, At, Admitted

\* A step that writes nothing keeps the bound, as long as the request that takes
\* it holds no stale row and is not admitted past a lock.
LEMMA NoWriteBound ==
    ASSUME TypeOK, BoundInv, NEW r \in Requests, UNCHANGED <<row, failures>>,
           NEW x \in Request \cup {None}, req' = [req EXCEPT ![r] = x],
           row # None => writer' = None,
           writer' # None /\ req'[writer'].pc = "fail" => req'[writer'].row = Fresh,
           row # None /\ x # None /\ x.pc \in {"judge", "reset", "fail", "success"} => x.row = row,
           row # None /\ row.lock # "none" /\ x # None /\ x.pc \notin {"insert", "reset"}
              /\ (x.pc = "judge" => x.row.lock = "none") => Admitted(r)
    PROVE  BoundInv'
  <1> USE NoneAssumption DEF TypeOK
  <1>1. req'[r] = x /\ \A s \in Requests : s # r => req'[s] = req[s]
    OBVIOUS
  <1>2. FirstRow'
    BY DEF BoundInv, FirstRow
  <1>3. LastLoaded'
    BY <1>1 DEF BoundInv, LastLoaded, At
  <1>4. LockStops'
    <2> SUFFICES ASSUME row # None, row.lock # "none" PROVE LockStops'
      BY DEF LockStops
    <2>1. \A s \in Requests : Admitted(s)' => Admitted(s)
      <3>1. Admitted(r)' => Admitted(r)
        BY <1>1 DEF Admitted
      <3> QED
        BY <1>1, <3>1 DEF Admitted
    <2>2. \A s \in Requests : At(s, "reset")' /\ req'[s].row.lock = "none"
                                 => At(s, "reset") /\ req[s].row.lock = "none"
      BY <1>1 DEF At
    <2> QED
      BY <2>1, <2>2 DEF BoundInv, LockStops
  <1>5. FailuresSoFar'
    <2> SUFFICES ASSUME row # None, row.lock = "none" PROVE FailuresSoFar'
      BY DEF FailuresSoFar
    <2>1. row.count \in Nat /\ Above(row.count) \in Int
      BY BFMaxAssumption DEF Rows, Above
    <2>2. \A s \in Requests : At(s, "fail")' =>
             \/ req'[s].row = row
             \/ At(s, "fail") /\ req'[s] = req[s]
      BY <1>1 DEF At
    <2> QED
      BY <2>1, <2>2, BFMaxAssumption DEF BoundInv, FailuresSoFar
  <1> QED
    BY <1>2, <1>3, <1>4, <1>5 DEF BoundInv

\* What a flush leaves in the table, when there was a row already.
LEMMA CommitColumns ==
    ASSUME TypeOK, BoundInv, NEW r \in Requests, req[r] # None, row # None,
           NEW count \in Nat \cup {Keep}, NEW lock \in {"none", "active", Keep},
           Commit(r, count, lock)
    PROVE  /\ row' \in Rows /\ writer' = None
           /\ row'.count = (IF count \in {Keep, req[r].row.count} THEN row.count ELSE count)
           /\ row'.lock = (IF lock = "active" THEN "active"
                           ELSE IF lock \in {Keep, req[r].row.lock} THEN row.lock ELSE lock)
  <1>1. row' \in Rows /\ writer' = None
    BY CommitType DEF Locks
  <1>2. Visible(r) = row
    BY NoneAssumption DEF BoundInv, FirstRow, Visible
  <1>3. row'.count = Column(count, req[r].row.count, row.count)
        /\ row'.lock = LockColumn(lock, req[r].row.lock, row.lock)
    BY <1>2 DEF Commit
  <1> QED
    BY <1>1, <1>3 DEF Column, LockColumn

\* A commit takes its request out of those that will write what they have read,
\* so that one of two at most is left.
LEMMA CommitAlone ==
    ASSUME TypeOK, AtMostTwo, NEW r \in Requests, req[r] # None,
           NEW x \in Request \cup {None}, x # None => x.pc = "verify",
           req' = [req EXCEPT ![r] = x]
    PROVE  /\ req'[r] = x
           /\ \A s \in Requests : s # r => req'[s] = req[s]
           /\ \A s, t \in Busy : s # r /\ t # r => s = t
           /\ LastLoaded'
  <1> USE NoneAssumption
  <1>1. req'[r] = x /\ \A s \in Requests : s # r => req'[s] = req[s]
    BY DEF TypeOK
  <1>2. \A s, t \in Busy : s # r /\ t # r => s = t
    BY DEF AtMostTwo, Busy
  <1>3. ~ \E pc \in {"judge", "reset", "fail", "success"} : At(r, pc)'
    BY <1>1 DEF At
  <1> QED
    BY <1>1, <1>2, <1>3 DEF LastLoaded, At, Busy

\* The reset by the administrator and the one after a lock that has run out
\* start the count over; if the count column is not written, because it was 0
\* when it was read, the other request has read the latest count.
LEMMA ClearBound ==
    ASSUME IInv, BoundInv, AtMostTwo, NEW r \in Requests,
           \/ At(r, "judge") /\ req[r].row.lock = "expired" /\ Goto(r, "verify", Fresh)
           \/ At(r, "reset") /\ Return(r),
           Commit(r, 0, "none"), failures' = 0
    PROVE  BoundInv'
  <1> USE NoneAssumption DEF IInv
  <1>1. req[r] # None /\ req[r].row \in Rows /\ row # None /\ row \in Rows
    BY DEF At, TypeOK, Request, WriterUnfinished, RowKnown
  <1>2. /\ row' \in Rows /\ writer' = None
        /\ row'.count = (IF req[r].row.count = 0 THEN row.count ELSE 0)
        /\ row'.lock = (IF req[r].row.lock = "none" THEN row.lock ELSE "none")
    BY <1>1, CommitColumns DEF Keep, Locks
  <1>3. PICK x \in Request \cup {None} :
           /\ req' = [req EXCEPT ![r] = x]
           /\ x # None => x.pc = "verify" /\ req[r].row.lock = "expired"
    BY DEF Goto, Return, Request, Fresh, Rows, Locks
  <1>4. /\ req'[r] = x
        /\ \A s \in Requests : s # r => req'[s] = req[s]
        /\ \A s, t \in Busy : s # r /\ t # r => s = t
        /\ LastLoaded'
    BY <1>1, <1>3, CommitAlone
  <1>5. FirstRow'
    BY <1>1, <1>2 DEF FirstRow
  <1>6. LockStops'
    <2> SUFFICES ASSUME row'.lock # "none" PROVE LockStops'
      BY <1>2 DEF LockStops
    <2>1. At(r, "reset") /\ req[r].row.lock = "none" /\ row.lock # "none"
      BY <1>2 DEF Rows
    <2>2. x = None
      BY <1>3, <2>1
    <2>3. \A s \in Requests : ~Admitted(s)'
      BY <1>1, <1>4, <2>1, <2>2 DEF BoundInv, LockStops, Admitted
    <2> QED
      BY <2>3 DEF LockStops
  <1>7. FailuresSoFar'
    <2> SUFFICES ASSUME row'.lock = "none" PROVE FailuresSoFar'
      BY DEF FailuresSoFar
    <2>1. ASSUME NEW s \in Requests, At(s, "fail")' PROVE s # r /\ At(s, "fail") /\ req'[s] = req[s]
      BY <1>3, <1>4, <2>1 DEF At
    <2>2. CASE row'.count >= BF_MAX
      <3>1. req[r].row.count = 0 /\ row'.count = row.count /\ row.count # 0
        BY <1>2, <2>2, BFMaxAssumption
      <3>2. ASSUME NEW s \in Requests, At(s, "fail")' PROVE req'[s].row.count >= BF_MAX - 1
        <4>1. s # r /\ At(s, "fail") /\ req'[s] = req[s]
          BY <2>1, <3>2
        <4>2. row.count \in {req[r].row.count, req[s].row.count}
          BY <1>1, <4>1 DEF BoundInv, LastLoaded, At
        <4> QED
          BY <1>1, <2>2, <3>1, <4>1, <4>2, BFMaxAssumption DEF Rows
      <3> QED
        BY <1>2, <2>2, <3>2, BFMaxAssumption DEF FailuresSoFar, Rows
    <2>3. CASE row'.count < BF_MAX
      <3>1. row'.count \in Nat /\ Above(row'.count) \in Int /\ Above(row'.count) >= 0
        BY <1>2, <2>3, AboveGrows, BFMaxAssumption DEF Rows
      <3>2. ASSUME NEW s \in Requests, At(s, "fail")', req'[s].row.count <= row'.count
            PROVE  0 <= Above(req'[s].row.count) + 2 * (row'.count - req'[s].row.count)
        <4>1. req'[s].row.count \in Nat
          BY <2>1, <3>2 DEF At, TypeOK, Request, Rows
        <4>2. Above(req'[s].row.count) \in Int /\ Above(req'[s].row.count) >= 0
          BY <2>3, <3>1, <3>2, <4>1, AboveGrows, BFMaxAssumption
        <4> QED
          BY <3>1, <3>2, <4>1, <4>2
      <3> QED
        BY <2>3, <3>1, <3>2, BFMaxAssumption DEF FailuresSoFar
    <2> QED
      BY <1>2, <2>2, <2>3, BFMaxAssumption DEF Rows
  <1> QED
    BY <1>4, <1>5, <1>6, <1>7 DEF BoundInv

\* The first commit of an address: the writer stores what it computed from the
\* fresh row, and no other request has read a row yet.
LEMMA FirstBound ==
    ASSUME IInv, BoundInv, AtMostTwo, NEW r \in Requests, At(r, "fail") \/ At(r, "success"),
           row = None, RecordFailure(r) \/ RecordSuccess(r)
    PROVE  BoundInv'
  <1> USE NoneAssumption DEF IInv
  <1>1. req[r] # None /\ req[r].row \in Rows /\ writer = r /\ failures = 0
    BY DEF At, TypeOK, Request, RowKnown, BoundInv, FirstRow
  <1>2. \A s \in Requests : s # r /\ req[s] # None => req[s].pc = "insert"
    BY <1>1 DEF RowKnown
  <1>3. Visible(r) = Fresh /\ (At(r, "fail") => req[r].row = Fresh)
    BY <1>1 DEF Visible, BoundInv, FirstRow, At
  <1>4. /\ row' # None /\ row' \in Rows /\ writer' = None
        /\ row'.count = failures' /\ failures' \in {0, 1}
        /\ row'.lock # "none" => row'.count >= BF_MAX
    <2>1. CASE RecordFailure(r)
      <3>1. req[r].row = Fresh
        BY <1>3, <2>1 DEF RecordFailure
      <3>2. row' = [count |-> 1, lock |-> LockColumn(LockAt(1), "none", "none")] /\ writer' = None
        BY <1>3, <2>1, <3>1 DEF RecordFailure, Commit, OneMore, Column, Keep, Fresh
      <3>3. LockColumn(LockAt(1), "none", "none") \in Locks
            /\ (LockColumn(LockAt(1), "none", "none") # "none" => 1 >= BF_MAX)
        BY DEF LockAt, LockColumn, Column, Keep, Locks
      <3> QED
        BY <1>1, <2>1, <3>2, <3>3 DEF RecordFailure, Rows
    <2>2. CASE RecordSuccess(r)
      <3>1. row' = [count |-> 0, lock |-> "none"] /\ writer' = None
        BY <1>3, <2>2 DEF RecordSuccess, Commit, CountAfterSuccess, LockColumn, Column, Keep, Fresh
      <3> QED
        BY <1>1, <2>2, <3>1 DEF RecordSuccess, Rows, Locks
    <2> QED
      BY <2>1, <2>2
  <1>5. req' = [req EXCEPT ![r] = None]
    BY DEF RecordFailure, RecordSuccess, Return
  <1>6. /\ LastLoaded' /\ req'[r] = None
        /\ \A s \in Requests : req'[s] # None => req'[s].pc = "insert"
    BY <1>1, <1>2, <1>5, CommitAlone
  <1>7. FirstRow' /\ LockStops'
    BY <1>4, <1>6 DEF FirstRow, LockStops, Admitted, At
  <1>8. FailuresSoFar'
    <2>1. \A s \in Requests : ~At(s, "fail")'
      BY <1>6 DEF At
    <2>2. row'.count < BF_MAX => 2 * failures' <= Above(row'.count)
      <3>1. Above(0) = 0 /\ Above(1) = 2 * BF_MAX /\ BF_MAX >= 1
        BY BFMaxAssumption DEF Above
      <3> QED
        BY <1>4, <3>1, BFMaxAssumption
    <2> QED
      BY <2>1, <2>2 DEF FailuresSoFar
  <1> QED
    BY <1>6, <1>7, <1>8 DEF BoundInv

\* A success writes the lock at most; it can only lift one that it came before,
\* and then nobody else was admitted.
LEMMA SuccessBound ==
    ASSUME IInv, BoundInv, AtMostTwo, NEW r \in Requests, RecordSuccess(r)
    PROVE  BoundInv'
  <1> USE NoneAssumption DEF IInv
  <1>1. req[r] # None /\ req[r].row \in Rows /\ At(r, "success") /\ Admitted(r)
    BY DEF RecordSuccess, At, TypeOK, Request, Admitted
  <1>2. CASE row = None
    BY <1>1, <1>2, FirstBound
  <1>3. CASE row # None
    <2>1. /\ row' \in Rows /\ writer' = None /\ row'.count = row.count
          /\ row'.lock = (IF req[r].row.lock = "none" THEN row.lock ELSE "none")
      BY <1>1, <1>3, CommitColumns DEF RecordSuccess, CountAfterSuccess, Keep, Locks
    <2>2. req' = [req EXCEPT ![r] = None] /\ failures' = failures /\ row \in Rows
      BY <1>3 DEF RecordSuccess, Return, TypeOK
    <2>3. LastLoaded' /\ req'[r] = None /\ \A s \in Requests : s # r => req'[s] = req[s]
      BY <1>1, <2>2, CommitAlone
    <2>4. FirstRow'
      BY <1>3, <2>1, <2>2 DEF FirstRow
    <2>5. \A s \in Requests : Admitted(s)' => Admitted(s) /\ s # r
      BY <2>3 DEF Admitted
    <2>6. LockStops'
      <3>1. \A s \in Requests : At(s, "reset")' /\ req'[s].row.lock = "none"
                                    => At(s, "reset") /\ req[s].row.lock = "none"
        BY <2>3 DEF At
      <3> QED
        BY <1>3, <2>1, <2>5, <3>1 DEF BoundInv, LockStops
    <2>7. FailuresSoFar'
      <3>1. \A s \in Requests : At(s, "fail")' => At(s, "fail") /\ Admitted(s)' /\ req'[s] = req[s]
        BY <2>3 DEF At, Admitted
      <3>2. CASE row.lock = "none"
        BY <1>3, <2>1, <2>2, <3>1, <3>2 DEF BoundInv, FailuresSoFar
      <3>3. CASE row.lock # "none"
        <4>1. row.count >= BF_MAX /\ \A s \in Requests : ~Admitted(s)'
          BY <1>1, <1>3, <2>5, <3>3 DEF BoundInv, LockStops
        <4> QED
          BY <2>1, <2>2, <3>1, <4>1, BFMaxAssumption DEF FailuresSoFar, Rows
      <3> QED
        BY <3>2, <3>3
    <2> QED
      BY <2>3, <2>4, <2>6, <2>7 DEF BoundInv
  <1> QED
    BY <1>2, <1>3

\* A failure raises what it counts from by one, whichever count it has read, and
\* what may precede the new count by at least as much as the failures.
LEMMA FailureBound ==
    ASSUME IInv, BoundInv, AtMostTwo, NEW r \in Requests, RecordFailure(r)
    PROVE  BoundInv'
  <1> USE NoneAssumption DEF IInv
  <1>1. /\ req[r] # None /\ req[r].row \in Rows /\ At(r, "fail") /\ Admitted(r)
        /\ failures' = failures + 1 /\ failures \in Nat
    BY DEF RecordFailure, At, TypeOK, Request, Admitted
  <1>2. CASE row = None
    BY <1>1, <1>2, FirstBound
  <1>3. CASE row # None
    <2> DEFINE k == req[r].row.count
    <2>0. k \in Nat /\ row \in Rows /\ row.count \in Nat /\ BF_MAX \in Nat
      BY <1>1, <1>3, BFMaxAssumption DEF TypeOK, Rows
    <2>1. /\ row' \in Rows /\ writer' = None /\ row'.count = k + 1
          /\ row'.lock = (IF k + 1 >= BF_MAX THEN "active" ELSE row.lock)
      <3>1. OneMore(k) = k + 1 /\ LockAt(k + 1) = IF k + 1 >= BF_MAX THEN "active" ELSE Keep
        BY DEF OneMore, LockAt
      <3>2. Commit(r, k + 1, LockAt(k + 1))
        BY <3>1 DEF RecordFailure
      <3>3. LockAt(k + 1) \in {"none", "active", Keep} /\ k + 1 \in Nat \cup {Keep}
        BY <2>0, <3>1
      <3>4. k + 1 \notin {Keep, k} /\ Keep # "active"
        BY <2>0 DEF Keep, Locks
      <3>5. /\ row' \in Rows /\ writer' = None
            /\ row'.count = (IF k + 1 \in {Keep, req[r].row.count} THEN row.count ELSE k + 1)
            /\ row'.lock = (IF LockAt(k + 1) = "active" THEN "active"
                            ELSE IF LockAt(k + 1) \in {Keep, req[r].row.lock} THEN row.lock
                            ELSE LockAt(k + 1))
        <4> DEFINE n == k + 1
                   l == LockAt(k + 1)
        <4>1. n \in Nat \cup {Keep} /\ l \in {"none", "active", Keep} /\ Commit(r, n, l)
          BY <3>2, <3>3
        <4> HIDE DEF n, l
        <4>2. /\ row' \in Rows /\ writer' = None
              /\ row'.count = (IF n \in {Keep, req[r].row.count} THEN row.count ELSE n)
              /\ row'.lock = (IF l = "active" THEN "active"
                              ELSE IF l \in {Keep, req[r].row.lock} THEN row.lock ELSE l)
          BY <1>1, <1>3, <4>1, CommitColumns
        <4> QED
          BY <4>2 DEF n, l
      <3> QED
        BY <3>1, <3>4, <3>5
    <2>2. req' = [req EXCEPT ![r] = None]
      BY DEF RecordFailure, Return
    <2>3. /\ LastLoaded' /\ req'[r] = None
          /\ \A s \in Requests : s # r => req'[s] = req[s]
          /\ \A s, t \in Busy : s # r /\ t # r => s = t
      BY <1>1, <2>2, CommitAlone
    <2>4. FirstRow'
      BY <1>3, <2>1 DEF FirstRow
    <2>5. \A s \in Requests : Admitted(s)' => Admitted(s) /\ s # r
      BY <2>3 DEF Admitted
    <2>6. LockStops'
      <3>1. \A s, t \in Requests : At(s, "reset")' => ~Admitted(t)'
        BY <2>3 DEF At, Admitted, Busy
      <3>2. \A s, t \in Requests : Admitted(s)' /\ Admitted(t)' => s = t
        BY <2>3, <2>5 DEF Admitted, Busy
      <3>3. CASE k + 1 >= BF_MAX
        BY <2>1, <3>1, <3>2, <3>3 DEF LockStops
      <3>4. CASE ~(k + 1 >= BF_MAX)
        <4>1. row.lock # "none" => \A s \in Requests : ~Admitted(s)'
          BY <1>1, <1>3, <2>5 DEF BoundInv, LockStops
        <4> QED
          BY <2>1, <3>1, <3>4, <4>1 DEF LockStops
      <3> QED
        BY <3>3, <3>4
    <2>7. FailuresSoFar'
      <3> SUFFICES ASSUME row'.lock = "none" PROVE FailuresSoFar'
        BY DEF FailuresSoFar
      <3>1. k + 1 < BF_MAX /\ row.lock = "none"
        BY <2>0, <2>1
      <3>2. row.count < BF_MAX
        BY <1>1, <1>3, <2>0, <3>1 DEF BoundInv, FailuresSoFar
      <3>3. /\ 2 * failures <= Above(row.count)
            /\ \A s \in Requests : At(s, "fail") /\ req[s].row.count <= row.count =>
                  2 * failures <= Above(req[s].row.count) + 2 * (row.count - req[s].row.count)
        BY <1>3, <3>1, <3>2 DEF BoundInv, FailuresSoFar
      <3>4. /\ Above(k) \in Int /\ Above(k + 1) = Above(k) + 2 * (BF_MAX - k)
            /\ row.count <= k => Above(row.count) <= Above(k) /\ Above(row.count) \in Int
        <4>1. row.count <= k => Above(row.count) <= Above(k)
          BY <2>0, <3>1, AboveGrows
        <4>2. Above(row.count) \in Int
          BY <2>0, <3>2, AboveGrows
        <4> QED
          BY <2>0, <3>1, <4>1, <4>2, AboveGrows
      <3>5. 2 * failures' <= Above(k + 1)
        <4>1. CASE k <= row.count
          <5>1. 2 * failures <= Above(k) + 2 * (row.count - k)
            BY <1>1, <3>3, <4>1
          <5> HIDE DEF k
          <5> QED
            BY <1>1, <2>0, <3>1, <3>2, <3>4, <5>1
        <4>2. CASE row.count < k
          <5> HIDE DEF k
          <5> QED
            BY <1>1, <2>0, <3>1, <3>3, <3>4, <4>2
        <4> QED
          BY <2>0, <4>1, <4>2
      <3>6. ASSUME NEW s \in Requests, At(s, "fail")', req'[s].row.count <= row'.count
            PROVE  2 * failures' <= Above(req'[s].row.count) + 2 * (row'.count - req'[s].row.count)
        <4> DEFINE j == req[s].row.count
        <4>1. s # r /\ At(s, "fail") /\ req'[s] = req[s] /\ req[s] \in Request
          BY <2>3, <3>6 DEF At, TypeOK
        <4>2. j \in Nat /\ j <= k + 1
          BY <2>1, <3>6, <4>1 DEF Request, Rows
        <4>3. row.count \in {k, j}
          BY <1>1, <1>3, <4>1 DEF BoundInv, LastLoaded, At
        <4>4. Above(j) \in Int
          BY <3>1, <4>2, <2>0, AboveGrows
        <4>5. j <= row.count => 2 * failures <= Above(j) + 2 * (row.count - j)
          BY <3>3, <4>1
        <4>6. j = k + 1 => Above(j) = Above(k + 1)
          OBVIOUS
        <4>7. 2 * failures' <= Above(j) + 2 * (k + 1 - j)
          <5>1. CASE j = k + 1
            <6>1. 2 * failures' <= Above(j)
              BY <3>5, <4>6, <5>1
            <6> HIDE DEF j, k
            <6> QED
              BY <1>1, <2>0, <4>4, <5>1, <6>1
          <5>2. CASE j <= k
            <6>1. j <= row.count /\ row.count <= k
              BY <2>0, <4>2, <4>3, <5>2
            <6> HIDE DEF j, k
            <6> QED
              BY <1>1, <2>0, <4>2, <4>4, <4>5, <6>1
          <5> QED
            BY <2>0, <4>2, <5>1, <5>2
        <4> QED
          BY <1>1, <2>0, <2>1, <4>1, <4>2, <4>4, <4>7
      <3>7. row'.count \in Nat /\ ~(row'.count >= BF_MAX) /\ 2 * failures' <= Above(row'.count)
        BY <2>0, <2>1, <3>1, <3>5
      <3> QED
        BY <3>6, <3>7 DEF FailuresSoFar
    <2> QED
      BY <2>3, <2>4, <2>6, <2>7 DEF BoundInv
  <1> QED
    BY <1>2, <1>3

\* A lock runs out while every request under way has still to judge it, so that
\* none is admitted that has read less than the latest count.
LEMMA ExpiryBound ==
    ASSUME IInv, BoundInv, LockExpires
    PROVE  BoundInv'
  <1> USE NoneAssumption DEF IInv
  <1>1. /\ row # None /\ row \in Rows /\ row.lock = "active"
        /\ row' = [row EXCEPT !.lock = "expired"] /\ failures' = failures /\ writer' = writer
    BY DEF LockExpires, TypeOK, Expired
  <1>2. row' # None /\ row'.count = row.count /\ row'.lock = "expired"
    <2>1. row' \in Rows
      BY <1>1 DEF Rows, Locks
    <2> QED
      BY <1>1, <2>1 DEF Rows
  <1>3. \A s \in Requests : req[s] # None =>
           At(s, "judge") /\ req[s].row \in Rows /\ req'[s] = [req[s] EXCEPT !.row = Expired(@)]
    BY DEF LockExpires, Busy, At, TypeOK, Request
  <1>4. \A s \in Requests : req'[s] # None =>
           /\ req[s] # None /\ req'[s].pc = "judge"
           /\ req'[s].row.count = req[s].row.count
           /\ req'[s].row.lock = "none" => req[s].row.lock = "none"
    <2> SUFFICES ASSUME NEW s \in Requests, req'[s] # None
                 PROVE  /\ req[s] # None /\ req'[s].pc = "judge"
                        /\ req'[s].row.count = req[s].row.count
                        /\ req'[s].row.lock = "none" => req[s].row.lock = "none"
      OBVIOUS
    <2>1. req[s] # None
      BY DEF LockExpires
    <2>2. req[s] \in Request /\ req[s].pc = "judge" /\ req'[s] = [req[s] EXCEPT !.row = Expired(@)]
      BY <1>3, <2>1 DEF TypeOK, At
    <2>3. req'[s].pc = "judge" /\ req'[s].row = Expired(req[s].row)
      BY <2>2 DEF Request
    <2> QED
      BY <2>1, <2>2, <2>3 DEF Expired, Request, Rows
  <1>5. FirstRow'
    BY <1>1, <1>2, <1>4 DEF BoundInv, FirstRow, WriterUnfinished, LockExpires, At
  <1>6. LastLoaded'
    <2> SUFFICES ASSUME NEW r \in Requests, NEW s \in Requests, r # s, req'[r] # None, req'[s] # None
                 PROVE  row'.count \in {req'[r].row.count, req'[s].row.count}
      BY DEF LastLoaded, At
    <2>1. At(r, "judge") /\ At(s, "judge")
      BY <1>3, <1>4
    <2>2. row.count \in {req[r].row.count, req[s].row.count}
      BY <1>1, <2>1 DEF BoundInv, LastLoaded
    <2> QED
      BY <1>2, <1>4, <2>2
  <1>7. LockStops'
    <2>1. \A s \in Requests : Admitted(s)' => Admitted(s)
      BY <1>3, <1>4 DEF Admitted, At
    <2>2. \A s \in Requests : ~At(s, "reset")'
      BY <1>4 DEF At
    <2> QED
      BY <1>1, <1>2, <2>1, <2>2 DEF BoundInv, LockStops
  <1>8. FailuresSoFar'
    BY <1>2 DEF FailuresSoFar
  <1> QED
    BY <1>5, <1>6, <1>7, <1>8 DEF BoundInv

\* Unless a third request begins while two are in progress, no step makes more
\* than two of them.
LEMMA NextTwo == TypeOK /\ AtMostTwo /\ [Next]_vars /\ ~crowded' => AtMostTwo'
  <1> SUFFICES ASSUME TypeOK, AtMostTwo, [Next]_vars, ~crowded' PROVE AtMostTwo'
    OBVIOUS
  <1>1. ASSUME NEW r \in Requests, LoginSelect(r) \/ ResetSelect(r) PROVE AtMostTwo'
    <2>1. \A s, t \in Busy : s = t
      BY <1>1, Zenon DEF LoginSelect, ResetSelect, NoteOverlap
    <2>2. \A s \in Requests : s # r => req'[s] = req[s]
      BY <1>1 DEF LoginSelect, ResetSelect, Goto, TypeOK
    <2> QED
      BY <2>1, <2>2 DEF AtMostTwo, Busy
  <1>2. ASSUME NEW r \in Requests, Proceed(r) PROVE AtMostTwo'
    <2>1. req[r] # None /\ \A s \in Requests : s # r => req'[s] = req[s]
      BY <1>2 DEF Proceed, LoginInsert, Judge, Verify, Reload, RecordFailure, RecordSuccess,
                  ResetCommit, LockTimeout, At, Goto, Return, TypeOK
    <2> QED
      BY <2>1 DEF AtMostTwo, Busy
  <1>3. CASE LockExpires
    BY <1>3 DEF LockExpires, AtMostTwo, Busy
  <1>4. CASE UNCHANGED vars
    BY <1>4 DEF vars, AtMostTwo, Busy
  <1> QED
    BY <1>1, <1>2, <1>3, <1>4 DEF Next

\* Each step keeps the bound on the failures, as long as no more than two
\* requests are in progress.
LEMMA NextBound == AtMostTwo /\ IInv /\ BoundInv /\ [Next]_vars => BoundInv'
  <1> SUFFICES ASSUME AtMostTwo, IInv, BoundInv, [Next]_vars PROVE BoundInv'
    OBVIOUS
  <1> USE NoneAssumption DEF IInv
  <1>1. \A r \in Requests : req[r] # None => req[r] \in Request /\ req[r].row \in Rows
    BY DEF TypeOK, Request
  <1>2. /\ row # None => writer = None /\ row \in Rows
        /\ writer # None => req[writer] # None /\ (req[writer].pc = "fail" => req[writer].row = Fresh)
        /\ Fresh \in Rows /\ None \in Request \cup {None}
    BY DEF BoundInv, FirstRow, TypeOK, WriterUnfinished, Fresh, Rows, Locks
  <1>3. ASSUME NEW r \in Requests, LoginSelect(r) PROVE BoundInv'
    <2> DEFINE x == IF row = None THEN [pc |-> "insert", row |-> Fresh] ELSE [pc |-> "judge", row |-> row]
    <2>1. /\ x \in Request /\ req' = [req EXCEPT ![r] = x]
          /\ \/ row = None /\ x.pc = "insert"
             \/ row # None /\ x.pc = "judge" /\ x.row = row
      BY <1>2, <1>3 DEF LoginSelect, Goto, Request
    <2> HIDE DEF x
    <2>2. UNCHANGED <<row, writer, failures>> /\ writer # r /\ req'[r] = x
          /\ \A s \in Requests : s # r => req'[s] = req[s]
      BY <1>2, <1>3, <2>1 DEF LoginSelect, TypeOK
    <2> QED
      BY <1>2, <2>1, <2>2, NoWriteBound DEF TypeOK
  <1>4. ASSUME NEW r \in Requests, LoginInsert(r) PROVE BoundInv'
    <2> DEFINE x == IF row = None THEN [pc |-> "verify", row |-> Fresh] ELSE None
    <2>1. /\ x \in Request \cup {None} /\ req' = [req EXCEPT ![r] = x]
          /\ \/ row = None /\ x # None /\ x.pc = "verify" /\ writer' = r
             \/ row # None /\ x = None /\ writer' = writer
      BY <1>2, <1>4 DEF LoginInsert, Goto, Return, Request
    <2> HIDE DEF x
    <2>2. UNCHANGED <<row, failures>> /\ req'[r] = x /\ writer = None
      BY <1>4, <2>1 DEF LoginInsert, TypeOK
    <2> QED
      BY <1>2, <2>1, <2>2, NoWriteBound
  <1>5. ASSUME NEW r \in Requests, Judge(r) PROVE BoundInv'
    <2>1. At(r, "judge")
      BY <1>5 DEF Judge
    <2>2. CASE req[r].row.lock = "expired"
      BY <1>5, <2>1, <2>2, ClearBound DEF Judge, RunOut
    <2>3. CASE req[r].row.lock # "expired"
      <3>1. PICK x \in Request \cup {None} :
               /\ req' = [req EXCEPT ![r] = x]
               /\ x # None => x.pc = "verify" /\ req[r].row.lock = "none"
        BY <1>1, <1>5, <2>1, <2>3 DEF Judge, RunOut, Goto, Return, At, Request, Rows, Locks
      <3>2. UNCHANGED <<row, writer, failures>> /\ req'[r] = x /\ writer # r
            /\ \A s \in Requests : s # r => req'[s] = req[s]
        BY <1>5, <2>1, <2>3, <3>1 DEF Judge, RunOut, At, TypeOK, WriterUnfinished
      <3>3. x # None => Admitted(r)
        BY <2>1, <3>1 DEF Admitted, At
      <3> QED
        BY <1>2, <3>1, <3>2, <3>3, NoWriteBound DEF TypeOK
    <2> QED
      BY <2>2, <2>3
  <1>6. ASSUME NEW r \in Requests, NEW outcome \in Outcomes, Verify(r, outcome) PROVE BoundInv'
    <2>1. At(r, "verify") /\ UNCHANGED <<row, failures>>
      BY <1>6 DEF Verify
    <2> DEFINE x == IF outcome = "need_totp" THEN None
                    ELSE [pc |-> IF outcome = "fail" THEN "select_fail" ELSE "select_success", row |-> req[r].row]
    <2>2. /\ x \in Request \cup {None} /\ req' = [req EXCEPT ![r] = x]
          /\ \/ x = None /\ SessionClosed(r)
             \/ x # None /\ x.pc \in {"select_fail", "select_success"} /\ UNCHANGED writer
      BY <1>1, <1>6, <2>1 DEF Verify, Goto, Return, At, Request
    <2> HIDE DEF x
    <2>3. req'[r] = x /\ \A s \in Requests : s # r => req'[s] = req[s]
      BY <2>2 DEF TypeOK
    <2>4. Admitted(r)
      BY <2>1 DEF Admitted, At
    <2>5. /\ row # None => writer' = None
          /\ writer' # None /\ req'[writer'].pc = "fail" => req'[writer'].row = Fresh
      BY <1>2, <2>2, <2>3 DEF SessionClosed, TypeOK
    <2> QED
      BY <2>1, <2>2, <2>3, <2>4, <2>5, NoWriteBound
  <1>7. ASSUME NEW r \in Requests, Reload(r) PROVE BoundInv'
    <2>1. /\ UNCHANGED <<row, writer, failures>>
          /\ At(r, "select_fail") \/ At(r, "select_success")
      BY <1>7 DEF Reload
    <2>2. Visible(r) \in Rows /\ (row # None => Visible(r) = row) /\ (writer = r => Visible(r) = Fresh)
      BY <1>2, <2>1, VisibleType DEF At, RowKnown, Visible
    <2> DEFINE x == [pc |-> IF At(r, "select_fail") THEN "fail" ELSE "success", row |-> Visible(r)]
    <2>3. /\ x \in Request /\ req' = [req EXCEPT ![r] = x]
          /\ x.pc \in {"fail", "success"} /\ x.row = Visible(r)
      BY <1>7, <2>2 DEF Reload, Goto, Request, At
    <2> HIDE DEF x
    <2>4. req'[r] = x /\ \A s \in Requests : s # r => req'[s] = req[s]
      BY <2>3 DEF TypeOK
    <2>5. Admitted(r)
      BY <2>1 DEF Admitted, At
    <2>6. writer' # None /\ req'[writer'].pc = "fail" => req'[writer'].row = Fresh
      BY <1>2, <2>1, <2>2, <2>3, <2>4 DEF TypeOK
    <2> QED
      BY <1>2, <2>1, <2>2, <2>3, <2>4, <2>5, <2>6, NoWriteBound
  <1>8. ASSUME NEW r \in Requests, ResetSelect(r) PROVE BoundInv'
    <2> DEFINE x == [pc |-> "reset", row |-> row]
    <2>1. x \in Request /\ req' = [req EXCEPT ![r] = x] /\ x.pc = "reset" /\ x.row = row
      BY <1>2, <1>8 DEF ResetSelect, Goto, Request
    <2> HIDE DEF x
    <2>2. UNCHANGED <<row, writer, failures>> /\ row # None /\ req'[r] = x
      BY <1>8, <2>1 DEF ResetSelect, TypeOK
    <2> QED
      BY <1>2, <2>1, <2>2, NoWriteBound
  <1>9. ASSUME NEW r \in Requests, ResetCommit(r) PROVE BoundInv'
    BY <1>9, ClearBound DEF ResetCommit
  <1>10. ASSUME NEW r \in Requests, LockTimeout(r) PROVE BoundInv'
    <2>1. /\ req' = [req EXCEPT ![r] = None] /\ UNCHANGED <<row, writer, failures>> /\ writer # r
          /\ req'[r] = None /\ \A s \in Requests : s # r => req'[s] = req[s]
      BY <1>10 DEF LockTimeout, MayWrite, Return, TypeOK
    <2> QED
      BY <1>2, <2>1, NoWriteBound DEF TypeOK
  <1>11. CASE UNCHANGED vars
    BY <1>11 DEF vars, BoundInv, FirstRow, LastLoaded, LockStops, FailuresSoFar, Admitted, At
  <1> QED
    BY <1>3, <1>4, <1>5, <1>6, <1>7, <1>8, <1>9, <1>10, <1>11, FailureBound, SuccessBound, ExpiryBound
    DEF Next, Proceed

\* Unless three requests of an address met, at most 2 + 3 + ... + BF_MAX logins
\* fail before the lock sets in, however they overlap, for any threshold, and
\* whatever resets, successes and expired locks come in between.
THEOREM FailuresBoundedInPairs == Spec => []FailuresBounded
  <1>0. Init => UncrowdedInv
    <2>1. Init => AtMostTwo
      BY DEF Init, AtMostTwo, Busy
    <2> QED
      BY <2>1, InitBound DEF UncrowdedInv
  <1>1. IInv /\ UncrowdedInv /\ [Next]_vars => UncrowdedInv'
    <2> SUFFICES ASSUME IInv, UncrowdedInv, [Next]_vars, ~crowded' PROVE AtMostTwo' /\ BoundInv'
      BY Zenon DEF UncrowdedInv
    <2>1. ~crowded
      BY Zenon DEF Next, Proceed, LoginSelect, ResetSelect, LockExpires, vars, NoteOverlap
    <2>2. AtMostTwo /\ BoundInv
      BY <2>1, Zenon DEF UncrowdedInv
    <2> QED
      BY <2>2, NextTwo, NextBound DEF IInv
  <1>2. IInv /\ UncrowdedInv => FailuresBounded
    <2> SUFFICES ASSUME TypeOK, FailuresSoFar, row # None, row.lock = "none", row.count < BF_MAX
                 PROVE  2 * failures <= (BF_MAX - 1) * (BF_MAX + 2)
      BY DEF IInv, UncrowdedInv, BoundInv, FailuresBounded
    <2>1. row.count \in 0..(BF_MAX - 1) /\ BF_MAX - 1 \in Nat /\ failures \in Nat
      BY BFMaxAssumption DEF TypeOK, Rows
    <2>2. 2 * failures <= Above(row.count)
      BY DEF FailuresSoFar
    <2>3. Above(row.count) <= Above(BF_MAX - 1)
      BY <2>1, AboveGrows, BFMaxAssumption
    <2>4. Above(BF_MAX - 1) = (BF_MAX - 1) * (BF_MAX + 2) /\ Above(row.count) \in Int
      BY <2>1, BFMaxAssumption DEF Above
    <2>5. (BF_MAX - 1) * (BF_MAX + 2) \in Int
      BY BFMaxAssumption
    <2> QED
      BY <2>1, <2>2, <2>3, <2>4, <2>5
  <1> QED
    BY Invariance, <1>0, <1>1, <1>2, PTL DEF Spec
=============================================================================
