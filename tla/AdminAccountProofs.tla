-------------------------- MODULE AdminAccountProofs --------------------------
(***************************************************************************)
(* Proofs about AdminAccount, for any number of overlapping requests and   *)
(* of secrets.                                                             *)
(***************************************************************************)
EXTENDS AdminAccount, TLAPS

\* The points of a request in progress.
LEMMA RequestTypes ==
    /\ \A s \in Secrets, pc \in {"store", "enable"} :
        /\ [pc |-> pc, secret |-> s] \in Request
        /\ [pc |-> pc, secret |-> s].pc = pc /\ [pc |-> pc, secret |-> s].secret = s
    /\ \A k \in Kinds :
        /\ [pc |-> "issue", kind |-> k] \in Request /\ [pc |-> "issue", kind |-> k].pc = "issue"
    /\ \A q \in Request :
        /\ q.pc \in {"store", "enable"} => q.secret \in Secrets
        /\ q.pc = "issue" => q.kind \in Kinds
  BY DEF Request

LEMMA InitInvariant == Init => IInv
  <1> SUFFICES ASSUME Init PROVE IInv
    OBVIOUS
  <1>1. TypeOK
    BY DEF Init, TypeOK
  <1>2. AccountThere /\ EnabledIsProven /\ LoneFirstView /\ ConfirmedIsStored
    BY DEF Init, AccountThere, EnabledIsProven, LoneFirstView, ConfirmedIsStored, At
  <1> QED
    BY <1>1, <1>2 DEF IInv

\* What Await and Return do to the requests.
LEMMA AwaitStep ==
    ASSUME TypeOK, NEW r \in Requests, NEW point \in Request \cup {None},
           req' = [req EXCEPT ![r] = point]
    PROVE  /\ req' \in [Requests -> Request \cup {None}] /\ req'[r] = point
           /\ \A q \in Requests \ {r} : req'[q] = req[q]
  BY DEF TypeOK

\* A secret is stored by a first view alone, and confirmed afterwards.
LEMMA StoreStep ==
    ASSUME IInv, NEW r \in Requests, ViewStore(r)
    PROVE  IInv'
  <1> USE DEF IInv
  <1>1. /\ req[r] \in Request /\ req[r].pc = "store" /\ user \in Users
        /\ req[r].secret \in Secrets
    BY NoRecordAssumption, RequestTypes DEF ViewStore, At, TypeOK, AccountThere
  <1>2. /\ req' \in [Requests -> Request \cup {None}] /\ req'[r] = None
        /\ \A q \in Requests \ {r} : req'[q] = req[q]
    BY AwaitStep DEF ViewStore, Return
  <1> DEFINE u == [user EXCEPT !.secret = req[r].secret]
  <1>3. u \in Users /\ u.secret = req[r].secret /\ u.enabled = user.enabled
    BY <1>1 DEF Users
  <1>4. user' = u
    BY DEF ViewStore
  <1> HIDE DEF u
  <1>5. user' # None
    BY <1>3, <1>4, NoRecordAssumption
  <1>6. TypeOK'
    BY <1>1, <1>2, <1>3, <1>4 DEF ViewStore, TypeOK
  <1>7. AccountThere'
    BY <1>2, <1>5 DEF AccountThere
  <1>8. ASSUME ~overlap
        PROVE  (EnabledIsProven /\ LoneFirstView /\ ConfirmedIsStored)'
    <2>1. /\ user.secret = None /\ \A q \in Requests : At(q, "store") => q = r
          /\ user # None /\ (user.enabled => user.secret \in proven)
      BY <1>1, <1>8, NoRecordAssumption DEF LoneFirstView, EnabledIsProven, ViewStore
    <2>2. ~user.enabled
      BY <2>1, NoneAssumption DEF TypeOK
    <2>3. EnabledIsProven'
      BY <1>3, <1>4, <2>2 DEF EnabledIsProven
    <2>4. \A q \in Requests : ~At(q, "store")' /\ ~At(q, "enable")'
      <3> SUFFICES ASSUME NEW q \in Requests PROVE ~At(q, "store")' /\ ~At(q, "enable")'
        OBVIOUS
      <3>1. CASE q = r
        BY <1>2, <3>1 DEF At
      <3>2. CASE q # r
        <4>1. ~At(q, "store")
          BY <2>1, <3>2
        <4>2. ~At(q, "enable")
          BY <1>8, <2>1, NoneAssumption, RequestTypes DEF ConfirmedIsStored, At, TypeOK
        <4> QED
          BY <1>2, <3>2, <4>1, <4>2 DEF At
      <3> QED
        BY <3>1, <3>2
    <2> QED
      BY <2>3, <2>4 DEF LoneFirstView, ConfirmedIsStored
  <1>9. overlap' = overlap
    BY DEF ViewStore
  <1>10. overlap => EnabledIsProven'
    BY <1>9 DEF EnabledIsProven
  <1> QED
    BY <1>6, <1>7, <1>8, <1>9, <1>10

\* The other steps of a request.
LEMMA RequestStep ==
    ASSUME IInv, NEW r \in Requests,
           \/ ViewLoad(r) \/ Enable(r) \/ LoginIssue(r)
           \/ \E code \in shown : Confirm(r, code)
           \/ \E code \in shown \cup {None} : LoginLoad(r, code)
    PROVE  IInv'
  <1> USE DEF IInv
  <1>1. ASSUME user' = user, overlap' = overlap, proven' = proven, TypeOK', user # None,
               \A q \in Requests : req'[q] = req[q] \/ req'[q] = None \/ req'[q].pc = "issue"
        PROVE  IInv'
    <2>1. AccountThere'
      BY <1>1 DEF AccountThere
    <2>2. EnabledIsProven'
      BY <1>1 DEF EnabledIsProven
    <2>3. \A q \in Requests : (At(q, "store")' => At(q, "store")) /\ (At(q, "enable")' => At(q, "enable"))
      BY <1>1 DEF At
    <2>4. ~overlap => LoneFirstView'
      BY <1>1, <2>3 DEF LoneFirstView
    <2>5. ~overlap => ConfirmedIsStored'
      BY <1>1, <2>3 DEF ConfirmedIsStored, At
    <2> QED
      BY <1>1, <2>1, <2>2, <2>4, <2>5
  <1>2. CASE ViewLoad(r) /\ ~FirstView
    <2>1. /\ UNCHANGED <<user, tokens, req, generated, proven, overlap>> /\ user # None
          /\ shown' = shown \cup {user.secret}
      BY <1>2 DEF ViewLoad, LoggedIn
    <2>2. user.secret \in Secrets
      BY <1>2, <2>1 DEF FirstView, TypeOK, Users
    <2>3. TypeOK'
      BY <2>1, <2>2 DEF TypeOK
    <2> QED
      BY <1>1, <2>1, <2>3
  <1>3. CASE ViewLoad(r) /\ FirstView
    <2>1. generated + 1 \in Secrets
      BY DEF TypeOK, Secrets
    <2>2. /\ req' = [req EXCEPT ![r] = [pc |-> "store", secret |-> generated + 1]]
          /\ generated' = generated + 1 /\ user # None /\ user.secret = None
          /\ UNCHANGED <<user, tokens, proven, shown>>
      BY <1>3 DEF ViewLoad, LoggedIn, FirstView, Await
    <2>3. /\ req' \in [Requests -> Request \cup {None}]
          /\ req'[r] = [pc |-> "store", secret |-> generated + 1]
          /\ \A q \in Requests \ {r} : req'[q] = req[q]
      BY <2>1, <2>2, RequestTypes, AwaitStep
    <2>4. overlap' \in BOOLEAN /\ (overlap' <=> (overlap \/ \E q \in Requests : At(q, "store")))
      BY <1>3 DEF ViewLoad, TypeOK
    <2>5. TypeOK'
      BY <2>1, <2>2, <2>3, <2>4 DEF TypeOK
    <2>6. AccountThere'
      BY <2>2 DEF AccountThere
    <2>7. EnabledIsProven'
      BY <2>2, <2>4 DEF EnabledIsProven
    <2>8. ASSUME ~overlap' PROVE LoneFirstView' /\ ConfirmedIsStored'
      <3>1. ~overlap /\ \A q \in Requests : ~At(q, "store")
        BY <2>4, <2>8
      <3>2. \A q \in Requests : q # r => ~At(q, "store")'
        BY <2>3, <3>1 DEF At
      <3>3. LoneFirstView'
        BY <2>2, <3>2 DEF LoneFirstView
      <3>4. req'[r].pc = "store"
        BY <2>1, <2>3, RequestTypes
      <3>5. ASSUME NEW q \in Requests, At(q, "enable")' PROVE req'[q].secret = user'.secret
        <4>1. q # r
          BY <3>4, <3>5 DEF At
        <4> QED
          BY <2>2, <2>3, <3>1, <3>5, <4>1 DEF ConfirmedIsStored, At
      <3> QED
        BY <3>3, <3>5 DEF ConfirmedIsStored
    <2> QED
      BY <2>5, <2>6, <2>7, <2>8
  <1>4. CASE Enable(r)
    <2>1. req[r] \in Request /\ req[r].pc = "enable" /\ user \in Users /\ req[r].secret \in Secrets
      BY <1>4, NoRecordAssumption, RequestTypes DEF Enable, At, TypeOK, AccountThere
    <2>2. /\ req' \in [Requests -> Request \cup {None}] /\ req'[r] = None
          /\ \A q \in Requests \ {r} : req'[q] = req[q]
      BY <1>4, AwaitStep DEF Enable, Return
    <2> DEFINE u == [user EXCEPT !.enabled = TRUE]
    <2>3. u \in Users /\ u.secret = user.secret
      BY <2>1 DEF Users
    <2>4. user' = u /\ proven' = proven \cup {req[r].secret}
          /\ UNCHANGED <<tokens, generated, shown, overlap>>
      BY <1>4 DEF Enable
    <2> HIDE DEF u
    <2>5. user' # None
      BY <2>3, <2>4, NoRecordAssumption
    <2>6. TypeOK'
      BY <2>1, <2>2, <2>3, <2>4 DEF TypeOK
    <2>7. AccountThere'
      BY <2>2, <2>5 DEF AccountThere
    <2>8. ASSUME ~overlap PROVE (EnabledIsProven /\ LoneFirstView /\ ConfirmedIsStored)'
      <3>1. req[r].secret = user.secret
        BY <1>4, <2>8 DEF Enable, ConfirmedIsStored
      <3>2. EnabledIsProven'
        BY <2>3, <2>4, <3>1 DEF EnabledIsProven
      <3>3. \A q \in Requests : (At(q, "store")' => At(q, "store")) /\ (At(q, "enable")' => At(q, "enable"))
        BY <2>2 DEF At
      <3>4. LoneFirstView'
        BY <2>3, <2>4, <2>8, <3>3 DEF LoneFirstView
      <3>5. ConfirmedIsStored'
        BY <2>2, <2>3, <2>4, <2>8, <3>3 DEF ConfirmedIsStored, At
      <3> QED
        BY <3>2, <3>4, <3>5
    <2>9. overlap => EnabledIsProven'
      BY <2>4 DEF EnabledIsProven
    <2> QED
      BY <2>4, <2>6, <2>7, <2>8, <2>9
  <1>5. CASE LoginIssue(r)
    <2>1. req[r] \in Request /\ req[r].kind \in Kinds /\ user # None
      BY <1>5, RequestTypes DEF LoginIssue, At, TypeOK, AccountThere
    <2>2. /\ req' \in [Requests -> Request \cup {None}] /\ req'[r] = None
          /\ \A q \in Requests \ {r} : req'[q] = req[q]
      BY <1>5, AwaitStep DEF LoginIssue, Return
    <2>3. TypeOK'
      BY <1>5, <2>1, <2>2 DEF LoginIssue, TypeOK
    <2> QED
      BY <1>1, <1>5, <2>1, <2>2, <2>3 DEF LoginIssue
  <1>6. ASSUME NEW code \in shown, Confirm(r, code) PROVE IInv'
    <2>1. /\ user \in Users /\ user # None /\ user.secret \in Secrets /\ code \in Secrets
          /\ UNCHANGED <<user, tokens, generated, proven, overlap>>
      BY <1>6 DEF Confirm, LoggedIn, TypeOK, Users
    <2>2. CASE VerifyTotp(code, user.secret)
      <3>1. req' = [req EXCEPT ![r] = [pc |-> "enable", secret |-> code]]
            /\ shown' = shown /\ code = user.secret
        BY <1>6, <2>2 DEF Confirm, Await, VerifyTotp
      <3>2. /\ req' \in [Requests -> Request \cup {None}]
            /\ req'[r] = [pc |-> "enable", secret |-> code]
            /\ \A q \in Requests \ {r} : req'[q] = req[q]
        BY <2>1, <3>1, RequestTypes, AwaitStep
      <3>3. req'[r].pc = "enable" /\ req'[r].secret = user.secret
        BY <2>1, <3>1, <3>2, RequestTypes
      <3>4. TypeOK'
        BY <2>1, <3>1, <3>2 DEF TypeOK
      <3>5. AccountThere' /\ EnabledIsProven'
        BY <2>1 DEF AccountThere, EnabledIsProven
      <3>6. \A q \in Requests : At(q, "store")' => At(q, "store")
        BY <3>2, <3>3 DEF At
      <3>7. ~overlap => LoneFirstView'
        BY <2>1, <3>6 DEF LoneFirstView
      <3>8. ~overlap => ConfirmedIsStored'
        BY <2>1, <3>2, <3>3 DEF ConfirmedIsStored, At
      <3> QED
        BY <2>1, <3>4, <3>5, <3>7, <3>8
    <2>3. CASE ~VerifyTotp(code, user.secret)
      <3>1. shown' = shown \cup {user.secret} /\ req' = req
        BY <1>6, <2>3 DEF Confirm
      <3>2. TypeOK'
        BY <2>1, <3>1 DEF TypeOK
      <3> QED
        BY <1>1, <2>1, <3>1, <3>2
    <2> QED
      BY <2>2, <2>3
  <1>7. ASSUME NEW code \in shown \cup {None}, LoginLoad(r, code) PROVE IInv'
    <2>1. PICK kind \in Kinds : req' = [req EXCEPT ![r] = [pc |-> "issue", kind |-> kind]]
      BY <1>7 DEF LoginLoad, Await, Kinds
    <2>2. /\ req' \in [Requests -> Request \cup {None}]
          /\ req'[r] = [pc |-> "issue", kind |-> kind]
          /\ \A q \in Requests \ {r} : req'[q] = req[q]
      BY <2>1, RequestTypes, AwaitStep
    <2>3. UNCHANGED <<user, tokens, generated, shown, proven, overlap>> /\ user # None
      BY <1>7 DEF LoginLoad
    <2>4. TypeOK'
      BY <2>2, <2>3 DEF TypeOK
    <2>5. req'[r].pc = "issue"
      BY <2>2, RequestTypes
    <2> QED
      BY <1>1, <2>2, <2>3, <2>4, <2>5
  <1> QED
    BY <1>2, <1>3, <1>4, <1>5, <1>6, <1>7

\* Time, and a new process.
LEMMA WorldStep ==
    ASSUME IInv,
           \/ \E kind \in Kinds : TokenExpires(kind)
           \/ \E password_set \in BOOLEAN : Restart(password_set)
    PROVE  IInv'
  <1> USE DEF IInv
  <1>1. ASSUME NEW kind \in Kinds, TokenExpires(kind) PROVE IInv'
    <2>1. UNCHANGED <<user, req, generated, shown, proven, overlap>> /\ tokens' \subseteq tokens
      BY <1>1 DEF TokenExpires
    <2> QED
      BY <2>1 DEF TypeOK, AccountThere, EnabledIsProven, LoneFirstView, ConfirmedIsStored, At
  <1>2. ASSUME NEW password_set \in BOOLEAN, Restart(password_set) PROVE IInv'
    <2>1. /\ NewAccount \in Users /\ ~NewAccount.enabled
      BY DEF NewAccount, Users
    <2>2. /\ user' = user \/ user' = NewAccount
          /\ \A r \in Requests : req'[r] = None
          /\ UNCHANGED <<tokens, generated, shown, proven, overlap>>
      BY <1>2 DEF Restart
    <2>3. TypeOK'
      BY <1>2, <2>1, <2>2 DEF Restart, TypeOK
    <2>4. EnabledIsProven'
      BY <2>1, <2>2 DEF EnabledIsProven
    <2> QED
      BY <2>2, <2>3, <2>4 DEF AccountThere, LoneFirstView, ConfirmedIsStored, At
  <1> QED
    BY <1>1, <1>2

\* The inductive invariant holds in every behaviour.
THEOREM Invariance == Spec => []IInv
  <1>1. IInv /\ [Next]_vars => IInv'
    <2> SUFFICES ASSUME IInv, [Next]_vars PROVE IInv'
      OBVIOUS
    <2>1. CASE UNCHANGED vars
      BY <2>1 DEF vars, IInv, TypeOK, AccountThere, EnabledIsProven, LoneFirstView,
                  ConfirmedIsStored, At
    <2> QED
      BY <2>1, StoreStep, RequestStep, WorldStep DEF Next, Proceed
  <1> QED
    BY InitInvariant, <1>1, PTL DEF Spec

\* Type correctness of the account, its tokens and the requests.
THEOREM TypeCorrect == Spec => []TypeOK
  <1>1. IInv => TypeOK
    BY DEF IInv
  <1> QED
    BY Invariance, <1>1, PTL

\* The second factor is demanded only once its stored secret has been confirmed.
THEOREM EnabledSecretWasProven == Spec => []EnabledIsProven
  <1>1. IInv => EnabledIsProven
    BY DEF IInv
  <1> QED
    BY Invariance, <1>1, PTL
=============================================================================
