----------------------------- MODULE AdminAccount -----------------------------
(***************************************************************************)
(* The administrator's account: its creation at start-up, the set-up of    *)
(* the second factor, and the session tokens logins issue.  A token is     *)
(* signed, not stored: it is good until its age is up, through a logout,   *)
(* a restart and a change of the second factor.  Failed logins are counted *)
(* in module AdminLogin.                                                   *)
(***************************************************************************)
EXTENDS Naturals

CONSTANTS
    Requests,    \* requests in progress at a time
    MaxSecrets,  \* bound on the TOTP secrets generated
    None         \* no account, no secret, no request

\* Secrets are numbered in the order of their generation.
Secrets == Nat \ {0}

ASSUME MaxSecretsAssumption == MaxSecrets \in Nat
ASSUME NoneAssumption == None \notin Secrets

VARIABLES
    user,        \* the row of admin_users, or None
    tokens,      \* kinds of session tokens still good, by how they were got
    req,         \* requests in progress
    generated,   \* secrets generated so far
    shown,       \* secrets a page has shown to the administrator
    proven,      \* history: secrets of which the set-up page accepted a code
    overlap      \* history: a first view began while another was in progress

vars == <<user, tokens, req, generated, shown, proven, overlap>>

\* "coded": the login gave a TOTP code; "plain": it gave none.
Kinds == {"coded", "plain"}

Users == [secret : Secrets \cup {None}, enabled : BOOLEAN]

Request == [pc : {"store", "enable"}, secret : Secrets] \cup [pc : {"issue"}, kind : Kinds]

ASSUME NoRecordAssumption == None \notin Users \cup Request

TypeOK ==
    /\ user \in Users \cup {None}
    /\ tokens \subseteq Kinds
    /\ req \in [Requests -> Request \cup {None}]
    /\ generated \in Nat
    /\ shown \subseteq Secrets
    /\ proven \subseteq Secrets
    /\ overlap \in BOOLEAN

Init ==
    /\ user = None
    /\ tokens = {}
    /\ req = [r \in Requests |-> None]
    /\ generated = 0
    /\ shown = {}
    /\ proven = {}
    /\ overlap = FALSE
----------------------------------------------------------------------------
At(r, pc) == req[r] # None /\ req[r].pc = pc

Await(r, point) == req' = [req EXCEPT ![r] = point]
Return(r) == req' = [req EXCEPT ![r] = None]

\* get_current_user: a good token, and the account it names.
LoggedIn == tokens # {} /\ user # None

AnyView == TRUE

\* if not user.totp_secret
FirstView == user.secret = None

\* The page is shown, or a secret is generated and on its way to the row.
ViewLoad(r) ==
    /\ LoggedIn /\ req[r] = None
    /\ IF FirstView
       THEN /\ generated < MaxSecrets
            /\ generated' = generated + 1
            /\ Await(r, [pc |-> "store", secret |-> generated'])
            /\ overlap' = (overlap \/ \E q \in Requests : At(q, "store"))
            /\ UNCHANGED shown
       ELSE /\ shown' = shown \cup {user.secret}
            /\ UNCHANGED <<req, generated, overlap>>
    /\ UNCHANGED <<user, tokens, proven>>

\* The UPDATE sets the secret, whatever the row holds by now.
ViewStore(r) ==
    /\ At(r, "store")
    /\ user' = [user EXCEPT !.secret = req[r].secret]
    /\ shown' = shown \cup {req[r].secret}
    /\ Return(r)
    /\ UNCHANGED <<tokens, generated, proven, overlap>>

\* verify_totp: a code of the secret, as far as the time allows.
VerifyTotp(code, secret) == code = secret

\* POST /setup-2fa with a code of one of the secrets shown; without a stored
\* secret it fails.  The page that turns the code down shows the stored secret.
Confirm(r, code) ==
    /\ LoggedIn /\ req[r] = None
    /\ user.secret # None
    /\ IF VerifyTotp(code, user.secret)
       THEN Await(r, [pc |-> "enable", secret |-> code]) /\ UNCHANGED shown
       ELSE shown' = shown \cup {user.secret} /\ UNCHANGED req
    /\ UNCHANGED <<user, tokens, generated, proven, overlap>>

Enable(r) ==
    /\ At(r, "enable")
    /\ user' = [user EXCEPT !.enabled = TRUE]
    /\ proven' = proven \cup {req[r].secret}
    /\ Return(r)
    /\ UNCHANGED <<tokens, generated, shown, overlap>>

NoCodeAsked == FALSE

\* if user.totp_enabled
CodeAsked == user.enabled

\* The right password, with a code of a secret or (None) without; the login
\* then awaits record_success and a commit of its own.
LoginLoad(r, code) ==
    /\ user # None /\ req[r] = None
    /\ CodeAsked => code # None /\ VerifyTotp(code, user.secret)
    /\ Await(r, [pc |-> "issue", kind |-> IF CodeAsked THEN "coded" ELSE "plain"])
    /\ UNCHANGED <<user, tokens, generated, shown, proven, overlap>>

LoginIssue(r) ==
    /\ At(r, "issue")
    /\ tokens' = tokens \cup {req[r].kind}
    /\ Return(r)
    /\ UNCHANGED <<user, generated, shown, proven, overlap>>

\* max_age: the last token of its kind is eight hours old.
TokenExpires(kind) ==
    /\ kind \in tokens
    /\ tokens' = tokens \ {kind}
    /\ UNCHANGED <<user, req, generated, shown, proven, overlap>>

BlankAccount == [secret |-> 0, enabled |-> FALSE]

NewAccount == [secret |-> None, enabled |-> FALSE]

\* startup, after a stop at any point: requests are gone, tokens are not.  The
\* account is created if ADMIN_PASSWORD is set and there is none.
Restart(password_set) ==
    /\ req' = [r \in Requests |-> None]
    /\ user' = IF password_set /\ user = None THEN NewAccount ELSE user
    /\ UNCHANGED <<tokens, generated, shown, proven, overlap>>

Proceed(r) == ViewStore(r) \/ Enable(r) \/ LoginIssue(r)

Next ==
    \/ \E r \in Requests :
        \/ ViewLoad(r)
        \/ \E code \in shown : Confirm(r, code)
        \/ \E code \in shown \cup {None} : LoginLoad(r, code)
        \/ Proceed(r)
    \/ \E kind \in Kinds : TokenExpires(kind)
    \/ \E password_set \in BOOLEAN : Restart(password_set)

Spec == Init /\ [][Next]_vars

\* The event loop finishes what it has begun, and tokens age.
FairSpec ==
    /\ Spec
    /\ \A r \in Requests : WF_vars(Proceed(r))
    /\ \A kind \in Kinds : WF_vars(TokenExpires(kind))
----------------------------------------------------------------------------
(* Properties *)

\* The second factor is never demanded of an administrator whose app has not
\* shown to work: once it is enabled, the stored secret is one of which the
\* set-up page has accepted a code, unless two first views of the page met and
\* the late one stored its secret over the confirmed one.
EnabledIsProven ==
    user # None /\ ~overlap => (user.enabled => user.secret \in proven)

\* A login that did not give a code gives access for a token's life at most
\* after the second factor is enabled: in the end only logins with a code count,
\* also against a login that read the account before it was enabled.
EventuallyAllCoded ==
    (user # None /\ user.enabled) ~> []("plain" \notin tokens)
----------------------------------------------------------------------------
(* The inductive invariant *)

\* A request under way has an account to work on.
AccountThere == \A r \in Requests : req[r] # None => user # None

LoneFirstView ==
    \A r \in Requests : At(r, "store") =>
        user.secret = None /\ \A q \in Requests : At(q, "store") => q = r

ConfirmedIsStored == \A r \in Requests : At(r, "enable") => req[r].secret = user.secret

IInv ==
    /\ TypeOK
    /\ AccountThere
    /\ EnabledIsProven
    /\ ~overlap => LoneFirstView /\ ConfirmedIsStored
=============================================================================
