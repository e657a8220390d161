------------------------------- MODULE SmtpData -------------------------------
(***************************************************************************)
(* A mail's way through the aiosmtpd engine (smtp_server.handle_DATA,      *)
(* mail_relay.py): a row is committed as "pending", the mail is relayed    *)
(* while the device waits, the row is brought to its final status, the     *)
(* attempt reported, and the device told.  The engine keeps no queue: a    *)
(* device that is told 451, or nothing, sends the mail again.              *)
(* The sender has authenticated (module SmtpAuth); tokens are TokenCache's.*)
(***************************************************************************)
EXTENDS Naturals

CONSTANTS
    Mails,          \* the mails the devices submit
    Recipients,     \* the recipients of each of them
    Configs,        \* what oauth_configs the process may be started with
    MaxFaults       \* bound on what goes wrong around the handler

\* "empty": no entry; "broken": an entry no token can be got for.
Working == {"client_credentials", "delegated"}
ASSUME ConfigsAssumption == Configs \subseteq Working \cup {"empty", "broken"}
ASSUME RecipientsAssumption == Recipients # {}
ASSUME MaxFaultsAssumption == MaxFaults \in Nat

VARIABLES
    config,     \* the first of oauth_configs, read when the process starts
    client,     \* each mail as its device sees it
    handler,    \* the run of handle_DATA for the mail, if any
    late,       \* threads that still send the mail for a handler long cancelled
    rows,       \* rows of the mail in mail_logs, by status
    sent,       \* transmissions of each mail that Microsoft 365 accepted
    reached,    \* recipients an accepted transmission carried
    refused,    \* recipients an accepted transmission left out
    faults      \* failures of the environment so far

upstream == <<sent, reached, refused>>
vars == <<config, client, handler, late, rows, upstream, faults>>

Handlers == [pc : {"none", "insert", "relay", "success", "failed", "report", "reply"},
             next : {"report", "reply"}, reply : {250, 451, 500}]

NoHandler == [pc |-> "none", next |-> "reply", reply |-> 451]

RowCounts == [{"pending", "success", "failed"} -> Nat]

TypeOK ==
    /\ config \in Configs
    /\ client \in [Mails -> {"new", "ready", "waiting", "done", "bounced"}]
    /\ handler \in [Mails -> Handlers]
    /\ late \in [Mails -> Nat]
    /\ rows \in [Mails -> RowCounts]
    /\ sent \in [Mails -> Nat]
    /\ reached \in [Mails -> SUBSET Recipients]
    /\ refused \in [Mails -> SUBSET Recipients]
    /\ faults \in Nat

Init ==
    /\ config \in Configs
    /\ client = [m \in Mails |-> "new"]
    /\ handler = [m \in Mails |-> NoHandler]
    /\ late = [m \in Mails |-> 0]
    /\ rows = [m \in Mails |-> [status \in {"pending", "success", "failed"} |-> 0]]
    /\ sent = [m \in Mails |-> 0]
    /\ reached = [m \in Mails |-> {}]
    /\ refused = [m \in Mails |-> {}]
    /\ faults = 0

Fault ==
    /\ faults < MaxFaults
    /\ faults' = faults + 1

NoFault == UNCHANGED faults
----------------------------------------------------------------------------
(* Points handle_DATA continues at *)

Goto(m, point) == handler' = [handler EXCEPT ![m] = point]

At(pc) == [NoHandler EXCEPT !.pc = pc]

Reply(code) == [At("reply") EXCEPT !.reply = code]

FailTakenForOK(next) == Reply(250)

\* The row becomes "failed", and the device is told 451: the handlers of
\* OAuthError and RelayError report the attempt, that of Exception does not.
Fail(next) == [At("failed") EXCEPT !.next = next]

ReportThen(code) == [At("report") EXCEPT !.reply = code]

RelayedRetried == ReportThen(451)

Relayed == ReportThen(250)

UnmarkedTakenForOK == Reply(250)

\* The row's commit failed: the handler of Exception takes over.
Unmarked == Fail("reply")

RowForgotten(m) == UNCHANGED rows

RowInserted(m) == rows' = [rows EXCEPT ![m]["pending"] = @ + 1]

RowStays(m, status) == UNCHANGED rows

RowSettled(m, status) ==
    rows' = [rows EXCEPT ![m]["pending"] = @ - 1, ![m][status] = @ + 1]
----------------------------------------------------------------------------
(* The handler *)

\* A device sends the mail, for the first time or again.
Data(m) ==
    /\ client[m] \in {"new", "ready"}
    /\ client' = [client EXCEPT ![m] = "waiting"]
    /\ Goto(m, IF config = "empty" THEN Reply(451) ELSE At("insert"))
    /\ UNCHANGED <<config, late, rows, upstream, faults>>

\* The pending row is committed before anything is sent; a failure of the
\* database, here or in reading the row back, leaves handle_DATA with 500.
Insert(m) ==
    /\ handler[m].pc = "insert"
    /\ \/ RowInserted(m) /\ Goto(m, At("relay")) /\ NoFault
       \/ (RowInserted(m) \/ UNCHANGED rows) /\ Goto(m, Reply(500)) /\ Fault
    /\ UNCHANGED <<config, client, late, upstream>>

GraphOnly == IF config = "client_credentials" THEN {Recipients} ELSE {}

\* Graph takes a mail whole; sendmail() raises only if every RCPT is refused.
AcceptedSets ==
    CASE config = "delegated" -> (SUBSET Recipients) \ {{}}
      [] config = "client_credentials" -> {Recipients}
      [] OTHER -> {}

Transmit(m, S) ==
    /\ sent' = [sent EXCEPT ![m] = @ + 1]
    /\ reached' = [reached EXCEPT ![m] = @ \cup S]
    /\ refused' = [refused EXCEPT ![m] = @ \cup (Recipients \ S)]

\* The answer arrives, or is lost, or QUIT fails.
Accepted(m, S) ==
    /\ Transmit(m, S)
    /\ \/ Goto(m, At("success")) /\ NoFault
       \/ Goto(m, Fail("reply")) /\ Fault

\* OAuthError or RelayError, or anything else.  A broken account makes for a
\* failure at every attempt, so that MaxFaults bounds these too.
NotAccepted(m) ==
    /\ \E next \in {"report", "reply"} : Goto(m, Fail(next))
    /\ Fault
    /\ UNCHANGED upstream

\* relay_email, with the token it needs.
Relay(m) ==
    /\ handler[m].pc = "relay"
    /\ (\E S \in AcceptedSets : Accepted(m, S)) \/ NotAccepted(m)
    /\ UNCHANGED <<config, client, late, rows>>

MarkSuccess(m) ==
    /\ handler[m].pc = "success"
    /\ \/ RowSettled(m, "success") /\ Goto(m, Relayed) /\ NoFault
       \/ Goto(m, Unmarked) /\ Fault /\ UNCHANGED rows
    /\ UNCHANGED <<config, client, late, upstream>>

\* A commit that fails in an except block leaves handle_DATA with 500.
MarkFailed(m) ==
    /\ handler[m].pc = "failed"
    /\ \/ /\ RowSettled(m, "failed")
          /\ Goto(m, At(handler[m].next))
          /\ NoFault
       \/ Goto(m, Reply(500)) /\ Fault /\ UNCHANGED rows
    /\ UNCHANGED <<config, client, late, upstream>>

\* _report_log_to_admin waits at most 5 seconds and swallows every Exception.
Report(m) ==
    /\ handler[m].pc = "report"
    /\ Goto(m, Reply(handler[m].reply))
    /\ UNCHANGED <<config, client, late, rows, upstream, faults>>

\* What the device makes of the answer.
Told(code) == CASE code = 250 -> "done" [] code = 451 -> "ready" [] code = 500 -> "bounced"

Answer(m) ==
    /\ handler[m].pc = "reply"
    /\ client' = [client EXCEPT ![m] = Told(handler[m].reply)]
    /\ Goto(m, NoHandler)
    /\ UNCHANGED <<config, late, rows, upstream, faults>>
----------------------------------------------------------------------------
(* The environment *)

\* The connection goes, or times out, and aiosmtpd cancels the handler at its
\* await: what it waits for has taken place, or not, or (SMTP with XOAUTH2, in
\* a thread) still goes on.
Drop(m) ==
    /\ handler[m].pc # "none"
    /\ Goto(m, NoHandler)
    /\ client' = [client EXCEPT ![m] = "ready"]
    /\ Fault
    /\ \/ UNCHANGED <<late, rows, upstream>>
       \/ handler[m].pc = "insert" /\ RowInserted(m) /\ UNCHANGED <<late, upstream>>
       \/ /\ handler[m].pc \in {"success", "failed"}
          /\ RowSettled(m, handler[m].pc)
          /\ UNCHANGED <<late, upstream>>
       \/ /\ handler[m].pc = "relay" /\ config = "client_credentials"
          /\ Transmit(m, Recipients)
          /\ UNCHANGED <<late, rows>>
       \/ /\ handler[m].pc = "relay" /\ config = "delegated"
          /\ late' = [late EXCEPT ![m] = @ + 1]
          /\ UNCHANGED <<rows, upstream>>
    /\ UNCHANGED config

\* The thread of a cancelled handler sends the mail, or fails.
Late(m) ==
    /\ late[m] > 0
    /\ late' = [late EXCEPT ![m] = @ - 1]
    /\ (\E S \in AcceptedSets : Transmit(m, S)) \/ UNCHANGED upstream
    /\ UNCHANGED <<config, client, handler, rows, faults>>

\* The process ends at any moment and is started again, with the configuration
\* of that time; its database is on the tenant's volume.
Restart(c) ==
    /\ config' = c
    /\ client' = [m \in Mails |-> IF client[m] = "waiting" THEN "ready" ELSE client[m]]
    /\ handler' = [m \in Mails |-> NoHandler]
    /\ late' = [m \in Mails |-> 0]
    /\ Fault
    /\ UNCHANGED <<rows, upstream>>

Handle(m) ==
    Insert(m) \/ Relay(m) \/ MarkSuccess(m) \/ MarkFailed(m) \/ Report(m) \/ Answer(m)

Next ==
    \/ \E m \in Mails : Data(m) \/ Handle(m) \/ Drop(m) \/ Late(m)
    \/ \E c \in Configs : Restart(c)

Spec == Init /\ [][Next]_vars

\* The event loop serves every handler, whose calls end or are dropped, and
\* devices send again what was not taken.
FairSpec ==
    /\ Spec
    /\ \A m \in Mails : WF_vars(Handle(m)) /\ WF_vars(Data(m) /\ client[m] = "ready")
----------------------------------------------------------------------------
(* Properties *)

\* What the device was told is true of the log: a mail answered with 250 has a
\* "success" row, whatever failed (commit, report and answer come in this order).
DoneIsLogged == \A m \in Mails : client[m] = "done" => rows[m]["success"] > 0

\* "every delivery attempt logged": each transmission, also one by a thread whose
\* handler is gone, has a row of its own, and each "success" row a transmission.
RowsMatchTransmissions ==
    \A m \in Mails :
        /\ sent[m] + late[m] <= rows[m]["pending"] + rows[m]["success"] + rows[m]["failed"]
        /\ rows[m]["success"] <= sent[m]

\* Rows left "pending" are accounted for: one by the handler at work, each other
\* by a fault (a drop, a restart or a failing database between two commits).
PendingExplained ==
    \A m \in Mails :
        rows[m]["pending"] <= faults +
            (IF handler[m].pc \in {"relay", "success", "failed"} THEN 1 ELSE 0)

\* A mail is repeated no more often than the system has had faults, whichever
\* mail they struck, and a thread left behind counts for what it may still send.
DuplicatesBounded == \A m \in Mails : sent[m] + late[m] <= faults + 1

\* Once the process runs with a working account, each mail a device has offered
\* is settled: told 250, or given up after a 500.
EventuallySettled ==
    <>[](config \in Working) =>
        \A m \in Mails : client[m] = "ready" ~> client[m] \in {"done", "bounced"}
----------------------------------------------------------------------------
(* The inductive invariant *)

\* An answer 250 is on its way, or has been given.
Succeeding(m) ==
    \/ handler[m].pc = "success"
    \/ handler[m].pc \in {"report", "reply"} /\ handler[m].reply = 250

Settled(m) == reached[m] # {} /\ reached[m] \cup refused[m] = Recipients

WaitsForHandler == \A m \in Mails : client[m] = "waiting" <=> handler[m].pc # "none"

SuccessIsSettled ==
    \A m \in Mails : Succeeding(m) \/ client[m] = "done" => Settled(m)

TransmissionsPaidFor ==
    \A m \in Mails :
        sent[m] + late[m] <= faults + (IF Succeeding(m) \/ client[m] = "done" THEN 1 ELSE 0)

SuccessIsMarked ==
    \A m \in Mails :
        client[m] = "done" \/ (handler[m].pc \in {"report", "reply"} /\ handler[m].reply = 250)
            => rows[m]["success"] > 0

\* The row of a handler at work is pending, and still free for its transmission
\* until that is made; a transmission whose row is to become "success" is unclaimed.
RowsPaidFor ==
    \A m \in Mails :
        /\ handler[m].pc \in {"relay", "success", "failed"} => rows[m]["pending"] > 0
        /\ sent[m] + late[m] + (IF handler[m].pc = "relay" THEN 1 ELSE 0)
               <= rows[m]["pending"] + rows[m]["success"] + rows[m]["failed"]
        /\ rows[m]["success"] + (IF handler[m].pc = "success" THEN 1 ELSE 0) <= sent[m]

LateWasOffered == \A m \in Mails : late[m] > 0 => client[m] # "new"

IInv ==
    /\ TypeOK
    /\ WaitsForHandler
    /\ SuccessIsSettled
    /\ TransmissionsPaidFor
    /\ SuccessIsMarked
    /\ RowsPaidFor
    /\ PendingExplained
    /\ LateWasOffered
----------------------------------------------------------------------------
(* The abstract relay *)

Phase(c) ==
    CASE c = "new" -> "absent"
      [] c \in {"ready", "waiting"} -> "held"
      [] c = "done" -> "discharged"
      [] c = "bounced" -> "bounced"

Abstract == INSTANCE MailRelay WITH
    phase <- [m \in Mails |-> Phase(client[m])],
    Strays <- TRUE

\* The engine is the same relay as the container, but for transmissions that
\* outlive the attempt they belong to.
RelayRefinement == Abstract!Spec
=============================================================================
