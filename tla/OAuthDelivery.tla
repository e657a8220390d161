---------------------------- MODULE OAuthDelivery ----------------------------
(***************************************************************************)
(* Outbound delivery in a tenant's container: Postfix hands each queued    *)
(* mail to one run of oauth_deliver.py over pipe(8); the script reads the  *)
(* container's copy of the tenant configuration, gets a token, transmits   *)
(* the mail to Microsoft 365, files a row with the admin service and exits *)
(* with a status from which Postfix decides what becomes of the mail.      *)
(***************************************************************************)
EXTENDS Naturals, Sequences

CONSTANTS
    Mails,          \* the mails the devices submit
    Recipients,     \* the recipients of each of them
    Configs,        \* configurations the container may be started with
    SoftExits,      \* exit statuses on which Postfix keeps a mail for a retry
    MaxFaults       \* bound on what goes wrong around the script

Flows == {"client_credentials", "delegated"}

\* The fields of an oauth_configs entry that decide what the script does with
\* it: is sender_email set, is a refresh_token set.
Accounts == [flow : Flows, sender : BOOLEAN, refresh : BOOLEAN]

ConfigType == [readable : BOOLEAN, accounts : Seq(Accounts)]

ASSUME RecipientsAssumption == Recipients # {}
ASSUME ConfigsAssumption == Configs \subseteq ConfigType
\* Postfix takes a mail whose command exits with 0 for delivered.
ASSUME SoftExitsAssumption == SoftExits \subseteq Nat \ {0}
ASSUME MaxFaultsAssumption == MaxFaults \in Nat

VARIABLES
    config,         \* /etc/oauth_proxy_config.json, written when the container starts
    queue,          \* Postfix's view of each mail
    job,            \* the run of oauth_deliver.py that holds the mail, if any
    sent,           \* transmissions of each mail that Microsoft 365 accepted
    reached,        \* recipients an accepted transmission carried
    refused,        \* recipients an accepted transmission left out
    successRows,    \* rows with status "success" the admin service keeps
    failureRows,    \* kinds of "failed" rows it keeps
    faults          \* failures of the environment so far

upstream == <<sent, reached, refused>>
rows == <<successRows, failureRows>>
vars == <<config, queue, job, upstream, rows, faults>>

EX_OK == 0
EX_TEMPFAIL == 1
EX_UNAVAILABLE == 2

\* "failed_oauth" is a failed row with its oauth_error flag set.
Failures == {"failed", "failed_oauth"}
Statuses == {"none", "success"} \cup Failures

\* One run of main(): where it stands, the row it is about to file, its exit
\* status.
Jobs == [pc : {"none", "token", "relay", "report", "exit"},
         status : Statuses, exit : {EX_OK, EX_TEMPFAIL, EX_UNAVAILABLE}]

NoJob == [pc |-> "none", status |-> "none", exit |-> EX_OK]

QueueStates == {"absent", "queued", "active", "delivered", "bounced"}

TypeOK ==
    /\ config \in Configs
    /\ queue \in [Mails -> QueueStates]
    /\ job \in [Mails -> Jobs]
    /\ sent \in [Mails -> Nat]
    /\ reached \in [Mails -> SUBSET Recipients]
    /\ refused \in [Mails -> SUBSET Recipients]
    /\ successRows \in [Mails -> Nat]
    /\ failureRows \in [Mails -> SUBSET Failures]
    /\ faults \in Nat

Init ==
    /\ config \in Configs
    /\ queue = [m \in Mails |-> "absent"]
    /\ job = [m \in Mails |-> NoJob]
    /\ sent = [m \in Mails |-> 0]
    /\ reached = [m \in Mails |-> {}]
    /\ refused = [m \in Mails |-> {}]
    /\ successRows = [m \in Mails |-> 0]
    /\ failureRows = [m \in Mails |-> {}]
    /\ faults = 0

Fault ==
    /\ faults < MaxFaults
    /\ faults' = faults + 1

NoFault == UNCHANGED faults
----------------------------------------------------------------------------
(* The configuration as main() reads it *)

HasSender(a) == a.sender
HasCredential(a) == a.flow = "delegated" => a.refresh

Usable(c) == SelectSeq(c.accounts, HasSender)

FirstConfigured(c) == c.accounts[1]

Chosen(c) == Usable(c)[1]
----------------------------------------------------------------------------
(* Points main() continues at *)

At(pc) == [NoJob EXCEPT !.pc = pc]

\* report_to_admin(status), then return with that exit status.
ReportAndExit(status, exit) ==
    [pc |-> "report", status |-> status, exit |-> exit]

\* Leave without a report: the return on an unreadable configuration, and an
\* exception nothing catches, for which the interpreter exits with 1 as well.
ExitUnreported == [At("exit") EXCEPT !.exit = EX_TEMPFAIL]

RelayedRetried == ReportAndExit("success", EX_TEMPFAIL)

Relayed == ReportAndExit("success", EX_OK)

NotRelayedTakenForOK == ReportAndExit("success", EX_OK)

NotRelayedPermanent == ReportAndExit("failed", EX_UNAVAILABLE)

NotRelayed == ReportAndExit("failed", EX_TEMPFAIL)

Goto(m, point) == job' = [job EXCEPT ![m] = point]
----------------------------------------------------------------------------
(* Submission and the run of the script *)

\* An authenticated device's mail enters the queue.
Submit(m) ==
    /\ queue[m] = "absent"
    /\ queue' = [queue EXCEPT ![m] = "queued"]
    /\ UNCHANGED <<config, job, upstream, rows, faults>>

\* Where a run goes once it has looked at the configuration.  main's check of its
\* arguments (exit status 2) comes first and never strikes: pipe(8) passes the
\* sender and at least one recipient (master.cf:31, RecipientsAssumption).
FirstStep(c) ==
    IF ~c.readable THEN ExitUnreported
    ELSE IF Usable(c) = <<>> THEN NotRelayed
    ELSE At("token")

\* Postfix takes the mail from the queue, for the first time or for a retry.
Spawn(m) ==
    /\ queue[m] = "queued"
    /\ queue' = [queue EXCEPT ![m] = "active"]
    /\ Goto(m, FirstStep(config))
    /\ UNCHANGED <<config, upstream, rows, faults>>

TokenGranted(m) ==
    /\ HasCredential(Chosen(config))
    /\ Goto(m, At("relay"))
    /\ NoFault

\* OAuthError: no refresh token to present, or the token endpoint says no.
TokenRefused(m) ==
    /\ Goto(m, ReportAndExit("failed_oauth", EX_TEMPFAIL))
    /\ IF HasCredential(Chosen(config)) THEN Fault ELSE NoFault

\* Any other exception of msal or of the network below it leaves main().
TokenUncaught(m) ==
    /\ HasCredential(Chosen(config))
    /\ Goto(m, ExitUnreported)
    /\ Fault

GetToken(m) ==
    /\ job[m].pc = "token"
    /\ TokenGranted(m) \/ TokenRefused(m) \/ TokenUncaught(m)
    /\ UNCHANGED <<config, queue, upstream, rows>>

\* Graph takes a mail whole.  An SMTP server answers RCPT by RCPT, and
\* sendmail() raises only when every one of them is refused.
AcceptedSets(a) ==
    IF a.flow = "delegated" THEN (SUBSET Recipients) \ {{}} ELSE {Recipients}

Transmit(m, S) ==
    /\ sent' = [sent EXCEPT ![m] = @ + 1]
    /\ reached' = [reached EXCEPT ![m] = @ \cup S]
    /\ refused' = [refused EXCEPT ![m] = @ \cup (Recipients \ S)]

Accepted(m, S) ==
    /\ Transmit(m, S)
    /\ Goto(m, Relayed)
    /\ IF S = Recipients THEN NoFault ELSE Fault

\* Microsoft 365 took the mail, but the answer is lost, or QUIT fails.
AcceptedUnknown(m, S) ==
    /\ Transmit(m, S)
    /\ Goto(m, NotRelayed)
    /\ Fault

Rejected(m) ==
    /\ Goto(m, NotRelayed)
    /\ Fault
    /\ UNCHANGED upstream

Relay(m) ==
    /\ job[m].pc = "relay"
    /\ \/ \E S \in AcceptedSets(Chosen(config)) :
              Accepted(m, S) \/ AcceptedUnknown(m, S)
       \/ Rejected(m)
    /\ UNCHANGED <<config, queue, rows>>

RowsFiledUnsorted(m) ==
    /\ failureRows' = [failureRows EXCEPT ![m] = @ \cup {job[m].status}]
    /\ UNCHANGED successRows

\* The row receive_proxy_log inserts for a report.
RowFiled(m) ==
    IF job[m].status = "success"
    THEN /\ successRows' = [successRows EXCEPT ![m] = @ + 1]
         /\ UNCHANGED failureRows
    ELSE /\ failureRows' = [failureRows EXCEPT ![m] = @ \cup {job[m].status}]
         /\ UNCHANGED successRows

\* report_to_admin waits at most 5 seconds and swallows every failure.
Report(m) ==
    /\ job[m].pc = "report"
    /\ Goto(m, [job[m] EXCEPT !.pc = "exit"])
    /\ \/ RowFiled(m) /\ NoFault
       \/ UNCHANGED rows /\ Fault
    /\ UNCHANGED <<config, queue, upstream>>

\* What pipe(8) makes of the command's exit status.
Disposition(status) ==
    IF status = EX_OK THEN "delivered"
    ELSE IF status \in SoftExits THEN "queued"
    ELSE "bounced"

PipeResult(m) ==
    /\ job[m].pc = "exit"
    /\ queue' = [queue EXCEPT ![m] = Disposition(job[m].exit)]
    /\ Goto(m, NoJob)
    /\ UNCHANGED <<config, upstream, rows, faults>>
----------------------------------------------------------------------------
(* The environment *)

\* pipe(8) kills a command that exceeds its time limit and keeps the mail:
\* msal is called without a time-out, so the script may hang.
KillJob(m) ==
    /\ job[m].pc # "none"
    /\ queue' = [queue EXCEPT ![m] = "queued"]
    /\ Goto(m, NoJob)
    /\ Fault
    /\ UNCHANGED <<config, upstream, rows>>

\* The container stops at any moment and is started again, with the file the
\* admin service has written by then.  The queue is on the tenant's volume.
Restart(c) ==
    /\ config' = c
    /\ queue' = [m \in Mails |-> IF queue[m] = "active" THEN "queued" ELSE queue[m]]
    /\ job' = [m \in Mails |-> NoJob]
    /\ Fault
    /\ UNCHANGED <<upstream, rows>>

\* The mail exceeds Postfix's queue lifetime.
Expire(m) ==
    /\ queue[m] = "queued"
    /\ queue' = [queue EXCEPT ![m] = "bounced"]
    /\ UNCHANGED <<config, job, upstream, rows, faults>>

Deliver(m) == Spawn(m) \/ GetToken(m) \/ Relay(m) \/ Report(m) \/ PipeResult(m)

Next ==
    \/ \E m \in Mails :
        \/ Submit(m)
        \/ Spawn(m)
        \/ GetToken(m)
        \/ Relay(m)
        \/ Report(m)
        \/ PipeResult(m)
        \/ KillJob(m)
        \/ Expire(m)
    \/ \E c \in Configs : Restart(c)

Spec == Init /\ [][Next]_vars

\* Postfix rescans its queue for ever, every call of the script is bounded by
\* a time-out or by KillJob; nobody has to submit, to fail or to let a mail expire.
FairSpec == Spec /\ \A m \in Mails : WF_vars(Deliver(m))
----------------------------------------------------------------------------
(* Safety *)

\* The script's exit status OK stands for a transmission Microsoft 365 took.
Settled(m) == reached[m] # {} /\ reached[m] \cup refused[m] = Recipients

\* No mail is lost in silence: one Postfix takes for delivered was accepted
\* upstream for some recipient, and each other recipient was refused there
\* (main's exit status 0 against the outcomes of the two relay functions,
\* over any number of failed, killed and repeated runs).
NoSilentLoss == \A m \in Mails : queue[m] = "delivered" => Settled(m)

\* The administrator is never told of more deliveries than took place: each
\* "success" row stands for a transmission of its own (main files the row
\* after the relay returned, and a mail may be relayed and filed repeatedly).
SuccessRowsTrue == \A m \in Mails : successRows[m] <= sent[m]

\* A recipient gets a mail twice only if the environment failed: a mail is
\* repeated no more often than the system has had faults, whenever and on
\* whichever mail they struck (exit status, report and queue update follow the
\* relay).
DuplicatesBounded == \A m \in Mails : sent[m] <= faults + 1

\* A delivered mail has its "success" row, unless some fault has struck the
\* system (report_to_admin, before return EX_OK, drops what it cannot send).
DeliveredIsLogged ==
    \A m \in Mails :
        queue[m] = "delivered" /\ successRows[m] = 0 => faults > 0
----------------------------------------------------------------------------
(* The inductive invariant behind the safety properties *)

Finished(m) == job[m].pc \in {"report", "exit"}
Succeeded(m) == Finished(m) /\ job[m].exit = EX_OK

\* A mail is in Postfix's active state exactly while a run of the script has it.
OneRunPerMail == \A m \in Mails : queue[m] = "active" <=> job[m].pc # "none"

\* A run that is going to exit with OK has had its mail accepted.
SuccessIsSettled ==
    \A m \in Mails : Succeeded(m) \/ queue[m] = "delivered" => Settled(m)

\* A transmission that is not paid for by a fault is the one that ends the mail.
TransmissionsPaidFor ==
    \A m \in Mails :
        sent[m] <= faults + (IF Succeeded(m) \/ queue[m] = "delivered" THEN 1 ELSE 0)

\* A run about to file a "success" row stands for a transmission not filed yet.
RowsPaidFor ==
    \A m \in Mails :
        /\ job[m].pc = "report" =>
               /\ job[m].status # "none"
               /\ job[m].status = "success" <=> job[m].exit = EX_OK
        /\ successRows[m] + (IF job[m].pc = "report" /\ job[m].status = "success"
                             THEN 1 ELSE 0) <= sent[m]

SuccessIsFiled ==
    \A m \in Mails :
        queue[m] = "delivered" \/ (job[m].pc = "exit" /\ job[m].exit = EX_OK)
            => successRows[m] > 0 \/ faults > 0

\* The conjunction is inductive, and implies the four properties above.
IInv ==
    /\ TypeOK
    /\ OneRunPerMail
    /\ SuccessIsSettled
    /\ TransmissionsPaidFor
    /\ RowsPaidFor
    /\ SuccessIsFiled

\* Every way out of a run that Postfix starts is 0 or 1 (main's check of its
\* arguments, the one place that returns 2, is not met under master.cf:31); with
\* 1 soft, FailedAttemptsAreDeferred follows.
ExitsAsDocumented == \A m \in Mails : job[m].exit \in {EX_OK, EX_TEMPFAIL}
----------------------------------------------------------------------------
(* Steps and progress *)

\* "1 = deferred (Postfix retries)": a failed attempt leaves the mail in the
\* queue, whatever failed; only the queue's lifetime ends the retries.
FailedAttemptsAreDeferred ==
    [][\A m \in Mails : queue[m] = "active" => queue'[m] # "bounced"]_vars

\* The first account that names a sender can get a token.
Deliverable(c) ==
    /\ c.readable
    /\ \E i \in DOMAIN c.accounts :
        /\ HasSender(c.accounts[i])
        /\ HasCredential(c.accounts[i])
        /\ \A j \in 1..(i - 1) : ~HasSender(c.accounts[j])

\* Once the container runs with a deliverable configuration for good, every
\* mail in the queue is eventually delivered, unless it expires before: failed
\* attempts, hung scripts and restarts only delay it.
EventuallyDelivered ==
    <>[]Deliverable(config) =>
        \A m \in Mails :
            queue[m] = "queued" ~> queue[m] \in {"delivered", "bounced"}
----------------------------------------------------------------------------
(* The abstract relay *)

Phase(q) ==
    CASE q \in {"queued", "active"} -> "held"
      [] q = "delivered" -> "discharged"
      [] OTHER -> q

Abstract == INSTANCE MailRelay WITH
    phase <- [m \in Mails |-> Phase(queue[m])],
    Strays <- FALSE

\* The tenant's container implements the relay it promises to be.
RelayRefinement == Abstract!Spec
=============================================================================
