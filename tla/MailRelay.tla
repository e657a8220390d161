------------------------------ MODULE MailRelay ------------------------------
(***************************************************************************)
(* What a tenant's relay promises the devices that hand it mail,           *)
(* independently of tokens, exit statuses and restarts: a mail taken over  *)
(* is held until Microsoft 365 has settled each of its recipients, and     *)
(* only a mail that is still held may be given up.  Transmission is at     *)
(* least once: a held mail may be transmitted again, and, where strays     *)
(* are admitted, also one that is settled.                                 *)
(***************************************************************************)
EXTENDS Naturals

CONSTANTS
    Mails,       \* the mails the devices submit
    Recipients,  \* the recipients of each of them
    Strays       \* whether a mail may be transmitted when no longer held

VARIABLES
    phase,       \* phase[m]: where the responsibility for mail m is
    sent,        \* sent[m]: transmissions of m that Microsoft 365 accepted
    reached,     \* reached[m]: recipients some transmission was accepted for
    refused      \* refused[m]: recipients an accepted transmission left out

vars == <<phase, sent, reached, refused>>

Phases == {"absent", "held", "discharged", "bounced"}

TypeOK ==
    /\ phase \in [Mails -> Phases]
    /\ sent \in [Mails -> Nat]
    /\ reached \in [Mails -> SUBSET Recipients]
    /\ refused \in [Mails -> SUBSET Recipients]

Init ==
    /\ phase = [m \in Mails |-> "absent"]
    /\ sent = [m \in Mails |-> 0]
    /\ reached = [m \in Mails |-> {}]
    /\ refused = [m \in Mails |-> {}]

Accept(m) ==
    /\ phase[m] = "absent"
    /\ phase' = [phase EXCEPT ![m] = "held"]
    /\ UNCHANGED <<sent, reached, refused>>

\* Microsoft 365 takes the mail for the recipients S and refuses the others.
Transmit(m, S) ==
    /\ phase[m] = "held" \/ (Strays /\ phase[m] # "absent")
    /\ sent' = [sent EXCEPT ![m] = @ + 1]
    /\ reached' = [reached EXCEPT ![m] = @ \cup S]
    /\ refused' = [refused EXCEPT ![m] = @ \cup (Recipients \ S)]
    /\ UNCHANGED phase

Discharge(m) ==
    /\ phase[m] = "held"
    /\ reached[m] # {}
    /\ reached[m] \cup refused[m] = Recipients
    /\ phase' = [phase EXCEPT ![m] = "discharged"]
    /\ UNCHANGED <<sent, reached, refused>>

Bounce(m) ==
    /\ phase[m] = "held"
    /\ phase' = [phase EXCEPT ![m] = "bounced"]
    /\ UNCHANGED <<sent, reached, refused>>

Next ==
    \E m \in Mails :
        \/ Accept(m)
        \/ \E S \in (SUBSET Recipients) \ {{}} : Transmit(m, S)
        \/ Discharge(m)
        \/ Bounce(m)

Spec == Init /\ [][Next]_vars
=============================================================================
