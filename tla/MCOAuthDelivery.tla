--------------------------- MODULE MCOAuthDelivery ---------------------------
(***************************************************************************)
(* Instances of OAuthDelivery for TLC.                                     *)
(***************************************************************************)
EXTENDS OAuthDelivery, TLC

CONSTANTS m1, m2, r1, r2

MCMails == {m1, m2}
MCRecipients == {r1, r2}
Symmetry == Permutations(MCMails) \cup Permutations(MCRecipients)

App == [flow |-> "client_credentials", sender |-> TRUE, refresh |-> FALSE]
Mailbox == [flow |-> "delegated", sender |-> TRUE, refresh |-> TRUE]
NoRefresh == [flow |-> "delegated", sender |-> TRUE, refresh |-> FALSE]
NoSender == [flow |-> "delegated", sender |-> FALSE, refresh |-> FALSE]

Readable(accounts) == [readable |-> TRUE, accounts |-> accounts]
Unreadable == [readable |-> FALSE, accounts |-> <<>>]

\* Every way the script can fare with its configuration.
AllConfigs ==
    {Unreadable, Readable(<<>>), Readable(<<NoSender>>), Readable(<<NoRefresh, App>>),
     Readable(<<NoSender, App>>), Readable(<<Mailbox>>)}

AppOnly == {Readable(<<App>>)}
MailboxOnly == {Readable(<<Mailbox>>)}

\* What the script's docstring expects of Postfix, and what pipe(8) does with
\* the statuses of sysexits.h (75 is EX_TEMPFAIL there).
Documented == {1}
Sysexits == {75}
=============================================================================
