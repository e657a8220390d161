---------------------------- MODULE SubmissionGate ----------------------------
(***************************************************************************)
(* What an authenticated relay promises about who may hand it mail,        *)
(* independently of connections, TLS and the way it remembers who is who:  *)
(* a password is judged only of a peer that was let in while its address   *)
(* was not shut out, and once each time; the Limit-th wrong one in a row   *)
(* shuts the address out; one let in by an address whose time is over has  *)
(* its tries forgotten; and mail is taken from those inside only, who came *)
(* in by the right password and have not left.                             *)
(***************************************************************************)
EXTENDS Naturals

CONSTANTS
    Peers,       \* those who may hand in mail
    Addresses,   \* their addresses
    AddressOf,   \* the address of each peer
    Limit        \* wrong passwords in a row that an address may try

VARIABLES
    tries,       \* tries[a]: wrong passwords from a since it was last forgiven
    shut,        \* addresses shut out
    judging,     \* peers let in, whose password is being judged
    inside,      \* peers that gave the right password
    taking       \* peers whose mail is being taken

vars == <<tries, shut, judging, inside, taking>>

Init ==
    /\ tries = [a \in Addresses |-> 0]
    /\ shut = {}
    /\ judging = {}
    /\ inside = {}
    /\ taking = {}

LetIn(p) ==
    LET a == AddressOf[p] IN
    /\ a \notin shut
    /\ judging' = judging \cup {p}
    /\ tries' = [tries EXCEPT ![a] = IF @ >= Limit THEN 0 ELSE @]
    /\ UNCHANGED <<shut, inside, taking>>

Wrong(p) ==
    LET a == AddressOf[p] IN
    /\ p \in judging
    /\ judging' = judging \ {p}
    /\ tries' = [tries EXCEPT ![a] = @ + 1]
    /\ shut' = IF tries[a] + 1 >= Limit THEN shut \cup {a} ELSE shut
    /\ UNCHANGED <<inside, taking>>

Forgive(a) ==
    /\ tries' = [tries EXCEPT ![a] = 0]
    /\ shut' = shut \ {a}

Right(p) ==
    /\ p \in judging
    /\ judging' = judging \ {p}
    /\ Forgive(AddressOf[p])
    /\ inside' = inside \cup {p}
    /\ UNCHANGED taking

\* Nothing is judged: no password came, or nobody could look at it.
Undecided(p) ==
    /\ judging' = judging \ {p}
    /\ UNCHANGED <<tries, shut, inside, taking>>

\* Time, which leaves the tries to the next one let in.
RunsOut(a) == shut' = shut \ {a} /\ UNCHANGED <<tries, judging, inside, taking>>

\* The administrator.
Open(a) == Forgive(a) /\ UNCHANGED <<judging, inside, taking>>

Take(p) ==
    /\ p \in inside
    /\ taking' = taking \cup {p}
    /\ UNCHANGED <<tries, shut, judging, inside>>

Taken(p) ==
    /\ taking' = taking \ {p}
    /\ UNCHANGED <<tries, shut, judging, inside>>

Leave(p) ==
    /\ judging' = judging \ {p}
    /\ inside' = inside \ {p}
    /\ taking' = taking \ {p}
    /\ UNCHANGED <<tries, shut>>

\* Nothing of this survives the process.
Restart ==
    /\ tries' = [a \in Addresses |-> 0]
    /\ shut' = {}
    /\ judging' = {}
    /\ inside' = {}
    /\ taking' = {}

Next ==
    \/ \E p \in Peers : LetIn(p) \/ Wrong(p) \/ Right(p) \/ Undecided(p)
    \/ \E p \in Peers : Take(p) \/ Taken(p) \/ Leave(p)
    \/ \E a \in Addresses : RunsOut(a) \/ Open(a)
    \/ Restart

Spec == Init /\ [][Next]_vars
=============================================================================
