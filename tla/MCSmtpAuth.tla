----------------------------- MODULE MCSmtpAuth -----------------------------
(***************************************************************************)
(* Instances of SmtpAuth for TLC: two ports of one address, whose AUTHs    *)
(* meet in one counter.                                                    *)
(***************************************************************************)
EXTENDS SmtpAuth

CONSTANTS p1, p2, here

MCPeers == {p1, p2}
MCAddressOf == [p \in MCPeers |-> here]
MCModes == {"starttls", "starttls_optional", "tls"}
=============================================================================
