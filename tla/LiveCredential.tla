--------------------------- MODULE LiveCredential ---------------------------
(***************************************************************************)
(* What rotating a credential promises its clients, with no secret store,  *)
(* no labels and no retries: one live credential that a new client is      *)
(* given, and a server that accepts at most one credential besides it.  A  *)
(* new credential displaces the other one, so it is installed only while   *)
(* every client is on the live one.                                        *)
(***************************************************************************)
CONSTANTS
  Credentials,
  Clients

VARIABLES
  live,       \* the credential a client that starts now is given
  accepted,   \* the credentials the server accepts
  holds       \* client -> the credential it was started with

vars == <<live, accepted, holds>>

Init ==
  /\ live \in Credentials
  /\ \E c \in Credentials : accepted = {live, c}
  /\ holds = [k \in Clients |-> live]

\* Install c, at the price of whatever was accepted besides the live one.
Install(c) ==
  /\ \A k \in Clients : holds[k] = live
  /\ accepted' = {live, c}
  /\ UNCHANGED <<live, holds>>

Switch(c) ==
  /\ c \in accepted
  /\ live' = c
  /\ UNCHANGED <<accepted, holds>>

Start(k) ==
  /\ holds' = [holds EXCEPT ![k] = live]
  /\ UNCHANGED <<live, accepted>>

Next ==
  \/ \E c \in Credentials : Install(c) \/ Switch(c)
  \/ \E k \in Clients : Start(k)

Spec == Init /\ [][Next]_vars

-----------------------------------------------------------------------------
TypeOK ==
  /\ live \in Credentials
  /\ accepted \in SUBSET Credentials
  /\ holds \in [Clients -> Credentials]

\* No client ever holds a credential the server refuses, and neither would
\* one that started now.
NobodyLockedOut ==
  /\ live \in accepted
  /\ \A k \in Clients : holds[k] \in accepted

=============================================================================
