----------------------------- MODULE OneTimeConsent -----------------------------
(***************************************************************************)
(* What "Sign in with Nextendo" promises (src/oauth.go): a member agrees   *)
(* once, the agreement is redeemed at most once ("un `code` à usage        *)
(* unique"), and what is handed out is what was agreed to.  OAuth          *)
(* implements this.                                                        *)
(***************************************************************************)
CONSTANTS
  Codes,
  Consents,   \* what a member may agree to: client, pid, scopes
  None

VARIABLES
  agreed,     \* code -> the consent it stands for, or None
  open,       \* codes that may still be redeemed
  tokens      \* what was handed out

avars == <<agreed, open, tokens>>

AInit ==
  /\ agreed = [c \in Codes |-> None]
  /\ open = {}
  /\ tokens = {}

(* Agreements lapse at any time, while another one is made included.       *)
Lapse == open' \subseteq open /\ UNCHANGED <<agreed, tokens>>

Agree(c, d) ==
  /\ agreed[c] = None
  /\ agreed' = [agreed EXCEPT ![c] = d]
  /\ c \in open' /\ open' \subseteq open \cup {c}
  /\ UNCHANGED tokens

TokenOf(c, d) == [code |-> c, client |-> d.client, pid |-> d.pid, scopes |-> d.scopes]

Redeem(c) ==
  /\ c \in open
  /\ open' = open \ {c}
  /\ tokens' = tokens \cup {TokenOf(c, agreed[c])}
  /\ UNCHANGED agreed

ANext ==
  \/ Lapse
  \/ \E c \in Codes : Redeem(c) \/ \E d \in Consents : Agree(c, d)

ASpec == AInit /\ [][ANext]_avars

=============================================================================
