--------------------------- MODULE LoginLifecycle ---------------------------
(***************************************************************************)
(* What the auth service promises about a login, with nothing said of      *)
(* tabs, requests or rows: a login holds one refresh token, which is used  *)
(* up before it is exchanged for a fresh one; a login that has ended holds *)
(* none and is never taken up again; a revocation ends, in one step, every *)
(* login that holds a token, and none whose token is being exchanged.      *)
(*                                                                         *)
(* Session is shown to implement it.                                       *)
(***************************************************************************)
CONSTANTS
  Login,
  Token

VARIABLES
  valid,       \* the valid token of each login: {} or one
  exchanging,  \* logins whose token is used up and not yet replaced
  begun,       \* logins there have been
  used         \* tokens ever given out

lvars == <<valid, exchanging, begun, used>>

LInit ==
  /\ exchanging = {}
  /\ begun \subseteq Login /\ used \subseteq Token
  /\ valid \in [Login -> SUBSET used]
  /\ \A l \in Login : IF l \in begun THEN \E n \in used : valid[l] = {n} ELSE valid[l] = {}
  /\ \A l, m \in begun : valid[l] = valid[m] => l = m

Gives(l, n) ==
  /\ n \in Token \ used
  /\ valid' = [valid EXCEPT ![l] = {n}]
  /\ used' = used \cup {n}

Begin(l) ==
  /\ l \notin begun
  /\ \E n \in Token : Gives(l, n)
  /\ begun' = begun \cup {l}
  /\ UNCHANGED exchanging

\* The token is presented, and no longer valid from then on.
Present(l) ==
  /\ l \notin exchanging
  /\ \E n \in Token : valid[l] = {n}
  /\ valid' = [valid EXCEPT ![l] = {}]
  /\ exchanging' = exchanging \cup {l}
  /\ UNCHANGED <<begun, used>>

Renew(l) ==
  /\ l \in exchanging
  /\ \E n \in Token : Gives(l, n)
  /\ exchanging' = exchanging \ {l}
  /\ UNCHANGED begun

\* The token expires, or the exchange fails.
End(l) ==
  /\ valid[l] # {} \/ l \in exchanging
  /\ valid' = [valid EXCEPT ![l] = {}]
  /\ exchanging' = exchanging \ {l}
  /\ UNCHANGED <<begun, used>>

Revoke ==
  /\ valid' = [l \in Login |-> {}]
  /\ UNCHANGED <<exchanging, begun, used>>

LNext ==
  \/ \E l \in Login : Begin(l) \/ Present(l) \/ Renew(l) \/ End(l)
  \/ Revoke

LSpec == LInit /\ [][LNext]_lvars
=============================================================================
