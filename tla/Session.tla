------------------------------ MODULE Session ------------------------------
(***************************************************************************)
(* The session of one user: the tabs of a browser, which share its         *)
(* localStorage and have a sessionStorage each, and the token pairs the    *)
(* auth service gives out.                                                 *)
(*                                                                         *)
(* apiClient sends a request with the access token in storage.  On a 401   *)
(* it waits for refreshPromise, the one refresh its tab has under way, and *)
(* begins it if there is none; then it sends the request once more.  The   *)
(* service exchanges a refresh token in three statements that share no     *)
(* transaction: the row is deleted, the user is read, the new row is       *)
(* inserted.  A password reset changes the password and revokes the rows   *)
(* in between, in two statements or, from the command line, in one         *)
(* transaction.                                                            *)
(*                                                                         *)
(* A pair is a number, 0 is none: the two setItem calls of one turn are    *)
(* one step, and an access token has the number of its refresh token.      *)
(* Each Request is made once, as an apiClient call or as a login; Request, *)
(* MaxPair and MaxReset are the bounds of the model.  A 401 may meet any   *)
(* token, since RequireAuth answers it too when it cannot read the role.   *)
(* The refresh cookie is not read by this client, which always sends a     *)
(* token in the body.  Tabs are independent: one the browser duplicates or *)
(* a page opens starts with a copy of the sessionStorage, and is not       *)
(* modelled.                                                               *)
(***************************************************************************)
EXTENDS Naturals, FiniteSets

CONSTANTS Tab, Request,
          MaxPair,      \* pairs the service gives out
          MaxReset,     \* changes of the password
          NoRequest

ASSUME SessionAssumption ==
  NoRequest \notin Request /\ MaxPair \in Nat \ {0} /\ MaxReset \in Nat

VARIABLES local, session,  \* the pair in localStorage, and in each sessionStorage
          promise,      \* refreshPromise of each tab: the request that began it
          call, tabOf,  \* how far each request has come, and its tab
          phase,        \* how far the login or the refresh of a request has come
          place,        \* the storage chosen for what it gets
          old, new,     \* the pair it gives, 0 for a password, and the one it gets
          known,        \* the password it goes back to
          listening,    \* the requests whose tab still waits for the answer
          live,         \* the rows of refresh_tokens
          issued,       \* the number of pairs given out
          login,        \* the pair that the login a pair goes back to gave
          basis,        \* the password that this login was made with
          passwords,    \* how often the password has been changed
          revoking,     \* how many ResetPasswords have changed it and not yet revoked
          sealedAt      \* the password whose reset met nothing half done

storageVars == <<local, session>>
callVars    == <<promise, call, tabOf>>
grantVars   == <<phase, place, old, new, known, listening>>
serverVars  == <<live, issued, login, basis>>
resetVars   == <<passwords, revoking, sealedAt>>
vars == <<storageVars, callVars, grantVars, serverVars, resetVars>>

Pair  == 1 .. MaxPair
Place == {"local", "session"}
Open  == {"sent", "waiting", "retried", "login"}
Final == {"none", "stored", "over"}

\* getTokenStorage: localStorage is looked at first.
HeldAt(t) == IF local # 0 THEN "local" ELSE "session"
Held(t)   == IF local # 0 THEN local ELSE session[t]

Puts(where, t, k) ==
  IF where = "local" THEN local' = k /\ UNCHANGED session
                     ELSE session' = [session EXCEPT ![t] = k] /\ UNCHANGED local

\* Nobody has signed in yet, or there is the pair of an earlier login, which
\* was to be remembered or not.
Init ==
  /\ \E first \in {0, 1}, where \in Place, tab \in Tab :
       /\ local = (IF where = "local" THEN first ELSE 0)
       /\ session = [t \in Tab |-> IF where = "session" /\ t = tab THEN first ELSE 0]
       /\ issued = first /\ live = {first} \ {0}
       /\ login = [k \in Pair |-> IF k = first THEN first ELSE 0]
       /\ tabOf = [c \in Request |-> tab]
  /\ promise = [t \in Tab |-> NoRequest]
  /\ call = [c \in Request |-> "idle"]
  /\ phase = [c \in Request |-> "none"] /\ place = [c \in Request |-> "local"]
  /\ old = [c \in Request |-> 0] /\ new = [c \in Request |-> 0]
  /\ known = [c \in Request |-> 0] /\ listening = {}
  /\ basis = [k \in Pair |-> 0]
  /\ passwords = 0 /\ revoking = 0 /\ sealedAt = 0
-----------------------------------------------------------------------------
(* The browser.                                                            *)

\* A page calls apiClient: the request leaves with the token in storage.
Sends(c, t) ==
  /\ call[c] = "idle"
  /\ call' = [call EXCEPT ![c] = "sent"] /\ tabOf' = [tabOf EXCEPT ![c] = t]
  /\ UNCHANGED <<storageVars, promise, grantVars, serverVars, resetVars>>

\* The request is answered for good, with or without success.
Answered(c) ==
  /\ call[c] \in {"sent", "retried"}
  /\ call' = [call EXCEPT ![c] = "settled"]
  /\ UNCHANGED <<storageVars, promise, tabOf, grantVars, serverVars, resetVars>>

\* A request for a pair leaves.
Asks(c, where, k) ==
  /\ phase' = [phase EXCEPT ![c] = "sent"]
  /\ place' = [place EXCEPT ![c] = where]
  /\ old' = [old EXCEPT ![c] = k]
  /\ listening' = listening \cup {c}
  /\ UNCHANGED <<new, known>>

\* A first 401, and the tab has a refresh under way: getFreshAccessToken joins.
Joins(c) ==
  /\ call[c] = "sent" /\ promise[tabOf[c]] # NoRequest
  /\ call' = [call EXCEPT ![c] = "waiting"]
  /\ UNCHANGED <<storageVars, promise, tabOf, grantVars, serverVars, resetVars>>

\* It has none, and a refresh token: the call begins one.
Refreshes(c) ==
  LET t == tabOf[c] IN
  /\ call[c] = "sent" /\ promise[t] = NoRequest /\ Held(t) # 0
  /\ call' = [call EXCEPT ![c] = "waiting"]
  /\ promise' = [promise EXCEPT ![t] = c]
  /\ Asks(c, HeldAt(t), Held(t))
  /\ UNCHANGED <<storageVars, tabOf, serverVars, resetVars>>

\* It has neither: the call fails at once.
IsSignedOut(c) ==
  /\ call[c] = "sent" /\ promise[tabOf[c]] = NoRequest /\ Held(tabOf[c]) = 0
  /\ call' = [call EXCEPT ![c] = "settled"]
  /\ UNCHANGED <<storageVars, promise, tabOf, grantVars, serverVars, resetVars>>

\* handleLogin; "Remember me" decides which storage will take the pair.
LogsIn(c, t, where) ==
  /\ call[c] = "idle"
  /\ call' = [call EXCEPT ![c] = "login"] /\ tabOf' = [tabOf EXCEPT ![c] = t]
  /\ Asks(c, where, 0)
  /\ UNCHANGED <<storageVars, promise, serverVars, resetVars>>

\* Mutant: a failed refresh is only reported to the call that began it.
SettlesOwner(c, to) ==
  /\ call' = [d \in Request |-> IF d = c THEN "settled"
                                ELSE IF call[d] = "waiting" /\ tabOf[d] = tabOf[c] /\ to = "retried"
                                THEN to ELSE call[d]]
  /\ promise' = IF old[c] = 0 THEN promise ELSE [promise EXCEPT ![tabOf[c]] = NoRequest]
  /\ UNCHANGED tabOf

\* The promise of the tab settles: who waits for it goes on in the same turn.
\* A login has no promise and only itself to settle.
Settles(c, to) ==
  /\ IF old[c] = 0
     THEN call' = [call EXCEPT ![c] = "settled"] /\ UNCHANGED promise
     ELSE /\ call' = [d \in Request |-> IF call[d] = "waiting" /\ tabOf[d] = tabOf[c]
                                        THEN to ELSE call[d]]
          /\ promise' = [promise EXCEPT ![tabOf[c]] = NoRequest]
  /\ UNCHANGED tabOf

\* Mutant: a refreshed pair goes where a pair is found now.
StoresWhereFound(c) ==
  /\ phase[c] = "answered" /\ c \in listening
  /\ Puts(IF old[c] = 0 THEN place[c] ELSE HeldAt(tabOf[c]), tabOf[c], new[c])
  /\ Settles(c, "retried")
  /\ phase' = [phase EXCEPT ![c] = "stored"]
  /\ UNCHANGED <<place, old, new, known, listening, serverVars, resetVars>>

\* The pair arrives and goes to the storage chosen at the start, whatever that
\* storage holds by now.
Stores(c) ==
  /\ phase[c] = "answered" /\ c \in listening
  /\ Puts(place[c], tabOf[c], new[c])
  /\ Settles(c, "retried")
  /\ phase' = [phase EXCEPT ![c] = "stored"]
  /\ UNCHANGED <<place, old, new, known, listening, serverVars, resetVars>>

\* A refusal arrives: a refresh removes what that storage holds, a login does
\* not.
Clears(c) ==
  /\ phase[c] = "refused" /\ c \in listening
  /\ IF old[c] = 0 THEN UNCHANGED storageVars ELSE Puts(place[c], tabOf[c], 0)
  /\ Settles(c, "settled")
  /\ phase' = [phase EXCEPT ![c] = "over"]
  /\ UNCHANGED <<place, old, new, known, listening, serverVars, resetVars>>

\* The connection breaks: fetch rejects, the storage is left alone, and the
\* service goes on with what it has received.
Breaks(c) ==
  /\ c \in listening /\ phase[c] \notin Final
  /\ Settles(c, "settled")
  /\ listening' = listening \ {c}
  /\ UNCHANGED <<storageVars, phase, place, old, new, known, serverVars, resetVars>>

\* logout: both storages are cleared; refreshes under way are not cancelled.
Logout(t) ==
  /\ Held(t) # 0
  /\ local' = 0 /\ session' = [session EXCEPT ![t] = 0]
  /\ UNCHANGED <<callVars, grantVars, serverVars, resetVars>>

\* The tab is reloaded, or closed with its sessionStorage: its requests and
\* the module variable are gone.
Reloads(t) ==
  LET cut == {c \in Request : tabOf[c] = t /\ call[c] \in Open} IN
  /\ cut # {}
  /\ call' = [c \in Request |-> IF c \in cut THEN "settled" ELSE call[c]]
  /\ listening' = {c \in listening : tabOf[c] # t}
  /\ promise' = [promise EXCEPT ![t] = NoRequest]
  /\ session' \in {session, [session EXCEPT ![t] = 0]}
  /\ UNCHANGED <<local, tabOf, phase, place, old, new, known, serverVars, resetVars>>
-----------------------------------------------------------------------------
(* The auth service.                                                       *)

\* What the credentials of a request go back to.
BasisOf(c) == IF old[c] = 0 THEN passwords ELSE basis[old[c]]

\* Mutant: the row is found first and deleted with the insertion of the next.
ChecksBySelect(c) ==
  /\ phase[c] = "sent" /\ (old[c] = 0 \/ old[c] \in live)
  /\ phase' = [phase EXCEPT ![c] = "checked"]
  /\ known' = [known EXCEPT ![c] = BasisOf(c)]
  /\ UNCHANGED <<storageVars, callVars, place, old, new, listening, serverVars, resetVars>>

\* ConsumeRefreshToken deletes the row it returns; Login compares the password
\* with the one of this moment.
Checks(c) ==
  /\ phase[c] = "sent" /\ (old[c] = 0 \/ old[c] \in live)
  /\ live' = live \ {old[c]}
  /\ phase' = [phase EXCEPT ![c] = "checked"]
  /\ known' = [known EXCEPT ![c] = BasisOf(c)]
  /\ UNCHANGED <<storageVars, callVars, place, old, new, listening, issued, login,
                 basis, resetVars>>

\* issueTokens inserts the row of a new pair.
Issues(c) ==
  LET k == issued + 1 IN
  /\ phase[c] = "checked" /\ issued < MaxPair
  /\ issued' = k
  /\ live' = live \cup {k}
  /\ login' = [login EXCEPT ![k] = IF old[c] = 0 THEN k ELSE login[old[c]]]
  /\ basis' = [basis EXCEPT ![k] = known[c]]
  /\ phase' = [phase EXCEPT ![c] = "answered"]
  /\ new' = [new EXCEPT ![c] = k]
  /\ UNCHANGED <<storageVars, callVars, place, old, known, listening, resetVars>>

\* Mutant: a refresh that fails half way gives its token back.
RefusesAndRestores(c) ==
  /\ phase[c] \in {"sent", "checked"}
  /\ phase' = [phase EXCEPT ![c] = "refused"]
  /\ live' = IF phase[c] = "checked" THEN live \cup ({old[c]} \ {0}) ELSE live
  /\ UNCHANGED <<storageVars, callVars, place, old, new, known, listening, issued, login,
                 basis, resetVars>>

\* An unknown token or password, the rate limiter, or an error of the database
\* before or after the row is deleted: the answer is not a pair.
Refuses(c) ==
  /\ phase[c] \in {"sent", "checked"}
  /\ phase' = [phase EXCEPT ![c] = "refused"]
  /\ UNCHANGED <<storageVars, callVars, place, old, new, known, listening, serverVars,
                 resetVars>>

\* Seven days pass for a refresh token.
Expires(k) ==
  /\ k \in live
  /\ live' = live \ {k}
  /\ UNCHANGED <<storageVars, callVars, grantVars, issued, login, basis, resetVars>>

HalfDone == {c \in Request : phase[c] = "checked"}

\* ResetPassword: UpdateUserPassword ...
ChangesPassword ==
  /\ passwords < MaxReset
  /\ passwords' = passwords + 1
  /\ revoking' = revoking + 1
  /\ UNCHANGED <<storageVars, callVars, grantVars, serverVars, sealedAt>>

\* ... and RevokeAllRefreshTokens, whose error is ignored.
Revokes ==
  /\ revoking > 0
  /\ revoking' = revoking - 1
  /\ \/ live' = {} /\ sealedAt' = IF HalfDone = {} THEN passwords ELSE 0
     \/ UNCHANGED <<live, sealedAt>>
  /\ UNCHANGED <<storageVars, callVars, grantVars, issued, login, basis, passwords>>

\* Mutant: the command changes the password and leaves the sessions.
AdminResetsPasswordOnly ==
  /\ passwords < MaxReset
  /\ passwords' = passwords + 1
  /\ sealedAt' = IF HalfDone = {} THEN passwords' ELSE 0
  /\ UNCHANGED <<storageVars, callVars, grantVars, serverVars, revoking>>

\* The reset-admin command does both in one transaction.
AdminResets ==
  /\ passwords < MaxReset
  /\ passwords' = passwords + 1
  /\ live' = {}
  /\ sealedAt' = IF HalfDone = {} THEN passwords' ELSE 0
  /\ UNCHANGED <<storageVars, callVars, grantVars, issued, login, basis, revoking>>
-----------------------------------------------------------------------------
Serves(c)  == Checks(c) \/ Issues(c) \/ Refuses(c)
Arrives(c) == Stores(c) \/ Clears(c) \/ Breaks(c)
Replies(c) == Answered(c) \/ Joins(c) \/ Refreshes(c) \/ IsSignedOut(c)

Next ==
  \/ \E c \in Request, t \in Tab : Sends(c, t)
  \/ \E c \in Request, t \in Tab, where \in Place : LogsIn(c, t, where)
  \/ \E c \in Request : Serves(c) \/ Arrives(c) \/ Replies(c)
  \/ \E t \in Tab : Logout(t) \/ Reloads(t)
  \/ \E k \in Pair : Expires(k)
  \/ ChangesPassword \/ Revokes \/ AdminResets

Spec == Init /\ [][Next]_vars

\* Every request is answered or fails, since the proxy and the browser give up
\* on a connection in the end, and the service handles what it receives.
\* Users, expiry and resets are under no obligation.
Fairness == \A c \in Request : WF_vars(Serves(c)) /\ WF_vars(Arrives(c)) /\ WF_vars(Replies(c))

LiveSpec == Spec /\ Fairness
-----------------------------------------------------------------------------
(* Properties.                                                             *)

\* Type correctness.
TypeOK ==
  /\ local \in 0 .. MaxPair /\ session \in [Tab -> 0 .. MaxPair]
  /\ promise \in [Tab -> Request \cup {NoRequest}]
  /\ call \in [Request -> Open \cup {"idle", "settled"}] /\ tabOf \in [Request -> Tab]
  /\ phase \in [Request -> Final \cup {"sent", "checked", "answered", "refused"}]
  /\ place \in [Request -> Place]
  /\ old \in [Request -> 0 .. MaxPair] /\ new \in [Request -> 0 .. MaxPair]
  /\ known \in [Request -> 0 .. MaxReset] /\ listening \subseteq Request
  /\ live \subseteq Pair /\ issued \in 0 .. MaxPair
  /\ login \in [Pair -> 0 .. MaxPair] /\ basis \in [Pair -> 0 .. MaxReset]
  /\ passwords \in 0 .. MaxReset /\ sealedAt \in 0 .. MaxReset
  /\ revoking \in Nat

\* Refreshes whose token is consumed and whose pair is not issued yet.
Exchanging == {c \in HalfDone : old[c] # 0}

\* Rotation does not fork a session (service.go:110-125, repository.go:151):
\* of all that goes back to one login, one refresh token is valid or one
\* refresh is half done, although tabs present the same token at the same time.
OneSuccessor ==
  /\ \A k, l \in live : login[k] = login[l] => k = l
  /\ \A c \in Exchanging, k \in live : login[old[c]] # login[k]
  /\ \A c, d \in Exchanging : login[old[c]] = login[old[d]] => c = d

\* What tabs, lost answers and half done exchanges come to, seen from the table
\* of refresh tokens.
Logins == INSTANCE LoginLifecycle WITH
  Login <- Pair,
  Token <- Pair,
  valid <- [l \in Pair |-> {k \in live : login[k] = l}],
  exchanging <- {login[old[c]] : c \in Exchanging},
  begun <- {l \in Pair : login[l] = l},
  used <- 1 .. issued

\* A login lives on one refresh token at a time, each good once and replaced by
\* a fresh one (service.go:104-164); one that has expired, failed half way or
\* been revoked is never valid again, whichever requests are under way.
LoginsLiveOnce == Logins!LSpec

\* Once a tab has stored a new pair the token it gave for it is in no storage
\* (apiClient.ts:36-37), whatever other tabs stored or removed meanwhile: no
\* tab presents a token whose successor has reached the browser.  Tabs with a
\* copy of another's sessionStorage are excluded.
KeepsNewest ==
  \A c \in Request : phase[c] = "stored" /\ old[c] # 0 =>
    old[c] # local /\ \A t \in Tab : old[c] # session[t]

\* A call waits only while its tab has a refresh whose answer it will hear
\* (apiClient.ts:41-48): no wake-up is lost when a refresh fails, breaks off or
\* meets a reload.
WaitersAreWoken ==
  \A c \in Request : call[c] = "waiting" =>
    LET owner == promise[tabOf[c]] IN
    owner \in listening /\ tabOf[owner] = tabOf[c] /\ phase[owner] \notin Final

\* After a reset that met no login and no refresh between its check and its
\* insertion, every valid refresh token goes back to a login with the new
\* password (service.go:244-275, reset-admin/main.go:66-85).  Without that
\* condition the code does not have the property.
ResetLocksOut ==
  passwords # 0 /\ sealedAt = passwords => \A k \in live : basis[k] = passwords

\* Every call of apiClient and every login comes to an end.
CallsSettle == \A c \in Request : call[c] \in Open ~> call[c] = "settled"
=============================================================================
