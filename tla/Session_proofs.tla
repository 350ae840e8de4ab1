--------------------------- MODULE Session_proofs ---------------------------
(***************************************************************************)
(* Proofs about Session, for any tabs, requests and bounds.                *)
(*                                                                         *)
(* The argument has five parts, each with an invariant of its own:         *)
(*   Bounded   pairs are given out in order and none is used before, so    *)
(*             a new pair continues no session but the one it belongs to   *)
(*             (OneSuccessor);                                             *)
(*   Unseen    a pair on its way to the browser is in no storage and has   *)
(*             been presented by nobody (KeepsNewest);                     *)
(*   Placed    a pair is in one storage, the one its refresh has chosen    *)
(*             (KeepsNewest);                                              *)
(*   Owned     a tab's promise and the refresh that will settle it belong  *)
(*             to each other (WaitersAreWoken);                            *)
(*   Sealed    what is half done after a reset knows the new password      *)
(*             (ResetLocksOut).                                            *)
(***************************************************************************)
EXTENDS Session, TLAPS

LEMMA TypeInit == Init => TypeOK
  BY SessionAssumption DEF Init, TypeOK, Pair, Place, Open, Final, Final

LEMMA TypeStep == ASSUME TypeOK, [Next]_vars PROVE TypeOK'
<1>1. ASSUME NEW c \in Request, NEW t \in Tab, Sends(c, t) PROVE TypeOK'
  BY <1>1, SessionAssumption
     DEF TypeOK, Sends, Open, storageVars, callVars, grantVars, serverVars, resetVars
<1>2. ASSUME NEW c \in Request, NEW t \in Tab, NEW where \in Place, LogsIn(c, t, where) PROVE TypeOK'
  BY <1>2, SessionAssumption
     DEF TypeOK, LogsIn, Asks, Open, storageVars, callVars, grantVars, serverVars, resetVars
<1>3. ASSUME NEW c \in Request, Checks(c) PROVE TypeOK'
  BY <1>3, SessionAssumption
     DEF TypeOK, Checks, BasisOf, Pair, storageVars, callVars, grantVars, serverVars, resetVars
<1>4. ASSUME NEW c \in Request, Issues(c) PROVE TypeOK'
  <2> DEFINE k == issued + 1
  <2>1. issued \in Nat /\ k \in Pair /\ k \in 0 .. MaxPair
    BY <1>4, SessionAssumption DEF TypeOK, Issues, Pair
  <2> HIDE DEF k
  <2>2. live' \subseteq Pair /\ issued' \in 0 .. MaxPair
    BY <1>4, <2>1 DEF TypeOK, Issues, k
  <2>3. login' \in [Pair -> 0 .. MaxPair]
    <3>1. (IF old[c] = 0 THEN k ELSE login[old[c]]) \in 0 .. MaxPair
      BY <2>1, SessionAssumption DEF TypeOK, Pair
    <3> QED BY <1>4, <3>1 DEF TypeOK, Issues, k
  <2>4. basis' \in [Pair -> 0 .. MaxReset]
    BY <1>4 DEF TypeOK, Issues
  <2>5. new' \in [Request -> 0 .. MaxPair]
    BY <1>4, <2>1 DEF TypeOK, Issues, k
  <2> QED
    BY <1>4, <2>2, <2>3, <2>4, <2>5
       DEF TypeOK, Issues, storageVars, callVars, resetVars
<1>5. ASSUME NEW c \in Request, Refuses(c) PROVE TypeOK'
  BY <1>5, SessionAssumption
     DEF TypeOK, Refuses, storageVars, callVars, grantVars, serverVars, resetVars
<1>6. ASSUME NEW c \in Request, Stores(c) PROVE TypeOK'
  BY <1>6, SessionAssumption
     DEF TypeOK, Stores, Puts, Settles, Open, Final, storageVars, callVars, grantVars, serverVars, resetVars
<1>7. ASSUME NEW c \in Request, Clears(c) PROVE TypeOK'
  BY <1>7, SessionAssumption
     DEF TypeOK, Clears, Puts, Settles, Open, Final, storageVars, callVars, grantVars, serverVars, resetVars
<1>8. ASSUME NEW c \in Request, Breaks(c) PROVE TypeOK'
  BY <1>8, SessionAssumption
     DEF TypeOK, Breaks, Settles, Open, storageVars, callVars, grantVars, serverVars, resetVars
<1>9. ASSUME NEW c \in Request, Answered(c) PROVE TypeOK'
  BY <1>9, SessionAssumption
     DEF TypeOK, Answered, Open, storageVars, callVars, grantVars, serverVars, resetVars
<1>10. ASSUME NEW c \in Request, Joins(c) PROVE TypeOK'
  BY <1>10, SessionAssumption
     DEF TypeOK, Joins, Open, storageVars, callVars, grantVars, serverVars, resetVars
<1>11. ASSUME NEW c \in Request, Refreshes(c) PROVE TypeOK'
  BY <1>11, SessionAssumption
     DEF TypeOK, Refreshes, Asks, Held, HeldAt, Open, Place, storageVars, callVars, grantVars, serverVars, resetVars
<1>12. ASSUME NEW c \in Request, IsSignedOut(c) PROVE TypeOK'
  BY <1>12, SessionAssumption
     DEF TypeOK, IsSignedOut, Open, storageVars, callVars, grantVars, serverVars, resetVars
<1>13. ASSUME NEW t \in Tab, Logout(t) PROVE TypeOK'
  BY <1>13, SessionAssumption
     DEF TypeOK, Logout, storageVars, callVars, grantVars, serverVars, resetVars
<1>14. ASSUME NEW t \in Tab, Reloads(t) PROVE TypeOK'
  BY <1>14, SessionAssumption
     DEF TypeOK, Reloads, Open, storageVars, callVars, grantVars, serverVars, resetVars
<1>15. ASSUME NEW k \in Pair, Expires(k) PROVE TypeOK'
  BY <1>15, SessionAssumption
     DEF TypeOK, Expires, storageVars, callVars, grantVars, serverVars, resetVars
<1>16. ASSUME ChangesPassword PROVE TypeOK'
  BY <1>16, SessionAssumption
     DEF TypeOK, ChangesPassword, storageVars, callVars, grantVars, serverVars, resetVars
<1>17. ASSUME Revokes PROVE TypeOK'
  BY <1>17, SessionAssumption
     DEF TypeOK, Revokes, HalfDone, storageVars, callVars, grantVars, serverVars, resetVars
<1>18. ASSUME AdminResets PROVE TypeOK'
  BY <1>18, SessionAssumption
     DEF TypeOK, AdminResets, HalfDone, storageVars, callVars, grantVars, serverVars, resetVars
<1>19. CASE UNCHANGED vars
  BY <1>19 DEF TypeOK, vars, storageVars, callVars, grantVars, serverVars, resetVars
<1>. QED
  BY <1>1, <1>2, <1>3, <1>4, <1>5, <1>6, <1>7, <1>8, <1>9, <1>10, <1>11, <1>12, <1>13, <1>14, <1>15, <1>16, <1>17, <1>18, <1>19
     DEF Next, Serves, Arrives, Replies

\* The state stays within its types.
THEOREM TypeCorrect == Spec => []TypeOK
<1>1. Init => TypeOK
  BY TypeInit
<1>2. TypeOK /\ [Next]_vars => TypeOK'
  BY TypeStep
<1>. QED BY <1>1, <1>2, PTL DEF Spec
-----------------------------------------------------------------------------
\* Pairs are numbered in the order they are given out.
Bounded ==
  /\ local <= issued /\ \A t \in Tab : session[t] <= issued
  /\ \A c \in Request : old[c] <= issued /\ new[c] <= issued
  /\ \A k \in live : k <= issued
  /\ \A k \in Pair : login[k] <= issued

LEMMA BoundedInit == Init => Bounded
  BY SessionAssumption DEF Init, Bounded, Pair, Place

LEMMA BoundedStep == ASSUME TypeOK, Bounded, [Next]_vars PROVE Bounded'
<1>1. ASSUME NEW c \in Request, NEW t \in Tab, Sends(c, t) PROVE Bounded'
  BY <1>1, SessionAssumption
     DEF TypeOK, Bounded, Sends, storageVars, callVars, grantVars, serverVars, resetVars
<1>2. ASSUME NEW c \in Request, NEW t \in Tab, NEW where \in Place, LogsIn(c, t, where) PROVE Bounded'
  BY <1>2, SessionAssumption
     DEF TypeOK, Bounded, LogsIn, Asks, storageVars, callVars, grantVars, serverVars, resetVars
<1>3. ASSUME NEW c \in Request, Checks(c) PROVE Bounded'
  BY <1>3, SessionAssumption
     DEF TypeOK, Bounded, Checks, BasisOf, Pair, storageVars, callVars, grantVars, serverVars, resetVars
<1>4. ASSUME NEW c \in Request, Issues(c) PROVE Bounded'
  <2>. DEFINE k == issued + 1
  <2>1. issued \in Nat /\ k \in Pair /\ issued' = k /\ k > issued
    BY <1>4, SessionAssumption DEF TypeOK, Issues, Pair
  <2>2. login' = [login EXCEPT ![k] = IF old[c] = 0 THEN k ELSE login[old[c]]]
    BY <1>4 DEF Issues
  <2>3. old[c] # 0 => old[c] \in Pair
    BY SessionAssumption DEF TypeOK, Pair
  <2>4. \A l \in Pair : login'[l] <= issued'
    <3>1. login \in [Pair -> 0 .. MaxPair] /\ \A l \in Pair : login[l] <= issued
      BY DEF TypeOK, Bounded
    <3>2. old[c] # 0 => login[old[c]] \in Nat /\ login[old[c]] <= issued
      BY <2>3, <3>1, SessionAssumption
    <3>3. ASSUME NEW l \in Pair PROVE login'[l] <= issued'
      BY <2>1, <2>2, <3>1, <3>2, <3>3
    <3> QED BY <3>3
  <2>5. \A l \in live' : l <= issued'
    <3>1. live' = live \cup {k} /\ live \subseteq Pair
      BY <1>4 DEF TypeOK, Issues
    <3>2. \A l \in live : l <= issued
      BY DEF Bounded
    <3> HIDE DEF k
    <3> QED BY <2>1, <3>1, <3>2 DEF Pair
  <2>6. \A d \in Request : old'[d] <= issued' /\ new'[d] <= issued'
    <3>1. old' = old /\ new' = [new EXCEPT ![c] = k]
      BY <1>4 DEF Issues
    <3>2. \A d \in Request : old[d] <= issued /\ new[d] <= issued
      BY DEF Bounded
    <3>3. old \in [Request -> 0 .. MaxPair] /\ new \in [Request -> 0 .. MaxPair]
      BY DEF TypeOK
    <3> HIDE DEF k
    <3> QED BY <2>1, <3>1, <3>2, <3>3 DEF Pair
  <2>7. local' <= issued' /\ \A t \in Tab : session'[t] <= issued'
    BY <1>4, <2>1, SessionAssumption DEF TypeOK, Bounded, Issues, storageVars
  <2>. QED BY <2>4, <2>5, <2>6, <2>7 DEF Bounded
<1>5. ASSUME NEW c \in Request, Refuses(c) PROVE Bounded'
  BY <1>5, SessionAssumption
     DEF TypeOK, Bounded, Refuses, storageVars, callVars, grantVars, serverVars, resetVars
<1>6. ASSUME NEW c \in Request, Stores(c) PROVE Bounded'
  BY <1>6, SessionAssumption
     DEF TypeOK, Bounded, Stores, Puts, Settles, storageVars, callVars, grantVars, serverVars, resetVars
<1>7. ASSUME NEW c \in Request, Clears(c) PROVE Bounded'
  BY <1>7, SessionAssumption
     DEF TypeOK, Bounded, Clears, Puts, Settles, storageVars, callVars, grantVars, serverVars, resetVars
<1>8. ASSUME NEW c \in Request, Breaks(c) PROVE Bounded'
  BY <1>8, SessionAssumption
     DEF TypeOK, Bounded, Breaks, Settles, storageVars, callVars, grantVars, serverVars, resetVars
<1>9. ASSUME NEW c \in Request, Answered(c) PROVE Bounded'
  BY <1>9, SessionAssumption
     DEF TypeOK, Bounded, Answered, storageVars, callVars, grantVars, serverVars, resetVars
<1>10. ASSUME NEW c \in Request, Joins(c) PROVE Bounded'
  BY <1>10, SessionAssumption
     DEF TypeOK, Bounded, Joins, storageVars, callVars, grantVars, serverVars, resetVars
<1>11. ASSUME NEW c \in Request, Refreshes(c) PROVE Bounded'
  BY <1>11, SessionAssumption
     DEF TypeOK, Bounded, Refreshes, Asks, Held, HeldAt, storageVars, callVars, grantVars, serverVars, resetVars
<1>12. ASSUME NEW c \in Request, IsSignedOut(c) PROVE Bounded'
  BY <1>12, SessionAssumption
     DEF TypeOK, Bounded, IsSignedOut, storageVars, callVars, grantVars, serverVars, resetVars
<1>13. ASSUME NEW t \in Tab, Logout(t) PROVE Bounded'
  BY <1>13, SessionAssumption
     DEF TypeOK, Bounded, Logout, storageVars, callVars, grantVars, serverVars, resetVars
<1>14. ASSUME NEW t \in Tab, Reloads(t) PROVE Bounded'
  BY <1>14, SessionAssumption
     DEF TypeOK, Bounded, Reloads, storageVars, callVars, grantVars, serverVars, resetVars
<1>15. ASSUME NEW k \in Pair, Expires(k) PROVE Bounded'
  BY <1>15, SessionAssumption
     DEF TypeOK, Bounded, Expires, Pair, storageVars, callVars, grantVars, serverVars, resetVars
<1>16. ASSUME ChangesPassword PROVE Bounded'
  BY <1>16, SessionAssumption
     DEF TypeOK, Bounded, ChangesPassword, storageVars, callVars, grantVars, serverVars, resetVars
<1>17. ASSUME Revokes PROVE Bounded'
  BY <1>17, SessionAssumption
     DEF TypeOK, Bounded, Revokes, HalfDone, storageVars, callVars, grantVars, serverVars, resetVars
<1>18. ASSUME AdminResets PROVE Bounded'
  BY <1>18, SessionAssumption
     DEF TypeOK, Bounded, AdminResets, HalfDone, storageVars, callVars, grantVars, serverVars, resetVars
<1>19. CASE UNCHANGED vars
  BY <1>19 DEF TypeOK, Bounded, vars, storageVars, callVars, grantVars, serverVars, resetVars
<1>. QED
  BY <1>1, <1>2, <1>3, <1>4, <1>5, <1>6, <1>7, <1>8, <1>9, <1>10, <1>11, <1>12, <1>13, <1>14, <1>15, <1>16, <1>17, <1>18, <1>19
     DEF Next, Serves, Arrives, Replies

LEMMA SuccessorInit == Init => OneSuccessor
  BY SessionAssumption DEF Init, OneSuccessor, Exchanging, HalfDone, Pair

LEMMA SuccessorStep == ASSUME TypeOK, Bounded, OneSuccessor, [Next]_vars PROVE OneSuccessor'
<1>1. ASSUME NEW c \in Request, NEW t \in Tab, Sends(c, t) PROVE OneSuccessor'
  BY <1>1, SessionAssumption
     DEF TypeOK, Bounded, OneSuccessor, Exchanging, HalfDone, Sends, storageVars, callVars, grantVars, serverVars, resetVars
<1>2. ASSUME NEW c \in Request, NEW t \in Tab, NEW where \in Place, LogsIn(c, t, where) PROVE OneSuccessor'
  BY <1>2, SessionAssumption
     DEF TypeOK, Bounded, OneSuccessor, Exchanging, HalfDone, LogsIn, Asks, storageVars, callVars, grantVars, serverVars, resetVars
<1>3. ASSUME NEW c \in Request, Checks(c) PROVE OneSuccessor'
  <2>1. Exchanging' = Exchanging \cup (IF old[c] = 0 THEN {} ELSE {c}) /\ old' = old
    BY <1>3 DEF TypeOK, Exchanging, HalfDone, Checks
  <2>2. live' = live \ {old[c]} /\ login' = login
    BY <1>3 DEF Checks
  <2>3. old[c] # 0 => old[c] \in live
    BY <1>3 DEF Checks
  <2>4. \A k, l \in live' : login'[k] = login'[l] => k = l
    BY <2>2 DEF OneSuccessor
  <2>5. \A d \in Exchanging', k \in live' : login'[old'[d]] # login'[k]
    BY <2>1, <2>2, <2>3 DEF OneSuccessor
  <2>6. \A d, e \in Exchanging' : login'[old'[d]] = login'[old'[e]] => d = e
    BY <2>1, <2>2, <2>3 DEF OneSuccessor
  <2>. QED BY <2>4, <2>5, <2>6 DEF OneSuccessor
<1>4. ASSUME NEW c \in Request, Issues(c) PROVE OneSuccessor'
  <2>. DEFINE k == issued + 1
              mine == IF old[c] = 0 THEN k ELSE login[old[c]]
  <2>1. issued \in Nat /\ k \in Pair /\ k > issued
    BY <1>4, SessionAssumption DEF TypeOK, Issues, Pair
  <2>2. live' = live \cup {k} /\ old' = old /\ login' = [login EXCEPT ![k] = mine]
    BY <1>4 DEF Issues
  <2>3. Exchanging' = Exchanging \ {c}
    BY <1>4 DEF TypeOK, Exchanging, HalfDone, Issues
  <2>4. old[c] # 0 => c \in Exchanging
    BY <1>4 DEF Exchanging, HalfDone, Issues
  <2>5. \A l \in live : l \in Pair /\ l # k /\ login'[l] = login[l] /\ login[l] # k
    BY <2>1, <2>2, SessionAssumption DEF TypeOK, Bounded, Pair
  <2>6. \A d \in Exchanging : old[d] # k /\ login'[old[d]] = login[old[d]] /\ login[old[d]] # k
    <3> SUFFICES ASSUME NEW d \in Exchanging
                 PROVE  old[d] # k /\ login'[old[d]] = login[old[d]] /\ login[old[d]] # k
      OBVIOUS
    <3>1. old[d] \in Pair /\ old[d] \in Nat /\ old[d] <= issued
      BY SessionAssumption DEF TypeOK, Bounded, Exchanging, HalfDone, Pair
    <3>2. login[old[d]] \in Nat /\ login[old[d]] <= issued
      BY <3>1, SessionAssumption DEF TypeOK, Bounded
    <3>3. old[d] # k
      BY <2>1, <3>1
    <3>4. login'[old[d]] = login[old[d]]
      BY <2>2, <3>1, <3>3 DEF TypeOK
    <3>5. login[old[d]] # k
      BY <2>1, <3>2
    <3> QED BY <3>3, <3>4, <3>5
  <2>7. login'[k] = mine
    BY <2>1, <2>2 DEF TypeOK
  <2>8. \A l \in live : login[l] # mine
    BY <2>4, <2>5 DEF OneSuccessor
  <2>9. \A d \in Exchanging \ {c} : login[old[d]] # mine
    BY <2>4, <2>6 DEF OneSuccessor
  <2>10. \A a, b \in live' : login'[a] = login'[b] => a = b
    BY <2>2, <2>5, <2>7, <2>8 DEF OneSuccessor
  <2>11. \A d \in Exchanging', a \in live' : login'[old'[d]] # login'[a]
    BY <2>2, <2>3, <2>5, <2>6, <2>7, <2>9 DEF OneSuccessor
  <2>12. \A d, e \in Exchanging' : login'[old'[d]] = login'[old'[e]] => d = e
    BY <2>2, <2>3, <2>6 DEF OneSuccessor
  <2>. QED BY <2>10, <2>11, <2>12 DEF OneSuccessor
<1>5. ASSUME NEW c \in Request, Refuses(c) PROVE OneSuccessor'
  BY <1>5, SessionAssumption
     DEF TypeOK, Bounded, OneSuccessor, Exchanging, HalfDone, Refuses, storageVars, callVars, grantVars, serverVars, resetVars
<1>6. ASSUME NEW c \in Request, Stores(c) PROVE OneSuccessor'
  BY <1>6, SessionAssumption
     DEF TypeOK, Bounded, OneSuccessor, Exchanging, HalfDone, Stores, Puts, Settles, storageVars, callVars, grantVars, serverVars, resetVars
<1>7. ASSUME NEW c \in Request, Clears(c) PROVE OneSuccessor'
  BY <1>7, SessionAssumption
     DEF TypeOK, Bounded, OneSuccessor, Exchanging, HalfDone, Clears, Puts, Settles, storageVars, callVars, grantVars, serverVars, resetVars
<1>8. ASSUME NEW c \in Request, Breaks(c) PROVE OneSuccessor'
  BY <1>8, SessionAssumption
     DEF TypeOK, Bounded, OneSuccessor, Exchanging, HalfDone, Breaks, Settles, storageVars, callVars, grantVars, serverVars, resetVars
<1>9. ASSUME NEW c \in Request, Answered(c) PROVE OneSuccessor'
  BY <1>9, SessionAssumption
     DEF TypeOK, Bounded, OneSuccessor, Exchanging, HalfDone, Answered, storageVars, callVars, grantVars, serverVars, resetVars
<1>10. ASSUME NEW c \in Request, Joins(c) PROVE OneSuccessor'
  BY <1>10, SessionAssumption
     DEF TypeOK, Bounded, OneSuccessor, Exchanging, HalfDone, Joins, storageVars, callVars, grantVars, serverVars, resetVars
<1>11. ASSUME NEW c \in Request, Refreshes(c) PROVE OneSuccessor'
  BY <1>11, SessionAssumption
     DEF TypeOK, Bounded, OneSuccessor, Exchanging, HalfDone, Refreshes, Asks, Held, HeldAt, storageVars, callVars, grantVars, serverVars, resetVars
<1>12. ASSUME NEW c \in Request, IsSignedOut(c) PROVE OneSuccessor'
  BY <1>12, SessionAssumption
     DEF TypeOK, Bounded, OneSuccessor, Exchanging, HalfDone, IsSignedOut, storageVars, callVars, grantVars, serverVars, resetVars
<1>13. ASSUME NEW t \in Tab, Logout(t) PROVE OneSuccessor'
  BY <1>13, SessionAssumption
     DEF TypeOK, Bounded, OneSuccessor, Exchanging, HalfDone, Logout, storageVars, callVars, grantVars, serverVars, resetVars
<1>14. ASSUME NEW t \in Tab, Reloads(t) PROVE OneSuccessor'
  BY <1>14, SessionAssumption
     DEF TypeOK, Bounded, OneSuccessor, Exchanging, HalfDone, Reloads, storageVars, callVars, grantVars, serverVars, resetVars
<1>15. ASSUME NEW k \in Pair, Expires(k) PROVE OneSuccessor'
  BY <1>15, SessionAssumption
     DEF TypeOK, Bounded, OneSuccessor, Exchanging, HalfDone, Expires, storageVars, callVars, grantVars, serverVars, resetVars
<1>16. ASSUME ChangesPassword PROVE OneSuccessor'
  BY <1>16, SessionAssumption
     DEF TypeOK, Bounded, OneSuccessor, Exchanging, HalfDone, ChangesPassword, storageVars, callVars, grantVars, serverVars, resetVars
<1>17. ASSUME Revokes PROVE OneSuccessor'
  BY <1>17, SessionAssumption
     DEF TypeOK, Bounded, OneSuccessor, Exchanging, HalfDone, Revokes, HalfDone, storageVars, callVars, grantVars, serverVars, resetVars
<1>18. ASSUME AdminResets PROVE OneSuccessor'
  BY <1>18, SessionAssumption
     DEF TypeOK, Bounded, OneSuccessor, Exchanging, HalfDone, AdminResets, HalfDone, storageVars, callVars, grantVars, serverVars, resetVars
<1>19. CASE UNCHANGED vars
  BY <1>19 DEF TypeOK, Bounded, OneSuccessor, Exchanging, HalfDone, vars, storageVars, callVars, grantVars, serverVars, resetVars
<1>. QED
  BY <1>1, <1>2, <1>3, <1>4, <1>5, <1>6, <1>7, <1>8, <1>9, <1>10, <1>11, <1>12, <1>13, <1>14, <1>15, <1>16, <1>17, <1>18, <1>19
     DEF Next, Serves, Arrives, Replies

\* Rotation never forks a session.
THEOREM OneSuccessorAlways == Spec => []OneSuccessor
<1>1. Init => Bounded /\ OneSuccessor
  BY BoundedInit, SuccessorInit
<1>2. TypeOK /\ Bounded /\ OneSuccessor /\ [Next]_vars => (Bounded /\ OneSuccessor)'
  BY BoundedStep, SuccessorStep
<1>. QED BY <1>1, <1>2, TypeCorrect, PTL DEF Spec
-----------------------------------------------------------------------------
\* A pair on its way to the browser has been seen by nobody.
Unseen ==
  \A c \in Request : phase[c] = "answered" =>
    /\ new[c] # 0 /\ new[c] # local /\ \A t \in Tab : new[c] # session[t]
    /\ \A d \in Request : old[d] # new[c]
    /\ \A d \in Request : phase[d] = "answered" /\ new[d] = new[c] => d = c

LEMMA UnseenInit == Init => Unseen /\ KeepsNewest
  BY DEF Init, Unseen, KeepsNewest

LEMMA UnseenStep == ASSUME TypeOK, Bounded, Unseen, [Next]_vars PROVE Unseen'
<1>1. ASSUME NEW c \in Request, NEW t \in Tab, Sends(c, t) PROVE Unseen'
  BY <1>1, SessionAssumption
     DEF TypeOK, Bounded, Unseen, Sends, storageVars, callVars, grantVars, serverVars, resetVars
<1>2. ASSUME NEW c \in Request, NEW t \in Tab, NEW where \in Place, LogsIn(c, t, where) PROVE Unseen'
  BY <1>2, SessionAssumption
     DEF TypeOK, Bounded, Unseen, LogsIn, Asks, storageVars, callVars, grantVars, serverVars, resetVars
<1>3. ASSUME NEW c \in Request, Checks(c) PROVE Unseen'
  BY <1>3, SessionAssumption
     DEF TypeOK, Bounded, Unseen, Checks, BasisOf, storageVars, callVars, grantVars, serverVars, resetVars
<1>4. ASSUME NEW c \in Request, Issues(c) PROVE Unseen'
  <2>. DEFINE k == issued + 1
  <2>1. issued \in Nat /\ k \in Nat /\ k > issued
    BY <1>4, SessionAssumption DEF TypeOK, Issues
  <2>2. UNCHANGED <<local, session, old>> /\ new' = [new EXCEPT ![c] = k]
        /\ phase' = [phase EXCEPT ![c] = "answered"]
    BY <1>4 DEF Issues, storageVars
  <2>3. k # 0 /\ k # local /\ (\A t \in Tab : k # session[t])
        /\ \A d \in Request : old[d] # k /\ new[d] # k
    BY <2>1, SessionAssumption DEF TypeOK, Bounded
  <2>. QED BY <2>2, <2>3 DEF TypeOK, Unseen
<1>5. ASSUME NEW c \in Request, Refuses(c) PROVE Unseen'
  BY <1>5, SessionAssumption
     DEF TypeOK, Bounded, Unseen, Refuses, storageVars, callVars, grantVars, serverVars, resetVars
<1>6. ASSUME NEW c \in Request, Stores(c) PROVE Unseen'
  BY <1>6, SessionAssumption
     DEF TypeOK, Bounded, Unseen, Stores, Puts, Settles, storageVars, callVars, grantVars, serverVars, resetVars
<1>7. ASSUME NEW c \in Request, Clears(c) PROVE Unseen'
  BY <1>7, SessionAssumption
     DEF TypeOK, Bounded, Unseen, Clears, Puts, Settles, storageVars, callVars, grantVars, serverVars, resetVars
<1>8. ASSUME NEW c \in Request, Breaks(c) PROVE Unseen'
  BY <1>8, SessionAssumption
     DEF TypeOK, Bounded, Unseen, Breaks, Settles, storageVars, callVars, grantVars, serverVars, resetVars
<1>9. ASSUME NEW c \in Request, Answered(c) PROVE Unseen'
  BY <1>9, SessionAssumption
     DEF TypeOK, Bounded, Unseen, Answered, storageVars, callVars, grantVars, serverVars, resetVars
<1>10. ASSUME NEW c \in Request, Joins(c) PROVE Unseen'
  BY <1>10, SessionAssumption
     DEF TypeOK, Bounded, Unseen, Joins, storageVars, callVars, grantVars, serverVars, resetVars
<1>11. ASSUME NEW c \in Request, Refreshes(c) PROVE Unseen'
  BY <1>11, SessionAssumption
     DEF TypeOK, Bounded, Unseen, Refreshes, Asks, Held, HeldAt, storageVars, callVars, grantVars, serverVars, resetVars
<1>12. ASSUME NEW c \in Request, IsSignedOut(c) PROVE Unseen'
  BY <1>12, SessionAssumption
     DEF TypeOK, Bounded, Unseen, IsSignedOut, storageVars, callVars, grantVars, serverVars, resetVars
<1>13. ASSUME NEW t \in Tab, Logout(t) PROVE Unseen'
  BY <1>13, SessionAssumption
     DEF TypeOK, Bounded, Unseen, Logout, storageVars, callVars, grantVars, serverVars, resetVars
<1>14. ASSUME NEW t \in Tab, Reloads(t) PROVE Unseen'
  BY <1>14, SessionAssumption
     DEF TypeOK, Bounded, Unseen, Reloads, storageVars, callVars, grantVars, serverVars, resetVars
<1>15. ASSUME NEW k \in Pair, Expires(k) PROVE Unseen'
  BY <1>15, SessionAssumption
     DEF TypeOK, Bounded, Unseen, Expires, storageVars, callVars, grantVars, serverVars, resetVars
<1>16. ASSUME ChangesPassword PROVE Unseen'
  BY <1>16, SessionAssumption
     DEF TypeOK, Bounded, Unseen, ChangesPassword, storageVars, callVars, grantVars, serverVars, resetVars
<1>17. ASSUME Revokes PROVE Unseen'
  BY <1>17, SessionAssumption
     DEF TypeOK, Bounded, Unseen, Revokes, HalfDone, storageVars, callVars, grantVars, serverVars, resetVars
<1>18. ASSUME AdminResets PROVE Unseen'
  BY <1>18, SessionAssumption
     DEF TypeOK, Bounded, Unseen, AdminResets, HalfDone, storageVars, callVars, grantVars, serverVars, resetVars
<1>19. CASE UNCHANGED vars
  BY <1>19 DEF TypeOK, Bounded, Unseen, vars, storageVars, callVars, grantVars, serverVars, resetVars
<1>. QED
  BY <1>1, <1>2, <1>3, <1>4, <1>5, <1>6, <1>7, <1>8, <1>9, <1>10, <1>11, <1>12, <1>13, <1>14, <1>15, <1>16, <1>17, <1>18, <1>19
     DEF Next, Serves, Arrives, Replies

\* A pair is in one storage, where every refresh that presents it will put
\* what it gets.
Placed ==
  /\ \A t \in Tab : session[t] # 0 =>
       session[t] # local /\ \A u \in Tab : session[u] = session[t] => u = t
  /\ \A c \in Request : phase[c] # "none" /\ old[c] # 0 =>
       /\ local = old[c] => place[c] = "local"
       /\ \A t \in Tab : session[t] = old[c] => place[c] # "local" /\ t = tabOf[c]
  /\ \A c \in Request : call[c] \in {"idle", "sent"} => phase[c] = "none"

LEMMA PlacedInit == Init => Placed
  BY DEF Init, Placed, Place

LEMMA PlacedStep == ASSUME TypeOK, Unseen, Placed, [Next]_vars PROVE Placed'
<1>1. ASSUME NEW c \in Request, NEW t \in Tab, Sends(c, t) PROVE Placed'
  BY <1>1, SessionAssumption
     DEF TypeOK, Unseen, Placed, Sends, storageVars, callVars, grantVars, serverVars, resetVars
<1>2. ASSUME NEW c \in Request, NEW t \in Tab, NEW where \in Place, LogsIn(c, t, where) PROVE Placed'
  BY <1>2, SessionAssumption
     DEF TypeOK, Unseen, Placed, LogsIn, Asks, storageVars, callVars, grantVars, serverVars, resetVars
<1>3. ASSUME NEW c \in Request, Checks(c) PROVE Placed'
  BY <1>3, SessionAssumption
     DEF TypeOK, Unseen, Placed, Checks, BasisOf, storageVars, callVars, grantVars, serverVars, resetVars
<1>4. ASSUME NEW c \in Request, Issues(c) PROVE Placed'
  BY <1>4, SessionAssumption
     DEF TypeOK, Unseen, Placed, Issues, storageVars, callVars, grantVars, serverVars, resetVars
<1>5. ASSUME NEW c \in Request, Refuses(c) PROVE Placed'
  BY <1>5, SessionAssumption
     DEF TypeOK, Unseen, Placed, Refuses, storageVars, callVars, grantVars, serverVars, resetVars
<1>6. ASSUME NEW c \in Request, Stores(c) PROVE Placed'
  BY <1>6, SessionAssumption
     DEF TypeOK, Unseen, Placed, Stores, Puts, Settles, storageVars, callVars, grantVars, serverVars, resetVars
<1>7. ASSUME NEW c \in Request, Clears(c) PROVE Placed'
  BY <1>7, SessionAssumption
     DEF TypeOK, Unseen, Placed, Clears, Puts, Settles, storageVars, callVars, grantVars, serverVars, resetVars
<1>8. ASSUME NEW c \in Request, Breaks(c) PROVE Placed'
  BY <1>8, SessionAssumption
     DEF TypeOK, Unseen, Placed, Breaks, Settles, storageVars, callVars, grantVars, serverVars, resetVars
<1>9. ASSUME NEW c \in Request, Answered(c) PROVE Placed'
  BY <1>9, SessionAssumption
     DEF TypeOK, Unseen, Placed, Answered, storageVars, callVars, grantVars, serverVars, resetVars
<1>10. ASSUME NEW c \in Request, Joins(c) PROVE Placed'
  BY <1>10, SessionAssumption
     DEF TypeOK, Unseen, Placed, Joins, storageVars, callVars, grantVars, serverVars, resetVars
<1>11. ASSUME NEW c \in Request, Refreshes(c) PROVE Placed'
  BY <1>11, SessionAssumption
     DEF TypeOK, Unseen, Placed, Refreshes, Asks, Held, HeldAt, Place, storageVars, callVars, grantVars, serverVars, resetVars
<1>12. ASSUME NEW c \in Request, IsSignedOut(c) PROVE Placed'
  BY <1>12, SessionAssumption
     DEF TypeOK, Unseen, Placed, IsSignedOut, storageVars, callVars, grantVars, serverVars, resetVars
<1>13. ASSUME NEW t \in Tab, Logout(t) PROVE Placed'
  BY <1>13, SessionAssumption
     DEF TypeOK, Unseen, Placed, Logout, storageVars, callVars, grantVars, serverVars, resetVars
<1>14. ASSUME NEW t \in Tab, Reloads(t) PROVE Placed'
  BY <1>14, SessionAssumption
     DEF TypeOK, Unseen, Placed, Reloads, Open, storageVars, callVars, grantVars, serverVars, resetVars
<1>15. ASSUME NEW k \in Pair, Expires(k) PROVE Placed'
  BY <1>15, SessionAssumption
     DEF TypeOK, Unseen, Placed, Expires, storageVars, callVars, grantVars, serverVars, resetVars
<1>16. ASSUME ChangesPassword PROVE Placed'
  BY <1>16, SessionAssumption
     DEF TypeOK, Unseen, Placed, ChangesPassword, storageVars, callVars, grantVars, serverVars, resetVars
<1>17. ASSUME Revokes PROVE Placed'
  BY <1>17, SessionAssumption
     DEF TypeOK, Unseen, Placed, Revokes, HalfDone, storageVars, callVars, grantVars, serverVars, resetVars
<1>18. ASSUME AdminResets PROVE Placed'
  BY <1>18, SessionAssumption
     DEF TypeOK, Unseen, Placed, AdminResets, HalfDone, storageVars, callVars, grantVars, serverVars, resetVars
<1>19. CASE UNCHANGED vars
  BY <1>19 DEF TypeOK, Unseen, Placed, vars, storageVars, callVars, grantVars, serverVars, resetVars
<1>. QED
  BY <1>1, <1>2, <1>3, <1>4, <1>5, <1>6, <1>7, <1>8, <1>9, <1>10, <1>11, <1>12, <1>13, <1>14, <1>15, <1>16, <1>17, <1>18, <1>19
     DEF Next, Serves, Arrives, Replies

LEMMA KeepsStep == ASSUME TypeOK, Bounded, Unseen, Placed, KeepsNewest, [Next]_vars PROVE KeepsNewest'
<1>1. ASSUME NEW c \in Request, NEW t \in Tab, Sends(c, t) PROVE KeepsNewest'
  BY <1>1, SessionAssumption
     DEF TypeOK, Bounded, Unseen, KeepsNewest, Sends, storageVars, callVars, grantVars, serverVars, resetVars
<1>2. ASSUME NEW c \in Request, NEW t \in Tab, NEW where \in Place, LogsIn(c, t, where) PROVE KeepsNewest'
  BY <1>2, SessionAssumption
     DEF TypeOK, Bounded, Unseen, KeepsNewest, LogsIn, Asks, storageVars, callVars, grantVars, serverVars, resetVars
<1>3. ASSUME NEW c \in Request, Checks(c) PROVE KeepsNewest'
  BY <1>3, SessionAssumption
     DEF TypeOK, Bounded, Unseen, KeepsNewest, Checks, BasisOf, storageVars, callVars, grantVars, serverVars, resetVars
<1>4. ASSUME NEW c \in Request, Issues(c) PROVE KeepsNewest'
  BY <1>4, SessionAssumption
     DEF TypeOK, Bounded, Unseen, KeepsNewest, Issues, storageVars, callVars, grantVars, serverVars, resetVars
<1>5. ASSUME NEW c \in Request, Refuses(c) PROVE KeepsNewest'
  BY <1>5, SessionAssumption
     DEF TypeOK, Bounded, Unseen, KeepsNewest, Refuses, storageVars, callVars, grantVars, serverVars, resetVars
<1>6. ASSUME NEW c \in Request, Stores(c) PROVE KeepsNewest'
  <2>1. phase' = [phase EXCEPT ![c] = "stored"] /\ old' = old
    BY <1>6 DEF Stores
  <2>2. /\ local' \in {local, new[c]}
        /\ \A t \in Tab : session'[t] \in {session[t], new[c]}
        /\ place[c] = "local" => local' = new[c] /\ session' = session
        /\ place[c] # "local" => session'[tabOf[c]] = new[c] /\ local' = local
    BY <1>6 DEF TypeOK, Stores, Puts
  <2>3. phase[c] = "answered" /\ \A d \in Request : old[d] # new[c]
    BY <1>6 DEF Unseen, Stores
  <2>4. ASSUME NEW d \in Request, phase[d] = "stored", old[d] # 0
        PROVE  old[d] # local' /\ \A t \in Tab : old[d] # session'[t]
    BY <2>2, <2>3, <2>4 DEF KeepsNewest
  <2>5. ASSUME old[c] # 0
        PROVE  old[c] # local' /\ \A t \in Tab : old[c] # session'[t]
    <3>1. local = old[c] => place[c] = "local"
      BY <2>3, <2>5 DEF Placed
    <3>2. \A t \in Tab : session[t] = old[c] => place[c] # "local" /\ t = tabOf[c]
      BY <2>3, <2>5 DEF Placed
    <3>. QED BY <2>2, <2>3, <3>1, <3>2
  <2>. QED BY <2>1, <2>4, <2>5 DEF TypeOK, KeepsNewest
<1>7. ASSUME NEW c \in Request, Clears(c) PROVE KeepsNewest'
  BY <1>7, SessionAssumption
     DEF TypeOK, Bounded, Unseen, KeepsNewest, Clears, Puts, Settles, storageVars, callVars, grantVars, serverVars, resetVars
<1>8. ASSUME NEW c \in Request, Breaks(c) PROVE KeepsNewest'
  BY <1>8, SessionAssumption
     DEF TypeOK, Bounded, Unseen, KeepsNewest, Breaks, Settles, storageVars, callVars, grantVars, serverVars, resetVars
<1>9. ASSUME NEW c \in Request, Answered(c) PROVE KeepsNewest'
  BY <1>9, SessionAssumption
     DEF TypeOK, Bounded, Unseen, KeepsNewest, Answered, storageVars, callVars, grantVars, serverVars, resetVars
<1>10. ASSUME NEW c \in Request, Joins(c) PROVE KeepsNewest'
  BY <1>10, SessionAssumption
     DEF TypeOK, Bounded, Unseen, KeepsNewest, Joins, storageVars, callVars, grantVars, serverVars, resetVars
<1>11. ASSUME NEW c \in Request, Refreshes(c) PROVE KeepsNewest'
  BY <1>11, SessionAssumption
     DEF TypeOK, Bounded, Unseen, KeepsNewest, Refreshes, Asks, Held, HeldAt, storageVars, callVars, grantVars, serverVars, resetVars
<1>12. ASSUME NEW c \in Request, IsSignedOut(c) PROVE KeepsNewest'
  BY <1>12, SessionAssumption
     DEF TypeOK, Bounded, Unseen, KeepsNewest, IsSignedOut, storageVars, callVars, grantVars, serverVars, resetVars
<1>13. ASSUME NEW t \in Tab, Logout(t) PROVE KeepsNewest'
  BY <1>13, SessionAssumption
     DEF TypeOK, Bounded, Unseen, KeepsNewest, Logout, storageVars, callVars, grantVars, serverVars, resetVars
<1>14. ASSUME NEW t \in Tab, Reloads(t) PROVE KeepsNewest'
  BY <1>14, SessionAssumption
     DEF TypeOK, Bounded, Unseen, KeepsNewest, Reloads, storageVars, callVars, grantVars, serverVars, resetVars
<1>15. ASSUME NEW k \in Pair, Expires(k) PROVE KeepsNewest'
  BY <1>15, SessionAssumption
     DEF TypeOK, Bounded, Unseen, KeepsNewest, Expires, storageVars, callVars, grantVars, serverVars, resetVars
<1>16. ASSUME ChangesPassword PROVE KeepsNewest'
  BY <1>16, SessionAssumption
     DEF TypeOK, Bounded, Unseen, KeepsNewest, ChangesPassword, storageVars, callVars, grantVars, serverVars, resetVars
<1>17. ASSUME Revokes PROVE KeepsNewest'
  BY <1>17, SessionAssumption
     DEF TypeOK, Bounded, Unseen, KeepsNewest, Revokes, HalfDone, storageVars, callVars, grantVars, serverVars, resetVars
<1>18. ASSUME AdminResets PROVE KeepsNewest'
  BY <1>18, SessionAssumption
     DEF TypeOK, Bounded, Unseen, KeepsNewest, AdminResets, HalfDone, storageVars, callVars, grantVars, serverVars, resetVars
<1>19. CASE UNCHANGED vars
  BY <1>19 DEF TypeOK, Bounded, Unseen, KeepsNewest, vars, storageVars, callVars, grantVars, serverVars, resetVars
<1>. QED
  BY <1>1, <1>2, <1>3, <1>4, <1>5, <1>6, <1>7, <1>8, <1>9, <1>10, <1>11, <1>12, <1>13, <1>14, <1>15, <1>16, <1>17, <1>18, <1>19
     DEF Next, Serves, Arrives, Replies

\* No tab ever presents a token whose successor has reached the browser.
THEOREM KeepsNewestAlways == Spec => []KeepsNewest
<1>1. Init => Bounded /\ Unseen /\ Placed /\ KeepsNewest
  BY BoundedInit, UnseenInit, PlacedInit
<1>2. TypeOK /\ Bounded /\ Unseen /\ Placed /\ KeepsNewest /\ [Next]_vars
        => (Bounded /\ Unseen /\ Placed /\ KeepsNewest)'
  BY BoundedStep, UnseenStep, PlacedStep, KeepsStep
<1>. QED BY <1>1, <1>2, TypeCorrect, PTL DEF Spec
-----------------------------------------------------------------------------
\* The promise of a tab and the refresh that will settle it.
Owned ==
  /\ \A t \in Tab : promise[t] # NoRequest =>
       /\ promise[t] \in listening /\ tabOf[promise[t]] = t
       /\ phase[promise[t]] \notin Final /\ old[promise[t]] # 0
  /\ \A c \in listening : phase[c] \notin Final /\ old[c] # 0 => promise[tabOf[c]] = c
  /\ \A c \in Request : call[c] \in {"idle", "sent"} => phase[c] = "none"
  /\ \A c \in Request : call[c] = "waiting" => promise[tabOf[c]] # NoRequest

LEMMA OwnedInit == Init => Owned
  BY DEF Init, Owned, Final

LEMMA OwnedStep == ASSUME TypeOK, Owned, [Next]_vars PROVE Owned'
<1>1. ASSUME NEW c \in Request, NEW t \in Tab, Sends(c, t) PROVE Owned'
  BY <1>1, SessionAssumption
     DEF TypeOK, Owned, Final, Sends, storageVars, callVars, grantVars, serverVars, resetVars
<1>2. ASSUME NEW c \in Request, NEW t \in Tab, NEW where \in Place, LogsIn(c, t, where) PROVE Owned'
  BY <1>2, SessionAssumption
     DEF TypeOK, Owned, Final, LogsIn, Asks, storageVars, callVars, grantVars, serverVars, resetVars
<1>3. ASSUME NEW c \in Request, Checks(c) PROVE Owned'
  BY <1>3, SessionAssumption
     DEF TypeOK, Owned, Final, Checks, BasisOf, storageVars, callVars, grantVars, serverVars, resetVars
<1>4. ASSUME NEW c \in Request, Issues(c) PROVE Owned'
  BY <1>4, SessionAssumption
     DEF TypeOK, Owned, Final, Issues, storageVars, callVars, grantVars, serverVars, resetVars
<1>5. ASSUME NEW c \in Request, Refuses(c) PROVE Owned'
  BY <1>5, SessionAssumption
     DEF TypeOK, Owned, Final, Refuses, storageVars, callVars, grantVars, serverVars, resetVars
<1>6. ASSUME NEW c \in Request, Stores(c) PROVE Owned'
  BY <1>6, SessionAssumption
     DEF TypeOK, Owned, Final, Stores, Puts, Settles, storageVars, callVars, grantVars, serverVars, resetVars
<1>7. ASSUME NEW c \in Request, Clears(c) PROVE Owned'
  <2>1. /\ phase[c] = "refused" /\ c \in listening /\ Settles(c, "settled")
        /\ phase' = [phase EXCEPT ![c] = "over"] /\ UNCHANGED <<old, listening>>
    BY <1>7 DEF Clears
  <2>2. CASE old[c] = 0
    BY <2>1, <2>2 DEF TypeOK, Owned, Final, Settles
  <2>3. CASE old[c] # 0
    BY <2>1, <2>3, SessionAssumption DEF TypeOK, Owned, Final, Settles
  <2>. QED BY <2>2, <2>3
<1>8. ASSUME NEW c \in Request, Breaks(c) PROVE Owned'
  BY <1>8, SessionAssumption
     DEF TypeOK, Owned, Final, Breaks, Settles, storageVars, callVars, grantVars, serverVars, resetVars
<1>9. ASSUME NEW c \in Request, Answered(c) PROVE Owned'
  BY <1>9, SessionAssumption
     DEF TypeOK, Owned, Final, Answered, storageVars, callVars, grantVars, serverVars, resetVars
<1>10. ASSUME NEW c \in Request, Joins(c) PROVE Owned'
  BY <1>10, SessionAssumption
     DEF TypeOK, Owned, Final, Joins, storageVars, callVars, grantVars, serverVars, resetVars
<1>11. ASSUME NEW c \in Request, Refreshes(c) PROVE Owned'
  BY <1>11, SessionAssumption
     DEF TypeOK, Owned, Final, Refreshes, Asks, Held, HeldAt, storageVars, callVars, grantVars, serverVars, resetVars
<1>12. ASSUME NEW c \in Request, IsSignedOut(c) PROVE Owned'
  BY <1>12, SessionAssumption
     DEF TypeOK, Owned, Final, IsSignedOut, storageVars, callVars, grantVars, serverVars, resetVars
<1>13. ASSUME NEW t \in Tab, Logout(t) PROVE Owned'
  BY <1>13, SessionAssumption
     DEF TypeOK, Owned, Final, Logout, storageVars, callVars, grantVars, serverVars, resetVars
<1>14. ASSUME NEW t \in Tab, Reloads(t) PROVE Owned'
  BY <1>14, SessionAssumption
     DEF TypeOK, Owned, Final, Reloads, Open, storageVars, callVars, grantVars, serverVars, resetVars
<1>15. ASSUME NEW k \in Pair, Expires(k) PROVE Owned'
  BY <1>15, SessionAssumption
     DEF TypeOK, Owned, Final, Expires, storageVars, callVars, grantVars, serverVars, resetVars
<1>16. ASSUME ChangesPassword PROVE Owned'
  BY <1>16, SessionAssumption
     DEF TypeOK, Owned, Final, ChangesPassword, storageVars, callVars, grantVars, serverVars, resetVars
<1>17. ASSUME Revokes PROVE Owned'
  BY <1>17, SessionAssumption
     DEF TypeOK, Owned, Final, Revokes, HalfDone, storageVars, callVars, grantVars, serverVars, resetVars
<1>18. ASSUME AdminResets PROVE Owned'
  BY <1>18, SessionAssumption
     DEF TypeOK, Owned, Final, AdminResets, HalfDone, storageVars, callVars, grantVars, serverVars, resetVars
<1>19. CASE UNCHANGED vars
  BY <1>19 DEF TypeOK, Owned, Final, vars, storageVars, callVars, grantVars, serverVars, resetVars
<1>. QED
  BY <1>1, <1>2, <1>3, <1>4, <1>5, <1>6, <1>7, <1>8, <1>9, <1>10, <1>11, <1>12, <1>13, <1>14, <1>15, <1>16, <1>17, <1>18, <1>19
     DEF Next, Serves, Arrives, Replies

\* No call waits for a refresh that nobody will report to it.
THEOREM WaitersAreWokenAlways == Spec => []WaitersAreWoken
<1>1. Init => Owned
  BY OwnedInit
<1>2. TypeOK /\ Owned /\ [Next]_vars => Owned'
  BY OwnedStep
<1>3. TypeOK /\ Owned => WaitersAreWoken
  BY DEF TypeOK, Owned, WaitersAreWoken
<1>. QED BY <1>1, <1>2, <1>3, TypeCorrect, PTL DEF Spec
-----------------------------------------------------------------------------
\* What is valid, or half done, after a sealed reset knows the new password.
Sealed ==
  /\ sealedAt <= passwords
  /\ passwords # 0 /\ sealedAt = passwords =>
       /\ \A k \in live : basis[k] = passwords
       /\ \A c \in HalfDone : known[c] = passwords

LEMMA SealedInit == Init => Sealed
  BY DEF Init, Sealed

LEMMA SealedStep == ASSUME TypeOK, Sealed, [Next]_vars PROVE Sealed'
<1>1. ASSUME NEW c \in Request, NEW t \in Tab, Sends(c, t) PROVE Sealed'
  BY <1>1, SessionAssumption
     DEF TypeOK, Sealed, HalfDone, Sends, storageVars, callVars, grantVars, serverVars, resetVars
<1>2. ASSUME NEW c \in Request, NEW t \in Tab, NEW where \in Place, LogsIn(c, t, where) PROVE Sealed'
  BY <1>2, SessionAssumption
     DEF TypeOK, Sealed, HalfDone, LogsIn, Asks, storageVars, callVars, grantVars, serverVars, resetVars
<1>3. ASSUME NEW c \in Request, Checks(c) PROVE Sealed'
  BY <1>3, SessionAssumption
     DEF TypeOK, Sealed, HalfDone, Checks, BasisOf, Pair, storageVars, callVars, grantVars, serverVars, resetVars
<1>4. ASSUME NEW c \in Request, Issues(c) PROVE Sealed'
  BY <1>4, SessionAssumption
     DEF TypeOK, Sealed, HalfDone, Issues, Pair, storageVars, callVars, grantVars, serverVars, resetVars
<1>5. ASSUME NEW c \in Request, Refuses(c) PROVE Sealed'
  BY <1>5, SessionAssumption
     DEF TypeOK, Sealed, HalfDone, Refuses, storageVars, callVars, grantVars, serverVars, resetVars
<1>6. ASSUME NEW c \in Request, Stores(c) PROVE Sealed'
  BY <1>6, SessionAssumption
     DEF TypeOK, Sealed, HalfDone, Stores, Puts, Settles, storageVars, callVars, grantVars, serverVars, resetVars
<1>7. ASSUME NEW c \in Request, Clears(c) PROVE Sealed'
  BY <1>7, SessionAssumption
     DEF TypeOK, Sealed, HalfDone, Clears, Puts, Settles, storageVars, callVars, grantVars, serverVars, resetVars
<1>8. ASSUME NEW c \in Request, Breaks(c) PROVE Sealed'
  BY <1>8, SessionAssumption
     DEF TypeOK, Sealed, HalfDone, Breaks, Settles, storageVars, callVars, grantVars, serverVars, resetVars
<1>9. ASSUME NEW c \in Request, Answered(c) PROVE Sealed'
  BY <1>9, SessionAssumption
     DEF TypeOK, Sealed, HalfDone, Answered, storageVars, callVars, grantVars, serverVars, resetVars
<1>10. ASSUME NEW c \in Request, Joins(c) PROVE Sealed'
  BY <1>10, SessionAssumption
     DEF TypeOK, Sealed, HalfDone, Joins, storageVars, callVars, grantVars, serverVars, resetVars
<1>11. ASSUME NEW c \in Request, Refreshes(c) PROVE Sealed'
  BY <1>11, SessionAssumption
     DEF TypeOK, Sealed, HalfDone, Refreshes, Asks, Held, HeldAt, storageVars, callVars, grantVars, serverVars, resetVars
<1>12. ASSUME NEW c \in Request, IsSignedOut(c) PROVE Sealed'
  BY <1>12, SessionAssumption
     DEF TypeOK, Sealed, HalfDone, IsSignedOut, storageVars, callVars, grantVars, serverVars, resetVars
<1>13. ASSUME NEW t \in Tab, Logout(t) PROVE Sealed'
  BY <1>13, SessionAssumption
     DEF TypeOK, Sealed, HalfDone, Logout, storageVars, callVars, grantVars, serverVars, resetVars
<1>14. ASSUME NEW t \in Tab, Reloads(t) PROVE Sealed'
  BY <1>14, SessionAssumption
     DEF TypeOK, Sealed, HalfDone, Reloads, storageVars, callVars, grantVars, serverVars, resetVars
<1>15. ASSUME NEW k \in Pair, Expires(k) PROVE Sealed'
  BY <1>15, SessionAssumption
     DEF TypeOK, Sealed, HalfDone, Expires, storageVars, callVars, grantVars, serverVars, resetVars
<1>16. ASSUME ChangesPassword PROVE Sealed'
  BY <1>16, SessionAssumption
     DEF TypeOK, Sealed, HalfDone, ChangesPassword, storageVars, callVars, grantVars, serverVars, resetVars
<1>17. ASSUME Revokes PROVE Sealed'
  BY <1>17, SessionAssumption
     DEF TypeOK, Sealed, HalfDone, Revokes, HalfDone, storageVars, callVars, grantVars, serverVars, resetVars
<1>18. ASSUME AdminResets PROVE Sealed'
  BY <1>18, SessionAssumption
     DEF TypeOK, Sealed, HalfDone, AdminResets, HalfDone, storageVars, callVars, grantVars, serverVars, resetVars
<1>19. CASE UNCHANGED vars
  BY <1>19 DEF TypeOK, Sealed, HalfDone, vars, storageVars, callVars, grantVars, serverVars, resetVars
<1>. QED
  BY <1>1, <1>2, <1>3, <1>4, <1>5, <1>6, <1>7, <1>8, <1>9, <1>10, <1>11, <1>12, <1>13, <1>14, <1>15, <1>16, <1>17, <1>18, <1>19
     DEF Next, Serves, Arrives, Replies

\* A reset that meets nothing half done locks out every earlier login.
THEOREM ResetLocksOutAlways == Spec => []ResetLocksOut
<1>1. Init => Sealed
  BY SealedInit
<1>2. TypeOK /\ Sealed /\ [Next]_vars => Sealed'
  BY SealedStep
<1>3. Sealed => ResetLocksOut
  BY DEF Sealed, ResetLocksOut
<1>. QED BY <1>1, <1>2, <1>3, TypeCorrect, PTL DEF Spec
-----------------------------------------------------------------------------
(* The life of a login.                                                    *)

\* Every pair goes back to a login.
Rooted == \A k \in Pair : k <= issued => login[k] \in Pair

\* Only the issue of a pair says which login a pair goes back to.
LEMMA LoginKept ==
  ASSUME [Next]_vars PROVE (\E c \in Request : Issues(c)) \/ UNCHANGED <<login, issued>>
BY DEF Next, Serves, Arrives, Replies, Sends, LogsIn, Asks, Checks, Refuses, Stores, Clears,
   Breaks, Answered, Joins, Refreshes, IsSignedOut, Logout, Reloads, Expires, ChangesPassword,
   Revokes, AdminResets, vars, storageVars, callVars, grantVars, serverVars, resetVars

LEMMA RootedInit == Init => Rooted
  BY SessionAssumption DEF Init, Rooted, Pair

LEMMA RootedStep == ASSUME TypeOK, Bounded, Rooted, [Next]_vars PROVE Rooted'
<1>1. ASSUME NEW c \in Request, Issues(c) PROVE Rooted'
  <2>1. /\ issued \in Nat /\ issued' = issued + 1 /\ issued + 1 \in Pair
        /\ login' = [login EXCEPT ![issued + 1] = IF old[c] = 0 THEN issued + 1 ELSE login[old[c]]]
    BY <1>1, SessionAssumption DEF TypeOK, Issues, Pair
  <2>2. old[c] # 0 => login[old[c]] \in Pair
    BY SessionAssumption DEF TypeOK, Bounded, Rooted, Pair
  <2> QED BY <2>1, <2>2, SessionAssumption DEF TypeOK, Rooted, Pair
<1> QED BY <1>1, LoginKept DEF Rooted

\* A step that leaves the table of refresh tokens and the half done exchanges
\* alone is not seen.
LEMMA NotSeen ==
  ASSUME UNCHANGED <<live, login, issued>>, Exchanging' = Exchanging,
         \A c \in Exchanging : old'[c] = old[c]
  PROVE  UNCHANGED Logins!lvars
<1>1. \A l : {k \in live : login[k] = l}' = {k \in live : login[k] = l}
  OBVIOUS
<1>2. {login[old[c]] : c \in Exchanging}' = {login[old[c]] : c \in Exchanging}
  OBVIOUS
<1> QED BY <1>1, <1>2 DEF Logins!lvars

\* What is exchanged belongs to a login with no valid token and to one refresh.
LEMMA ExchangedLogin ==
  ASSUME TypeOK, Bounded, Rooted, OneSuccessor, NEW c \in Exchanging
  PROVE  /\ old[c] \in Pair /\ login[old[c]] \in Pair
         /\ {k \in live : login[k] = login[old[c]]} = {}
         /\ login[old[c]] \notin {login[old[d]] : d \in Exchanging \ {c}}
<1>1. old[c] \in Pair /\ login[old[c]] \in Pair
  BY SessionAssumption DEF TypeOK, Bounded, Rooted, Exchanging, HalfDone, Pair
<1> QED BY <1>1 DEF OneSuccessor

\* The row of a refresh token that is presented is deleted first.
LEMMA ChecksPresents ==
  ASSUME TypeOK, Bounded, Rooted, OneSuccessor, NEW c \in Request, Checks(c)
  PROVE  [Logins!LNext]_(Logins!lvars)
<1>1. UNCHANGED <<old, login, issued>> /\ live' = live \ {old[c]} /\ live \subseteq Pair
  BY DEF Checks, TypeOK
<1>2. CASE old[c] = 0
  <2>1. live' = live
    BY <1>1, <1>2, SessionAssumption DEF Pair
  <2>2. Exchanging' = Exchanging
    BY <1>2 DEF TypeOK, Exchanging, HalfDone, Checks
  <2> QED BY <1>1, <2>1, <2>2, NotSeen
<1>3. CASE old[c] # 0
  <2>0. old[c] \in live /\ login[old[c]] \in Pair
    BY <1>1, <1>3 DEF Checks, Bounded, Rooted
  <2>1. PICK l \in Pair : l = login[old[c]]
    BY <2>0
  <2>2. Exchanging' = Exchanging \cup {c}
    BY <1>3 DEF TypeOK, Exchanging, HalfDone, Checks
  <2>3. l \notin {login[old[d]] : d \in Exchanging}
    BY <2>0, <2>1 DEF OneSuccessor
  <2>4. {k \in live : login[k] = l} = {old[c]}
    BY <2>0, <2>1 DEF OneSuccessor
  <2>5. \A m \in Pair : {k \in live : login[k] = m}'
                          = IF m = l THEN {} ELSE {k \in live : login[k] = m}
    BY <1>1, <2>4
  <2>6. {login[old[d]] : d \in Exchanging}' = {login[old[d]] : d \in Exchanging} \cup {l}
    BY <1>1, <2>1, <2>2
  <2>7. Logins!Present(l)
    BY <1>1, <2>1, <2>3, <2>4, <2>5, <2>6 DEF Logins!Present
  <2> QED BY <2>7 DEF Logins!LNext
<1> QED BY <1>2, <1>3

\* A pair is fresh, and begins a login or renews the one it is issued for.
LEMMA IssuesGives ==
  ASSUME TypeOK, Bounded, Rooted, OneSuccessor, NEW c \in Request, Issues(c)
  PROVE  Logins!LNext
<1> DEFINE Mine == IF old[c] = 0 THEN issued + 1 ELSE login[old[c]]
<1>1. issued \in Nat /\ issued + 1 \in Pair /\ Mine \in Pair
  BY SessionAssumption DEF TypeOK, Bounded, Rooted, Issues, Pair
<1>2. PICK k \in Pair, l \in Pair : k = issued + 1 /\ l = Mine
  BY <1>1
<1>3. issued' = k /\ k \notin 1 .. issued /\ 1 .. k = (1 .. issued) \cup {k}
  BY <1>1, <1>2 DEF Issues
<1>4. old' = old /\ live' = live \cup {k} /\ login' = [login EXCEPT ![k] = l]
  BY <1>2 DEF Issues
<1>5. login \in [Pair -> 0 .. MaxPair] /\ live \subseteq Pair /\ k \notin live
  BY <1>1, <1>2, SessionAssumption DEF TypeOK, Bounded, Pair
<1>6. login[k] # k /\ \A n \in live : login[n] # k
  BY <1>1, <1>2, <1>5, SessionAssumption DEF Bounded
<1>7. Exchanging' = Exchanging \ {c} /\ (old[c] # 0 => c \in Exchanging)
  BY DEF TypeOK, Exchanging, HalfDone, Issues
<1>8. \A d \in Exchanging : old[d] \in Pair /\ old[d] # k /\ login[old[d]] # k
  <2> SUFFICES ASSUME NEW d \in Exchanging
               PROVE  old[d] \in Pair /\ old[d] # k /\ login[old[d]] # k
    OBVIOUS
  <2>1. old[d] \in Pair /\ old[d] <= issued /\ login[old[d]] <= issued
    BY ExchangedLogin DEF Bounded, Exchanging, HalfDone
  <2> QED BY <1>1, <1>2, <2>1
<1>9. {login[old[d]] : d \in Exchanging}' = {login[old[d]] : d \in Exchanging \ {c}}
  BY <1>4, <1>5, <1>7, <1>8
<1>10. {n \in live : login[n] = l} = {}
  BY <1>2, <1>6, <1>7, ExchangedLogin
<1>11. \A m \in Pair : {n \in live : login[n] = m}'
                         = IF m = l THEN {k} ELSE {n \in live : login[n] = m}
  BY <1>4, <1>5, <1>10
<1>12. Logins!Gives(l, k)
  BY <1>3, <1>11 DEF Logins!Gives
<1>13. CASE old[c] = 0
  <2>1. l = k
    BY <1>2, <1>13
  <2>2. {m \in Pair : login[m] = m}' = {m \in Pair : login[m] = m} \cup {k}
    BY <1>4, <1>5, <2>1
  <2>3. {login[old[d]] : d \in Exchanging}' = {login[old[d]] : d \in Exchanging}
    BY <1>9, <1>13 DEF Exchanging
  <2>4. Logins!Begin(k)
    BY <1>6, <1>12, <2>1, <2>2, <2>3 DEF Logins!Begin
  <2> QED BY <2>4 DEF Logins!LNext
<1>14. CASE old[c] # 0
  <2>1. c \in Exchanging /\ l = login[old[c]] /\ l # k
    BY <1>2, <1>7, <1>8, <1>14
  <2>2. {m \in Pair : login[m] = m}' = {m \in Pair : login[m] = m}
    BY <1>4, <1>5, <1>6, <2>1
  <2>3. {login[old[d]] : d \in Exchanging \ {c}} = {login[old[d]] : d \in Exchanging} \ {l}
    BY <2>1, ExchangedLogin
  <2>4. l \in {login[old[d]] : d \in Exchanging}
    BY <2>1
  <2>5. Logins!Renew(l)
    BY <1>9, <1>12, <2>2, <2>3, <2>4 DEF Logins!Renew
  <2> QED BY <2>5 DEF Logins!LNext
<1> QED BY <1>13, <1>14

\* A refresh that fails after its token is used up ends its login.
LEMMA RefusesEnds ==
  ASSUME TypeOK, Bounded, Rooted, OneSuccessor, NEW c \in Request, Refuses(c)
  PROVE  [Logins!LNext]_(Logins!lvars)
<1>1. UNCHANGED <<old, live, login, issued>>
  BY DEF Refuses, serverVars
<1>2. Exchanging' = Exchanging \ {c}
  BY DEF TypeOK, Exchanging, HalfDone, Refuses
<1>3. CASE c \notin Exchanging
  BY <1>1, <1>2, <1>3, NotSeen
<1>4. CASE c \in Exchanging
  <2>0. PICK l \in Pair : l = login[old[c]]
    BY <1>4, ExchangedLogin
  <2>1. /\ {k \in live : login[k] = l} = {}
        /\ l \notin {login[old[d]] : d \in Exchanging \ {c}}
    BY <1>4, <2>0, ExchangedLogin
  <2>2. {login[old[d]] : d \in Exchanging}' = {login[old[d]] : d \in Exchanging} \ {l}
    BY <1>1, <1>2, <1>4, <2>0, <2>1
  <2>3. \A m \in Pair : {k \in live : login[k] = m}'
                          = IF m = l THEN {} ELSE {k \in live : login[k] = m}
    BY <1>1, <2>1
  <2>4. l \in {login[old[d]] : d \in Exchanging}
    BY <1>4, <2>0
  <2>5. Logins!End(l)
    BY <1>1, <2>1, <2>2, <2>3, <2>4 DEF Logins!End
  <2> QED BY <2>5 DEF Logins!LNext
<1> QED BY <1>3, <1>4

LEMMA ExpiresEnds ==
  ASSUME TypeOK, Bounded, Rooted, OneSuccessor, NEW k \in Pair, Expires(k)
  PROVE  Logins!LNext
<1>1. k \in live /\ live' = live \ {k} /\ UNCHANGED <<old, login, issued, phase>>
  BY DEF Expires, grantVars
<1>2. PICK l \in Pair : l = login[k] /\ {n \in live : login[n] = l} = {k}
  BY <1>1 DEF Bounded, Rooted, OneSuccessor
<1>3. \A m \in Pair : {n \in live : login[n] = m}'
                        = IF m = l THEN {} ELSE {n \in live : login[n] = m}
  BY <1>1, <1>2
<1>4. l \notin {login[old[d]] : d \in Exchanging}
  BY <1>1, <1>2 DEF OneSuccessor
<1>5. {login[old[d]] : d \in Exchanging}' = {login[old[d]] : d \in Exchanging}
  BY <1>1 DEF Exchanging, HalfDone
<1>6. Logins!End(l)
  BY <1>1, <1>2, <1>3, <1>4, <1>5 DEF Logins!End
<1> QED BY <1>6 DEF Logins!LNext

LEMMA EmptiesRevokes ==
  ASSUME live' = {}, UNCHANGED <<old, login, issued, phase>>
  PROVE  Logins!LNext
<1>1. \A m \in Pair : {n \in live : login[n] = m}' = {}
  OBVIOUS
<1>2. {login[old[d]] : d \in Exchanging}' = {login[old[d]] : d \in Exchanging}
  BY DEF Exchanging, HalfDone
<1>3. Logins!Revoke
  BY <1>1, <1>2 DEF Logins!Revoke
<1> QED BY <1>3 DEF Logins!LNext

\* Whatever happens in the browser is not seen.
LEMMA BrowserNotSeen ==
  ASSUME TypeOK, Owned, NEW c \in Request,
         \/ \E t \in Tab : Sends(c, t)
         \/ \E t \in Tab, where \in Place : LogsIn(c, t, where)
         \/ Arrives(c) \/ Replies(c)
  PROVE  UNCHANGED Logins!lvars
<1>1. UNCHANGED <<live, login, issued>>
  BY DEF Sends, LogsIn, Arrives, Stores, Clears, Breaks, Replies, Answered, Joins, Refreshes,
     IsSignedOut, serverVars
<1>2. CASE \/ \E t \in Tab, where \in Place : LogsIn(c, t, where)
           \/ Refreshes(c)
  <2>1. /\ phase[c] = "none" /\ phase' = [phase EXCEPT ![c] = "sent"]
        /\ \A d \in Request \ {c} : old'[d] = old[d]
    BY <1>2 DEF TypeOK, Owned, LogsIn, Refreshes, Asks
  <2>2. Exchanging' = Exchanging /\ \A d \in Exchanging : old'[d] = old[d]
    BY <2>1 DEF TypeOK, Exchanging, HalfDone
  <2> QED BY <1>1, <2>2, NotSeen
<1>3. CASE ~\/ \E t \in Tab, where \in Place : LogsIn(c, t, where)
            \/ Refreshes(c)
  <2>1. old' = old /\ HalfDone' = HalfDone
    BY <1>3 DEF TypeOK, HalfDone, Sends, Arrives, Stores, Clears, Breaks, Replies, Answered,
       Joins, IsSignedOut, grantVars
  <2>2. Exchanging' = Exchanging
    BY <2>1 DEF Exchanging
  <2> QED BY <1>1, <2>1, <2>2, NotSeen
<1> QED BY <1>2, <1>3

LEMMA LoginStep ==
  ASSUME TypeOK, Bounded, Owned, Rooted, OneSuccessor, [Next]_vars
  PROVE  [Logins!LNext]_(Logins!lvars)
<1>1. ASSUME NEW c \in Request, Serves(c) PROVE [Logins!LNext]_(Logins!lvars)
  BY <1>1, ChecksPresents, IssuesGives, RefusesEnds DEF Serves
<1>2. ASSUME NEW k \in Pair, Expires(k) PROVE Logins!LNext
  BY <1>2, ExpiresEnds
<1>3. ASSUME UNCHANGED <<grantVars, serverVars>> PROVE UNCHANGED Logins!lvars
  BY <1>3, NotSeen DEF grantVars, serverVars, Exchanging, HalfDone
<1>4. CASE Revokes \/ AdminResets
  <2>1. UNCHANGED <<old, login, issued, phase>>
    BY <1>4 DEF Revokes, AdminResets, grantVars
  <2>2. CASE live' = {}
    BY <2>1, <2>2, EmptiesRevokes
  <2>3. CASE UNCHANGED <<live, sealedAt>>
    BY <2>1, <2>3, NotSeen DEF Exchanging, HalfDone
  <2> QED BY <1>4, <2>2, <2>3 DEF Revokes, AdminResets
<1>5. CASE ChangesPassword \/ UNCHANGED vars
  BY <1>3, <1>5 DEF ChangesPassword, vars
<1>6. ASSUME NEW t \in Tab, Logout(t) \/ Reloads(t) PROVE UNCHANGED Logins!lvars
  BY <1>6, NotSeen DEF Logout, Reloads, grantVars, serverVars, Exchanging, HalfDone
<1> QED BY <1>1, <1>2, <1>4, <1>5, <1>6, BrowserNotSeen DEF Next

LEMMA LoginInit == Init => Logins!LInit
<1> SUFFICES ASSUME Init PROVE Logins!LInit
  OBVIOUS
<1>1. PICK first \in {0, 1} :
        /\ issued = first /\ live = {first} \ {0}
        /\ login = [k \in Pair |-> IF k = first THEN first ELSE 0]
  BY DEF Init
<1>2. Exchanging = {}
  BY DEF Init, Exchanging, HalfDone
<1>3. {m \in Pair : login[m] = m} = live /\ live = 1 .. issued /\ live \subseteq Pair
  BY <1>1, SessionAssumption DEF Pair
<1>4. \A m \in Pair : {n \in live : login[n] = m} = IF m \in live THEN {m} ELSE {}
  BY <1>1, <1>3 DEF Pair
<1> QED BY <1>2, <1>3, <1>4 DEF Logins!LInit

\* The refresh tokens of a login are used one after the other, each once, and
\* none is valid again after the login has ended.
THEOREM LoginsLiveOnceAlways == Spec => LoginsLiveOnce
<1>1. Init => Bounded /\ OneSuccessor /\ Owned /\ Rooted
  BY BoundedInit, SuccessorInit, OwnedInit, RootedInit
<1>2. TypeOK /\ Bounded /\ OneSuccessor /\ Owned /\ Rooted /\ [Next]_vars
        => (Bounded /\ OneSuccessor /\ Owned /\ Rooted)'
  BY BoundedStep, SuccessorStep, OwnedStep, RootedStep
<1>3. TypeOK /\ Bounded /\ OneSuccessor /\ Owned /\ Rooted /\ [Next]_vars
        => [Logins!LNext]_(Logins!lvars)
  BY LoginStep
<1> QED
  BY <1>1, <1>2, <1>3, LoginInit, TypeCorrect, PTL DEF Spec, LoginsLiveOnce, Logins!LSpec
=============================================================================
