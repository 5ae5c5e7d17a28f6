-------------------------- MODULE Sessions_proofs --------------------------
(***************************************************************************)
(* Proofs about Sessions, for any number of requests, families, addresses  *)
(* and tokens, with and without Web Locks, whatever fails.                 *)
(***************************************************************************)
EXTENDS Sessions, TLAPS

USE SessionsAssumption

-----------------------------------------------------------------------------
(* The inductive invariants. *)

Refreshing == {"load", "compromise", "user", "revoke", "rotate"}

\* Tokens are known only after they were issued, and who refreshes or was
\* answered has one.
TokensIssued ==
  /\ jar.tok <= issued
  /\ \A f \in Families : fams[f].cur <= issued
  /\ \A r \in Requests :
       /\ req[r].tok <= issued
       /\ req[r].at \in Refreshing \cup {"granted"} => req[r].tok # NoCookie

\* A session that had ended when the refresh was sent: the user stays
\* deactivated, the family is not loaded as active.
EndIsKnown ==
  \A r \in Requests :
    /\ req[r].over = "user" => ~user.active
    /\ req[r].over = "family" => req[r].at = "load" /\ fams[req[r].fam].status # "active"
    /\ req[r].at \in {"idle", "create", "rotate", "granted"} => req[r].over = "no"

\* A token with its family's latest number; of a family whose row was never
\* written every token is as good as another.
Current(f, tok) == tok = fams[f].cur \/ fams[f].status = "none"

\* Nobody but r, neither the jar nor a request, has a token of r's family.
OnlyCarrier(r) ==
  /\ \A q \in Requests \ {r} : req[q].fam = req[r].fam => req[q].tok = NoCookie
  /\ jar.fam = req[r].fam => jar.tok = NoCookie

\* One refresh at a time, from its first step to the delivery of its answer.
OneRefresh ==
  \A r \in Requests :
    /\ req[r].at \in Refreshing => holder = r
    /\ holder = r => req[r].at \in Refreshing \cup {"granted"}
    /\ ~req[r].gone

\* What is presented or delivered is current; what the jar holds is, or will
\* be replaced by the answer of the refresh that made it old.
CookieIsCurrent ==
  /\ \A r \in Requests :
       /\ req[r].at \in {"load", "granted"} => Current(req[r].fam, req[r].tok)
       /\ req[r].at = "granted" /\ holder # r => OnlyCarrier(r)
  /\ jar.tok # NoCookie =>
       \/ Current(jar.fam, jar.tok)
       \/ \E r \in Requests : req[r].at = "granted" /\ holder = r /\ req[r].fam = jar.fam

NothingCompromised ==
  /\ \A r \in Requests : req[r].at # "compromise"
  /\ \A f \in Families : fams[f].status # "compromised"

TabsInv == Locks /\ ~lost => OneRefresh /\ CookieIsCurrent /\ NothingCompromised

Inv == TypeOK /\ TokensIssued /\ CompromiseIsStable /\ EndIsKnown /\ TabsInv

-----------------------------------------------------------------------------
(* Types, one variable at a time. *)

Family == [status : Status, sub : Sub, cur : Token, prev : Token, grace : BOOLEAN, secret : Secret]
User   == [active : BOOLEAN, provider : Providers, mail : Mails, secret : Secret]
Admins == [at : {"idle", "write", "byid", "bymail"}, kind : {"deactivate", "reset"},
           mail : Mails, provider : Providers]
Jar    == [tok : Token, fam : Families]

UserOK   == user \in User
FamsOK   == fams \in [Families -> Family]
TokensOK == black \subseteq Token /\ issued \in Token
JarOK    == jar \in Jar
ReqOK    == req \in [Requests -> Request]
AdmOK    == adm \in Admins
LockOK   == holder \in Requests \cup {NoRequest} /\ lost \in BOOLEAN

\* TypeOK variable by variable.
LEMMA TypeParts ==
  /\ TypeOK <=> UserOK /\ FamsOK /\ TokensOK /\ JarOK /\ ReqOK /\ AdmOK /\ LockOK
  /\ TypeOK' <=> UserOK' /\ FamsOK' /\ TokensOK' /\ JarOK' /\ ReqOK' /\ AdmOK' /\ LockOK'
  BY DEF TypeOK, UserOK, FamsOK, TokensOK, JarOK, ReqOK, AdmOK, LockOK, User, Family, Jar,
     Admins

\* The values everything starts with.
LEMMA Members ==
  /\ AnyFamily \in Families /\ AnyMail \in Mails
  /\ NoCookie \in Token /\ 1 \in Secret
  /\ ById \in Sub /\ Mails \subseteq Sub
  /\ Labels = {"idle", "create", "granted", "cleared", "endall"} \cup Refreshing
  BY DEF AnyFamily, AnyMail, NoCookie, Token, Secret, Sub, Labels, Refreshing

\* The requests the browser and the server make of an idle one.
LEMMA FreshRequest ==
  ASSUME NEW l \in Labels, NEW f \in Families, NEW t \in Token, NEW s \in Sub,
         NEW k \in Secret, NEW o \in {"no", "user", "family"}
  PROVE  /\ Idle \in Request
         /\ [Idle EXCEPT !.at = l] \in Request
         /\ [Idle EXCEPT !.at = l, !.sub = s, !.secret = k] \in Request
         /\ [Idle EXCEPT !.at = l, !.fam = f, !.tok = t, !.over = o] \in Request
  BY Members DEF Idle, Request

\* A request that moves on, is given up, or forgets why its session ended.
LEMMA LaterRequest ==
  ASSUME NEW q \in Request, NEW l \in Labels
  PROVE  /\ [q EXCEPT !.at = l] \in Request
         /\ [q EXCEPT !.gone = TRUE] \in Request
         /\ [q EXCEPT !.over = IF @ = "user" THEN "no" ELSE @] \in Request
  BY DEF Request

LEMMA FieldsOfRequest ==
  ASSUME NEW q \in Request
  PROVE  /\ q.at \in Labels /\ q.fam \in Families /\ q.tok \in Token /\ q.sub \in Sub
         /\ q.secret \in Secret /\ q.over \in {"no", "user", "family"} /\ q.gone \in BOOLEAN
  BY DEF Request

\* The steps that several actions share leave requests requests.
LEMMA SentLoginOK ==
  ASSUME ReqOK, UserOK, NEW r \in Requests, NEW sub \in Sub, SentLogin(r, sub)
  PROVE  ReqOK'
<1>1. user.secret \in Secret /\ "create" \in Labels
  BY DEF UserOK, User, Labels
<1>2. [Idle EXCEPT !.at = "create", !.sub = sub, !.secret = user.secret] \in Request
  BY <1>1, Members, FreshRequest
<1>3. QED
  BY <1>2 DEF SentLogin, ReqOK

LEMMA GrantOK ==
  ASSUME ReqOK, NEW r \in Requests, NEW f \in Families, NEW tok \in Token, Grant(r, f, tok)
  PROVE  ReqOK'
<1>1. "granted" \in Labels /\ req[r].over \in {"no", "user", "family"}
  BY FieldsOfRequest DEF ReqOK, Labels
<1>2. [Idle EXCEPT !.at = "granted", !.fam = f, !.tok = tok, !.over = req[r].over] \in Request
  BY <1>1, FreshRequest, Members
<1>3. Idle \in Request
  BY FreshRequest, Members
<1>4. QED
  BY <1>2, <1>3 DEF Grant, ReqOK

LEMMA RefuseOK ==
  ASSUME ReqOK, NEW r \in Requests, Refuse(r), holder \in Requests \cup {NoRequest}
  PROVE  ReqOK' /\ holder' \in Requests \cup {NoRequest}
<1>1. Idle \in Request
  BY FreshRequest, Members
<1>2. QED
  BY <1>1 DEF Refuse, Release, ReqOK

LEMMA GotoOK ==
  ASSUME ReqOK, NEW r \in Requests, NEW l \in Labels, Goto(r, l)
  PROVE  ReqOK'
<1>1. [req[r] EXCEPT !.at = l] \in Request
  BY LaterRequest DEF ReqOK
<1>2. QED
  BY <1>1 DEF Goto, ReqOK

\* The writes of rows leave rows rows.
LEMMA NextToken ==
  ASSUME issued \in Token, issued < MaxToken
  PROVE  issued + 1 \in Token /\ issued + 1 # NoCookie
  BY DEF Token, NoCookie

LEMMA SetStatusOK ==
  ASSUME FamsOK, NEW f \in Families, NEW st \in Status
  PROVE  SetStatus(f, st) \in [Families -> Family]
<1>1. [fams[f] EXCEPT !.status = IF @ = "none" THEN @ ELSE st] \in Family
  BY DEF FamsOK, Family
<1>2. QED
  BY <1>1 DEF SetStatus, FamsOK

LEMMA RevokeAllOK ==
  ASSUME FamsOK, NEW sub
  PROVE  RevokeAll(sub) \in [Families -> Family]
<1>1. \A g \in Families : [fams[g] EXCEPT !.status = "revoked"] \in Family
  BY DEF FamsOK, Family, Status
<1>2. QED
  BY <1>1 DEF RevokeAll, FamsOK

LEMMA GraceOK ==
  ASSUME FamsOK, NEW f \in Families
  PROVE  [fams EXCEPT ![f].grace = FALSE] \in [Families -> Family]
<1>1. [fams[f] EXCEPT !.grace = FALSE] \in Family
  BY DEF FamsOK, Family
<1>2. QED
  BY <1>1 DEF FamsOK

LEMMA RotatedOK ==
  ASSUME FamsOK, NEW f \in Families, issued \in Token, issued < MaxToken
  PROVE  Rotated(f) \in [Families -> Family]
<1>1. fams[f].cur \in Token /\ issued + 1 \in Token
  BY NextToken DEF FamsOK, Family
<1>2. [fams[f] EXCEPT !.prev = fams[f].cur, !.cur = issued + 1, !.grace = TRUE] \in Family
  BY <1>1 DEF FamsOK, Family
<1>3. QED
  BY <1>2 DEF Rotated, FamsOK

\* Type correctness of the first state and of every step.
LEMMA TypeInit == Init => TypeOK
<1> SUFFICES ASSUME Init PROVE TypeOK
  OBVIOUS
<1>1. UserOK /\ AdmOK
  BY Members DEF Init, UserOK, User, AdmOK, Admins, AdminIdle, Providers
<1>2. FamsOK
  <2>1. NoFamily \in Family
    BY Members DEF NoFamily, Family, Status
  <2>2. QED
    BY <2>1 DEF Init, FamsOK
<1>3. TokensOK /\ JarOK /\ LockOK
  BY Members DEF Init, TokensOK, JarOK, Jar, LockOK, Token, NoCookie
<1>4. ReqOK
  <2>1. Idle \in Request
    BY Members, FreshRequest
  <2>2. QED
    BY <2>1 DEF Init, ReqOK
<1>5. QED
  BY <1>1, <1>2, <1>3, <1>4, TypeParts

LEMMA TypeStep ==
  ASSUME TypeOK, [Next]_vars
  PROVE  TypeOK'
<1> SUFFICES UserOK' /\ FamsOK' /\ TokensOK' /\ JarOK' /\ ReqOK' /\ AdmOK' /\ LockOK'
  BY TypeParts
<1> USE TypeParts
<1>a. /\ user.mail \in Mails /\ user.secret \in Secret /\ user.provider \in Providers
      /\ jar.fam \in Families /\ jar.tok \in Token
      /\ holder \in Requests \cup {NoRequest}
  BY DEF UserOK, User, JarOK, Jar, LockOK
<1>b. \A r \in Requests : /\ req[r].at \in Labels /\ req[r].fam \in Families
                          /\ req[r].tok \in Token /\ req[r].sub \in Sub
  BY FieldsOfRequest DEF ReqOK
<1>c. Refreshing \cup {"idle", "create", "granted", "cleared", "endall"} \subseteq Labels
  BY Members
<1>d. Refreshing = {"load", "compromise", "user", "revoke", "rotate"}
  BY DEF Refreshing
<1>e. {"none", "active", "revoked", "compromised"} \subseteq Status
  BY DEF Status
<1>1. ASSUME NEW r \in Requests, LoginCheck(r)
      PROVE  UserOK' /\ FamsOK' /\ TokensOK' /\ JarOK' /\ ReqOK' /\ AdmOK' /\ LockOK'
  <2>1. ReqOK'
    BY <1>1, SentLoginOK, Members DEF LoginCheck
  <2>2. QED
    BY <1>1, <2>1 DEF LoginCheck, UserOK, FamsOK, TokensOK, JarOK, AdmOK, LockOK
<1>2. ASSUME NEW r \in Requests, UpsertByOIDC(r)
      PROVE  UserOK' /\ FamsOK' /\ TokensOK' /\ JarOK' /\ ReqOK' /\ AdmOK' /\ LockOK'
  <2>1. UserOK'
    BY <1>2 DEF UpsertByOIDC, UserOK, User
  <2>2. ReqOK'
    BY <1>2, SentLoginOK, Members DEF UpsertByOIDC, ReqOK
  <2>3. QED
    BY <1>2, <2>1, <2>2 DEF UpsertByOIDC, FamsOK, TokensOK, JarOK, AdmOK, LockOK
<1>3. ASSUME NEW r \in Requests, HandleEmailCollision(r)
      PROVE  UserOK' /\ FamsOK' /\ TokensOK' /\ JarOK' /\ ReqOK' /\ AdmOK' /\ LockOK'
  <2>1. UserOK'
    BY <1>3 DEF HandleEmailCollision, UserOK, User, Providers
  <2>2. ReqOK'
    BY <1>3, <1>a, SentLoginOK, Members DEF HandleEmailCollision, ReqOK
  <2>3. QED
    BY <1>3, <2>1, <2>2 DEF HandleEmailCollision, FamsOK, TokensOK, JarOK, AdmOK, LockOK
<1>4. ASSUME NEW r \in Requests, CreateFamily(r)
      PROVE  UserOK' /\ FamsOK' /\ TokensOK' /\ JarOK' /\ ReqOK' /\ AdmOK' /\ LockOK'
  <2>1. issued + 1 \in Token /\ req[r].secret \in Secret
    BY <1>4, NextToken, FieldsOfRequest DEF CreateFamily, TokensOK, ReqOK
  <2>2. [status |-> "active", sub |-> req[r].sub, cur |-> issued + 1, prev |-> NoCookie,
         grace |-> FALSE, secret |-> req[r].secret] \in Family
    BY <1>b, <1>e, <2>1, Members DEF Family
  <2>3. FamsOK'
    BY <1>4, <2>2 DEF CreateFamily, Logged, FamsOK
  <2>4. ReqOK'
    BY <1>4, <2>1, GrantOK DEF CreateFamily
  <2>5. QED
    BY <1>4, <2>1, <2>3, <2>4 DEF CreateFamily, UserOK, TokensOK, JarOK, AdmOK, LockOK
<1>5. ASSUME NEW r \in Requests, StartRefresh(r)
      PROVE  UserOK' /\ FamsOK' /\ TokensOK' /\ JarOK' /\ ReqOK' /\ AdmOK' /\ LockOK'
  <2>1. WhyOver(jar.fam) \in {"no", "user", "family"}
    BY DEF WhyOver
  <2>2. [Idle EXCEPT !.at = "load", !.fam = jar.fam, !.tok = jar.tok,
                     !.over = WhyOver(jar.fam)] \in Request
    BY <1>a, <1>c, <1>d, <2>1, Members, FreshRequest
  <2>3. QED
    BY <1>5, <2>2 DEF StartRefresh, UserOK, FamsOK, TokensOK, JarOK, ReqOK, AdmOK, LockOK
<1>6. ASSUME NEW r \in Requests, LoadFamily(r)
      PROVE  UserOK' /\ FamsOK' /\ TokensOK' /\ JarOK' /\ ReqOK' /\ AdmOK' /\ LockOK'
  <2>1. ReqOK' /\ holder' \in Requests \cup {NoRequest}
    BY <1>6, <1>a, <1>c, <1>d, RefuseOK, GotoOK DEF LoadFamily
  <2>2. QED
    BY <1>6, <2>1 DEF LoadFamily, UserOK, FamsOK, TokensOK, JarOK, AdmOK, LockOK
<1>7. ASSUME NEW r \in Requests, MarkCompromised(r)
      PROVE  UserOK' /\ FamsOK' /\ TokensOK' /\ JarOK' /\ ReqOK' /\ AdmOK' /\ LockOK'
  <2>1. ReqOK' /\ holder' \in Requests \cup {NoRequest}
    BY <1>7, <1>a, RefuseOK DEF MarkCompromised
  <2>2. FamsOK'
    BY <1>7, <1>b, <1>e, SetStatusOK DEF MarkCompromised, Logged, FamsOK
  <2>3. QED
    BY <1>7, <2>1, <2>2 DEF MarkCompromised, UserOK, TokensOK, JarOK, AdmOK, LockOK
<1>8. ASSUME NEW r \in Requests, RevokeInactive(r)
      PROVE  UserOK' /\ FamsOK' /\ TokensOK' /\ JarOK' /\ ReqOK' /\ AdmOK' /\ LockOK'
  <2>1. ReqOK' /\ holder' \in Requests \cup {NoRequest}
    BY <1>8, <1>a, RefuseOK DEF RevokeInactive
  <2>2. FamsOK'
    BY <1>8, <1>b, <1>e, SetStatusOK DEF RevokeInactive, Logged, FamsOK
  <2>3. QED
    BY <1>8, <2>1, <2>2 DEF RevokeInactive, UserOK, TokensOK, JarOK, AdmOK, LockOK
<1>9. ASSUME NEW r \in Requests, CheckUser(r)
      PROVE  UserOK' /\ FamsOK' /\ TokensOK' /\ JarOK' /\ ReqOK' /\ AdmOK' /\ LockOK'
  <2>1. ReqOK'
    BY <1>9, <1>c, <1>d, GotoOK DEF CheckUser
  <2>2. QED
    BY <1>9, <2>1 DEF CheckUser, UserOK, FamsOK, TokensOK, JarOK, AdmOK, LockOK
<1>10. ASSUME NEW r \in Requests, Rotate(r)
      PROVE  UserOK' /\ FamsOK' /\ TokensOK' /\ JarOK' /\ ReqOK' /\ AdmOK' /\ LockOK'
  <2>1. issued + 1 \in Token
    BY <1>10, NextToken DEF Rotate, TokensOK
  <2>2. FamsOK'
    BY <1>10, <1>b, <1>e, RotatedOK DEF Rotate, FamsOK, TokensOK
  <2>3. ReqOK'
    BY <1>10, <1>b, <2>1, GrantOK DEF Rotate
  <2>4. QED
    BY <1>10, <2>1, <2>2, <2>3 DEF Rotate, UserOK, TokensOK, JarOK, AdmOK, LockOK
<1>11. ASSUME NEW r \in Requests, RotateFails(r)
      PROVE  UserOK' /\ FamsOK' /\ TokensOK' /\ JarOK' /\ ReqOK' /\ AdmOK' /\ LockOK'
  <2>1. issued + 1 \in Token
    BY <1>11, NextToken DEF RotateFails, TokensOK
  <2>2. FamsOK'
    BY <1>11, <1>b, <1>e, RotatedOK DEF RotateFails, FamsOK, TokensOK
  <2>3. ReqOK' /\ holder' \in Requests \cup {NoRequest}
    BY <1>11, <1>a, RefuseOK DEF RotateFails
  <2>4. QED
    BY <1>11, <2>1, <2>2, <2>3 DEF RotateFails, UserOK, TokensOK, JarOK, AdmOK, LockOK
<1>12. ASSUME NEW r \in Requests, Logout(r)
      PROVE  UserOK' /\ FamsOK' /\ TokensOK' /\ JarOK' /\ ReqOK' /\ AdmOK' /\ LockOK'
  <2>1. FamsOK'
    BY <1>12, <1>a, <1>e, SetStatusOK DEF Logout, Logged, FamsOK
  <2>2. [Idle EXCEPT !.at = "cleared"] \in Request
    BY <1>c, Members, FreshRequest
  <2>3. ReqOK' /\ TokensOK'
    BY <1>12, <1>a, <2>2 DEF Logout, Logged, ReqOK, TokensOK
  <2>4. QED
    BY <1>12, <2>1, <2>3 DEF Logout, UserOK, JarOK, AdmOK, LockOK
<1>13. ASSUME NEW r \in Requests, ChangeMyPassword(r)
      PROVE  UserOK' /\ FamsOK' /\ TokensOK' /\ JarOK' /\ ReqOK' /\ AdmOK' /\ LockOK'
  <2>1. UserOK'
    BY <1>13, SessionsAssumption DEF ChangeMyPassword, UserOK, User, Secret
  <2>2. [Idle EXCEPT !.at = "endall"] \in Request
    BY <1>c, Members, FreshRequest
  <2>3. QED
    BY <1>13, <2>1, <2>2 DEF ChangeMyPassword, FamsOK, TokensOK, JarOK, ReqOK, AdmOK, LockOK
<1>14. ASSUME NEW r \in Requests, EndAllSessions(r)
      PROVE  UserOK' /\ FamsOK' /\ TokensOK' /\ JarOK' /\ ReqOK' /\ AdmOK' /\ LockOK'
  <2>1. Idle \in Request
    BY Members, FreshRequest
  <2>2. FamsOK'
    BY <1>14, <1>e, Members, RevokeAllOK DEF EndAllSessions, Logged, FamsOK
  <2>3. QED
    BY <1>14, <2>1, <2>2 DEF EndAllSessions, UserOK, TokensOK, JarOK, ReqOK, AdmOK, LockOK
<1>15. ASSUME NEW r \in Requests, Deliver(r)
      PROVE  UserOK' /\ FamsOK' /\ TokensOK' /\ JarOK' /\ ReqOK' /\ AdmOK' /\ LockOK'
  <2>1. Idle \in Request
    BY Members, FreshRequest
  <2>2. JarOK'
    BY <1>15, <1>b, Members DEF Deliver, JarOK, Jar
  <2>3. QED
    BY <1>15, <2>1, <2>2 DEF Deliver, Release, UserOK, FamsOK, TokensOK, ReqOK, AdmOK, LockOK
<1>16. ASSUME NEW r \in Requests, GiveUp(r)
      PROVE  UserOK' /\ FamsOK' /\ TokensOK' /\ JarOK' /\ ReqOK' /\ AdmOK' /\ LockOK'
  <2>1. Idle \in Request /\ [req[r] EXCEPT !.gone = TRUE] \in Request
    BY <1>c, Members, FreshRequest, LaterRequest DEF ReqOK
  <2>2. ReqOK'
    BY <1>16, <2>1 DEF GiveUp, ReqOK
  <2>3. QED
    BY <1>16, <2>2 DEF GiveUp, UserOK, FamsOK, TokensOK, JarOK, AdmOK, LockOK
<1>17. ASSUME NEW f \in Families, GraceEnds(f)
      PROVE  UserOK' /\ FamsOK' /\ TokensOK' /\ JarOK' /\ ReqOK' /\ AdmOK' /\ LockOK'
  <2>1. FamsOK'
    BY <1>17, <1>e, GraceOK DEF GraceEnds, FamsOK
  <2>2. QED
    BY <1>17, <2>1 DEF GraceEnds, UserOK, TokensOK, JarOK, ReqOK, AdmOK, LockOK
<1>18. CASE LoadTarget
  <2>1. AdmOK'
    BY <1>18, <1>a DEF LoadTarget, AdmOK, Admins
  <2>2. QED
    BY <1>18, <2>1 DEF LoadTarget, UserOK, FamsOK, TokensOK, JarOK, ReqOK, LockOK
<1>19. CASE WriteTarget
  <2>1. AdmOK'
    BY <1>19 DEF WriteTarget, AdmOK, Admins
  <2>2. UserOK'
    <3>1. user.secret < MaxSecret => user.secret + 1 \in Secret
      BY <1>a, SessionsAssumption DEF Secret
    <3>2. QED
      BY <1>19, <3>1 DEF WriteTarget, UserOK, User
  <2>3. QED
    BY <1>19, <2>1, <2>2 DEF WriteTarget, FamsOK, TokensOK, JarOK, ReqOK, LockOK
<1>20. CASE RevokeById
  <2>1. AdmOK'
    BY <1>20, Members DEF RevokeById, AdmOK, Admins, AdminIdle, Providers
  <2>2. FamsOK'
    BY <1>20, <1>e, Members, RevokeAllOK DEF RevokeById, Logged, FamsOK
  <2>3. QED
    BY <1>20, <2>1, <2>2 DEF RevokeById, UserOK, TokensOK, JarOK, ReqOK, LockOK
<1>21. CASE RevokeByMail
  <2>1. AdmOK'
    BY <1>21, Members DEF RevokeByMail, AdmOK, Admins, AdminIdle, Providers
  <2>2. FamsOK'
    BY <1>21, <1>e, Members, RevokeAllOK DEF RevokeByMail, Logged, FamsOK
  <2>3. QED
    BY <1>21, <2>1, <2>2 DEF RevokeByMail, UserOK, TokensOK, JarOK, ReqOK, LockOK
<1>22. CASE Reactivate
  <2>1. UserOK'
    BY <1>22 DEF Reactivate, UserOK, User
  <2>2. \A r \in Requests : [req[r] EXCEPT !.over = IF @ = "user" THEN "no" ELSE @] \in Request
    BY <1>c, LaterRequest DEF ReqOK
  <2>3. ReqOK'
    BY <1>22, <2>2 DEF Reactivate, ReqOK
  <2>4. QED
    BY <1>22, <2>1, <2>3 DEF Reactivate, FamsOK, TokensOK, JarOK, AdmOK, LockOK
<1>23. CASE UNCHANGED vars
  BY <1>23 DEF vars, UserOK, FamsOK, TokensOK, JarOK, ReqOK, AdmOK, LockOK
<1>24. QED
  BY <1>1, <1>2, <1>3, <1>4, <1>5, <1>6, <1>7, <1>8,
     <1>9, <1>10, <1>11, <1>12, <1>13, <1>14, <1>15, <1>16,
     <1>17, <1>18, <1>19, <1>20, <1>21, <1>22, <1>23
     DEF Next, Login, Refresh, Admin

(* Every reachable state of the sessions is well typed (Sessions: the      *)
(* handlers of auth.go, users.go and oidc.go and the rows they write).     *)
THEOREM SessionsTypeCorrect == Spec => []TypeOK
<1>1. TypeOK /\ [Next]_vars => TypeOK'
  BY TypeStep
<1>2. QED
  BY <1>1, TypeInit, PTL DEF Spec

-----------------------------------------------------------------------------
(* What the writes do to the columns of a row. *)

LEMMA SetStatusColumns ==
  ASSUME FamsOK, NEW f \in Families, NEW st, NEW g \in Families
  PROVE  /\ SetStatus(f, st)[g].cur = fams[g].cur /\ SetStatus(f, st)[g].prev = fams[g].prev
         /\ SetStatus(f, st)[g].grace = fams[g].grace
         /\ SetStatus(f, st)[g].status = IF g = f /\ fams[g].status # "none" THEN st
                                         ELSE fams[g].status
  BY DEF FamsOK, Family, SetStatus

LEMMA RevokeAllColumns ==
  ASSUME FamsOK, NEW sub, NEW g \in Families
  PROVE  /\ RevokeAll(sub)[g].cur = fams[g].cur /\ RevokeAll(sub)[g].prev = fams[g].prev
         /\ RevokeAll(sub)[g].grace = fams[g].grace
         /\ RevokeAll(sub)[g].status \in
              IF fams[g].status = "active" THEN {"active", "revoked"} ELSE {fams[g].status}
  BY DEF FamsOK, Family, RevokeAll

LEMMA RotatedColumns ==
  ASSUME FamsOK, NEW f \in Families, NEW g \in Families
  PROVE  /\ Rotated(f)[g].cur = IF g = f THEN issued + 1 ELSE fams[g].cur
         /\ Rotated(f)[g].prev = IF g = f THEN fams[g].cur ELSE fams[g].prev
         /\ Rotated(f)[g].status = fams[g].status
  BY DEF FamsOK, Family, Rotated

\* A step that writes no number: a family ends or stays, a grace window too.
NoNumber ==
  \A g \in Families :
    /\ fams'[g].cur = fams[g].cur /\ fams'[g].prev = fams[g].prev
    /\ fams'[g].grace => fams[g].grace
    /\ fams'[g].status = "none" <=> fams[g].status = "none"
    /\ fams'[g].status = "active" => fams[g].status = "active"

LEMMA WritesOfStatus ==
  ASSUME FamsOK
  PROVE  /\ fams' = fams => NoNumber
         /\ \A f \in Families : fams' = SetStatus(f, "revoked") => NoNumber
         /\ \A f \in Families : fams' = SetStatus(f, "compromised") => NoNumber
         /\ \A sub : fams' = RevokeAll(sub) => NoNumber
         /\ \A f \in Families : GraceEnds(f) => NoNumber
<1>1. fams' = fams => NoNumber
  BY DEF NoNumber
<1>2. ASSUME NEW f \in Families, NEW st \in {"revoked", "compromised"}, fams' = SetStatus(f, st)
      PROVE  NoNumber
  BY <1>2, SetStatusColumns DEF NoNumber
<1>3. ASSUME NEW sub, fams' = RevokeAll(sub)
      PROVE  NoNumber
  <2>1. ASSUME NEW g \in Families
        PROVE  /\ fams'[g].cur = fams[g].cur /\ fams'[g].prev = fams[g].prev
               /\ fams'[g].grace = fams[g].grace
               /\ fams'[g].status \in
                    IF fams[g].status = "active" THEN {"active", "revoked"} ELSE {fams[g].status}
    <3> DEFINE R == RevokeAll(sub)
    <3>1. /\ R[g].cur = fams[g].cur /\ R[g].prev = fams[g].prev /\ R[g].grace = fams[g].grace
          /\ R[g].status \in
               IF fams[g].status = "active" THEN {"active", "revoked"} ELSE {fams[g].status}
      BY RevokeAllColumns
    <3>2. fams' = R
      BY <1>3
    <3> HIDE DEF R
    <3>3. QED
      BY <3>1, <3>2
  <2>2. QED
    BY <2>1 DEF NoNumber
<1>4. ASSUME NEW f \in Families, GraceEnds(f)
      PROVE  NoNumber
  BY <1>4 DEF NoNumber, GraceEnds, FamsOK, Family
<1>5. QED
  BY <1>1, <1>2, <1>3, <1>4

-----------------------------------------------------------------------------
(* What the steps do to requests. *)

LEMMA IdleColumns ==
  /\ Idle.at = "idle" /\ Idle.fam = AnyFamily /\ Idle.tok = NoCookie /\ Idle.over = "no"
  /\ Idle.gone = FALSE
  BY DEF Idle

LEMMA RefuseColumns ==
  ASSUME ReqOK, NEW r \in Requests, Refuse(r), NEW q \in Requests
  PROVE  req'[q] = IF q = r THEN Idle ELSE req[q]
  BY DEF ReqOK, Refuse

LEMMA GotoColumns ==
  ASSUME ReqOK, NEW r \in Requests, NEW l, Goto(r, l), NEW q \in Requests
  PROVE  /\ q # r => req'[q] = req[q]
         /\ req'[q].at = IF q = r THEN l ELSE req[q].at
         /\ req'[q].fam = req[q].fam /\ req'[q].tok = req[q].tok
         /\ req'[q].over = req[q].over /\ req'[q].gone = req[q].gone
  BY DEF ReqOK, Request, Goto

LEMMA GrantColumns ==
  ASSUME ReqOK, NEW r \in Requests, NEW f, NEW tok, Grant(r, f, tok)
  PROVE  /\ \A q \in Requests \ {r} : req'[q] = req[q]
         /\ \/ req[r].gone /\ req'[r] = Idle
            \/ /\ ~req[r].gone /\ req'[r].at = "granted" /\ req'[r].fam = f
               /\ req'[r].tok = tok /\ req'[r].over = req[r].over
               /\ req'[r].gone = FALSE
  BY DEF ReqOK, Grant, Idle

LEMMA SentLoginColumns ==
  ASSUME ReqOK, NEW r \in Requests, NEW sub, SentLogin(r, sub), NEW q \in Requests
  PROVE  /\ q # r => req'[q] = req[q]
         /\ q = r => /\ req'[q].at = "create" /\ req'[q].tok = NoCookie
                     /\ req'[q].over = "no" /\ req'[q].gone = FALSE
  BY DEF ReqOK, SentLogin, Idle

LEMMA StartColumns ==
  ASSUME ReqOK, NEW r \in Requests, StartRefresh(r), NEW q \in Requests
  PROVE  /\ q # r => req'[q] = req[q]
         /\ q = r => /\ req'[q].at = "load" /\ req'[q].fam = jar.fam /\ req'[q].tok = jar.tok
                     /\ req'[q].over = WhyOver(jar.fam) /\ req'[q].gone = FALSE
  BY DEF ReqOK, StartRefresh, Idle

\* A request that waits for nothing that has a token.
LEMMA EmptyColumns ==
  ASSUME ReqOK, NEW r \in Requests, NEW l,
         req' = [req EXCEPT ![r] = [Idle EXCEPT !.at = l]]
  PROVE  /\ \A q \in Requests \ {r} : req'[q] = req[q]
         /\ req'[r].at = l /\ req'[r].tok = NoCookie
         /\ req'[r].over = "no" /\ req'[r].gone = FALSE
  BY DEF ReqOK, Idle

LEMMA GiveUpColumns ==
  ASSUME ReqOK, NEW r \in Requests, GiveUp(r), NEW q \in Requests
  PROVE  \/ q = r /\ req'[q] = Idle
         \/ /\ req'[q].at = req[q].at /\ req'[q].fam = req[q].fam
            /\ req'[q].tok = req[q].tok /\ req'[q].over = req[q].over
  BY DEF ReqOK, Request, GiveUp

LEMMA ReactivateColumns ==
  ASSUME ReqOK, Reactivate, NEW q \in Requests
  PROVE  /\ req'[q].at = req[q].at /\ req'[q].fam = req[q].fam /\ req'[q].tok = req[q].tok
         /\ req'[q].gone = req[q].gone
         /\ req'[q].over = IF req[q].over = "user" THEN "no" ELSE req[q].over
  BY DEF ReqOK, Request, Reactivate

-----------------------------------------------------------------------------
(* A superseded token stays superseded, an ended session stays ended.      *)

Safe == TokensIssued /\ CompromiseIsStable /\ EndIsKnown

LEMMA SafeInit == Init => Safe
  BY Members DEF Init, Safe, TokensIssued, CompromiseIsStable, EndIsKnown, Idle, NoFamily,
     NoCookie, Refreshing

\* The numbers are numbers.
LEMMA Numbers ==
  ASSUME TypeOK
  PROVE  /\ issued \in Nat /\ jar.tok \in Nat /\ jar.fam \in Families
         /\ \A f \in Families : fams[f].cur \in Nat /\ fams[f].prev \in Nat
         /\ \A r \in Requests : /\ req[r].tok \in Nat /\ req[r].fam \in Families
                                /\ req[r].over \in {"no", "user", "family"}
<1>1. Token \subseteq Nat
  BY SessionsAssumption DEF Token
<1>2. QED
  BY <1>1, TypeParts, FieldsOfRequest DEF TokensOK, JarOK, Jar, FamsOK, Family, ReqOK

\* A step that issues nothing, reactivates nobody and moves no request, but to
\* a label that holds no token.
LEMMA SafeQuiet ==
  ASSUME TypeOK, Safe, NoNumber, issued' = issued, jar'.tok <= issued,
         user'.active => user.active,
         \A q \in Requests :
           \/ /\ req'[q].at = req[q].at /\ req'[q].fam = req[q].fam
              /\ req'[q].tok = req[q].tok /\ req'[q].over = req[q].over
           \/ /\ req'[q].at \in {"idle", "create", "cleared", "endall"}
              /\ req'[q].tok = NoCookie /\ req'[q].over = "no"
  PROVE  Safe'
<1> USE Numbers, Members DEF Safe
<1>1. TokensIssued'
  BY DEF TokensIssued, NoNumber, NoCookie, Refreshing
<1>2. CompromiseIsStable'
  BY DEF CompromiseIsStable, Acceptable, NoNumber
<1>3. EndIsKnown'
  BY DEF EndIsKnown, NoNumber
<1>4. QED
  BY <1>1, <1>2, <1>3

LEMMA SafeStep ==
  ASSUME TypeOK, Safe, [Next]_vars
  PROVE  Safe'
<1> USE Numbers, Members DEF Safe
<1>a. UserOK /\ FamsOK /\ TokensOK /\ JarOK /\ ReqOK
  BY TypeParts
<1> USE <1>a
<1>1. ASSUME NEW r \in Requests, CreateFamily(r)
      PROVE  Safe'
  <2>0. PICK f \in Families :
          /\ Unused(f)
          /\ \A g \in Families \ {f} : fams'[g] = fams[g]
          /\ fams'[f].cur \in {fams[f].cur, issued + 1}
          /\ fams' = fams \/ fams'[f].prev = NoCookie
          /\ \A q \in Requests \ {r} : req'[q] = req[q]
          /\ \/ req'[r] = Idle
             \/ /\ req'[r].at = "granted" /\ req'[r].fam = f /\ req'[r].tok = issued + 1
                /\ req'[r].over = req[r].over
    <3>1. PICK f \in Families :
            /\ Unused(f) /\ Grant(r, f, issued + 1)
            /\ \/ fams' = fams
               \/ fams' = [fams EXCEPT ![f] =
                    [status |-> "active", sub |-> req[r].sub, cur |-> issued + 1,
                     prev |-> NoCookie, grace |-> FALSE, secret |-> req[r].secret]]
      BY <1>1 DEF CreateFamily, Logged
    <3>2. /\ \A g \in Families \ {f} : fams'[g] = fams[g]
          /\ fams'[f].cur \in {fams[f].cur, issued + 1}
          /\ fams' = fams \/ fams'[f].prev = NoCookie
      BY <3>1 DEF FamsOK
    <3>3. /\ \A q \in Requests \ {r} : req'[q] = req[q]
          /\ \/ req'[r] = Idle
             \/ /\ req'[r].at = "granted" /\ req'[r].fam = f /\ req'[r].tok = issued + 1
                /\ req'[r].over = req[r].over
      BY <3>1 DEF Grant, ReqOK, Idle
    <3>4. QED
      BY <3>1, <3>2, <3>3
  <2>1. TokensIssued'
    BY <2>0, <1>1, IdleColumns DEF CreateFamily, Unused, TokensIssued, NoCookie, Refreshing
  <2>2. CompromiseIsStable'
    BY <2>0, <1>1, IdleColumns
       DEF CreateFamily, Unused, CompromiseIsStable, TokensIssued, Acceptable, Refreshing
  <2>3. EndIsKnown'
    BY <2>0, <1>1, IdleColumns DEF CreateFamily, Unused, EndIsKnown, TokensIssued, Refreshing
  <2>4. QED
    BY <2>1, <2>2, <2>3
<1>2. ASSUME NEW r \in Requests, StartRefresh(r)
      PROVE  Safe'
  <2>1. TokensIssued'
    BY <1>2, StartColumns DEF StartRefresh, WhyOver, Valid, NoCookie, TokensIssued, Refreshing
  <2>2. CompromiseIsStable'
    BY <1>2, StartColumns
       DEF StartRefresh, WhyOver, Valid, NoCookie, CompromiseIsStable, TokensIssued, Acceptable,
           Refreshing
  <2>3. EndIsKnown'
    BY <1>2, StartColumns
       DEF StartRefresh, WhyOver, Valid, NoCookie, EndIsKnown, TokensIssued, Refreshing
  <2>4. QED
    BY <2>1, <2>2, <2>3
<1>3. ASSUME NEW r \in Requests, LoadFamily(r)
      PROVE  Safe'
  <2>1. TokensIssued'
    BY <1>3, GotoColumns, RefuseColumns, IdleColumns
       DEF LoadFamily, TokensIssued, NoCookie, Refreshing
  <2>2. CompromiseIsStable'
    BY <1>3, GotoColumns, RefuseColumns, IdleColumns
       DEF LoadFamily, CompromiseIsStable, TokensIssued, Acceptable, Refreshing
  <2>3. EndIsKnown'
    BY <1>3, GotoColumns, RefuseColumns, IdleColumns
       DEF LoadFamily, EndIsKnown, TokensIssued, Refreshing
  <2>4. QED
    BY <2>1, <2>2, <2>3
<1>4. ASSUME NEW r \in Requests, CheckUser(r)
      PROVE  Safe'
  <2>1. TokensIssued'
    BY <1>4, GotoColumns DEF CheckUser, FamilyUserInactive, TokensIssued, NoCookie, Refreshing
  <2>2. CompromiseIsStable'
    BY <1>4, GotoColumns
       DEF CheckUser, FamilyUserInactive, CompromiseIsStable, TokensIssued, Acceptable,
           Refreshing
  <2>3. EndIsKnown'
    BY <1>4, GotoColumns DEF CheckUser, FamilyUserInactive, EndIsKnown, TokensIssued, Refreshing
  <2>4. QED
    BY <2>1, <2>2, <2>3
<1>5. ASSUME NEW r \in Requests, Rotate(r)
      PROVE  Safe'
  <2>0. /\ \A q \in Requests \ {r} : req'[q] = req[q]
        /\ \/ req'[r] = Idle
           \/ /\ req'[r].at = "granted" /\ req'[r].fam = req[r].fam
              /\ req'[r].tok = issued + 1 /\ req'[r].over = req[r].over
    <3> DEFINE new == issued + 1
    <3>1. Grant(r, req[r].fam, new)
      BY <1>5 DEF Rotate
    <3> HIDE DEF new
    <3>2. /\ \A q \in Requests \ {r} : req'[q] = req[q]
          /\ \/ req'[r] = Idle
             \/ /\ req'[r].at = "granted" /\ req'[r].fam = req[r].fam
                /\ req'[r].tok = new /\ req'[r].over = req[r].over
      BY <3>1, GrantColumns
    <3>3. QED
      BY <3>2 DEF new
  <2>1. TokensIssued'
    BY <2>0, <1>5, RotatedColumns, IdleColumns DEF Rotate, TokensIssued, NoCookie, Refreshing
  <2>2. CompromiseIsStable'
    <3> SUFFICES ASSUME NEW q \in Requests, req'[q].at = "compromise"
                 PROVE  ~Acceptable(req[q].fam, req[q].tok)'
      BY <2>0, IdleColumns DEF CompromiseIsStable
    <3>1. q # r /\ req'[q] = req[q] /\ req[q].fam \in Families /\ req[q].tok <= issued
      BY <2>0, IdleColumns DEF TokensIssued
    <3>2. ~Acceptable(req[q].fam, req[q].tok)
      BY <3>1 DEF CompromiseIsStable
    <3>3. CASE fams'[req[q].fam] = fams[req[q].fam]
      BY <3>1, <3>2, <3>3 DEF Acceptable
    <3>4. CASE fams' = Rotated(req[r].fam)
      <4>1. CASE req[q].fam = req[r].fam
        <5>1. /\ fams'[req[q].fam].cur = issued + 1
              /\ fams'[req[q].fam].prev = fams[req[q].fam].cur
          BY <3>1, <3>4, <4>1, RotatedColumns
        <5>2. QED
          BY <3>1, <3>2, <5>1 DEF Acceptable
      <4>2. CASE req[q].fam # req[r].fam
        <5>1. fams'[req[q].fam] = fams[req[q].fam]
          BY <3>1, <3>4, <4>2 DEF Rotated, FamsOK
        <5>2. QED
          BY <3>1, <3>2, <5>1 DEF Acceptable
      <4>3. QED
        BY <4>1, <4>2
    <3>5. QED
      BY <2>0, <1>5, <3>3, <3>4 DEF Rotate
  <2>3. EndIsKnown'
    BY <2>0, <1>5, RotatedColumns, IdleColumns DEF Rotate, EndIsKnown, TokensIssued, Refreshing
  <2>4. QED
    BY <2>1, <2>2, <2>3
<1>6. ASSUME NEW r \in Requests, RotateFails(r)
      PROVE  Safe'
  <2>0. /\ req'[r] = Idle /\ \A q \in Requests \ {r} : req'[q] = req[q]
        /\ fams' = fams \/ fams' = Rotated(req[r].fam)
    BY <1>6, RefuseColumns DEF RotateFails
  <2>1. TokensIssued'
    BY <2>0, <1>6, RotatedColumns, IdleColumns
       DEF RotateFails, TokensIssued, NoCookie, Refreshing
  <2>2. CompromiseIsStable'
    <3> SUFFICES ASSUME NEW q \in Requests, req'[q].at = "compromise"
                 PROVE  ~Acceptable(req[q].fam, req[q].tok)'
      BY <2>0, IdleColumns DEF CompromiseIsStable
    <3>1. q # r /\ req'[q] = req[q] /\ req[q].fam \in Families /\ req[q].tok <= issued
      BY <2>0, IdleColumns DEF TokensIssued
    <3>2. ~Acceptable(req[q].fam, req[q].tok)
      BY <3>1 DEF CompromiseIsStable
    <3>3. CASE fams'[req[q].fam] = fams[req[q].fam]
      BY <3>1, <3>2, <3>3 DEF Acceptable
    <3>4. CASE fams' = Rotated(req[r].fam)
      <4>1. CASE req[q].fam = req[r].fam
        <5>1. /\ fams'[req[q].fam].cur = issued + 1
              /\ fams'[req[q].fam].prev = fams[req[q].fam].cur
          BY <3>1, <3>4, <4>1, RotatedColumns
        <5>2. QED
          BY <3>1, <3>2, <5>1 DEF Acceptable
      <4>2. CASE req[q].fam # req[r].fam
        <5>1. fams'[req[q].fam] = fams[req[q].fam]
          BY <3>1, <3>4, <4>2 DEF Rotated, FamsOK
        <5>2. QED
          BY <3>1, <3>2, <5>1 DEF Acceptable
      <4>3. QED
        BY <4>1, <4>2
    <3>5. QED
      BY <2>0, <1>6, <3>3, <3>4 DEF RotateFails
  <2>3. EndIsKnown'
    BY <2>0, <1>6, RotatedColumns, IdleColumns
       DEF RotateFails, EndIsKnown, TokensIssued, Refreshing
  <2>4. QED
    BY <2>1, <2>2, <2>3
<1>7. CASE Reactivate
  <2>1. TokensIssued'
    BY <1>7, ReactivateColumns DEF Reactivate, UserOK, User, TokensIssued, NoCookie, Refreshing
  <2>2. CompromiseIsStable'
    BY <1>7, ReactivateColumns
       DEF Reactivate, UserOK, User, CompromiseIsStable, TokensIssued, Acceptable, Refreshing
  <2>3. EndIsKnown'
    BY <1>7, ReactivateColumns
       DEF Reactivate, UserOK, User, EndIsKnown, TokensIssued, Refreshing
  <2>4. QED
    BY <2>1, <2>2, <2>3
<1>8. ASSUME NEW r \in Requests, LoginCheck(r) \/ UpsertByOIDC(r) \/ HandleEmailCollision(r)
      PROVE  Safe'
  <2>1. /\ fams' = fams /\ issued' = issued /\ jar' = jar /\ user'.active = user.active
        /\ req' = req \/ \E sub : SentLogin(r, sub)
    BY <1>8 DEF LoginCheck, UpsertByOIDC, HandleEmailCollision, UserOK, User
  <2>2. NoNumber /\ jar'.tok <= issued
    BY <2>1, WritesOfStatus DEF TokensIssued
  <2>3. \A q \in Requests : req'[q] = req[q] \/
          (req'[q].at = "create" /\ req'[q].tok = NoCookie /\ req'[q].over = "no")
    BY <2>1, SentLoginColumns
  <2>4. QED
    BY <2>1, <2>2, <2>3, SafeQuiet
<1>9. ASSUME NEW r \in Requests, MarkCompromised(r) \/ RevokeInactive(r)
      PROVE  Safe'
  <2>1. /\ NoNumber /\ issued' = issued /\ jar' = jar /\ user' = user
        /\ req'[r] = Idle /\ \A q \in Requests \ {r} : req'[q] = req[q]
    BY <1>9, WritesOfStatus, RefuseColumns DEF MarkCompromised, RevokeInactive, Logged
  <2>2. QED
    BY <2>1, IdleColumns, SafeQuiet DEF TokensIssued
<1>10. ASSUME NEW r \in Requests, Logout(r) \/ ChangeMyPassword(r)
       PROVE  Safe'
  <2>1. /\ NoNumber /\ issued' = issued /\ jar' = jar /\ user'.active = user.active
    BY <1>10, WritesOfStatus DEF Logout, ChangeMyPassword, Logged, UserOK, User
  <2>2. \E l \in {"cleared", "endall"} : req' = [req EXCEPT ![r] = [Idle EXCEPT !.at = l]]
    BY <1>10 DEF Logout, ChangeMyPassword
  <2>3. /\ req'[r].at \in {"cleared", "endall"} /\ req'[r].tok = NoCookie /\ req'[r].over = "no"
        /\ \A q \in Requests \ {r} : req'[q] = req[q]
    BY <2>2, IdleColumns DEF ReqOK, Idle
  <2>4. QED
    BY <2>1, <2>3, SafeQuiet DEF TokensIssued
<1>11. ASSUME NEW r \in Requests, EndAllSessions(r)
       PROVE  Safe'
  <2>1. /\ NoNumber /\ issued' = issued /\ jar' = jar /\ user' = user
        /\ req'[r] = Idle /\ \A q \in Requests \ {r} : req'[q] = req[q]
    BY <1>11, WritesOfStatus DEF EndAllSessions, Logged, ReqOK
  <2>2. QED
    BY <2>1, IdleColumns, SafeQuiet DEF TokensIssued
<1>12. ASSUME NEW r \in Requests, Deliver(r)
       PROVE  Safe'
  <2>1. /\ fams' = fams /\ issued' = issued /\ user' = user
        /\ req'[r] = Idle /\ \A q \in Requests \ {r} : req'[q] = req[q]
    BY <1>12 DEF Deliver, ReqOK
  <2>2. jar'.tok \in {req[r].tok, NoCookie}
    BY <1>12 DEF Deliver, JarOK, Jar
  <2>3. NoNumber /\ jar'.tok <= issued
    BY <2>1, <2>2, WritesOfStatus DEF TokensIssued, NoCookie
  <2>4. QED
    BY <2>1, <2>3, IdleColumns, SafeQuiet
<1>13. ASSUME NEW r \in Requests, GiveUp(r)
       PROVE  Safe'
  <2>1. fams' = fams /\ issued' = issued /\ jar' = jar /\ user' = user
    BY <1>13 DEF GiveUp
  <2>2. NoNumber
    BY <2>1, WritesOfStatus
  <2>3. QED
    BY <1>13, <2>1, <2>2, GiveUpColumns, IdleColumns, SafeQuiet DEF TokensIssued
<1>14. ASSUME NEW f \in Families, GraceEnds(f)
       PROVE  Safe'
  <2>1. NoNumber /\ issued' = issued /\ jar' = jar /\ user' = user /\ req' = req
    BY <1>14, WritesOfStatus DEF GraceEnds
  <2>2. QED
    BY <2>1, SafeQuiet DEF TokensIssued
<1>15. CASE LoadTarget \/ WriteTarget \/ RevokeById \/ RevokeByMail \/ UNCHANGED vars
  <2>1. /\ issued' = issued /\ jar' = jar /\ req' = req
        /\ fams' = fams \/ \E sub : fams' = RevokeAll(sub)
    BY <1>15 DEF LoadTarget, WriteTarget, RevokeById, RevokeByMail, Logged, vars
  <2>2. user'.active => user.active
    BY <1>15 DEF LoadTarget, WriteTarget, RevokeById, RevokeByMail, UserOK, User, vars
  <2>3. NoNumber
    BY <2>1, WritesOfStatus
  <2>4. QED
    BY <2>1, <2>2, <2>3, SafeQuiet DEF TokensIssued
<1>16. QED
  BY <1>1, <1>2, <1>3, <1>4, <1>5, <1>6, <1>7, <1>8, <1>9, <1>10, <1>11, <1>12, <1>13, <1>14,
     <1>15
     DEF Next, Login, Refresh, Admin

LEMMA SafeAlways == Spec => [](TypeOK /\ Safe)
<1>1. Init => TypeOK /\ Safe
  BY TypeInit, SafeInit
<1>2. TypeOK /\ Safe /\ [Next]_vars => (TypeOK /\ Safe)'
  BY TypeStep, SafeStep
<1>3. QED
  BY <1>1, <1>2, PTL DEF Spec

\* A refresh that is about to mark its family compromised presents a token
\* that is not acceptable, whatever rotations came after it read the row
\* (reuse detection of Refresh).
THEOREM CompromiseStable == Spec => []CompromiseIsStable
<1>1. TypeOK /\ Safe => CompromiseIsStable
  BY DEF Safe
<1>2. QED
  BY <1>1, SafeAlways, PTL

\* A refresh sent after its session ended is refused, whatever revocation
\* was missed and however the login named the user (Refresh).
THEOREM EndedStayEnded == Spec => []EndedSessionsStayEnded
<1>1. TypeOK /\ Safe => EndedSessionsStayEnded
  BY DEF Safe, EndIsKnown, EndedSessionsStayEnded
<1>2. QED
  BY <1>1, SafeAlways, PTL

-----------------------------------------------------------------------------
(* Tabs that refresh one after the other keep their session.               *)

Tabs == OneRefresh /\ CookieIsCurrent /\ NothingCompromised

LEMMA TabsInit == Init => Tabs
  BY Members, SessionsAssumption
     DEF Init, Tabs, OneRefresh, CookieIsCurrent, NothingCompromised, Idle, NoFamily, Refreshing

\* A step that touches neither the cookies nor the lock nor a number, and no
\* request that refreshes or brings tokens.
LEMMA QuietStep ==
  ASSUME TypeOK, Tabs, NoNumber, jar' = jar, holder' = holder,
         \A f \in Families : fams'[f].status # "compromised",
         \A q \in Requests :
           \/ /\ req'[q].at = req[q].at /\ req'[q].fam = req[q].fam
              /\ req'[q].tok = req[q].tok /\ req'[q].gone = req[q].gone
           \/ /\ {req[q].at, req'[q].at} \cap (Refreshing \cup {"granted"}) = {}
              /\ req'[q].tok = NoCookie /\ ~req'[q].gone
  PROVE  Tabs'
<1> USE DEF Tabs, Refreshing
<1>1. OneRefresh'
  BY DEF OneRefresh
<1>2. \A f \in Families : \A tok : Current(f, tok) => Current(f, tok)'
  BY DEF Current, NoNumber
<1>3. \A r \in Requests : OnlyCarrier(r) /\ req'[r].fam = req[r].fam => OnlyCarrier(r)'
  BY DEF OnlyCarrier
<1>4. CookieIsCurrent'
  <2>1. ASSUME NEW r \in Requests, req'[r].at \in {"load", "granted"}
        PROVE  Current(req[r].fam, req[r].tok)' /\ req[r].fam \in Families
    BY <2>1, <1>2, Numbers DEF CookieIsCurrent
  <2>2. ASSUME NEW r \in Requests, req'[r].at = "granted", holder # r
        PROVE  OnlyCarrier(r)'
    BY <2>2, <1>3 DEF CookieIsCurrent
  <2>3. ASSUME jar.tok # NoCookie
        PROVE  \/ Current(jar.fam, jar.tok)'
               \/ \E r \in Requests : req'[r].at = "granted" /\ holder = r /\ req'[r].fam = jar.fam
    BY <2>3, <1>2, Numbers DEF CookieIsCurrent
  <2>4. QED
    BY <2>1, <2>2, <2>3 DEF CookieIsCurrent
<1>5. NothingCompromised'
  BY DEF NothingCompromised
<1>6. QED
  BY <1>1, <1>4, <1>5

\* The statuses that the writes leave.
LEMMA WritesCompromiseNothing ==
  ASSUME FamsOK, NothingCompromised, NEW g \in Families,
         \/ fams' = fams
         \/ \E f \in Families : fams' = SetStatus(f, "revoked") \/ GraceEnds(f)
         \/ \E sub : fams' = RevokeAll(sub)
  PROVE  fams'[g].status # "compromised"
<1>1. CASE fams' = fams
  BY <1>1 DEF NothingCompromised
<1>2. ASSUME NEW f \in Families, fams' = SetStatus(f, "revoked")
      PROVE  fams'[g].status # "compromised"
  BY <1>2, SetStatusColumns DEF NothingCompromised
<1>3. ASSUME NEW f \in Families, GraceEnds(f)
      PROVE  fams'[g].status # "compromised"
  BY <1>3 DEF NothingCompromised, GraceEnds, FamsOK, Family
<1>4. ASSUME NEW sub, fams' = RevokeAll(sub)
      PROVE  fams'[g].status # "compromised"
  BY <1>4, RevokeAllColumns DEF NothingCompromised
<1>5. QED
  BY <1>1, <1>2, <1>3, <1>4

\* The steps that QuietStep is about.
LEMMA QuietActions ==
  ASSUME TypeOK, Tabs,
         \/ \E r \in Requests : \/ LoginCheck(r) \/ UpsertByOIDC(r) \/ HandleEmailCollision(r)
                                \/ Logout(r) \/ ChangeMyPassword(r) \/ EndAllSessions(r)
         \/ \E f \in Families : GraceEnds(f)
         \/ Admin \/ UNCHANGED vars
  PROVE  Tabs'
<1>a. UserOK /\ FamsOK /\ TokensOK /\ JarOK /\ ReqOK
  BY TypeParts
<1> USE <1>a, Members
<1> DEFINE Same(q)  == /\ req'[q].at = req[q].at /\ req'[q].fam = req[q].fam
                       /\ req'[q].tok = req[q].tok /\ req'[q].gone = req[q].gone
           Other(q) == /\ {req[q].at, req'[q].at} \cap (Refreshing \cup {"granted"}) = {}
                       /\ req'[q].tok = NoCookie /\ ~req'[q].gone
           Quiet    == /\ NoNumber /\ jar' = jar /\ holder' = holder
                       /\ \A f \in Families : fams'[f].status # "compromised"
                       /\ \A q \in Requests : Same(q) \/ Other(q)
<1> HIDE DEF Same, Other, Quiet
<1>b. NothingCompromised
  BY DEF Tabs
<1>1. ASSUME NEW r \in Requests, LoginCheck(r) \/ UpsertByOIDC(r) \/ HandleEmailCollision(r)
      PROVE  Quiet
  <2>1. fams' = fams /\ jar' = jar /\ holder' = holder
    BY <1>1 DEF LoginCheck, UpsertByOIDC, HandleEmailCollision
  <2>2. req[r].at = "idle" /\ (req' = req \/ \E sub : SentLogin(r, sub))
    BY <1>1 DEF LoginCheck, UpsertByOIDC, HandleEmailCollision
  <2>3. \A q \in Requests : Same(q) \/ Other(q)
    BY <2>2, SentLoginColumns DEF Refreshing, Same, Other
  <2>4. QED
    BY <2>1, <2>3, <1>b, WritesOfStatus, WritesCompromiseNothing DEF Quiet
<1>2. ASSUME NEW r \in Requests, Logout(r) \/ ChangeMyPassword(r)
      PROVE  Quiet
  <2>1. /\ fams' = fams \/ fams' = SetStatus(jar.fam, "revoked")
        /\ jar' = jar /\ holder' = holder
    BY <1>2 DEF Logout, ChangeMyPassword, Logged
  <2>2. \A f \in Families : fams'[f].status # "compromised"
    BY <2>1, <1>b, WritesCompromiseNothing, Numbers
  <2>3. NoNumber
    BY <2>1, WritesOfStatus, Numbers
  <2>4. /\ req[r].at = "idle"
        /\ \E l \in {"cleared", "endall"} : req' = [req EXCEPT ![r] = [Idle EXCEPT !.at = l]]
    BY <1>2 DEF Logout, ChangeMyPassword
  <2>5. \A q \in Requests \ {r} : Same(q)
    BY <2>4 DEF ReqOK, Same
  <2>6. Other(r)
    BY <2>4, EmptyColumns DEF Refreshing, Other
  <2>7. QED
    BY <2>1, <2>2, <2>3, <2>5, <2>6 DEF Quiet
<1>3. ASSUME NEW r \in Requests, EndAllSessions(r)
      PROVE  Quiet
  <2>1. /\ fams' = fams \/ fams' = RevokeAll(ById)
        /\ jar' = jar /\ holder' = holder
    BY <1>3 DEF EndAllSessions, Logged
  <2>2. \A q \in Requests : Same(q) \/ Other(q)
    BY <1>3, IdleColumns DEF EndAllSessions, ReqOK, Refreshing, Same, Other
  <2>3. QED
    BY <2>1, <2>2, <1>b, WritesOfStatus, WritesCompromiseNothing DEF Quiet
<1>4. ASSUME NEW f \in Families, GraceEnds(f)
      PROVE  Quiet
  <2>1. req' = req /\ jar' = jar /\ holder' = holder
    BY <1>4 DEF GraceEnds
  <2>2. QED
    BY <2>1, <1>4, <1>b, WritesOfStatus, WritesCompromiseNothing DEF Quiet, Same
<1>5. ASSUME Admin
      PROVE  Quiet
  <2>1. /\ fams' = fams \/ \E sub : fams' = RevokeAll(sub)
        /\ jar' = jar /\ holder' = holder
    BY <1>5 DEF Admin, LoadTarget, WriteTarget, RevokeById, RevokeByMail, Reactivate, Logged
  <2>2. req' = req \/ Reactivate
    BY <1>5 DEF Admin, LoadTarget, WriteTarget, RevokeById, RevokeByMail
  <2>3. \A q \in Requests : Same(q)
    BY <2>2, ReactivateColumns DEF Same
  <2>4. NoNumber
    BY <2>1, WritesOfStatus
  <2>5. \A f \in Families : fams'[f].status # "compromised"
    BY <2>1, <1>b, WritesCompromiseNothing
  <2>6. QED
    BY <2>1, <2>3, <2>4, <2>5 DEF Quiet
<1>6. ASSUME UNCHANGED vars
      PROVE  Quiet
  <2>1. fams' = fams /\ req' = req /\ jar' = jar /\ holder' = holder
    BY <1>6 DEF vars
  <2>2. NoNumber
    BY <2>1, WritesOfStatus
  <2>3. \A f \in Families : fams'[f].status # "compromised"
    BY <2>1, <1>b DEF NothingCompromised
  <2>4. QED
    BY <2>1, <2>2, <2>3 DEF Quiet, Same
<1>7. Quiet
  BY <1>1, <1>2, <1>3, <1>4, <1>5, <1>6
<1>8. QED
  BY <1>7, QuietStep DEF Quiet, Same, Other

\* A refresh: who refreshes holds the lock, so nobody else does.
LEMMA RefreshTabs ==
  ASSUME TypeOK, Safe, Tabs, Locks, NEW r \in Requests, Refresh(r), ~lost'
  PROVE  Tabs'
<1>a. FamsOK /\ JarOK /\ ReqOK
  BY TypeParts
<1> USE <1>a, Members, Numbers
<1>b. OneRefresh /\ CookieIsCurrent /\ NothingCompromised /\ TokensIssued
  BY DEF Tabs, Safe
<1>1. CASE StartRefresh(r)
  <2>1. /\ req[r].at = "idle" /\ jar.tok # NoCookie /\ holder = NoRequest /\ holder' = r
        /\ fams' = fams /\ jar' = jar
    BY <1>1 DEF StartRefresh, Valid
  <2>2. \A q \in Requests \ {r} : req'[q] = req[q] /\ req[q].at \notin Refreshing /\ holder # q
    BY <1>1, <2>1, <1>b, StartColumns, SessionsAssumption DEF OneRefresh
  <2>3. req'[r].at = "load" /\ req'[r].fam = jar.fam /\ req'[r].tok = jar.tok /\ ~req'[r].gone
    BY <1>1, StartColumns
  <2>4. Current(jar.fam, jar.tok)
    BY <2>1, <1>b, SessionsAssumption DEF CookieIsCurrent
  <2>5. OneRefresh'
    BY <2>1, <2>2, <2>3, <1>b DEF OneRefresh, Refreshing
  <2>6. ASSUME NEW q \in Requests, req'[q].at = "granted", holder' # q
        PROVE  OnlyCarrier(q)'
    <3>1. q # r /\ OnlyCarrier(q)
      BY <2>2, <2>3, <2>6, <1>b DEF CookieIsCurrent
    <3>2. QED
      BY <3>1, <2>1, <2>2, <2>3 DEF OnlyCarrier
  <2>7. CookieIsCurrent'
    BY <2>1, <2>2, <2>3, <2>4, <2>6, <1>b DEF CookieIsCurrent, Current
  <2>8. NothingCompromised'
    BY <2>1, <2>2, <2>3, <1>b DEF NothingCompromised
  <2>9. QED
    BY <2>5, <2>7, <2>8 DEF Tabs
<1>2. ASSUME req[r].at \in Refreshing
      PROVE  /\ holder = r /\ ~req[r].gone /\ req[r].tok # NoCookie
             /\ \A q \in Requests \ {r} : req[q].at \notin Refreshing /\ holder # q
             /\ jar.tok # NoCookie => Current(jar.fam, jar.tok)
  BY <1>2, <1>b DEF OneRefresh, CookieIsCurrent, TokensIssued, Refreshing
\* The request is over, without tokens.
<1>3. ASSUME req[r].at \in Refreshing, Refuse(r), jar' = jar,
             \A f \in Families : \A tok : Current(f, tok) => Current(f, tok)',
             \A f \in Families : fams'[f].status # "compromised"
      PROVE  Tabs'
  <2>1. /\ holder' = NoRequest /\ req'[r] = Idle
        /\ \A q \in Requests \ {r} : req'[q] = req[q]
    BY <1>2, <1>3 DEF Refuse, Release, ReqOK
  <2>2. Idle.at = "idle" /\ Idle.tok = NoCookie /\ ~Idle.gone
    BY DEF Idle
  <2>3. OneRefresh'
    BY <1>2, <1>3, <2>1, <2>2, <1>b, SessionsAssumption DEF OneRefresh, Refreshing
  <2>4. ASSUME NEW q \in Requests, req'[q].at = "granted", holder' # q
        PROVE  OnlyCarrier(q)'
    <3>1. q # r /\ OnlyCarrier(q)
      BY <1>2, <1>3, <2>1, <2>2, <2>4, <1>b DEF CookieIsCurrent
    <3>2. QED
      BY <3>1, <1>3, <2>1, <2>2 DEF OnlyCarrier
  <2>5. \A q \in Requests :
          req'[q].at \in {"load", "granted"} => Current(req[q].fam, req[q].tok)' /\ q # r
    BY <1>3, <2>1, <2>2, <1>b DEF CookieIsCurrent
  <2>6. jar.tok # NoCookie => Current(jar.fam, jar.tok)'
    BY <1>2, <1>3 DEF Refreshing
  <2>7. CookieIsCurrent'
    BY <1>3, <2>1, <2>4, <2>5, <2>6 DEF CookieIsCurrent
  <2>8. NothingCompromised'
    BY <1>3, <2>1, <2>2, <1>b DEF NothingCompromised
  <2>9. QED
    BY <2>3, <2>7, <2>8 DEF Tabs
\* The request goes on.
<1>4. ASSUME NEW l \in Refreshing \ {"load", "compromise"}, req[r].at \in Refreshing, Goto(r, l),
             fams' = fams, jar' = jar, holder' = holder
      PROVE  Tabs'
  <2>1. /\ \A q \in Requests \ {r} : req'[q] = req[q]
        /\ req'[r].at = l /\ req'[r].fam = req[r].fam /\ req'[r].tok = req[r].tok
        /\ req'[r].gone = req[r].gone
    BY <1>4, GotoColumns
  <2>2. OneRefresh'
    BY <1>2, <1>4, <2>1, <1>b DEF OneRefresh
  <2>3. ASSUME NEW q \in Requests, req'[q].at = "granted", holder # q
        PROVE  OnlyCarrier(q)'
    <3>1. q # r /\ OnlyCarrier(q)
      BY <1>2, <1>4, <2>1, <2>3, <1>b DEF CookieIsCurrent
    <3>2. QED
      BY <3>1, <1>4, <2>1 DEF OnlyCarrier
  <2>4. l \notin {"load", "granted", "compromise"}
    BY <1>4 DEF Refreshing
  <2>5. \A q \in Requests :
          req'[q].at \in {"load", "granted"} => Current(req[q].fam, req[q].tok)' /\ q # r
    BY <1>4, <2>1, <2>4, <1>b DEF CookieIsCurrent, Current
  <2>6. jar.tok # NoCookie => Current(jar.fam, jar.tok)'
    BY <1>2, <1>4 DEF Refreshing, Current
  <2>7. CookieIsCurrent'
    BY <1>4, <2>1, <2>3, <2>5, <2>6 DEF CookieIsCurrent
  <2>8. NothingCompromised'
    BY <1>4, <2>1, <2>4, <1>b DEF NothingCompromised
  <2>9. QED
    BY <2>2, <2>7, <2>8 DEF Tabs
<1>5. CASE LoadFamily(r)
  <2>1. req[r].at = "load" /\ Current(req[r].fam, req[r].tok)
    BY <1>5, <1>b DEF LoadFamily, CookieIsCurrent
  <2>2. CASE fams[req[r].fam].status # "active"
    BY <1>3, <1>5, <2>1, <2>2, <1>b DEF LoadFamily, Refreshing, Current, NothingCompromised
  <2>3. CASE fams[req[r].fam].status = "active"
    <3>1. Acceptable(req[r].fam, req[r].tok)
      BY <2>1, <2>3 DEF Current, Acceptable
    <3>2. Goto(r, "user") /\ fams' = fams /\ jar' = jar /\ holder' = holder
      BY <1>5, <2>3, <3>1 DEF LoadFamily
    <3>3. QED
      BY <1>4, <2>1, <3>2 DEF Refreshing
  <2>4. QED
    BY <2>2, <2>3
<1>6. CASE MarkCompromised(r)
  BY <1>6, <1>b DEF MarkCompromised, NothingCompromised
<1>7. CASE CheckUser(r)
  <2>1. /\ req[r].at = "user" /\ fams' = fams /\ jar' = jar /\ holder' = holder
        /\ Goto(r, "revoke") \/ Goto(r, "rotate")
    BY <1>7 DEF CheckUser
  <2>2. QED
    BY <1>4, <2>1 DEF Refreshing
<1>8. CASE RevokeInactive(r)
  <2>1. /\ req[r].at = "revoke" /\ Refuse(r) /\ jar' = jar
        /\ fams' = fams \/ fams' = SetStatus(req[r].fam, "revoked")
    BY <1>8 DEF RevokeInactive, Logged
  <2>2. NoNumber
    BY <2>1, WritesOfStatus
  <2>3. \A f \in Families : \A tok : Current(f, tok) => Current(f, tok)'
    BY <2>2 DEF Current, NoNumber
  <2>4. \A f \in Families : fams'[f].status # "compromised"
    BY <2>1, <1>b, WritesCompromiseNothing
  <2>5. QED
    BY <1>3, <2>1, <2>3, <2>4 DEF Refreshing
<1>9. CASE Rotate(r)
  <2>1. req[r].at = "rotate" /\ fams' = Rotated(req[r].fam) /\ jar' = jar /\ holder' = holder
    BY <1>9 DEF Rotate
  <2>2. /\ \A q \in Requests \ {r} : req'[q] = req[q]
        /\ req'[r].at = "granted" /\ req'[r].fam = req[r].fam
        /\ req'[r].tok = issued + 1 /\ ~req'[r].gone
    BY <1>2, <1>9, <2>1 DEF Rotate, Refreshing, Grant, ReqOK, Idle
  <2>3. /\ \A f \in Families : \A tok : f # req[r].fam /\ Current(f, tok) => Current(f, tok)'
        /\ Current(req[r].fam, req[r].tok)'
        /\ \A f \in Families : fams'[f].status = fams[f].status
    BY <2>1, <2>2, RotatedColumns DEF Current
  <2>4. \A q \in Requests \ {r} : req[q].at = "granted" =>
             OnlyCarrier(q) /\ req[q].fam # req[r].fam /\ Current(req[q].fam, req[q].tok)
    BY <1>2, <2>1, <1>b DEF CookieIsCurrent, OnlyCarrier, Refreshing
  <2>5. OneRefresh'
    BY <1>2, <2>1, <2>2, <1>b DEF OneRefresh, Refreshing
  <2>6. ASSUME NEW q \in Requests, req'[q].at = "granted", holder # q
        PROVE  OnlyCarrier(q)'
    <3>1. q # r /\ OnlyCarrier(q) /\ req[q].fam # req[r].fam
      BY <1>2, <2>1, <2>2, <2>4, <2>6 DEF Refreshing
    <3>2. QED
      BY <3>1, <2>1, <2>2 DEF OnlyCarrier
  <2>7. \A q \in Requests : req'[q].at \in {"load", "granted"} => Current(req[q].fam, req[q].tok)'
    BY <1>2, <2>1, <2>2, <2>3, <2>4 DEF Refreshing
  <2>8. jar.tok # NoCookie =>
          \/ Current(jar.fam, jar.tok)'
          \/ req'[r].at = "granted" /\ holder = r /\ req'[r].fam = jar.fam
    BY <1>2, <2>1, <2>2, <2>3 DEF Refreshing
  <2>9. CookieIsCurrent'
    BY <2>1, <2>6, <2>7, <2>8 DEF CookieIsCurrent
  <2>10. NothingCompromised'
    BY <2>2, <2>3, <1>b DEF NothingCompromised
  <2>11. QED
    BY <2>5, <2>9, <2>10 DEF Tabs
<1>10. CASE RotateFails(r)
  BY <1>10 DEF RotateFails
<1>11. QED
  BY <1>1, <1>5, <1>6, <1>7, <1>8, <1>9, <1>10 DEF Refresh

\* A login or a refresh under a new number, of a family nobody has.
LEMMA CreateTabs ==
  ASSUME TypeOK, Safe, Tabs, NEW r \in Requests, CreateFamily(r)
  PROVE  Tabs'
<1>a. FamsOK /\ JarOK /\ ReqOK
  BY TypeParts
<1> USE <1>a, Members, Numbers
<1>b. OneRefresh /\ CookieIsCurrent /\ NothingCompromised /\ TokensIssued
  BY DEF Tabs, Safe
<1>1. PICK f \in Families :
        /\ Unused(f) /\ Grant(r, f, issued + 1)
        /\ \/ fams' = fams
           \/ fams' = [fams EXCEPT ![f] =
                [status |-> "active", sub |-> req[r].sub, cur |-> issued + 1,
                 prev |-> NoCookie, grace |-> FALSE, secret |-> req[r].secret]]
  BY DEF CreateFamily, Logged
<1>2. /\ req[r].at = "create" /\ ~req[r].gone /\ holder # r
      /\ jar' = jar /\ holder' = holder
  BY <1>b DEF CreateFamily, OneRefresh, Refreshing
<1>3. /\ \A q \in Requests \ {r} : req'[q] = req[q]
      /\ req'[r].at = "granted" /\ req'[r].fam = f
      /\ req'[r].tok = issued + 1 /\ ~req'[r].gone
  BY <1>1, <1>2 DEF Grant, ReqOK, Idle
<1>4. /\ \A g \in Families : \A tok : g # f /\ Current(g, tok) => Current(g, tok)'
      /\ \A g \in Families : fams'[g].status # "compromised"
  <2>1. \A g \in Families \ {f} : fams'[g] = fams[g]
    BY <1>1 DEF FamsOK
  <2>2. fams'[f].status \in {"active", fams[f].status}
    BY <1>1 DEF FamsOK
  <2>3. QED
    BY <2>1, <2>2, <1>b DEF Current, NothingCompromised
<1>5. Current(req[r].fam, req[r].tok)'
  BY <1>1, <1>3 DEF Current, FamsOK, Unused
<1>6. /\ \A q \in Requests \ {r} : req[q].fam = f => req[q].tok = NoCookie
      /\ jar.fam = f => jar.tok = NoCookie
      /\ \A q \in Requests : req[q].at \in Refreshing \cup {"granted"} => req[q].tok # NoCookie
  BY <1>1, <1>b DEF Unused, TokensIssued
<1>7. OneRefresh'
  BY <1>2, <1>3, <1>b DEF OneRefresh, Refreshing
<1>8. ASSUME NEW q \in Requests, req'[q].at = "granted", holder # q
      PROVE  OnlyCarrier(q)'
  <2>1. CASE q = r
    BY <2>1, <1>2, <1>3, <1>6 DEF OnlyCarrier
  <2>2. CASE q # r
    <3>1. OnlyCarrier(q) /\ req[q].fam # f
      BY <1>3, <1>6, <1>8, <2>2, <1>b DEF CookieIsCurrent
    <3>2. QED
      BY <3>1, <2>2, <1>2, <1>3 DEF OnlyCarrier
  <2>3. QED
    BY <2>1, <2>2
<1>9. ASSUME NEW q \in Requests, req'[q].at \in {"load", "granted"}
      PROVE  Current(req[q].fam, req[q].tok)'
  <2>1. CASE q = r
    BY <2>1, <1>5
  <2>2. CASE q # r
    BY <2>2, <1>3, <1>4, <1>6, <1>9, <1>b DEF CookieIsCurrent, Refreshing
  <2>3. QED
    BY <2>1, <2>2
<1>10. ASSUME jar.tok # NoCookie
       PROVE  \/ Current(jar.fam, jar.tok)'
              \/ \E q \in Requests : req'[q].at = "granted" /\ holder = q /\ req'[q].fam = jar.fam
  BY <1>2, <1>3, <1>4, <1>6, <1>10, <1>b DEF CookieIsCurrent
<1>11. CookieIsCurrent'
  BY <1>2, <1>8, <1>9, <1>10 DEF CookieIsCurrent
<1>12. NothingCompromised'
  BY <1>3, <1>4, <1>b DEF NothingCompromised
<1>13. QED
  BY <1>7, <1>11, <1>12 DEF Tabs

\* An answer arrives: what it brings is current, what it replaces is not asked
\* for again.
LEMMA DeliverTabs ==
  ASSUME TypeOK, Safe, Tabs, NEW r \in Requests, Deliver(r)
  PROVE  Tabs'
<1>a. FamsOK /\ JarOK /\ ReqOK
  BY TypeParts
<1> USE <1>a, Members, Numbers
<1>b. OneRefresh /\ CookieIsCurrent /\ NothingCompromised /\ TokensIssued
  BY DEF Tabs, Safe
<1>1. /\ req[r].at \in {"granted", "cleared"} /\ fams' = fams
      /\ req' = [req EXCEPT ![r] = Idle] /\ holder' = Release(r)
  BY DEF Deliver
<1>2. /\ \A q \in Requests \ {r} : req'[q] = req[q]
      /\ req'[r].at = "idle" /\ req'[r].tok = NoCookie /\ ~req'[r].gone
  BY <1>1, IdleColumns DEF ReqOK
<1>3. /\ \A q \in Requests \ {r} : holder = q => holder' = q
      /\ \A q \in Requests : holder' = q => holder = q /\ q # r
  BY <1>1, SessionsAssumption DEF Release
<1>4. CASE req[r].at = "granted"
  <2>1. jar'.tok = req[r].tok /\ jar'.fam = req[r].fam /\ req[r].tok # NoCookie
    BY <1>4, <1>b DEF Deliver, TokensIssued
  <2>2. Current(jar.fam, jar.tok)'
    BY <1>1, <1>4, <2>1, <1>b DEF CookieIsCurrent, Current
  <2>3. QED
    <3>1. OneRefresh'
      BY <1>2, <1>3, <1>b DEF OneRefresh, Refreshing
    <3>2. ASSUME NEW q \in Requests, req'[q].at = "granted", holder' # q
          PROVE  OnlyCarrier(q)'
      <4>1. q # r /\ OnlyCarrier(q) /\ req[q].fam # req[r].fam
        BY <1>2, <1>3, <2>1, <3>2, <1>b DEF CookieIsCurrent, OnlyCarrier
      <4>2. QED
        BY <4>1, <1>2, <2>1 DEF OnlyCarrier
    <3>3. \A q \in Requests : req'[q].at \in {"load", "granted"} => Current(req[q].fam, req[q].tok)'
      BY <1>1, <1>2, <1>b DEF CookieIsCurrent, Current
    <3>4. CookieIsCurrent'
      BY <2>2, <3>2, <3>3 DEF CookieIsCurrent
    <3>5. NothingCompromised'
      BY <1>1, <1>2, <1>b DEF NothingCompromised
    <3>6. QED
      BY <3>1, <3>4, <3>5 DEF Tabs
<1>5. CASE req[r].at = "cleared"
  <2>1. jar'.tok = NoCookie
    BY <1>5 DEF Deliver, JarOK, Jar
  <2>2. holder # r /\ holder' = holder
    BY <1>1, <1>5, <1>b DEF OneRefresh, Refreshing, Release
  <2>3. OneRefresh'
    BY <1>2, <2>2, <1>b DEF OneRefresh, Refreshing
  <2>4. ASSUME NEW q \in Requests, req'[q].at = "granted", holder' # q
        PROVE  OnlyCarrier(q)'
    <3>1. q # r /\ OnlyCarrier(q)
      BY <1>2, <2>2, <2>4, <1>b DEF CookieIsCurrent
    <3>2. QED
      BY <3>1, <1>2, <2>1 DEF OnlyCarrier
  <2>5. \A q \in Requests : req'[q].at \in {"load", "granted"} => Current(req[q].fam, req[q].tok)'
    BY <1>1, <1>2, <1>b DEF CookieIsCurrent, Current
  <2>6. CookieIsCurrent'
    BY <2>1, <2>4, <2>5 DEF CookieIsCurrent
  <2>7. NothingCompromised'
    BY <1>1, <1>2, <1>b DEF NothingCompromised
  <2>8. QED
    BY <2>3, <2>6, <2>7 DEF Tabs
<1>6. QED
  BY <1>1, <1>4, <1>5

LEMMA TabsStep ==
  ASSUME TypeOK, Safe, TabsInv, [Next]_vars
  PROVE  TabsInv'
<1> SUFFICES ASSUME Locks, ~lost'
             PROVE  Tabs'
  BY DEF TabsInv, Tabs
<1>1. ~lost
  BY DEF Next, vars, Login, LoginCheck, UpsertByOIDC, HandleEmailCollision, CreateFamily,
     Refresh, StartRefresh, LoadFamily, MarkCompromised, CheckUser, RevokeInactive, Rotate,
     RotateFails, Logout, ChangeMyPassword, EndAllSessions, Deliver, GiveUp, GraceEnds,
     Admin, LoadTarget, WriteTarget, RevokeById, RevokeByMail, Reactivate
<1>2. Tabs
  BY <1>1 DEF TabsInv, Tabs
<1>3. ASSUME NEW r \in Requests, CreateFamily(r)
      PROVE  Tabs'
  BY <1>2, <1>3, CreateTabs
<1>4. ASSUME NEW r \in Requests, Refresh(r)
      PROVE  Tabs'
  BY <1>2, <1>4, RefreshTabs
<1>5. ASSUME NEW r \in Requests, Deliver(r)
      PROVE  Tabs'
  BY <1>2, <1>5, DeliverTabs
<1>6. ASSUME NEW r \in Requests, GiveUp(r)
      PROVE  Tabs'
  BY <1>6 DEF GiveUp
<1>7. ASSUME NEW r \in Requests,
             \/ LoginCheck(r) \/ UpsertByOIDC(r) \/ HandleEmailCollision(r)
             \/ Logout(r) \/ ChangeMyPassword(r) \/ EndAllSessions(r)
      PROVE  Tabs'
  BY <1>2, <1>7, QuietActions
<1>8. ASSUME (\E f \in Families : GraceEnds(f)) \/ Admin \/ UNCHANGED vars
      PROVE  Tabs'
  BY <1>2, <1>8, QuietActions
<1>9. QED
  BY <1>3, <1>4, <1>5, <1>6, <1>7, <1>8 DEF Next, Login

\* Tabs that take the Web Lock do not compromise their own session as long as
\* no answer of a refresh is lost (attemptRefresh and Refresh).
THEOREM TabsKeep == Spec => []TabsKeepSession
<1>1. Init => TabsInv
  BY TabsInit DEF TabsInv, Tabs
<1>2. TypeOK /\ Safe /\ TabsInv /\ [Next]_vars => TabsInv'
  BY TabsStep
<1>3. TabsInv => TabsKeepSession
  BY DEF TabsInv, NothingCompromised, TabsKeepSession
<1>4. QED
  BY <1>1, <1>2, <1>3, SafeAlways, PTL DEF Spec

=============================================================================
