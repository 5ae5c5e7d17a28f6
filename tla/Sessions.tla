------------------------------ MODULE Sessions ------------------------------
(***************************************************************************)
(* The sessions of one user of AllureDeck: login (by password and by an    *)
(* identity provider), refresh-token rotation with a grace window, logout, *)
(* password change and reset, deactivation.                                *)
(*                                                                         *)
(* A session is a row of refresh_token_families. A login and every refresh *)
(* issue a pair of tokens, numbered in the order of issue. One browser     *)
(* keeps the last pair it was given in its cookies; its tabs send requests *)
(* concurrently and, when the browser has Web Locks, refresh one after the *)
(* other. A step is one database statement of the server or one thing the  *)
(* browser sees; a request arrives when it is sent, so what it carries is  *)
(* read in its first step, and an error answer, which changes no cookie,   *)
(* arrives at once.                                                        *)
(*                                                                         *)
(* What the access token opens, its blacklist and the cache in front of    *)
(* is_active are in the module ActiveCache. Tokens do not expire here: an  *)
(* expired token is refused like one that was never issued.                *)
(***************************************************************************)
EXTENDS Naturals, FiniteSets

CONSTANTS
    Requests,   \* requests the browser may have in flight at once
    Families,   \* refresh-token families, one per login
    Mails,      \* email addresses the user may have
    MaxToken,   \* bound: token pairs issued in a behaviour
    MaxSecret,  \* bound: passwords the user has one after the other
    AutoLink,   \* OIDC_AUTO_LINK_BY_EMAIL with a verified address
    Locks,      \* does the browser have Web Locks?
    ById,       \* the sub of a local login: the numeric id of the user
    NoRequest,  \* nobody holds the lock
    Faults      \* writes that may fail, and answers that may be lost

NoCookie == 0     \* the browser has no tokens

FaultNames == {"create", "revoke", "compromise", "rotate", "blacklist", "answer"}

ASSUME SessionsAssumption ==
    /\ {MaxToken, MaxSecret} \subseteq Nat \ {0}
    /\ {AutoLink, Locks} \subseteq BOOLEAN
    /\ Faults \subseteq FaultNames
    /\ NoRequest \notin Requests
    /\ ById \notin Mails
    /\ Families # {} /\ Mails # {}

VARIABLES
    user,    \* the row of users: active, provider, mail, secret (password_hash)
    fams,    \* rows of refresh_token_families
    black,   \* jwt_blacklist: the refresh tokens in it
    issued,  \* how many token pairs were issued
    jar,     \* the cookies: number of the pair and its family
    req,     \* requests in flight: label and local variables of the handler
    adm,     \* the administrator's request
    holder,  \* the request that holds the lock allure-auth-refresh
    lost     \* history: has an answer of a refresh been lost?

vars == <<user, fams, black, issued, jar, req, adm, holder, lost>>

Token     == 0 .. MaxToken
Secret    == 1 .. MaxSecret
Sub       == {ById} \union Mails    \* a family's sub: the id, or an address
Status    == {"none", "active", "revoked", "compromised"}
Providers == {"local", "oidc"}

AnyFamily == CHOOSE f \in Families : TRUE
AnyMail   == CHOOSE m \in Mails : TRUE

Labels ==
    {"idle", "create",                                   \* login
     "load", "compromise", "user", "revoke", "rotate",   \* refresh
     "endall",                                           \* password change
     "granted", "cleared"}                               \* answers on their way

Idle == [at |-> "idle", fam |-> AnyFamily, tok |-> NoCookie, sub |-> ById,
         secret |-> 1, over |-> "no", gone |-> FALSE]

(* over is history: why the session had ended when a refresh was sent.     *)
(* gone: the client has given up on the request.                           *)
Request == [at : Labels, fam : Families, tok : Token, sub : Sub,
            secret : Secret, over : {"no", "user", "family"}, gone : BOOLEAN]

AdminIdle == [at |-> "idle", kind |-> "reset", mail |-> AnyMail, provider |-> "local"]

NoFamily == [status |-> "none", sub |-> ById, cur |-> NoCookie,
             prev |-> NoCookie, grace |-> FALSE, secret |-> 1]

TypeOK ==
    /\ user \in [active : BOOLEAN, provider : Providers, mail : Mails, secret : Secret]
    /\ fams \in [Families -> [status : Status, sub : Sub, cur : Token,
                              prev : Token, grace : BOOLEAN, secret : Secret]]
    /\ black \subseteq Token
    /\ issued \in Token
    /\ jar \in [tok : Token, fam : Families]
    /\ req \in [Requests -> Request]
    /\ adm \in [at : {"idle", "write", "byid", "bymail"},
                kind : {"deactivate", "reset"}, mail : Mails, provider : Providers]
    /\ holder \in Requests \union {NoRequest}
    /\ lost \in BOOLEAN

Init ==
    /\ user = [active |-> TRUE, provider |-> "local", mail |-> AnyMail, secret |-> 1]
    /\ fams = [f \in Families |-> NoFamily]
    /\ black = {}
    /\ issued = 0
    /\ jar = [tok |-> NoCookie, fam |-> AnyFamily]
    /\ req = [r \in Requests |-> Idle]
    /\ adm = AdminIdle
    /\ holder = NoRequest
    /\ lost = FALSE

-----------------------------------------------------------------------------
(* Helpers. *)

Goto(r, label) == req' = [req EXCEPT ![r].at = label]

Release(r) == IF holder = r THEN NoRequest ELSE holder

(* The request is over, its answer has no tokens. *)
Refuse(r) == req' = [req EXCEPT ![r] = Idle] /\ holder' = Release(r)

(* An answer with tokens, unless nobody waits for it. *)
Grant(r, f, tok) ==
    req' = [req EXCEPT ![r] =
              IF req[r].gone THEN Idle
              ELSE [Idle EXCEPT !.at = "granted", !.fam = f, !.tok = tok,
                                !.over = req[r].over]]

(* A write that is only logged when it fails: the state is as it was, or   *)
(* as the write makes it.                                                  *)
Logged(name, ok, not) == ok \/ (name \in Faults /\ not)

(* RevokeAllForUser: every active family of that sub is revoked. *)
RevokeAll(sub) ==
    [f \in Families |-> IF fams[f].sub = sub /\ fams[f].status = "active"
                        THEN [fams[f] EXCEPT !.status = "revoked"]
                        ELSE fams[f]]

(* setStatus: whatever the status was before.  No row, no effect. *)
SetStatus(f, status) ==
    [fams EXCEPT ![f].status = IF @ = "none" THEN @ ELSE status]

(* A token is as good as its signature until it is blacklisted. *)
Valid(tok) == tok # NoCookie /\ tok \notin black

(* Mutant: a user who is not found is active. *)
KnownAndInactive(f) == fams[f].sub \in {ById, user.mail} /\ ~user.active

(* The user a family names is deactivated or is not found. *)
FamilyUserInactive(f) == fams[f].sub \in {ById, user.mail} => ~user.active

(* The presented token is the current one, or the one before it while the  *)
(* grace window is open.                                                   *)
Acceptable(f, tok) ==
    \/ tok = fams[f].cur
    \/ tok = fams[f].prev /\ fams[f].grace

-----------------------------------------------------------------------------
(* Login by password: the row of users is read, then the family's row is   *)
(* written, whose failure does not fail the login. A refused login changes *)
(* nothing here; what it does to the throttle is in LoginLimits.           *)

SentLogin(r, sub) ==
    req' = [req EXCEPT ![r] = [Idle EXCEPT !.at = "create", !.sub = sub,
                                           !.secret = user.secret]]

LoginCheck(r) ==
    /\ req[r].at = "idle"
    /\ user.provider = "local" /\ user.active
    /\ SentLogin(r, ById)
    /\ UNCHANGED <<user, fams, black, issued, jar, adm, holder, lost>>

(* Login by the identity provider: the row is found by its subject and     *)
(* updated, the address with it, before is_active is looked at.            *)
UpsertByOIDC(r) ==
    /\ req[r].at = "idle"
    /\ user.provider = "oidc"
    /\ \E m \in Mails :
         /\ user' = [user EXCEPT !.mail = m]
         /\ IF user.active THEN SentLogin(r, m) ELSE UNCHANGED req
    /\ UNCHANGED <<fams, black, issued, jar, adm, holder, lost>>

(* A local row with the address is a collision, refused unless AutoLink    *)
(* turns the row into one of the provider.                                 *)
HandleEmailCollision(r) ==
    /\ req[r].at = "idle"
    /\ user.provider = "local"
    /\ AutoLink
    /\ user' = [user EXCEPT !.provider = "oidc"]
    /\ IF user.active THEN SentLogin(r, user.mail) ELSE UNCHANGED req
    /\ UNCHANGED <<fams, black, issued, jar, adm, holder, lost>>

(* A family's id is random: no token anybody holds names it. *)
Unused(f) ==
    /\ fams[f].status = "none"
    /\ \A q \in Requests : req[q].fam = f => req[q].tok = NoCookie
    /\ jar.fam = f => jar.tok = NoCookie

CreateFamily(r) ==
    /\ req[r].at = "create"
    /\ issued < MaxToken
    /\ issued' = issued + 1
    /\ \E f \in Families :
         /\ Unused(f)
         /\ Logged("create",
                fams' = [fams EXCEPT ![f] =
                    [status |-> "active", sub |-> req[r].sub, cur |-> issued + 1,
                     prev |-> NoCookie, grace |-> FALSE, secret |-> req[r].secret]],
                UNCHANGED fams)
         /\ Grant(r, f, issued + 1)
    /\ UNCHANGED <<user, black, jar, adm, holder, lost>>

-----------------------------------------------------------------------------
(* Refresh.  With Web Locks the browser sends one at a time. *)

WhyOver(f) ==
    CASE fams[f].status # "active" -> "family"
      [] ~user.active              -> "user"
      [] OTHER                     -> "no"

(* Mutant: single flight within a tab. *)
StartRefreshUnlocked(r) ==
    /\ req[r].at = "idle"
    /\ Valid(jar.tok)
    /\ holder' = IF Locks THEN r ELSE holder
    /\ req' = [req EXCEPT ![r] = [Idle EXCEPT !.at = "load", !.fam = jar.fam,
                                   !.tok = jar.tok, !.over = WhyOver(jar.fam)]]
    /\ UNCHANGED <<user, fams, black, issued, jar, adm, lost>>

StartRefresh(r) ==
    /\ req[r].at = "idle"
    /\ Valid(jar.tok)
    /\ Locks => holder = NoRequest
    /\ holder' = IF Locks THEN r ELSE holder
    /\ req' = [req EXCEPT ![r] = [Idle EXCEPT !.at = "load", !.fam = jar.fam,
                                   !.tok = jar.tok, !.over = WhyOver(jar.fam)]]
    /\ UNCHANGED <<user, fams, black, issued, jar, adm, lost>>

(* GetByID and the decision on the row it returned. *)
LoadFamily(r) ==
    LET f == req[r].fam IN
    /\ req[r].at = "load"
    /\ IF fams[f].status # "active" THEN Refuse(r)
       ELSE /\ Goto(r, IF Acceptable(f, req[r].tok) THEN "user" ELSE "compromise")
            /\ UNCHANGED holder
    /\ UNCHANGED <<user, fams, black, issued, jar, adm, lost>>

MarkCompromised(r) ==
    /\ req[r].at = "compromise"
    /\ Logged("compromise", fams' = SetStatus(req[r].fam, "compromised"), UNCHANGED fams)
    /\ Refuse(r)
    /\ UNCHANGED <<user, black, issued, jar, adm, lost>>

CheckUser(r) ==
    /\ req[r].at = "user"
    /\ Goto(r, IF FamilyUserInactive(req[r].fam) THEN "revoke" ELSE "rotate")
    /\ UNCHANGED <<user, fams, black, issued, jar, adm, holder, lost>>

RevokeInactive(r) ==
    /\ req[r].at = "revoke"
    /\ Logged("revoke", fams' = SetStatus(req[r].fam, "revoked"), UNCHANGED fams)
    /\ Refuse(r)
    /\ UNCHANGED <<user, black, issued, jar, adm, lost>>

(* The rotation is one UPDATE, of a row of any status. *)
Rotated(f) ==
    [fams EXCEPT ![f].prev = fams[f].cur, ![f].cur = issued + 1, ![f].grace = TRUE]

(* Mutant: previous_jti is the presented token. *)
RotatePresented(r) ==
    /\ req[r].at = "rotate"
    /\ issued < MaxToken
    /\ issued' = issued + 1
    /\ fams' = [fams EXCEPT ![req[r].fam].prev = req[r].tok,
                            ![req[r].fam].cur = issued + 1, ![req[r].fam].grace = TRUE]
    /\ Grant(r, req[r].fam, issued + 1)
    /\ UNCHANGED <<user, black, jar, adm, holder, lost>>

Rotate(r) ==
    /\ req[r].at = "rotate"
    /\ issued < MaxToken
    /\ issued' = issued + 1
    /\ fams' = Rotated(req[r].fam)
    /\ Grant(r, req[r].fam, issued + 1)
    /\ UNCHANGED <<user, black, jar, adm, holder, lost>>

(* The handler sees an error; the statement may have taken effect. *)
RotateFails(r) ==
    /\ "rotate" \in Faults
    /\ req[r].at = "rotate"
    /\ issued < MaxToken
    /\ issued' = issued + 1
    /\ fams' \in {fams, Rotated(req[r].fam)}
    /\ lost' = TRUE
    /\ Refuse(r)
    /\ UNCHANGED <<user, black, jar, adm>>

(* Thirty seconds after the last rotation. *)
GraceEnds(f) ==
    /\ fams[f].grace
    /\ fams' = [fams EXCEPT ![f].grace = FALSE]
    /\ UNCHANGED <<user, black, issued, jar, req, adm, holder, lost>>

-----------------------------------------------------------------------------
(* Logout, with the cookies of the browser: the family of the refresh      *)
(* token is revoked and the refresh token blacklisted.                     *)

Logout(r) ==
    /\ req[r].at = "idle"
    /\ jar.tok # NoCookie
    /\ IF Valid(jar.tok)
       THEN /\ Logged("revoke", fams' = SetStatus(jar.fam, "revoked"), UNCHANGED fams)
            /\ Logged("blacklist", black' = black \union {jar.tok}, UNCHANGED black)
       ELSE UNCHANGED <<fams, black>>
    /\ req' = [req EXCEPT ![r] = [Idle EXCEPT !.at = "cleared"]]
    /\ UNCHANGED <<user, issued, jar, adm, holder, lost>>

(* ChangeMyPassword, in a session of a local login only: sub must be the   *)
(* numeric id. The sessions are ended after the password is written.       *)
ChangeMyPassword(r) ==
    /\ req[r].at = "idle"
    /\ jar.tok # NoCookie /\ fams[jar.fam].sub = ById
    /\ user.provider = "local" /\ user.active
    /\ user.secret < MaxSecret
    /\ user' = [user EXCEPT !.secret = @ + 1]
    /\ req' = [req EXCEPT ![r] = [Idle EXCEPT !.at = "endall"]]
    /\ UNCHANGED <<fams, black, issued, jar, adm, holder, lost>>

EndAllSessions(r) ==
    /\ req[r].at = "endall"
    /\ Logged("revoke", fams' = RevokeAll(ById), UNCHANGED fams)
    /\ req' = [req EXCEPT ![r] = Idle]
    /\ UNCHANGED <<user, black, issued, jar, adm, holder, lost>>

-----------------------------------------------------------------------------
(* The browser. An answer with tokens replaces the cookies, the answer of  *)
(* a logout clears them.                                                   *)

Deliver(r) ==
    /\ req[r].at \in {"granted", "cleared"}
    /\ jar' = IF req[r].at = "granted" THEN [tok |-> req[r].tok, fam |-> req[r].fam]
              ELSE [jar EXCEPT !.tok = NoCookie]
    /\ req' = [req EXCEPT ![r] = Idle]
    /\ holder' = Release(r)
    /\ UNCHANGED <<user, fams, black, issued, adm, lost>>

(* The answer of a refresh will not arrive: the connection breaks, or the  *)
(* client gives up after 30 seconds while the server still works on it.    *)
GiveUp(r) ==
    /\ "answer" \in Faults
    /\ holder = r
    /\ holder' = NoRequest
    /\ req' = [req EXCEPT ![r] = IF @.at = "granted" THEN Idle ELSE [@ EXCEPT !.gone = TRUE]]
    /\ lost' = TRUE
    /\ UNCHANGED <<user, fams, black, issued, jar, adm>>

-----------------------------------------------------------------------------
(* The administrator: Update with active = false and Delete (deactivate),  *)
(* Update with active = true (Reactivate), ResetUserPassword (reset).      *)

(* GetByID of the target; a reset is refused for an account without a      *)
(* password of its own.                                                    *)
LoadTarget ==
    /\ adm.at = "idle"
    /\ \E k \in {"deactivate", "reset"} :
         /\ k = "reset" => user.provider = "local" /\ user.secret < MaxSecret
         /\ adm' = [at |-> "write", kind |-> k, mail |-> user.mail, provider |-> user.provider]
    /\ UNCHANGED <<user, fams, black, issued, jar, req, holder, lost>>

WriteTarget ==
    /\ adm.at = "write"
    /\ \/ adm.kind = "deactivate" /\ user' = [user EXCEPT !.active = FALSE]
       \/ adm.kind = "reset" /\ user.secret < MaxSecret
                             /\ user' = [user EXCEPT !.secret = @ + 1]
    /\ adm' = [adm EXCEPT !.at = "byid"]
    /\ UNCHANGED <<fams, black, issued, jar, req, holder, lost>>

RevokeById ==
    /\ adm.at = "byid"
    /\ Logged("revoke", fams' = RevokeAll(ById), UNCHANGED fams)
    /\ adm' = IF adm.kind = "deactivate" /\ adm.provider = "oidc"
              THEN [adm EXCEPT !.at = "bymail"] ELSE AdminIdle
    /\ UNCHANGED <<user, black, issued, jar, req, holder, lost>>

RevokeByMail ==
    /\ adm.at = "bymail"
    /\ Logged("revoke", fams' = RevokeAll(adm.mail), UNCHANGED fams)
    /\ adm' = AdminIdle
    /\ UNCHANGED <<user, black, issued, jar, req, holder, lost>>

(* Reactivation. A request the deactivation would have refused may now be  *)
(* granted, unless its family has ended.                                   *)
Reactivate ==
    /\ adm.at = "idle"
    /\ ~user.active
    /\ user' = [user EXCEPT !.active = TRUE]
    /\ req' = [r \in Requests |->
                 [req[r] EXCEPT !.over = IF @ = "user" THEN "no" ELSE @]]
    /\ UNCHANGED <<fams, black, issued, jar, adm, holder, lost>>

-----------------------------------------------------------------------------
Login(r) ==
    LoginCheck(r) \/ UpsertByOIDC(r) \/ HandleEmailCollision(r) \/ CreateFamily(r)

Refresh(r) ==
    \/ StartRefresh(r) \/ LoadFamily(r) \/ MarkCompromised(r) \/ CheckUser(r)
    \/ RevokeInactive(r) \/ Rotate(r) \/ RotateFails(r)

Admin == LoadTarget \/ WriteTarget \/ RevokeById \/ RevokeByMail \/ Reactivate

Next ==
    \/ \E r \in Requests :
         \/ Login(r) \/ Refresh(r) \/ Logout(r)
         \/ ChangeMyPassword(r) \/ EndAllSessions(r)
         \/ Deliver(r) \/ GiveUp(r)
    \/ \E f \in Families : GraceEnds(f)
    \/ Admin

Spec == Init /\ [][Next]_vars

-----------------------------------------------------------------------------
(* A refresh that is about to mark its family compromised presents a token *)
(* that is not acceptable, now as when the row was read: the decision is   *)
(* made on a copy of the row, and rotations of other requests come in      *)
(* between, but a superseded token never becomes acceptable again          *)
(* (handlers/auth.go, reuse detection).                                    *)
CompromiseIsStable ==
    \A r \in Requests :
        req[r].at = "compromise" => ~Acceptable(req[r].fam, req[r].tok)

(* A refresh sent after its session ended is refused: the family had been  *)
(* revoked or compromised, or the user was deactivated and has not been    *)
(* reactivated since, however the login named the user and whatever the    *)
(* best-effort revocations missed (Refresh and familyUserInactive).        *)
EndedSessionsStayEnded ==
    \A r \in Requests :
        req[r].at \in {"rotate", "granted"} => req[r].over = "no"

(* Tabs of a browser with Web Locks do not compromise their own session,   *)
(* as long as no answer of a refresh is lost: the cookie a refresh         *)
(* presents is the current token (attemptRefresh and Refresh).             *)
TabsKeepSession ==
    Locks /\ ~lost => \A f \in Families : fams[f].status # "compromised"

(* Statements of comments that a race defeats (see README). *)

(* "any concurrent refresh attempt from another tab fails immediately"     *)
(* (Logout): only an active family is rotated.                             *)
OnlyActiveRotate ==
    [][\A f \in Families : fams'[f].cur # fams[f].cur /\ fams[f].cur # NoCookie
            => fams[f].status = "active"]_vars

(* "The 30s grace window absorbs benign multi-tab races" (Refresh): no tab *)
(* compromises the session if every answer arrives, Web Locks or not.      *)
AnyTabsKeepSession ==
    ~lost => \A f \in Families : fams[f].status # "compromised"

(* "invalidate every active refresh-token family for the target" (Reset-   *)
(* UserPassword): when no request is in flight no session of an older      *)
(* password is active.                                                     *)
OldPasswordEnds ==
    adm.at = "idle" /\ (\A r \in Requests : req[r].at = "idle") =>
        \A f \in Families :
            fams[f].status = "active" /\ fams[f].sub = ById => fams[f].secret = user.secret

=============================================================================
