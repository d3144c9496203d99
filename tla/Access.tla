------------------------------- MODULE Access -------------------------------
(***************************************************************************)
(* Sign-in, sessions, emailed codes, trusted devices and the admin panel's *)
(* edits of accounts (apps/api/auth_backend.py, auth_serializers.py,       *)
(* routers/device_views.py, password_views.py, users_views.py,             *)
(* services/otp_service.py, token_revocation.py).                          *)
(*                                                                         *)
(* Every handler is a web request that runs beside others.  No transaction *)
(* spans a request (ATOMIC_REQUESTS is off), so each statement, or each    *)
(* transaction.atomic block, is one step, and what a request read in an    *)
(* earlier step (snap, the account row as it was) may be old by then.      *)
(* Times are events: a lock lapses, a code or a token expires, the day of  *)
(* counted wrong codes ends.                                               *)
(***************************************************************************)
EXTENDS Integers, Sequences, FiniteSets

CONSTANTS
    Users,        \* accounts
    Owner,        \* settings.OWNER_EMAIL: the only one who changes an admin
    Holder,       \* the account signed in at the start
    Reqs,         \* requests in flight at once
    MaxFails,     \* _MAX_FAILED_ATTEMPTS
    MaxAttempts,  \* otp_service._MAX_ATTEMPTS
    MaxDaily,     \* otp_service._MAX_DAILY_FAILURES
    MaxRequests,  \* bound: requests started
    MaxTokens,    \* bound: sessions ever issued
    MaxEvents     \* bound: lapses, expiries, pruning and crashes

ASSUME AccessAssumption ==
    /\ {Owner, Holder} \subseteq Users
    /\ {MaxFails, MaxAttempts, MaxDaily} \subseteq Nat \ {0}
    /\ {MaxRequests, MaxTokens, MaxEvents} \subseteq Nat

Purposes == {"login", "change", "reset"}

(* A PTUser row.  locked_until is past ("lapsed") until something clears   *)
(* it; the day of wrong codes likewise.                                    *)
Row == [role : {"admin", "user"}, active : BOOLEAN, fails : 0..(MaxFails - 1),
        lock : {"none", "held", "lapsed"}, ver : Nat, pwd : Nat,
        codeFails : Nat, codeDay : {"none", "open", "past"}]

(* An issued refresh token with the access token minted beside it: its     *)
(* "ver" claim and the token it was rotated from (0 at a sign-in).  Three  *)
(* fields are ghosts, kept through rotations: given, the password that was *)
(* checked at its sign-in (or set by the change that issued it); by, what  *)
(* completed it, that password on a trusted browser or an emailed code;    *)
(* pwd, the password of the account's row it was issued on.                *)
Token == [user : Users, ver : Nat, pwd : Nat, given : Nat, by : {"password", "code"}, from : Nat]

(* pending_user_id, as the password checked at the sign-in that left it.   *)
NoSignIn == -1
SignIns == Nat \cup {NoSignIn}

NoCode == -1
Codes == NoCode..MaxAttempts

(* What an admin's PATCH asks for; "rename" stands for the columns no      *)
(* property is about.                                                      *)
Edits == {"promote", "demote", "activate", "deactivate", "rename", "delete"}

VARIABLES
    row,       \* pt_users
    accounts,  \* the rows that exist
    tok,       \* tokens issued, in order
    spent,     \* refresh tokens whose jti is in pt_revoked_refresh_tokens
    out,       \* access tokens whose jti is there
    expired,   \* tokens past their exp claim
    devices,   \* accounts with a TrustedDevice row for their browser
    pending,   \* the sign-in each browser session holds in pending_user_id
    code,      \* pt_otp_codes: wrong tries so far, per account and purpose
    resets,    \* the cache's count of wrong reset codes
    req,       \* the requests in flight
    started, events,  \* the bounds' counters
    wrong,     \* ghost: wrong passwords since the last success, reset or lock
    spoiled    \* ghost: accounts an admin's edit acted on an old copy of, or
               \* whose password change died before it revoked anything

vars == <<row, accounts, tok, spent, out, expired, devices, pending, code,
          resets, req, started, events, wrong, spoiled>>
sessions == <<tok, spent, out, expired>>
people == <<row, accounts, wrong, spoiled>>
trust == <<devices, pending, code, resets>>
-----------------------------------------------------------------------------
FreshRow(r) == [role |-> r, active |-> TRUE, fails |-> 0, lock |-> "none",
                ver |-> 0, pwd |-> 0, codeFails |-> 0, codeDay |-> "none"]

IsActiveAdmin(u) == u \in accounts /\ row[u].role = "admin" /\ row[u].active

Idle == [op |-> "none", at |-> "idle", user |-> Owner, ok |-> FALSE,
         snap |-> FreshRow("user"), given |-> 0, tok |-> 0, edit |-> "rename"]

(* Holder is signed in on its trusted browser, the others are not.         *)
Init ==
    /\ row \in {f \in [Users -> {FreshRow("admin"), FreshRow("user")}] :
                  f[Owner].role = "admin"}
    /\ accounts = Users
    /\ tok = <<[user |-> Holder, ver |-> 0, pwd |-> 0, given |-> 0,
                by |-> "password", from |-> 0]>>
    /\ devices = {Holder}
    /\ spent = {} /\ out = {} /\ expired = {}
    /\ pending = [u \in Users |-> NoSignIn]
    /\ code = [u \in Users |-> [p \in Purposes |-> NoCode]]
    /\ resets = [u \in Users |-> 0]
    /\ req = [r \in Reqs |-> Idle]
    /\ started = 0 /\ events = 0
    /\ wrong = [u \in Users |-> 0]
    /\ spoiled = {}

-----------------------------------------------------------------------------
(* Requests: how one starts, moves to its next statement and ends.         *)

Begin(r, new) ==
    /\ req[r].at = "idle"
    /\ started < MaxRequests
    /\ started' = started + 1
    /\ req' = [req EXCEPT ![r] = new]
    /\ UNCHANGED events

Goto(r, at) == /\ req' = [req EXCEPT ![r].at = at]
               /\ UNCHANGED <<started, events>>

End(r) == /\ req' = [req EXCEPT ![r] = Idle]
          /\ UNCHANGED <<started, events>>

(* given, a ghost, is the password the request's session would stand on:   *)
(* the one that signed in, now or when the pending session began.          *)
Request(op, at, u, ok, i, e) ==
    [op |-> op, at |-> at, user |-> u, ok |-> ok, snap |-> row[u], tok |-> i, edit |-> e,
     given |-> IF op = "login" THEN pending[u] ELSE row[u].pwd]

(* The token a request authenticates with: PTJWTAuthentication.get_user.   *)
Current(i) == LET t == tok[i] IN
    /\ t.user \in accounts
    /\ row[t.user].active
    /\ t.ver = row[t.user].ver
    /\ i \notin expired
AccessWorks(i) == Current(i) /\ i \notin out
RefreshWorks(i) == Current(i) /\ i \notin spent
SignedIn(u) == \E i \in DOMAIN tok : tok[i].user = u /\ AccessWorks(i)

(* PTTokenObtainPairSerializer.get_token on the copy r of u's row, or a    *)
(* rotation, which keeps the claims of the token r; given and by are the   *)
(* ghosts of the new token.                                                *)
\* Mutant: the version is read again when the token is made.
Claimed_Latest(u, r) == row[u].ver
Claimed(u, r) == r.ver

Mint(u, r, given, by, from) ==
    /\ Len(tok) < MaxTokens
    /\ tok' = Append(tok, [user |-> u, ver |-> Claimed(u, r), pwd |-> r.pwd,
                           given |-> given, by |-> by, from |-> from])

(* generate_otp: the code of this account and purpose is replaced, unless  *)
(* a verification holds its row.                                           *)
CodeHeld(u, p) == \E r \in Reqs : /\ req[r].at = "judge"
                                  /\ req[r].user = u
                                  /\ req[r].op = p
Issue(u, p) == /\ ~CodeHeld(u, p)
               /\ code' = [code EXCEPT ![u][p] = 0]

-----------------------------------------------------------------------------
(* Sign-in: PTUserBackend.authenticate, then the device gate.              *)

(* _register_failed_attempt: counts on the row as it is now, under its     *)
(* lock; the caller's copy is not used.                                    *)
\* Mutant: counts on from the caller's copy.
FailedRow_Stale(now, snap) ==
    IF snap.fails + 1 >= MaxFails
    THEN [now EXCEPT !.fails = 0, !.lock = "held"]
    ELSE [now EXCEPT !.fails = snap.fails + 1]
FailedRow(now, snap) ==
    IF now.fails + 1 >= MaxFails
    THEN [now EXCEPT !.fails = 0, !.lock = "held"]
    ELSE [now EXCEPT !.fails = now.fails + 1]

Cleared(o) == [o EXCEPT !.fails = 0, !.lock = "none"]

RegisterFailed(u, snap) ==
    /\ row' = [row EXCEPT ![u] = FailedRow(row[u], snap)]
    /\ wrong' = [wrong EXCEPT ![u] = IF @ + 1 >= MaxFails THEN 0 ELSE @ + 1]

SignIn(r, u, ok) ==
    /\ u \in accounts
    /\ row[u].lock # "held"
    /\ Begin(r, Request("sign_in", "password", u, ok, 0, "rename"))
    /\ UNCHANGED <<people, sessions, trust>>

(* After the bcrypt check: a success clears the counters if the copy read  *)
(* at the start had any, a failure is counted.                             *)
CheckPassword(r) ==
    LET q == req[r]
        u == q.user
        clears == q.snap.fails > 0 \/ q.snap.lock # "none"
    IN
    /\ q.at = "password"
    /\ IF u \notin accounts
       THEN UNCHANGED people
       ELSE IF ~q.ok
            THEN RegisterFailed(u, q.snap) /\ UNCHANGED <<accounts, spoiled>>
            ELSE /\ row' = IF clears THEN [row EXCEPT ![u] = Cleared(row[u])] ELSE row
                 /\ wrong' = IF clears THEN [wrong EXCEPT ![u] = 0] ELSE wrong
                 /\ UNCHANGED <<accounts, spoiled>>
    /\ IF q.ok /\ q.snap.active THEN Goto(r, "device") ELSE End(r)
    /\ UNCHANGED <<sessions, trust>>

(* A trusted browser gets its tokens; another one a code by e-mail and,    *)
(* for the password just checked, a pending session.                       *)
DeviceGate(r) ==
    LET u == req[r].user IN
    /\ req[r].at = "device"
    /\ IF u \in devices
       THEN /\ Mint(u, req[r].snap, req[r].given, "password", 0)
            /\ UNCHANGED <<spent, out, expired, trust>>
       ELSE /\ Issue(u, "login")
            /\ pending' = [pending EXCEPT ![u] = req[r].given]
            /\ UNCHANGED <<sessions, devices, resets>>
    /\ End(r)
    /\ UNCHANGED people

-----------------------------------------------------------------------------
(* Codes asked for: change-password/request, password-reset/request.       *)

AskToChange(r, u, ok) ==
    /\ u \in accounts
    /\ SignedIn(u)
    /\ req[r].at = "idle" /\ started < MaxRequests
    /\ started' = started + 1
    /\ IF ok THEN Issue(u, "change") /\ UNCHANGED <<row, wrong>>
             ELSE RegisterFailed(u, row[u]) /\ UNCHANGED code
    /\ UNCHANGED <<accounts, spoiled, sessions, devices, pending, resets, req, events>>

AskToReset(r, u) ==
    /\ u \in accounts
    /\ row[u].active
    /\ req[r].at = "idle" /\ started < MaxRequests
    /\ started' = started + 1
    /\ Issue(u, "reset")
    /\ UNCHANGED <<people, sessions, devices, pending, resets, req, events>>

(* A code typed in: device-verify, change-password/confirm and             *)
(* password-reset/confirm read the account first.                          *)
MayEnter(u, p) == CASE p = "login"  -> pending[u] # NoSignIn /\ row[u].active
                    [] p = "change" -> SignedIn(u)
                    [] p = "reset"  -> row[u].active

EnterCode(r, u, p, ok) ==
    /\ u \in accounts
    /\ MayEnter(u, p)
    /\ Begin(r, Request(p, "code", u, ok, 0, "rename"))
    /\ UNCHANGED <<people, sessions, trust>>

(* verify_otp takes the code's row lock, then looks at the day's count,    *)
(* which for "login" and "change" is the account's and not locked.         *)
\* Mutant: one try past the day's limit.
Exhausted_Late(u, p) == IF p = "reset" THEN resets[u] > MaxDaily
                                  ELSE row[u].codeFails > MaxDaily /\ row[u].codeDay = "open"
Exhausted(u, p) == IF p = "reset" THEN resets[u] >= MaxDaily
                                  ELSE row[u].codeFails >= MaxDaily /\ row[u].codeDay = "open"

TakeCode(r) ==
    LET u == req[r].user
        p == req[r].op
    IN
    /\ req[r].at = "code"
    /\ ~CodeHeld(u, p)
    /\ IF u \notin accounts \/ code[u][p] = NoCode
       THEN End(r) /\ UNCHANGED code
       ELSE IF Exhausted(u, p) \/ code[u][p] + 1 > MaxAttempts
            THEN End(r) /\ code' = [code EXCEPT ![u][p] = NoCode]
            ELSE Goto(r, "judge") /\ UNCHANGED code
    /\ UNCHANGED <<people, sessions, devices, pending, resets>>

(* _record_failure and _clear_failures.                                    *)
CountedCode(o) == IF o.codeDay = "open"
                  THEN [o EXCEPT !.codeFails = o.codeFails + 1]
                  ELSE [o EXCEPT !.codeFails = 1, !.codeDay = "open"]

Believed(o) == [o EXCEPT !.codeFails = 0, !.codeDay = "none"]

WrongCode(r) ==
    LET u == req[r].user
        p == req[r].op
    IN
    /\ req[r].at = "judge" /\ ~req[r].ok
    /\ code' = [code EXCEPT ![u][p] = code[u][p] + 1]
    /\ IF p = "reset"
       THEN resets' = [resets EXCEPT ![u] = @ + 1] /\ UNCHANGED row
       ELSE /\ row' = IF u \in accounts THEN [row EXCEPT ![u] = CountedCode(row[u])] ELSE row
            /\ UNCHANGED resets
    /\ End(r)
    /\ UNCHANGED <<accounts, wrong, spoiled, sessions, devices, pending>>

AfterCode(p) == CASE p = "login" -> "register" [] p = "change" -> "save" [] p = "reset" -> "reset"

RightCode(r) ==
    LET u == req[r].user
        p == req[r].op
    IN
    /\ req[r].at = "judge" /\ req[r].ok
    /\ code' = [code EXCEPT ![u][p] = NoCode]
    /\ IF p = "reset"
       THEN resets' = [resets EXCEPT ![u] = 0] /\ UNCHANGED row
       ELSE /\ row' = IF u \in accounts THEN [row EXCEPT ![u] = Believed(row[u])] ELSE row
            /\ UNCHANGED resets
    /\ Goto(r, AfterCode(p))
    /\ UNCHANGED <<accounts, wrong, spoiled, sessions, devices, pending>>

(* device_verify: tokens from the row read at its start, whatever password *)
(* the pending sign-in had given; then the browser is trusted.             *)
RegisterDevice(r) ==
    LET u == req[r].user IN
    /\ req[r].at = "register"
    /\ IF u \in accounts
       THEN /\ Mint(u, req[r].snap, req[r].given, "code", 0)
            /\ devices' = devices \cup {u}
            /\ pending' = [pending EXCEPT ![u] = NoSignIn]
       ELSE UNCHANGED <<tok, devices, pending>>
    /\ End(r)
    /\ UNCHANGED <<people, spent, out, expired, code, resets>>

-----------------------------------------------------------------------------
(* A new password.                                                         *)

Rehashed(o) == [o EXCEPT !.pwd = o.pwd + 1]

(* confirm_password_change: the hash is saved, then every token revoked,   *)
(* then a pair issued on the row as it is by then: three statements.       *)
SavePassword(r) ==
    LET u == req[r].user IN
    /\ req[r].at = "save"
    /\ IF u \in accounts
       THEN /\ row' = [row EXCEPT ![u] = Rehashed(row[u])]
            /\ req' = [req EXCEPT ![r] = [req[r] EXCEPT !.at = "revoke", !.given = row[u].pwd + 1]]
            /\ UNCHANGED <<started, events>>
       ELSE UNCHANGED row /\ End(r)
    /\ UNCHANGED <<accounts, wrong, spoiled, sessions, trust>>

(* revoke_all_tokens: F("token_version") + 1.                              *)
Revoked(o) == [o EXCEPT !.ver = o.ver + 1]

RevokeAll(r) ==
    LET u == req[r].user IN
    /\ req[r].at = "revoke"
    /\ row' = IF u \in accounts THEN [row EXCEPT ![u] = Revoked(row[u])] ELSE row
    /\ Goto(r, IF req[r].op = "change" THEN "reissue" ELSE "devices")
    /\ UNCHANGED <<accounts, wrong, spoiled, sessions, trust>>

Reissue(r) ==
    LET u == req[r].user IN
    /\ req[r].at = "reissue"
    /\ IF u \in accounts THEN Mint(u, row[u], req[r].given, "code", 0) ELSE UNCHANGED tok
    /\ End(r)
    /\ UNCHANGED <<people, spent, out, expired, trust>>

(* confirm_password_reset: one transaction.                                *)
ResetPassword(r) ==
    LET u == req[r].user IN
    /\ req[r].at = "reset"
    /\ IF u \in accounts
       THEN /\ row' = [row EXCEPT ![u] = Revoked(Rehashed(Cleared(row[u])))]
            /\ wrong' = [wrong EXCEPT ![u] = 0]
            /\ devices' = devices \ {u}
       ELSE UNCHANGED <<row, wrong, devices>>
    /\ End(r)
    /\ UNCHANGED <<accounts, spoiled, sessions, pending, code, resets>>

-----------------------------------------------------------------------------
(* Sessions: refresh, sign-out, sign-out everywhere.                       *)

Refresh(r, i) ==
    /\ i \notin expired
    /\ i \notin spent
    /\ Begin(r, Request("refresh", "row", tok[i].user, FALSE, i, "rename"))
    /\ UNCHANGED <<people, sessions, trust>>

RefreshRow(r) ==
    /\ req[r].at = "row"
    /\ IF Current(req[r].tok) THEN Goto(r, "claim") ELSE End(r)
    /\ UNCHANGED <<people, sessions, trust>>

(* claim_refresh_jti: get_or_create on the unique jti, won by one request. *)
\* Mutant: revoked by whoever comes, claimed by all.
Claims_Always(i) == TRUE
Claims(i) == i \notin spent

RefreshClaim(r) ==
    LET i == req[r].tok IN
    /\ req[r].at = "claim"
    /\ IF Claims(i)
       THEN /\ spent' = spent \cup {i}
            /\ Mint(tok[i].user, tok[i], tok[i].given, tok[i].by, i)
       ELSE UNCHANGED <<spent, tok>>
    /\ End(r)
    /\ UNCHANGED <<people, out, expired, trust>>

(* logout_view revokes the refresh token the browser sent, then its access *)
(* token.                                                                  *)
SignOut(r, i) ==
    /\ i \notin expired
    /\ Begin(r, Request("sign_out", "access", tok[i].user, FALSE, i, "rename"))
    /\ spent' = spent \cup {i}
    /\ UNCHANGED <<people, tok, out, expired, trust>>

SignOutAccess(r) ==
    /\ req[r].at = "access"
    /\ out' = out \cup {req[r].tok}
    /\ End(r)
    /\ UNCHANGED <<people, tok, spent, expired, trust>>

(* Who may change whom, and who may end whose sessions.  (Whether the admin *)
(* is signed in is left open: the sessions of this model are few.)         *)
MayAdmin(c, u) == /\ IsActiveAdmin(c)
                  /\ row[u].role = "admin" => c = Owner
MayEndSessions(c, u) == IsActiveAdmin(c) /\ (c = u \/ MayAdmin(c, u))

(* logout-everywhere, by the holder or by an admin; the devices go in a    *)
(* second statement.                                                       *)
SignOutEverywhere(r, u) ==
    /\ u \in accounts
    /\ SignedIn(u) \/ \E c \in Users : MayEndSessions(c, u)
    /\ Begin(r, Request("everywhere", "revoke", u, FALSE, 0, "rename"))
    /\ UNCHANGED <<people, sessions, trust>>

ForgetDevices(r) ==
    /\ req[r].at = "devices"
    /\ devices' = devices \ {req[r].user}
    /\ End(r)
    /\ UNCHANGED <<people, sessions, pending, code, resets>>

ForgetOneDevice(r, u) ==
    /\ u \in devices
    /\ \E c \in Users : MayEndSessions(c, u)
    /\ req[r].at = "idle" /\ started < MaxRequests
    /\ started' = started + 1
    /\ devices' = devices \ {u}
    /\ UNCHANGED <<people, sessions, pending, code, resets, req, events>>

-----------------------------------------------------------------------------
(* The admin panel: update_user and its DELETE.                            *)

Edited(o, e) ==
    CASE e = "promote"    -> [o EXCEPT !.role = "admin"]
      [] e = "demote"     -> [o EXCEPT !.role = "user"]
      [] e = "activate"   -> [o EXCEPT !.active = TRUE]
      [] e = "deactivate" -> [o EXCEPT !.active = FALSE]
      [] OTHER            -> o

MayEdit(c, u, e) == /\ MayAdmin(c, u)
                    /\ e \in {"promote", "delete"} => c = Owner

EditUser(r, u, e) ==
    /\ u \in accounts
    /\ \E c \in Users : MayEdit(c, u, e)
    /\ Begin(r, Request("edit", "commit", u, FALSE, 0, e))
    /\ UNCHANGED <<people, sessions, trust>>

(* _assert_not_last_active_admin locks every active admin row and looks at *)
(* the rows as they are then; it is asked only when the copy read at the   *)
(* start was an active admin.                                              *)
WasAdmin(o) == o.role = "admin" /\ o.active
\* Mutant: counts deactivated admins.
AnotherAdmin_Inactive(u) == \E v \in Users \ {u} : v \in accounts /\ row[v].role = "admin"
AnotherAdmin(u) == \E v \in Users \ {u} : IsActiveAdmin(v)

StopsBeingAdmin(q) ==
    WasAdmin(q.snap) /\ (q.edit = "delete" \/ ~WasAdmin(Edited(q.snap, q.edit)))

(* The copy an edit acts on is no longer the row.                          *)
Spoils(u, copy) ==
    spoiled' = IF u \in accounts /\ row[u] = copy THEN spoiled ELSE spoiled \cup {u}

(* user.save() writes every column of the copy, the edited ones and those  *)
(* it only read, and inserts the row again if it is gone.                  *)

CommitEdit(r) ==
    LET q == req[r]
        u == q.user
    IN
    /\ q.at = "commit" /\ q.edit # "delete"
    /\ IF StopsBeingAdmin(q) => AnotherAdmin(u)
       THEN /\ row' = [row EXCEPT ![u] = Edited(q.snap, q.edit)]
            /\ accounts' = accounts \cup {u}
            /\ Spoils(u, q.snap)
       ELSE UNCHANGED <<row, accounts, spoiled>>
    /\ End(r)
    /\ UNCHANGED <<wrong, sessions, trust>>

(* The row goes, and its trusted devices with it.                          *)
CommitDelete(r) ==
    LET q == req[r]
        u == q.user
    IN
    /\ q.at = "commit" /\ q.edit = "delete"
    /\ IF StopsBeingAdmin(q) => AnotherAdmin(u)
       THEN accounts' = accounts \ {u} /\ devices' = devices \ {u} /\ Spoils(u, q.snap)
       ELSE UNCHANGED <<accounts, devices, spoiled>>
    /\ End(r)
    /\ UNCHANGED <<row, wrong, sessions, pending, code, resets>>

-----------------------------------------------------------------------------
(* Time, pruning and crashes.                                              *)

Event == /\ events < MaxEvents
         /\ events' = events + 1
         /\ UNCHANGED started

LockLapses(u) ==
    /\ Event
    /\ row[u].lock = "held"
    /\ row' = [row EXCEPT ![u] = [row[u] EXCEPT !.lock = "lapsed"]]
    /\ UNCHANGED <<accounts, wrong, spoiled, sessions, trust, req>>

DayEnds(u) ==
    /\ Event
    /\ row[u].codeDay = "open"
    /\ row' = [row EXCEPT ![u] = [row[u] EXCEPT !.codeDay = "past"]]
    /\ UNCHANGED <<accounts, wrong, spoiled, sessions, trust, req>>

CodeExpires(u, p) ==
    /\ Event
    /\ code[u][p] # NoCode
    /\ ~CodeHeld(u, p)
    /\ code' = [code EXCEPT ![u][p] = NoCode]
    /\ UNCHANGED <<people, sessions, devices, pending, resets, req>>

TokenExpires(i) ==
    /\ Event
    /\ i \notin expired
    /\ expired' = expired \cup {i}
    /\ UNCHANGED <<people, tok, spent, out, trust, req>>

(* prune_expired_revoked_tokens.                                           *)
\* Mutant: prunes rows of tokens that have not expired.
Prunable_Any(i) == TRUE
Prunable(i) == i \in expired

Prune ==
    /\ \E i \in spent \cup out : Prunable(i)
    /\ spent' = {i \in spent : ~Prunable(i)}
    /\ out' = {i \in out : ~Prunable(i)}
    /\ UNCHANGED <<people, tok, expired, trust, req, started, events>>

(* The web worker dies; what it committed stays.                           *)
Crash(r) ==
    /\ Event
    /\ req[r].at # "idle"
    /\ req' = [req EXCEPT ![r] = Idle]
    /\ spoiled' = IF req[r].op = "change" /\ req[r].at = "revoke"
                  THEN spoiled \cup {req[r].user} ELSE spoiled
    /\ UNCHANGED <<row, accounts, wrong, sessions, trust>>

-----------------------------------------------------------------------------
Start(r) ==
    \/ \E u \in Users, ok \in BOOLEAN : SignIn(r, u, ok) \/ AskToChange(r, u, ok)
    \/ \E u \in Users : AskToReset(r, u) \/ SignOutEverywhere(r, u) \/ ForgetOneDevice(r, u)
    \/ \E u \in Users, p \in Purposes, ok \in BOOLEAN : EnterCode(r, u, p, ok)
    \/ \E i \in DOMAIN tok : Refresh(r, i) \/ SignOut(r, i)
    \/ \E u \in Users, e \in Edits : EditUser(r, u, e)

Step(r) ==
    \/ CheckPassword(r) \/ DeviceGate(r)
    \/ TakeCode(r) \/ WrongCode(r) \/ RightCode(r) \/ RegisterDevice(r)
    \/ SavePassword(r) \/ RevokeAll(r) \/ Reissue(r) \/ ResetPassword(r)
    \/ RefreshRow(r) \/ RefreshClaim(r) \/ SignOutAccess(r) \/ ForgetDevices(r)
    \/ CommitEdit(r) \/ CommitDelete(r)

Passing ==
    \/ \E u \in Users : LockLapses(u) \/ DayEnds(u)
    \/ \E u \in Users, p \in Purposes : CodeExpires(u, p)
    \/ \E i \in DOMAIN tok : TokenExpires(i)
    \/ Prune
    \/ \E r \in Reqs : Crash(r)

Next == Passing \/ \E r \in Reqs : Start(r) \/ Step(r)

Spec == Init /\ [][Next]_vars
-----------------------------------------------------------------------------
(* Properties.                                                             *)

(* claim_refresh_jti, token_revocation.py:45: however many tabs rotate the *)
(* same refresh token at once, it is exchanged for at most one new one.    *)
(* (A token past its own expiry can be claimed again once its row is       *)
(* pruned, by a request that was already past the expiry check.)           *)
OneSuccessor ==
    \A i, j \in DOMAIN tok :
      i # j /\ tok[i].from = tok[j].from => tok[i].from \in {0} \cup expired

(* token_revocation.py: a refresh token that was spent, signed out or      *)
(* revoked by a version bump never works again - through rotation, pruning *)
(* of the revocation table and the other requests - unless an admin's save *)
(* wrote the account's old version back.                                   *)
Dead(i) == ~RefreshWorks(i) /\ tok[i].user \in accounts /\ row[tok[i].user].active
DeadStaysDead ==
    [][\A i \in DOMAIN tok :
         Dead(i) => tok[i].user \in spoiled' \/ ~RefreshWorks(i)']_vars

(* The same with nothing excepted, as "Log out everywhere" says of itself. *)
RevokedStaysRevoked ==
    [][\A i \in DOMAIN tok : Dead(i) => ~RefreshWorks(i)']_vars

(* password_views.py:167, 248: once a change or a reset has gone through,  *)
(* a session works only if the present password signed it in, or if it was *)
(* completed by an emailed code on the account as it was after the change, *)
(* whatever sign-ins, codes and refreshes had read before it.  (The code's *)
(* alternative is not vacuous: pending_user_id outlives a change, so the   *)
(* login code completes a sign-in that gave an earlier password; and two   *)
(* changes at once each issue a session on the later of their passwords.)  *)
Changing(u) == \E r \in Reqs : req[r].user = u /\ req[r].op = "change" /\ req[r].at = "revoke"
NoSessionOutlivesPassword ==
    \A i \in DOMAIN tok :
      LET t == tok[i] IN
        (AccessWorks(i) \/ RefreshWorks(i)) /\ t.user \notin spoiled /\ ~Changing(t.user)
          => \/ t.given = row[t.user].pwd
             \/ t.by = "code" /\ t.pwd = row[t.user].pwd

(* users_views.py:288: two concurrent demotions, deactivations or deletes  *)
(* never leave the application without an active admin, unless a save      *)
(* wrote back a copy older than the row.                                   *)
SomeAdmin == \E u \in Users : IsActiveAdmin(u)
AdminRemains == spoiled = {} => SomeAdmin

(* auth_backend.py:143: no wrong password is lost to a concurrent one, so  *)
(* the account locks at exactly the MaxFails-th.                           *)
EveryFailureCounted == \A u \in accounts \ spoiled : row[u].fails = wrong[u]

(* otp_service.py:41: past the day's limit no code is tried any more.  The *)
(* sign-in and the change code share the count under two row locks, so two *)
(* last tries may pass the check together, and no more than two.           *)
DailyTriesBounded ==
    \A u \in Users : /\ resets[u] <= MaxDaily
                     /\ u \notin spoiled => row[u].codeFails <= MaxDaily + 1
=============================================================================
