------------------------------ MODULE Sessions ------------------------------
(***************************************************************************)
(* Signing in and staying signed in: the login with its lockout, refresh   *)
(* tokens that are exchanged once, and the changes that end every session  *)
(* (src/src/auth/auth.service.ts, src/src/users/users.service.ts).         *)
(*                                                                         *)
(* One account; a password is the number of changes before it.  A refresh  *)
(* token is its session: a cookie has the token's hash or a garbled one.   *)
(* Access tokens are left out: they are signed, last 15 minutes and are    *)
(* looked up nowhere.  Each statement outside a transaction is a step; the *)
(* transaction of refresh is two, and between them it holds the row of the *)
(* session it consumes.                                                    *)
(***************************************************************************)
EXTENDS Integers, FiniteSets

CONSTANTS
    Rows,          \* the rows user_session may have
    Codes,         \* the codes password_reset_token may have
    Calls,         \* identities of requests
    MaxFailed,     \* LOGIN_MAX_ATTEMPTS
    MaxChanges,    \* bound on password changes
    MaxCalls       \* bound on requests

\* No row is called "none".
SessionConstants == "none" \notin Rows /\ MaxChanges \in Nat /\ MaxCalls \in Nat

VARIABLES
    account,    \* app_user: the password, status, failed attempts, lockedUntil
    session,    \* user_session
    code,       \* password_reset_token: state, and how often it set a password
    call,       \* what each request does and has read
    made        \* number of requests so far

vars == <<account, session, code, call, made>>

None == "none"
Free == [op |-> "idle", pc |-> "idle"]
Wrong == -1     \* what is typed when it is no password of the account

\* state: none, live, or over (revoked or expired).  password and stray are
\* history: the password its login was checked against, and whether the login
\* or an exchange was under way when a change ended every session.
NoSession == [state |-> None, parent |-> None, password |-> 0, stray |-> FALSE]

\* A new row takes any that is unused.
Unused == {s \in Rows : session[s].state = None}
NewRow == CHOOSE s \in Unused : TRUE

Live == {s \in Rows : session[s].state = "live"}
Held == {call[q].of : q \in {x \in Calls : call[x].op = "refresh" /\ call[x].pc = "issue"}}

At(q, op, pc) == call[q].op = op /\ call[q].pc = pc
Go(q, pc) == call' = [call EXCEPT ![q].pc = pc]
Done(q) == call' = [call EXCEPT ![q] = Free]

Ask(q, r) ==
    /\ call[q] = Free /\ made < MaxCalls
    /\ call' = [call EXCEPT ![q] = r]
    /\ made' = made + 1
    /\ UNCHANGED <<account, session, code>>

(***************************************************************************)
(* What ends every session: one UPDATE of the rows that are live when it   *)
(* starts.  A session that is issued by then but not committed stays.      *)
(***************************************************************************)
revokeAllSessions ==
    session' = [s \in Rows |->
                  IF s \in Live THEN [session[s] EXCEPT !.state = "over"] ELSE session[s]]

\* The logins that have read the account and the exchanges that have consumed
\* their token are under way; q's own request ends or goes on at pc.
Overtake(q, next) ==
    call' = [x \in Calls |->
               IF x = q THEN next
               ELSE IF call[x].op = "login" \/ At(x, "refresh", "issue")
                    THEN [call[x] EXCEPT !.stray = TRUE] ELSE call[x]]

NewPassword == [account EXCEPT !.password = @ + 1]
Unlocked(a) == [a EXCEPT !.failed = 0, !.locked = FALSE]
MayChange == account.password < MaxChanges

(***************************************************************************)
(* login                                                                   *)
(***************************************************************************)
login(q) ==
    \E typed \in 0..account.password \cup {Wrong} :
        /\ account.active /\ ~account.locked
        /\ Ask(q, [op |-> "login", pc |-> "verify", typed |-> typed, failed |-> account.failed,
                   password |-> account.password, of |-> None, stray |-> FALSE])

\* The count is the one read before the password was checked, plus one; below
\* the limit lockedUntil is cleared.
RefuseLogin(q) ==
    /\ At(q, "login", "verify") /\ call[q].typed # call[q].password
    /\ account' = [account EXCEPT !.failed = call[q].failed + 1,
                                  !.locked = call[q].failed + 1 >= MaxFailed]
    /\ Done(q) /\ UNCHANGED <<session, code, made>>

AcceptLogin(q) ==
    /\ At(q, "login", "verify") /\ call[q].typed = call[q].password
    /\ account' = Unlocked(account)
    /\ Go(q, "issue") /\ UNCHANGED <<session, code, made>>

NewSession(q) ==
    [state |-> "live", parent |-> call[q].of,
     password |-> call[q].password,
     stray |-> call[q].stray \/ \E s \in Rows : s = call[q].of /\ session[s].stray]

issueTokens(q) ==
    /\ At(q, "login", "issue")
    /\ Unused # {}
    /\ session' = [session EXCEPT ![NewRow] = NewSession(q)]
    /\ Done(q) /\ UNCHANGED <<account, code, made>>

(***************************************************************************)
(* refresh and logout                                                      *)
(***************************************************************************)
refresh(q) ==
    \E s \in Live :
        Ask(q, [op |-> "refresh", pc |-> "consume", of |-> s,
                password |-> session[s].password, stray |-> FALSE])

\* MUTANT: the session is revoked by its id alone.
ConsumeAnyway(q) ==
    /\ At(q, "refresh", "consume") /\ call[q].of \notin Held
    /\ IF account.active THEN Go(q, "issue") ELSE Done(q)
    /\ UNCHANGED <<account, session, code, made>>

\* The row must still be live, and nobody else may be consuming it: the second
\* of two waits for the first.  An account that is inactive ends it.
Consume(q) ==
    /\ At(q, "refresh", "consume") /\ call[q].of \notin Held
    /\ IF call[q].of \in Live /\ account.active THEN Go(q, "issue") ELSE Done(q)
    /\ UNCHANGED <<account, session, code, made>>

Rotate(q) ==
    /\ At(q, "refresh", "issue")
    /\ Unused # {}
    /\ session' = [session EXCEPT ![NewRow] = NewSession(q), ![call[q].of].state = "over"]
    /\ Done(q) /\ UNCHANGED <<account, code, made>>

\* logout, a cookie whose token does not match, or 30 days.
logout ==
    /\ \E s \in Live \ Held : session' = [session EXCEPT ![s].state = "over"]
    /\ UNCHANGED <<account, code, call, made>>

(***************************************************************************)
(* Passwords and the account's status                                      *)
(***************************************************************************)
changePassword(q) ==
    Ask(q, [op |-> "change", pc |-> "write"])

WritePassword(q) ==
    /\ At(q, "change", "write") /\ MayChange
    /\ account' = NewPassword
    /\ Go(q, "revoke") /\ UNCHANGED <<session, code, made>>

setActive(q) ==
    /\ \/ /\ account.active /\ Ask(q, [op |-> "deactivate", pc |-> "write"])
       \/ /\ ~account.active /\ Ask(q, [op |-> "activate", pc |-> "write"])

WriteStatus(q) ==
    /\ call[q].op \in {"activate", "deactivate"} /\ call[q].pc = "write"
    /\ account' = [account EXCEPT !.active = call[q].op = "activate"]
    /\ IF call[q].op = "activate" THEN Done(q) ELSE Go(q, "revoke")
    /\ UNCHANGED <<session, code, made>>

RevokeAll(q) ==
    /\ call[q].pc = "revoke"
    /\ revokeAllSessions /\ Overtake(q, Free)
    /\ UNCHANGED <<account, code, made>>

\* users.update with a password, in one transaction.
updateUser(q) ==
    /\ call[q] = Free /\ made < MaxCalls /\ MayChange
    /\ account' = Unlocked(NewPassword)
    /\ revokeAllSessions /\ Overtake(q, Free)
    /\ made' = made + 1 /\ UNCHANGED code

\* The outstanding codes expire in one statement, the new one is created in
\* the next.
forgotPassword(q) ==
    /\ account.active /\ call[q] = Free /\ made < MaxCalls
    /\ code' = [c \in Codes |-> IF code[c].state = "fresh"
                                THEN [code[c] EXCEPT !.state = "expired"] ELSE code[c]]
    /\ call' = [call EXCEPT ![q] = [op |-> "forgot", pc |-> "create"]]
    /\ made' = made + 1 /\ UNCHANGED <<account, session>>

CreateCode(q) ==
    /\ At(q, "forgot", "create")
    /\ \E c \in Codes : /\ code[c].state = None
                        /\ code' = [code EXCEPT ![c].state = "fresh"]
    /\ Done(q) /\ UNCHANGED <<account, session, made>>

Lapse ==
    /\ \E c \in Codes : /\ code[c].state = "fresh"
                        /\ code' = [code EXCEPT ![c].state = "expired"]
    /\ UNCHANGED <<account, session, call, made>>

resetPassword(q) ==
    \E c \in Codes : /\ code[c].state = "fresh"
                     /\ Ask(q, [op |-> "reset", pc |-> "write", code |-> c])

\* MUTANT: the sessions stay.
ResetKeepsSessions(q) ==
    LET c == call[q].code IN
    /\ At(q, "reset", "write") /\ MayChange /\ code[c].state = "fresh"
    /\ code' = [code EXCEPT ![c] = [state |-> "used", uses |-> @.uses + 1]]
    /\ account' = Unlocked(NewPassword)
    /\ Overtake(q, Free) /\ UNCHANGED <<session, made>>

\* One transaction; the code must still be fresh.
Reset(q) ==
    LET c == call[q].code IN
    /\ At(q, "reset", "write") /\ MayChange /\ code[c].state = "fresh"
    /\ code' = [code EXCEPT ![c] = [state |-> "used", uses |-> @.uses + 1]]
    /\ account' = Unlocked(NewPassword)
    /\ revokeAllSessions /\ Overtake(q, Free) /\ UNCHANGED made

(***************************************************************************)
(* The minutes of the lockout pass; a request fails or is lost, and its    *)
(* transaction with it.                                                    *)
(***************************************************************************)
Unlock ==
    /\ account.locked
    /\ account' = [account EXCEPT !.locked = FALSE]
    /\ UNCHANGED <<session, code, call, made>>

\* A change of the password that is lost before its second statement leaves
\* the sessions: they are strays.
Lose(q) ==
    /\ call[q] # Free
    /\ session' = [s \in Rows |-> IF At(q, "change", "revoke") /\ s \in Live
                                  THEN [session[s] EXCEPT !.stray = TRUE] ELSE session[s]]
    /\ IF At(q, "change", "revoke") THEN Overtake(q, Free) ELSE Done(q)
    /\ UNCHANGED <<account, code, made>>

-----------------------------------------------------------------------------
Init ==
    /\ account = [password |-> 0, active |-> TRUE, failed |-> 0, locked |-> FALSE]
    /\ session = [s \in Rows |-> NoSession]
    /\ code = [c \in Codes |-> [state |-> None, uses |-> 0]]
    /\ call = [q \in Calls |-> Free]
    /\ made = 0

SignIn(q) ==
    \/ login(q) \/ RefuseLogin(q) \/ AcceptLogin(q) \/ issueTokens(q)
    \/ refresh(q) \/ Consume(q) \/ Rotate(q)

Manage(q) ==
    \/ changePassword(q) \/ WritePassword(q) \/ RevokeAll(q) \/ updateUser(q)
    \/ setActive(q) \/ WriteStatus(q)
    \/ forgotPassword(q) \/ CreateCode(q) \/ resetPassword(q) \/ Reset(q)

Next ==
    \/ \E q \in Calls : SignIn(q) \/ Manage(q) \/ Lose(q)
    \/ logout \/ Lapse \/ Unlock

Spec == Init /\ [][Next]_vars

-----------------------------------------------------------------------------
(***************************************************************************)
(* Properties                                                              *)
(***************************************************************************)
\* Every variable keeps its type.
TypeOK ==
    /\ account \in [password : 0..MaxChanges, active : BOOLEAN,
                    failed : 0..MaxCalls, locked : BOOLEAN]
    /\ session \in [Rows -> [state : {None, "live", "over"}, parent : Rows \cup {None},
                             password : 0..MaxChanges, stray : BOOLEAN]]
    /\ code \in [Codes -> [state : {None, "fresh", "used", "expired"}, uses : 0..MaxCalls]]
    /\ made \in 0..MaxCalls

\* "Exactly one request should succeed": a refresh token is exchanged for one
\* session at most and ends with it, and a reset code sets one password, however
\* the requests that carry it overlap.
SingleUse ==
    /\ \A s, t \in Rows : session[s].parent = session[t].parent /\ session[s].parent # None => s = t
    /\ \A s \in Rows : session[s].parent # None => session[session[s].parent].state = "over"
    /\ \A c \in Codes : code[c].uses <= 1

\* "A password change or reset must not leave old sessions valid elsewhere":
\* a live session goes back, through all its exchanges, to a login with the
\* password the account has now, unless that login or an exchange was under way
\* when the sessions were ended or the change failed before it ended them.
PasswordEndsSessions ==
    (\A q \in Calls : ~At(q, "change", "revoke"))
        => \A s \in Live : session[s].password = account.password \/ session[s].stray

\* The same without the exception.
OldSessionsEnd ==
    (\A q \in Calls : ~At(q, "change", "revoke"))
        => \A s \in Live : session[s].password = account.password
=============================================================================
