------------------------------ MODULE Sessions ------------------------------
(***************************************************************************)
(* The sessions of one account: its refresh tokens in the database, the    *)
(* handlers of AuthService and UsersService that issue, rotate and revoke  *)
(* them a statement at a time, and the browsers, each with one pair of     *)
(* tokens in localStorage that all its requests share.  A request that is  *)
(* answered 401 refreshes the pair and is sent once more; refreshUser (the *)
(* "me" call of every page load) removes the pair when it fails.           *)
(*                                                                         *)
(* Passwords are numbered in the order they are set.  The second factor    *)
(* and permissions are in Accounts.                                        *)
(***************************************************************************)
EXTENDS Naturals, Sequences, FiniteSets

CONSTANTS
  Browsers,
  Calls,          \* requests under way at the same time
  MaxRequests,    \* bound: requests ever made
  MaxTokens,      \* bound: refresh tokens ever issued
  MaxPasswords,   \* bound: passwords ever set
  MaxFaults       \* bound: lost answers and Backend crashes

ASSUME BrowsersAssumption == Browsers # {} /\ IsFiniteSet(Calls)
ASSUME BoundsAssumption ==
  MaxRequests \in Nat /\ MaxTokens \in Nat /\ MaxPasswords \in Nat /\ MaxFaults \in Nat

VARIABLES
  account,   \* the row of User: password and status; "BLOCKED" is SUSPENDED or
             \* BANNED, "GONE" a deleted row
  tokens,    \* rows of RefreshToken in the order of their insertion
  store,     \* per browser: localStorage
  call,      \* per request: what it is, how far it is, what it has read
  made,      \* requests so far
  unswept,   \* history: the Backend stopped between a new password and the revocation
  lost,      \* history: browsers that did not receive the pair of a rotated token
  faults

vars == <<account, tokens, store, call, made, unswept, lost, faults>>

\* How a token was ended: by its own rotation, by a revocation of it or of all, or by its
\* age (an expired one stays so when all are revoked).
TokenStates == {"live", "rotated", "swept", "expired"}
Token == [state: TokenStates, password: Nat, parent: Nat, late: BOOLEAN, raced: BOOLEAN]

PageCalls == {"me", "api", "password", "login"}
AdminCalls == {"reset", "block"}     \* block: suspend and ban
Phases == {"idle", "send", "check", "revoke", "insert", "reply", "answer", "compare", "write",
           "sweep"}
IdleCall == [kind |-> "none", phase |-> "idle", browser |-> CHOOSE b \in Browsers : TRUE,
             fresh |-> FALSE, retry |-> FALSE, token |-> 0, password |-> 0, late |-> FALSE]

Init ==
  /\ account = [status |-> "ACTIVE", password |-> 0]
  /\ tokens = <<>>
  /\ store = [b \in Browsers |-> [access |-> "none", refresh |-> 0]]
  /\ call = [c \in Calls |-> IdleCall]
  /\ made = 0
  /\ unswept = FALSE
  /\ lost = {}
  /\ faults = 0

At(c, phase) == call[c].phase = phase
Goto(c, phase) == call' = [call EXCEPT ![c].phase = phase]
Fault == faults < MaxFaults /\ faults' = faults + 1

\* The bounds, looked at when a request begins; an insertion beyond them fails.
Changing == Cardinality({c \in Calls : ~At(c, "idle") /\ call[c].kind \in {"password", "reset"}})
Begin(c, kind) ==
  /\ At(c, "idle")
  /\ made < MaxRequests /\ made' = made + 1
  /\ kind \in {"password", "reset"} => account.password + Changing < MaxPasswords

SetAccess(b, value) == store' = [store EXCEPT ![b].access = value]
ClearTokens(b) == store' = [store EXCEPT ![b] = [access |-> "none", refresh |-> 0]]

-----------------------------------------------------------------------------
(* The browser *)

\* request(): the access token is read when the request is made.
Request(c, b, kind) ==
  /\ Begin(c, kind)
  /\ store[b].access # "none"
  /\ call' = [call EXCEPT ![c] = [IdleCall EXCEPT
       !.kind = kind, !.phase = "send", !.browser = b, !.retry = TRUE,
       !.fresh = (store[b].access = "fresh"),
       !.password = IF kind = "password" THEN account.password ELSE 0]]
  /\ UNCHANGED <<account, tokens, store, unswept, lost, faults>>

LoadPage(c, b) == Request(c, b, "me")
ChangePassword(c, b) == Request(c, b, "password")

\* The login page; the password typed is any that was ever set.
SubmitLogin(c, b) ==
  /\ Begin(c, "login")
  /\ \E p \in 0 .. account.password :
       call' = [call EXCEPT ![c] = [IdleCall EXCEPT
         !.kind = "login", !.phase = "send", !.browser = b, !.password = p, !.retry = TRUE]]
  /\ UNCHANGED <<account, tokens, store, unswept, lost, faults>>

\* logout() forgets the tokens and tells the Backend nothing.
Logout(b) ==
  /\ store[b].refresh # 0
  /\ ClearTokens(b)
  /\ UNCHANGED <<account, tokens, call, unswept, lost, faults, made>>

\* jwt.accessTtl
AccessExpires(b) ==
  /\ store[b].access = "fresh"
  /\ SetAccess(b, "expired")
  /\ UNCHANGED <<account, tokens, call, unswept, lost, faults, made>>

\* The request throws: refreshUser catches it and clears the tokens.
Throws(c) ==
  /\ call' = [call EXCEPT ![c] = IdleCall]
  /\ IF call[c].kind = "me" THEN ClearTokens(call[c].browser) ELSE UNCHANGED store

-----------------------------------------------------------------------------
(* JwtAuthGuard, and what request() does with its answer *)

\* The login is public.
Authenticates(c) == call[c].kind = "login" \/ (call[c].fresh /\ account.status = "ACTIVE")

Served(c) ==
  /\ At(c, "send") /\ Authenticates(c)
  /\ call' = [call EXCEPT ![c] = IF @.kind \in {"login", "password"} THEN [@ EXCEPT !.phase = "compare"]
                                 ELSE IdleCall]
  /\ UNCHANGED <<account, tokens, store, unswept, lost, faults, made>>

\* 401: tryRefresh with the refresh token that is stored now, once per request,
\* whatever the request was: a wrong password on the login page does it too.
Refuse(c) ==
  LET refresh == store[call[c].browser].refresh
  IN  IF call[c].retry /\ refresh # 0
      THEN /\ call' = [call EXCEPT ![c].phase = "check", ![c].token = refresh,
                                   ![c].fresh = FALSE, ![c].retry = FALSE]
           /\ UNCHANGED store
      ELSE Throws(c)

Unauthorized(c) ==
  /\ At(c, "send") /\ ~Authenticates(c)
  /\ Refuse(c)
  /\ UNCHANGED <<account, tokens, unswept, lost, faults, made>>

\* Mutant: tryRefresh keeps the access token of the answer only.
ReplyAccessOnly(c) ==
  /\ At(c, "reply")
  /\ SetAccess(call[c].browser, "fresh")
  /\ call' = [call EXCEPT ![c].phase = "send", ![c].fresh = TRUE, ![c].token = 0, ![c].late = FALSE]
  /\ UNCHANGED <<account, tokens, unswept, lost, faults, made>>

SetTokens(c) == store' = [store EXCEPT ![call[c].browser] = [access |-> "fresh", refresh |-> call[c].token]]

\* The pair of a refresh is stored and the request sent again.
Reply(c) ==
  /\ At(c, "reply")
  /\ SetTokens(c)
  /\ call' = [call EXCEPT ![c].phase = "send", ![c].fresh = TRUE, ![c].token = 0, ![c].late = FALSE]
  /\ UNCHANGED <<account, tokens, unswept, lost, faults, made>>

\* The pair of a login is stored; refreshUser loads the account.
Answer(c) ==
  /\ At(c, "answer")
  /\ SetTokens(c)
  /\ call' = [call EXCEPT ![c] = [IdleCall EXCEPT
       !.kind = "me", !.phase = "send", !.browser = call[c].browser, !.fresh = TRUE, !.retry = TRUE]]
  /\ UNCHANGED <<account, tokens, unswept, lost, faults, made>>

\* The answer never arrives: tryRefresh says false, fetch throws.
AnswerLost(c) ==
  /\ call[c].phase \in {"send", "reply", "answer"} /\ Fault
  /\ lost' = lost \cup {call[c].browser}
  /\ Throws(c)
  /\ UNCHANGED <<account, tokens, unswept, made>>

-----------------------------------------------------------------------------
(* AuthService.login and refresh *)

\* bcrypt.compare in validateLocalUser and changeOwnPassword; the status of the
\* account is not looked at.  Either says 401 to a wrong password.
Compare(c) ==
  /\ At(c, "compare")
  /\ IF account.status # "GONE" /\ call[c].password = account.password
     THEN /\ Goto(c, IF call[c].kind = "login" THEN "insert" ELSE "write")
          /\ UNCHANGED store
     ELSE Refuse(c)
  /\ UNCHANGED <<account, tokens, unswept, lost, faults, made>>

\* Mutant: a revoked token is good until it expires.
CheckExpiryOnly(c) ==
  /\ At(c, "check")
  /\ IF tokens[call[c].token].state # "expired"
     THEN Goto(c, "revoke") /\ UNCHANGED store
     ELSE Throws(c)
  /\ UNCHANGED <<account, tokens, unswept, lost, faults, made>>

\* Mutant: the request is sent again whether the refresh worked or not.
CheckAgain(c) ==
  /\ At(c, "check")
  /\ call' = IF tokens[call[c].token].state = "live" THEN [call EXCEPT ![c].phase = "revoke"]
             ELSE [call EXCEPT ![c].phase = "send", ![c].retry = TRUE, ![c].token = 0]
  /\ UNCHANGED <<account, tokens, store, unswept, lost, faults, made>>

\* refresh finds the row by its hash and sees that it is neither revoked nor too old.
Check(c) ==
  /\ At(c, "check")
  /\ LET t == call[c].token
     IN  IF tokens[t].state = "live"
         THEN /\ Goto(c, "revoke")
              /\ tokens' = [tokens EXCEPT ![t].raced = @ \/ \E d \in Calls : At(d, "revoke") /\ call[d].token = t]
              /\ UNCHANGED store
         ELSE Throws(c) /\ UNCHANGED tokens
  /\ UNCHANGED <<account, unswept, lost, faults, made>>

\* update by id, whatever the row has become; a row that is gone is an error.
Revoke(c) ==
  /\ At(c, "revoke")
  /\ IF account.status = "GONE" THEN Throws(c) /\ UNCHANGED tokens
     ELSE /\ tokens' = [tokens EXCEPT ![call[c].token].state = IF @ \in {"live", "expired"} THEN "rotated" ELSE @]
          /\ Goto(c, "insert")
          /\ UNCHANGED store
  /\ UNCHANGED <<account, unswept, lost, faults, made>>

Successor(c) ==
  LET p == call[c].token
  IN  [state |-> "live", parent |-> p, raced |-> FALSE,
       password |-> IF p = 0 THEN call[c].password ELSE tokens[p].password,
       late |-> call[c].late \/ (p # 0 /\ tokens[p].late)]

\* issueTokenPair; the user's foreign key refuses the row of a deleted account.
Insert(c) ==
  /\ At(c, "insert")
  /\ IF account.status = "GONE" \/ Len(tokens) = MaxTokens
     THEN /\ Throws(c) /\ UNCHANGED tokens
          /\ lost' = lost \cup {call[c].browser}
     ELSE /\ tokens' = Append(tokens, Successor(c))
          /\ call' = [call EXCEPT ![c].phase = IF call[c].token = 0 THEN "answer" ELSE "reply",
                                  ![c].token = Len(tokens) + 1]
          /\ UNCHANGED <<store, lost>>
  /\ UNCHANGED <<account, unswept, faults, made>>

-----------------------------------------------------------------------------
(* changeOwnPassword, resetPassword, suspend, ban, reactivate, delete *)

Administrate(c, kind) ==
  /\ Begin(c, kind)
  /\ call' = [call EXCEPT ![c].kind = kind, ![c].phase = "write"]
  /\ UNCHANGED <<account, tokens, store, unswept, lost, faults>>

ResetPassword(c) == Administrate(c, "reset")
SuspendOrBan(c) == Administrate(c, "block")

Write(c) ==
  /\ At(c, "write")
  /\ IF account.status = "GONE" THEN Throws(c) /\ UNCHANGED account
     ELSE /\ Goto(c, "sweep") /\ UNCHANGED store
          /\ account' = IF call[c].kind = "block" THEN [account EXCEPT !.status = "BLOCKED"]
                         ELSE [account EXCEPT !.password = @ + 1]
  /\ UNCHANGED <<tokens, unswept, lost, faults, made>>

\* jwt.refreshTtl
RefreshExpires(t) ==
  /\ tokens[t].state = "live"
  /\ tokens' = [tokens EXCEPT ![t].state = "expired"]
  /\ UNCHANGED <<account, store, call, unswept, lost, faults, made>>

\* AuthService.logout: updateMany by the hash of the one token that is presented.  The
\* Dashboard does not call it; another client of the API that shares the pair may.
RevokeSession(b) ==
  LET t == store[b].refresh
  IN  /\ t # 0 /\ tokens[t].state = "live"
      /\ tokens' = [tokens EXCEPT ![t].state = "swept"]
      /\ UNCHANGED <<account, store, call, unswept, lost, faults, made>>

\* updateMany: every token of the account.  A refresh or a login whose check is
\* behind it will insert its token later.
Swept == [t \in DOMAIN tokens |-> [tokens[t] EXCEPT !.state = IF @ = "live" THEN "swept" ELSE @]]

\* Mutant: one session of the account is ended, the newest, as by logout.
SweepNewest(c) ==
  /\ At(c, "sweep")
  /\ tokens' = [t \in DOMAIN tokens |-> IF t = Len(tokens) THEN Swept[t] ELSE tokens[t]]
  /\ call' = [d \in Calls |-> IF d = c THEN IdleCall
                              ELSE [call[d] EXCEPT !.late = @ \/ At(d, "revoke") \/ At(d, "insert")]]
  /\ unswept' = FALSE
  /\ UNCHANGED <<account, store, lost, faults, made>>

Sweep(c) ==
  /\ At(c, "sweep")
  /\ tokens' = Swept
  /\ call' = [d \in Calls |-> IF d = c THEN IdleCall
                              ELSE [call[d] EXCEPT !.late = @ \/ At(d, "revoke") \/ At(d, "insert")]]
  /\ unswept' = FALSE
  /\ UNCHANGED <<account, store, lost, faults, made>>

Reactivate ==
  /\ account.status = "BLOCKED"
  /\ account' = [account EXCEPT !.status = "ACTIVE"]
  /\ UNCHANGED <<tokens, store, call, unswept, lost, faults, made>>

\* The rows of RefreshToken go with the user.
DeleteUser ==
  /\ account.status # "GONE"
  /\ account' = [account EXCEPT !.status = "GONE"]
  /\ tokens' = Swept
  /\ UNCHANGED <<store, call, unswept, lost, faults, made>>

\* The Backend stops: what it was doing is not resumed, and every request
\* under way throws in its browser.
BackendStops ==
  /\ Fault
  /\ unswept' = (unswept \/ \E c \in Calls : At(c, "sweep"))
  /\ lost' = lost \cup {call[c].browser : c \in {d \in Calls : ~At(d, "idle")}}
  /\ store' = [b \in Browsers |->
                 IF \E c \in Calls : ~At(c, "idle") /\ call[c].kind = "me" /\ call[c].browser = b
                 THEN [access |-> "none", refresh |-> 0] ELSE store[b]]
  /\ call' = [c \in Calls |-> IdleCall]
  /\ UNCHANGED <<account, tokens, made>>

CallStep(c) ==
  \/ Served(c) \/ Unauthorized(c) \/ Reply(c) \/ Answer(c)
  \/ Compare(c) \/ Check(c) \/ Revoke(c) \/ Insert(c)
  \/ Write(c) \/ Sweep(c)

\* What a page asks of the Backend as its user.
AuthController(c) ==
  \E b \in Browsers :
    SubmitLogin(c, b) \/ LoadPage(c, b) \/ Request(c, b, "api") \/ ChangePassword(c, b)

Next ==
  \/ \E c \in Calls :
       \/ CallStep(c) \/ AnswerLost(c)
       \/ AuthController(c) \/ ResetPassword(c) \/ SuspendOrBan(c)
  \/ \E b \in Browsers : Logout(b) \/ AccessExpires(b) \/ RevokeSession(b)
  \/ \E t \in DOMAIN tokens : RefreshExpires(t)
  \/ Reactivate \/ DeleteUser \/ BackendStops

Spec == Init /\ [][Next]_vars

\* A handler, and the script of a page, goes on once it has its answer.
FairSpec == Spec /\ \A c \in Calls : WF_vars(CallStep(c))

-----------------------------------------------------------------------------
(* Properties *)

TypeOK ==
  /\ account \in [status: {"ACTIVE", "BLOCKED", "GONE"}, password: 0 .. MaxPasswords]
  /\ tokens \in Seq(Token) /\ Len(tokens) <= MaxTokens
  /\ store \in [Browsers -> [access: {"none", "fresh", "expired"}, refresh: 0 .. Len(tokens)]]
  /\ call \in [Calls -> [kind: PageCalls \cup AdminCalls \cup {"none"}, phase: Phases,
                         browser: Browsers, fresh: BOOLEAN, retry: BOOLEAN,
                         token: 0 .. Len(tokens), password: Nat, late: BOOLEAN]]
  /\ made \in 0 .. MaxRequests /\ unswept \in BOOLEAN /\ lost \subseteq Browsers /\ faults \in 0 .. MaxFaults

\* A session opened with a password that has been changed is over, once the
\* change is, unless its token was issued by a login or a refresh that had
\* passed its check before the revocation, or the Backend stopped in between.
\* This is every session, the one that makes the change included: the comment
\* of changeOwnPassword (auth.service.ts:170-171) and the account page
\* (account/page.tsx:43, 55) speak of the others only, but the code spares none.
OldPasswordEndsSessions ==
  \A t \in DOMAIN tokens :
    tokens[t].state = "live" /\ tokens[t].password # account.password =>
      \/ tokens[t].late \/ unswept
      \/ \E c \in Calls : At(c, "sweep")

\* A refresh token has one successor, however often it is presented, unless
\* two requests passed the check before either revoked it.
OneHeir ==
  \A t \in DOMAIN tokens :
    Cardinality({h \in DOMAIN tokens : tokens[h].parent = t}) > 1 => tokens[t].raced

\* Types, no session of an old password outlives the change of it
\* (changeOwnPassword, resetPassword), and one successor for a token (refresh).
SessionsInv == TypeOK /\ OldPasswordEndsSessions /\ OneHeir

\* A token is good, also while a request that has passed its check is about to
\* replace it.
Good(t) ==
  \/ tokens[t].state = "live"
  \/ \E c \in Calls : call[c].token = t /\ call[c].phase \in {"revoke", "insert"}

Lines == INSTANCE SessionLines
  WITH issued <- Len(tokens),
       good <- {t \in 1 .. Len(tokens) : Good(t)},
       forked <- {t \in 1 .. Len(tokens) : tokens[t].raced}

\* The statements of refresh, whatever passes between them, are one step: the
\* tokens form lines in which one is good at a time but for a race, a login
\* alone begins a line, and no token that was used or revoked is good again.
KeepsLines == Lines!Spec

\* The refresh token a browser holds is good unless the account's were all
\* revoked or it is deleted, an answer was lost, or the request that rotated it is under way:
\* requests of a page that refresh together never leave it a used one.
StoredTokenUsable ==
  \A b \in Browsers :
    LET t == store[b].refresh
    IN  t # 0 /\ tokens[t].state = "rotated" /\ account.status # "GONE" =>
          \/ b \in lost
          \/ \E c \in Calls : call[c].browser = b /\ call[c].phase \in {"insert", "reply"}

\* Every request ends, those of an account that may not use the tokens it goes
\* on receiving included.
CallsEnd == \A c \in Calls : ~At(c, "idle") ~> At(c, "idle")
=============================================================================
