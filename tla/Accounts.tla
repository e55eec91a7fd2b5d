------------------------------ MODULE Accounts ------------------------------
(***************************************************************************)
(* Accounts, roles, API keys and the second factor: AuthService.register,  *)
(* validateOAuthLogin and the 2FA handlers, UsersService, RolesService,    *)
(* ApiKeysService, and what the guards read of them.                       *)
(*                                                                         *)
(* A request is authenticated once: the guards read the user, its role and *)
(* the role's permissions, and hand the handler a list that nobody reads   *)
(* again.  A handler that reads a row and then writes it does so in two    *)
(* statements, with no transaction: registration counts the accounts and   *)
(* then creates one, 2FA checks a code and then writes, a login with a     *)
(* recovery code reads the list and writes it back without the code.       *)
(*                                                                         *)
(* The permissions users.* and roles.* are one, "manage".  The second      *)
(* factor is that of one user, Enrolled.  Passwords, tokens and the status *)
(* of an account are in Sessions.                                          *)
(***************************************************************************)
EXTENDS Naturals, FiniteSets

CONSTANTS
  Users,          \* an e-mail, hence an account or none
  Enrolled,       \* the user whose second factor is modelled
  Permissions,    \* the rows of Permission
  Keys,           \* bound: API keys that exist at a time
  Calls,          \* requests under way at the same time
  MaxRequests,    \* bound: requests ever made
  MaxSecrets,     \* bound: secrets ever generated
  MaxBatches      \* bound: lists of recovery codes ever made

ASSUME AccountsAssumption ==
  /\ Enrolled \in Users /\ Users # {Enrolled} /\ "manage" \in Permissions /\ "*" \notin Permissions
  /\ MaxRequests \in Nat /\ MaxSecrets \in Nat \ {0} /\ MaxBatches \in Nat \ {0}

VARIABLES
  accounts,   \* per user: "none", or the role of its row ("null" when it has none)
  roles,      \* the roles that an administrator edits: whether the row exists, permissions
  keys,       \* rows of ApiKey
  factor,     \* of Enrolled: twoFactorEnabled, twoFactorSecret (0 is null), the codes
  call,       \* per request: how far it is, what it has read
  made,       \* requests so far
  secrets,    \* secrets generated so far
  batches,    \* lists of recovery codes made so far
  history     \* what the properties refer to, see Init

vars == <<accounts, roles, keys, factor, call, made, secrets, batches, history>>

RoleNames == {"client", "staff"}     \* "admin" is the wildcard whatever its rows say
Scopes == Permissions \union {"*"}    \* what a guard's list or a key may hold
System == {"admin", "client"}
Role == [made: BOOLEAN, permissions: SUBSET Permissions]
Codes == (1 .. MaxBatches) \X {1, 2}
Factor == [enabled: BOOLEAN, secret: 0 .. MaxSecrets, codes: SUBSET Codes]
Free == [user |-> Enrolled, scopes |-> {}, used |-> FALSE]

Phases == {"idle", "count", "create", "serve", "enable", "disable", "login", "seed"}
IdleCall == [phase |-> "idle", user |-> Enrolled, gone |-> FALSE, role |-> "client", joined |-> FALSE,
             granted |-> {}, withdrawn |-> {},
             secret |-> 0, codes |-> {}, code |-> <<0, 0>>]

ClientPermissions == Permissions \ {"manage"}   \* what the seed gives the role client

Off == [enabled |-> FALSE, secret |-> 0, codes |-> {}]

\* A fresh instance (the SYSTEM account of the seed is not among Users), or one
\* with an administrator and a user of each other role, with or without 2FA.
Init ==
  /\ roles = [r \in RoleNames |-> [made |-> TRUE, permissions |->
               IF r = "staff" THEN Permissions ELSE ClientPermissions]]
  /\ keys = [k \in Keys |-> Free]
  /\ call = [c \in Calls |-> IdleCall]
  /\ made = 0
  /\ \/ /\ accounts = [u \in Users |-> "none"]
        /\ factor = Off /\ secrets = 0 /\ batches = 0
     \/ /\ accounts = [u \in Users |-> IF u = Enrolled THEN "staff" ELSE "admin"]
        /\ factor = [enabled |-> TRUE, secret |-> 1, codes |-> {1} \X {1, 2}]
        /\ secrets = 1 /\ batches = 1
  /\ history = [confirmed |-> {secrets} \ {0},   \* the secrets that enabling calls checked
                replaced |-> FALSE,      \* the secret was generated on an enabled factor
                overtaken |-> FALSE,     \* an enabling call wrote over another secret than it checked
                accepted |-> {},         \* recovery codes that opened a session
                twice |-> {},            \* ... more than once
                raced |-> {},            \* codes of a list written over a newer one
                founders |-> {},         \* accounts that a registration made administrators
                late |-> {},             \* ... after another account had been created meanwhile
                ousted |-> FALSE,        \* an administrator was deleted or given another role
                guest |-> FALSE]         \* the first account of the instance came by OAuth

Existing == {u \in Users : accounts[u] # "none"}
At(c, phase) == call[c].phase = phase
Ends(c) == call' = [call EXCEPT ![c] = IdleCall]
Begin(c) == At(c, "idle") /\ made < MaxRequests /\ made' = made + 1

\* permissionsForRole; a missing role row grants nothing.
Granting(role, rows) == IF role = "admin" THEN Scopes
                        ELSE IF role \in RoleNames THEN rows[role].permissions ELSE {}
PermissionsOf(u) == Granting(accounts[u], roles)

\* The permissions that requests under way lose when accounts or roles change.
Withdraw(calls, held) ==
  [c \in Calls |-> IF calls[c].phase # "serve" THEN calls[c]
                   ELSE [calls[c] EXCEPT !.withdrawn = @ \union (calls[c].granted \ held[calls[c].user])]]

-----------------------------------------------------------------------------
(* Registration and OAuth *)

\* A new account of which the requests that are about to create one know nothing.
Joined(c) == [d \in Calls |-> IF d = c THEN IdleCall
                              ELSE IF At(d, "create") THEN [call[d] EXCEPT !.joined = TRUE] ELSE call[d]]

\* findFirst: the e-mail is not used yet.
Register(c, u) ==
  /\ Begin(c)
  /\ u \notin Existing
  /\ call' = [call EXCEPT ![c].phase = "count", ![c].user = u]
  /\ UNCHANGED <<accounts, roles, keys, factor, secrets, batches, history>>

\* Mutant: "no account but the one about to be created".
CountOwn(c) ==
  /\ At(c, "count")
  /\ call' = [call EXCEPT ![c].phase = "create",
                          ![c].role = IF Cardinality(Existing) <= 1 THEN "admin" ELSE "client"]
  /\ UNCHANGED <<accounts, roles, keys, factor, made, secrets, batches, history>>

\* count: the first account, the SYSTEM one aside, is an administrator.
Count(c) ==
  /\ At(c, "count")
  /\ call' = [call EXCEPT ![c].phase = "create",
                          ![c].role = IF Existing = {} THEN "admin" ELSE "client"]
  /\ UNCHANGED <<accounts, roles, keys, factor, made, secrets, batches, history>>

\* create; an e-mail used by now breaks the unique index and the request fails.
Create(c) ==
  LET u == call[c].user
  IN  /\ At(c, "create")
      /\ IF u \in Existing THEN Ends(c) /\ UNCHANGED <<accounts, history>>
         ELSE /\ accounts' = [accounts EXCEPT ![u] = call[c].role]
              /\ call' = Joined(c)
              /\ history' = IF call[c].role # "admin" THEN history
                            ELSE [history EXCEPT !.founders = @ \union {u},
                                   !.late = IF call[c].joined THEN @ \union {u} ELSE @]
      /\ UNCHANGED <<roles, keys, factor, made, secrets, batches>>

\* The callback of a provider: the account of the e-mail is linked, or created.
OAuthLogin(c, u) ==
  /\ Begin(c)
  /\ u \notin Existing
  /\ accounts' = [accounts EXCEPT ![u] = "client"]
  /\ call' = Joined(c)
  /\ history' = [history EXCEPT !.guest = @ \/ Existing = {}]
  /\ UNCHANGED <<roles, keys, factor, secrets, batches>>

-----------------------------------------------------------------------------
(* Guards *)

\* JwtStrategy.validate, resolveUserFromAccessToken: a request of a signed-in user,
\* or of an administrator who impersonates it.
SessionRequest(c, u) ==
  /\ Begin(c)
  /\ u \in Existing
  /\ call' = [call EXCEPT ![c].phase = "serve", ![c].user = u, ![c].granted = PermissionsOf(u)]
  /\ UNCHANGED <<accounts, roles, keys, factor, secrets, batches, history>>

\* Mutant: the scopes of the key as they were granted.
KeyRequestScopes(c, k) ==
  /\ Begin(c)
  /\ keys[k].used
  /\ call' = [call EXCEPT ![c].phase = "serve", ![c].user = keys[k].user, ![c].granted = keys[k].scopes]
  /\ UNCHANGED <<accounts, roles, keys, factor, secrets, batches, history>>

\* validateAndGetUser: the scopes that the user's role still has, the wildcard among
\* them if an administrator gave it to the key and the user is one.
OfKey(k) == LET left == keys[k].scopes \intersect PermissionsOf(keys[k].user)
            IN  IF "*" \in left THEN Scopes ELSE left

KeyRequest(c, k) ==
  /\ Begin(c)
  /\ keys[k].used
  /\ call' = [call EXCEPT ![c].phase = "serve", ![c].user = keys[k].user, ![c].granted = OfKey(k)]
  /\ UNCHANGED <<accounts, roles, keys, factor, secrets, batches, history>>

\* PermissionsGuard
Serving(c, permission) == At(c, "serve") /\ {permission, "*"} \intersect call[c].granted # {}

-----------------------------------------------------------------------------
(* Administration: each handler writes once *)

\* The rows after a change by requests that end, and what those under way lose by it.
Settle(ended, newAccounts, newRoles) ==
  /\ accounts' = newAccounts
  /\ roles' = newRoles
  /\ call' = Withdraw([d \in Calls |-> IF d \in ended THEN IdleCall ELSE call[d]],
                      [u \in Users |-> Granting(newAccounts[u], newRoles)])

Assignable == {"null", "admin"} \union {r \in RoleNames : roles[r].made}

\* users.create
CreateUser(c, u, role) ==
  /\ Serving(c, "manage")
  /\ u \notin Existing /\ role \in Assignable
  /\ accounts' = [accounts EXCEPT ![u] = role]
  /\ call' = Joined(c)
  /\ UNCHANGED <<roles, keys, factor, made, secrets, batches, history>>

\* users.update
SetRole(c, u, role) ==
  /\ Serving(c, "manage")
  /\ u \in Existing /\ role \in Assignable \ {accounts[u]}
  /\ Settle({c}, [accounts EXCEPT ![u] = role], roles)
  /\ history' = [history EXCEPT !.ousted = @ \/ accounts[u] = "admin"]
  /\ UNCHANGED <<keys, factor, made, secrets, batches>>

\* users.delete: the rows of the account follow it, and what its requests under way
\* still write to its row finds none.
DeleteUser(c, u) ==
  /\ Serving(c, "manage")
  /\ u \in Existing
  /\ accounts' = [accounts EXCEPT ![u] = "none"]
  /\ call' = [d \in Calls |->
       IF d = c THEN IdleCall
       ELSE IF call[d].user # u \/ At(d, "count") \/ At(d, "create") \/ At(d, "idle") THEN call[d]
       ELSE [call[d] EXCEPT !.gone = TRUE, !.withdrawn = call[d].granted]]
  /\ keys' = [k \in Keys |-> IF keys[k].user = u THEN Free ELSE keys[k]]
  /\ factor' = IF u = Enrolled THEN Off ELSE factor
  /\ history' = [history EXCEPT !.ousted = @ \/ accounts[u] = "admin",
                                !.founders = @ \ {u}, !.late = @ \ {u}]
  /\ UNCHANGED <<roles, made, secrets, batches>>

\* roles.create
CreateRole(c, r) ==
  /\ Serving(c, "manage")
  /\ ~roles[r].made
  /\ roles' = [roles EXCEPT ![r].made = TRUE]
  /\ Ends(c)
  /\ UNCHANGED <<accounts, keys, factor, made, secrets, batches, history>>

\* roles.setPermissions: the old rows and the new ones in one transaction.
SetPermissions(c, r, permissions) ==
  /\ Serving(c, "manage")
  /\ roles[r].made /\ permissions # roles[r].permissions
  /\ Settle({c}, accounts, [roles EXCEPT ![r].permissions = permissions])
  /\ UNCHANGED <<keys, factor, made, secrets, batches, history>>

\* Two of these transactions at once, at READ COMMITTED: the later deleteMany waits for
\* the earlier one and does not see the rows that it created.  Both lists stay, unless
\* they share a permission: then the later createMany breaks the unique index, and the
\* transaction is as if it had not been.
SetPermissionsTogether(c, d, r, permissions, others) ==
  /\ c # d /\ Serving(c, "manage") /\ Serving(d, "manage")
  /\ roles[r].made /\ permissions # {} /\ others # {} /\ permissions \intersect others = {}
  /\ Settle({c, d}, accounts, [roles EXCEPT ![r].permissions = permissions \union others])
  /\ UNCHANGED <<keys, factor, made, secrets, batches, history>>

\* roles.delete: the users of the role keep none.
DeleteRole(c, r) ==
  /\ Serving(c, "manage")
  /\ roles[r].made /\ r \notin System
  /\ Settle({c}, [u \in Users |-> IF accounts[u] = r THEN "null" ELSE accounts[u]],
                  [roles EXCEPT ![r] = [made |-> FALSE, permissions |-> {}]])
  /\ UNCHANGED <<keys, factor, made, secrets, batches, history>>

\* The seed, run again by an installation or an operator: deleteMany, then createMany of
\* what the role client has by default, beside what an administrator gave it meanwhile.
SeedDelete(c) ==
  /\ Begin(c)
  /\ roles' = [roles EXCEPT !["client"].permissions = {}]
  /\ call' = Withdraw([call EXCEPT ![c].phase = "seed"],
                      [u \in Users |-> Granting(accounts[u], roles')])
  /\ UNCHANGED <<accounts, keys, factor, secrets, batches, history>>

SeedCreate(c) ==
  /\ At(c, "seed")
  /\ roles' = [roles EXCEPT !["client"].permissions = @ \union ClientPermissions]
  /\ Ends(c)
  /\ UNCHANGED <<accounts, keys, factor, made, secrets, batches, history>>

-----------------------------------------------------------------------------
(* API keys *)

\* api-keys.create: some scopes, all of them the actor's when the guard looked; whoever
\* holds the wildcard may give any, the wildcard itself too.
CreateKey(c, k, scopes) ==
  /\ At(c, "serve")
  /\ scopes # {} /\ ("*" \in call[c].granted \/ scopes \subseteq call[c].granted)
  /\ ~keys[k].used
  /\ ~call[c].gone
  /\ keys' = [keys EXCEPT ![k] = [user |-> call[c].user, scopes |-> scopes, used |-> TRUE]]
  /\ Ends(c)
  /\ UNCHANGED <<accounts, roles, factor, made, secrets, batches, history>>

\* api-keys.revoke
RevokeKey(c, k) ==
  /\ At(c, "serve")
  /\ keys[k].used /\ ((keys[k].user = call[c].user /\ ~call[c].gone) \/ "*" \in call[c].granted)
  /\ keys' = [keys EXCEPT ![k] = Free]
  /\ Ends(c)
  /\ UNCHANGED <<accounts, roles, factor, made, secrets, batches, history>>

-----------------------------------------------------------------------------
(* The second factor of Enrolled *)

OwnFactor(c, phase) == At(c, phase) /\ call[c].user = Enrolled /\ ~call[c].gone

\* 2fa/generate: a new secret at once, whether or not the factor is enabled, which the
\* handler does not look at.  The card offers it when its page last saw it disabled.
Generate(c) ==
  /\ OwnFactor(c, "serve")
  /\ secrets < MaxSecrets /\ secrets' = secrets + 1
  /\ factor' = [factor EXCEPT !.secret = secrets + 1]
  /\ history' = [history EXCEPT !.replaced = factor.enabled, !.overtaken = FALSE]
  /\ Ends(c)
  /\ UNCHANGED <<accounts, roles, keys, made, batches>>

\* 2fa/enable, as far as the check: the code is one of the secret that was read.
EnableCheck(c) ==
  /\ OwnFactor(c, "serve")
  /\ factor.secret # 0
  /\ call' = [call EXCEPT ![c].phase = "enable", ![c].secret = factor.secret]
  /\ UNCHANGED <<accounts, roles, keys, factor, made, secrets, batches, history>>

\* The write: it enables whatever secret the row holds, with new recovery codes.
EnableWrite(c) ==
  /\ At(c, "enable")
  /\ IF call[c].gone THEN UNCHANGED <<factor, batches, history>>
     ELSE /\ batches < MaxBatches /\ batches' = batches + 1
          /\ factor' = [factor EXCEPT !.enabled = TRUE, !.codes = {batches + 1} \X {1, 2}]
          /\ history' = [history EXCEPT !.confirmed = @ \union {call[c].secret},
                                        !.replaced = FALSE,
                                        !.overtaken = factor.secret # call[c].secret]
  /\ Ends(c)
  /\ UNCHANGED <<accounts, roles, keys, made, secrets>>

\* 2fa/disable, as far as the check.
DisableCheck(c) ==
  /\ OwnFactor(c, "serve")
  /\ factor.secret # 0
  /\ call' = [call EXCEPT ![c].phase = "disable"]
  /\ UNCHANGED <<accounts, roles, keys, factor, made, secrets, batches, history>>

\* Mutant: the secret and the codes are cleared, the factor stays enabled.
DisableSecretOnly(c) ==
  /\ At(c, "disable")
  /\ factor' = IF call[c].gone THEN factor ELSE [factor EXCEPT !.secret = 0, !.codes = {}]
  /\ Ends(c)
  /\ UNCHANGED <<accounts, roles, keys, made, secrets, batches, history>>

DisableWrite(c) ==
  /\ At(c, "disable")
  /\ IF call[c].gone THEN UNCHANGED <<factor, history>>
     ELSE /\ factor' = Off
          /\ history' = [history EXCEPT !.replaced = FALSE, !.overtaken = FALSE]
  /\ Ends(c)
  /\ UNCHANGED <<accounts, roles, keys, made, secrets, batches>>

\* login with a recovery code, as far as the check; a login with a TOTP code, or one
\* that stops at requiresTwoFactor (every OAuth login does), changes nothing.
LoginCheck(c, code) ==
  /\ Begin(c)
  /\ Enrolled \in Existing /\ factor.enabled /\ factor.secret # 0
  /\ code \in factor.codes
  /\ call' = [call EXCEPT ![c].phase = "login", ![c].codes = factor.codes, ![c].code = code]
  /\ UNCHANGED <<accounts, roles, keys, factor, secrets, batches, history>>

Accepted(c, left) ==
  /\ factor' = [factor EXCEPT !.codes = left]
  /\ history' = [history EXCEPT
       !.accepted = @ \union {call[c].code},
       !.twice = IF call[c].code \in history.accepted THEN @ \union {call[c].code} ELSE @,
       !.raced = IF factor.codes = call[c].codes THEN @
                 ELSE @ \union {call[c].code} \union (left \ factor.codes)]

\* Mutant: the code stays in the list.
LoginKeepsCode(c) ==
  /\ At(c, "login")
  /\ IF call[c].gone THEN UNCHANGED <<factor, history>> ELSE Accepted(c, call[c].codes)
  /\ Ends(c)
  /\ UNCHANGED <<accounts, roles, keys, made, secrets, batches>>

\* The list that was read, without the code, over the list that is there.
LoginWrite(c) ==
  /\ At(c, "login")
  /\ IF call[c].gone THEN UNCHANGED <<factor, history>>
     ELSE Accepted(c, call[c].codes \ {call[c].code})
  /\ Ends(c)
  /\ UNCHANGED <<accounts, roles, keys, made, secrets, batches>>

-----------------------------------------------------------------------------
\* A request that asks for nothing more, or is refused; a Backend that stops leaves
\* the rows as they are and drops every request.
Refused(c) ==
  /\ ~At(c, "idle")
  /\ Ends(c)
  /\ UNCHANGED <<accounts, roles, keys, factor, made, secrets, batches, history>>

\* The pages and cards that send these requests; a client of the API may do the same.
TwoFactorCard(c) == Generate(c) \/ EnableCheck(c) \/ DisableCheck(c)

ApiKeysCard(c) ==
  \E k \in Keys : RevokeKey(c, k) \/ \E scopes \in SUBSET Scopes : CreateKey(c, k, scopes)

AdminUsersPage(c) ==
  \E u \in Users : \/ DeleteUser(c, u)
                   \/ \E role \in Assignable : CreateUser(c, u, role) \/ SetRole(c, u, role)

AdminRolesPage(c) == \E r \in RoleNames : CreateRole(c, r) \/ DeleteRole(c, r)

RoleCard(c) ==
  \E r \in RoleNames, permissions \in SUBSET Permissions :
    \/ SetPermissions(c, r, permissions)
    \/ \E d \in Calls, others \in SUBSET Permissions : SetPermissionsTogether(c, d, r, permissions, others)

OAuthCallback(c) == \E u \in Users : OAuthLogin(c, u)

RegisterPage(c) == \E u \in Users : Register(c, u)

Next ==
  \E c \in Calls :
    \/ RegisterPage(c) \/ Count(c) \/ Create(c)
    \/ OAuthCallback(c) \/ SeedDelete(c) \/ SeedCreate(c)
    \/ \E u \in Users : SessionRequest(c, u)
    \/ \E k \in Keys : KeyRequest(c, k)
    \/ AdminUsersPage(c) \/ AdminRolesPage(c) \/ RoleCard(c) \/ ApiKeysCard(c)
    \/ TwoFactorCard(c) \/ EnableWrite(c) \/ DisableWrite(c)
    \/ (\E code \in factor.codes : LoginCheck(c, code)) \/ LoginWrite(c)
    \/ Refused(c)

Spec == Init /\ [][Next]_vars

-----------------------------------------------------------------------------
(* Properties *)

\* Every variable has its type, a role that does not exist grants nothing and nobody
\* has it, and a key belongs to an account.
TypeOK ==
  /\ accounts \in [Users -> {"none", "null", "admin"} \union RoleNames]
  /\ roles \in [RoleNames -> Role]
  /\ \A r \in RoleNames : roles[r].made \/ (roles[r].permissions = {} /\ \A u \in Users : accounts[u] # r)
  /\ keys \in [Keys -> [user : Users, scopes : SUBSET Scopes, used : BOOLEAN]]
  /\ \A k \in Keys : keys[k].used => accounts[keys[k].user] # "none"
  /\ factor \in Factor
  /\ \A c \in Calls : call[c].phase \in Phases /\ call[c].granted \subseteq Scopes
  /\ made \in 0 .. MaxRequests /\ secrets \in 0 .. MaxSecrets /\ batches \in 0 .. MaxBatches

\* An instance that has accounts has an administrator, unless one was deleted or
\* demoted, or the first account came by OAuth, which promotes nobody; and registration
\* makes one: of two, one was created after another account had come between its count
\* and its creation.
OneFounder ==
  /\ Existing # {} => \/ \E u \in Users : accounts[u] = "admin"
                      \/ history.ousted \/ history.guest
  /\ \A u, v \in history.founders : u = v \/ u \in history.late \/ v \in history.late

\* Types, and an instance that is founded once and has an administrator (AuthService.register).
AccountsInv == TypeOK /\ OneFounder

\* What a request may do, by a session or by a key whatever scopes it was given, its
\* user may do too, or lost the right to while the request was under way.
NoExcessRights ==
  \A c \in Calls :
    At(c, "serve") => call[c].granted \subseteq PermissionsOf(call[c].user) \union call[c].withdrawn

\* While the second factor is enabled, its secret is one whose code the user showed to
\* enable it.  There are two exceptions, which the steps that make them name.  A
\* generation on a factor that is enabled already replaces the secret that logins check
\* at once, with no code shown of either (generateTwoFactorSecret never looks at
\* twoFactorEnabled).  An enabling whose secret was replaced, or cleared, after its check
\* enables what it finds; only so is a factor enabled without any secret, and then no
\* login succeeds.
FactorConfirmed ==
  factor.enabled /\ factor.secret \notin history.confirmed =>
    history.overtaken \/ (history.replaced /\ factor.secret # 0)

\* A recovery code opens one session, unless a login wrote a list it had read before
\* another change of the list.
CodeOnce == history.twice \subseteq history.raced

=============================================================================
