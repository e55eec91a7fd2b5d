--------------------------- MODULE AccountsProofs ---------------------------
(***************************************************************************)
(* Accounts, roles, API keys and the second factor, for any number of      *)
(* users, permissions, keys and requests.                                  *)
(***************************************************************************)
EXTENDS Accounts, TLAPS

-----------------------------------------------------------------------------
(* Types                                                                    *)

Roles == {"none", "null", "admin"} \union RoleNames
CallRecord ==
  [phase: Phases, user: Users, gone: BOOLEAN, role: {"client", "admin"}, joined: BOOLEAN,
   granted: SUBSET Scopes, withdrawn: SUBSET Scopes,
   secret: 0 .. MaxSecrets, codes: SUBSET Codes, code: Codes \union {<<0, 0>>}]
KeyRecord == [user: Users, scopes: SUBSET Scopes, used: BOOLEAN]
HistoryRecord ==
  [confirmed: SUBSET (0 .. MaxSecrets), replaced: BOOLEAN, overtaken: BOOLEAN,
   accepted: SUBSET Codes, twice: SUBSET Codes, raced: SUBSET Codes, founders: SUBSET Users, late: SUBSET Users,
   ousted: BOOLEAN, guest: BOOLEAN]

Typed ==
  /\ accounts \in [Users -> Roles] /\ roles \in [RoleNames -> Role]
  /\ keys \in [Keys -> KeyRecord] /\ factor \in Factor
  /\ call \in [Calls -> CallRecord] /\ history \in HistoryRecord
  /\ made \in 0 .. MaxRequests /\ secrets \in 0 .. MaxSecrets /\ batches \in 0 .. MaxBatches

\* A request that is over has left nothing, and one that logs in presents a
\* code of the list it has read.
Quiet ==
  \A c \in Calls :
    /\ At(c, "idle") => call[c] = IdleCall
    /\ At(c, "login") => call[c].code \in call[c].codes

LEMMA PhaseNames ==
  \A p \in {"idle", "count", "create", "serve", "enable", "disable", "login", "seed"} : p \in Phases
BY DEF Phases

LEMMA IdleCallType ==
  /\ IdleCall \in CallRecord
  /\ IdleCall.phase = "idle" /\ IdleCall.gone = FALSE /\ IdleCall.user = Enrolled
  /\ IdleCall.codes = {} /\ IdleCall.withdrawn = {} /\ IdleCall.granted = {}
BY AccountsAssumption, PhaseNames DEF IdleCall, CallRecord

LEMMA CallType ==
  ASSUME Typed, NEW c \in Calls
  PROVE  /\ call[c] \in CallRecord
         /\ call[c].phase \in Phases /\ call[c].user \in Users /\ call[c].gone \in BOOLEAN
         /\ call[c].role \in {"client", "admin"} /\ call[c].joined \in BOOLEAN
         /\ call[c].granted \in SUBSET Scopes /\ call[c].withdrawn \in SUBSET Scopes
         /\ call[c].secret \in 0 .. MaxSecrets /\ call[c].codes \in SUBSET Codes
BY DEF Typed, CallRecord

\* The ways to change a request.
LEMMA CallUpdates ==
  ASSUME NEW r \in CallRecord, NEW phase \in Phases, NEW user \in Users, NEW role \in {"client", "admin"},
         NEW granted \in SUBSET Scopes, NEW withdrawn \in SUBSET Scopes, NEW flag \in BOOLEAN, NEW secret \in 0 .. MaxSecrets,
         NEW codes \in SUBSET Codes, NEW code \in Codes
  PROVE  /\ [r EXCEPT !.phase = phase] \in CallRecord
         /\ [r EXCEPT !.phase = phase, !.user = user] \in CallRecord
         /\ [r EXCEPT !.phase = phase, !.role = role] \in CallRecord
         /\ [r EXCEPT !.phase = phase, !.user = user, !.granted = granted] \in CallRecord
         /\ [r EXCEPT !.phase = phase, !.secret = secret] \in CallRecord
         /\ [r EXCEPT !.phase = phase, !.codes = codes, !.code = code] \in CallRecord
         /\ [r EXCEPT !.joined = flag] \in CallRecord
         /\ [r EXCEPT !.withdrawn = withdrawn] \in CallRecord
         /\ [r EXCEPT !.gone = flag, !.withdrawn = withdrawn] \in CallRecord
BY DEF CallRecord

LEMMA GrantingType ==
  ASSUME NEW rows \in [RoleNames -> Role], NEW role
  PROVE  Granting(role, rows) \in SUBSET Scopes
BY DEF Granting, Role, Scopes

\* Requests of which one ends and the others learn of an account, or lose permissions.
LEMMA EndsType ==
  ASSUME Typed, NEW c \in Calls, Ends(c)
  PROVE  /\ call' \in [Calls -> CallRecord] /\ call'[c] = IdleCall
         /\ \A d \in Calls \ {c} : call'[d] = call[d]
BY IdleCallType, CallType DEF Ends, Typed

LEMMA JoinedType ==
  ASSUME Typed, NEW c \in Calls, call' = Joined(c)
  PROVE  /\ call' \in [Calls -> CallRecord] /\ call'[c] = IdleCall
         /\ \A d \in Calls \ {c} :
              /\ call'[d].phase = call[d].phase /\ call'[d].user = call[d].user
              /\ call'[d].gone = call[d].gone /\ call'[d].role = call[d].role
              /\ call'[d].granted = call[d].granted /\ call'[d].withdrawn = call[d].withdrawn
              /\ call'[d].secret = call[d].secret /\ call'[d].codes = call[d].codes
              /\ call'[d].code = call[d].code
              /\ call[d].phase # "create" => call'[d] = call[d]
              /\ call[d].phase = "create" => call'[d].joined
<1>1. ASSUME NEW d \in Calls
      PROVE  [call[d] EXCEPT !.joined = TRUE] \in CallRecord
  BY CallType DEF CallRecord
<1>2. call' \in [Calls -> CallRecord]
  BY <1>1, IdleCallType, CallType DEF Joined, Typed
<1>3. ASSUME NEW d \in Calls \ {c}
      PROVE  call'[d] = IF call[d].phase = "create" THEN [call[d] EXCEPT !.joined = TRUE] ELSE call[d]
  BY DEF Joined, At
<1>4. call'[c] = IdleCall
  BY DEF Joined
<1>. QED
  BY <1>2, <1>3, <1>4, CallType DEF CallRecord

LEMMA WithdrawnField ==
  ASSUME NEW r \in CallRecord, NEW w \in SUBSET Scopes, NEW q, q = [r EXCEPT !.withdrawn = w]
  PROVE  /\ q \in CallRecord /\ q.withdrawn = w
         /\ q.phase = r.phase /\ q.user = r.user /\ q.gone = r.gone /\ q.role = r.role
         /\ q.joined = r.joined /\ q.granted = r.granted
         /\ q.secret = r.secret /\ q.codes = r.codes /\ q.code = r.code
BY DEF CallRecord

\* What the others know after it, when their users hold "held".
Kept(d, held) ==
  /\ call'[d].phase = call[d].phase /\ call'[d].user = call[d].user
  /\ call'[d].gone = call[d].gone /\ call'[d].role = call[d].role
  /\ call'[d].joined = call[d].joined
  /\ call'[d].granted = call[d].granted
  /\ call[d].phase = "serve" =>
       call'[d].withdrawn = call[d].withdrawn \union (call[d].granted \ held[call[d].user])
  /\ call'[d].secret = call[d].secret /\ call'[d].codes = call[d].codes
  /\ call'[d].code = call[d].code
  /\ call[d].phase # "serve" => call'[d] = call[d]
Withdrawn(c, held) == \A d \in Calls \ {c} : call'[d] = IdleCall \/ Kept(d, held)

\* The requests before that, one of which is the one that changes the rows.
Base(base, c) ==
  /\ base \in [Calls -> CallRecord]
  /\ base[c].phase \in {"idle", "seed"} /\ base[c].codes = {}
  /\ base[c].phase = "idle" => base[c] = IdleCall
  /\ \A d \in Calls \ {c} : base[d] = IdleCall \/ base[d] = call[d]
Regranted(base) == call' = Withdraw(base, [u \in Users |-> Granting(accounts'[u], roles')])

LEMMA WithdrawType ==
  ASSUME Typed, NEW c \in Calls, NEW base, Base(base, c),
         NEW held \in [Users -> SUBSET Scopes], call' = Withdraw(base, held)
  PROVE  /\ call' \in [Calls -> CallRecord] /\ call'[c] = base[c]
         /\ Withdrawn(c, held)
<1>0. /\ base \in [Calls -> CallRecord] /\ base[c].phase # "serve"
      /\ \A d \in Calls \ {c} : base[d] = IdleCall \/ base[d] = call[d]
  BY DEF Base
<1>1. ASSUME NEW d \in Calls
      PROVE  call'[d] = IF base[d].phase # "serve" THEN base[d]
                        ELSE [base[d] EXCEPT !.withdrawn = @ \union (base[d].granted \ held[base[d].user])]
  BY DEF Withdraw
<1>2. ASSUME NEW d \in Calls, base[d].phase = "serve"
      PROVE  /\ call'[d] \in CallRecord
             /\ call'[d].phase = base[d].phase /\ call'[d].user = base[d].user
             /\ call'[d].gone = base[d].gone /\ call'[d].role = base[d].role
             /\ call'[d].joined = base[d].joined /\ call'[d].granted = base[d].granted
             /\ call'[d].withdrawn = base[d].withdrawn \union (base[d].granted \ held[base[d].user])
             /\ call'[d].secret = base[d].secret /\ call'[d].codes = base[d].codes
             /\ call'[d].code = base[d].code
  <2>0. PICK r \in CallRecord : r = base[d]
    BY <1>0
  <2>1. PICK w \in SUBSET Scopes : w = r.withdrawn \union (r.granted \ held[r.user])
    BY DEF CallRecord
  <2>2. PICK q : q = call'[d]
    OBVIOUS
  <2>3. q = [r EXCEPT !.withdrawn = w]
    BY <1>1, <1>2, <2>0, <2>1, <2>2
  <2>4. /\ q \in CallRecord /\ q.withdrawn = w
        /\ q.phase = r.phase /\ q.user = r.user /\ q.gone = r.gone /\ q.role = r.role
        /\ q.joined = r.joined /\ q.granted = r.granted
        /\ q.secret = r.secret /\ q.codes = r.codes /\ q.code = r.code
    BY <2>3, WithdrawnField
  <2>5. q.withdrawn = base[d].withdrawn \union (base[d].granted \ held[base[d].user])
    BY <2>0, <2>1, <2>4
  <2>. QED
    BY <2>0, <2>2, <2>4, <2>5
<1>3. ASSUME NEW d \in Calls, base[d].phase # "serve"
      PROVE  call'[d] = base[d]
  BY <1>1, <1>3
<1>4. call' \in [Calls -> CallRecord]
  <2>1. ASSUME NEW d \in Calls
        PROVE  call'[d] \in CallRecord
    BY <1>0, <1>2, <1>3
  <2>2. call' = [d \in Calls |-> call'[d]]
    BY DEF Withdraw
  <2>. QED
    BY <2>1, <2>2
<1>5. ASSUME NEW d \in Calls \ {c}
      PROVE  call'[d] = IdleCall \/ Kept(d, held)
  <2>1. CASE base[d] = IdleCall
    BY <1>3, <2>1, IdleCallType
  <2>2. CASE base[d] = call[d] /\ call[d].phase = "serve"
    BY <1>2, <2>2 DEF Kept
  <2>3. CASE base[d] = call[d] /\ call[d].phase # "serve"
    BY <1>3, <2>3 DEF Kept
  <2>. QED
    BY <1>0, <2>1, <2>2, <2>3
<1>6. Withdrawn(c, held)
  BY <1>5 DEF Withdrawn
<1>. QED
  BY <1>0, <1>3, <1>4, <1>6

-----------------------------------------------------------------------------
(* The invariants                                                           *)

\* The rows refer to rows that exist, and so does a request whose account has
\* not been deleted meanwhile.
Owning == {"serve", "enable", "disable", "login"}
Rows ==
  /\ roles["client"].made
  /\ \A r \in RoleNames : roles[r].made \/ (roles[r].permissions = {} /\ \A u \in Users : accounts[u] # r)
  /\ \A k \in Keys : keys[k].used => accounts[keys[k].user] # "none"
  /\ \A c \in Calls : call[c].phase \in Owning /\ ~call[c].gone => accounts[call[c].user] # "none"

\* NoExcessRights, as a request has read the rows.
Rights ==
  \A c \in Calls :
    call[c].phase = "serve" =>
      call[c].granted \subseteq Granting(accounts[call[c].user], roles) \union call[c].withdrawn

\* An instance that has had an account, as far as a request has seen, is led by
\* an administrator or has lost it; and a registration that is to make one, and
\* has not been overtaken, is the first.
Led == (\E u \in Users : accounts[u] = "admin") \/ history.ousted \/ history.guest
Founding ==
  /\ \A u \in Users : accounts[u] # "none" => Led
  /\ \A c \in Calls :
       call[c].phase = "serve" \/ (call[c].phase = "create" /\ call[c].role = "client") => Led
  /\ \A u \in history.founders : accounts[u] # "none"
  /\ \A c \in Calls :
       call[c].phase = "create" /\ call[c].role = "admin" /\ ~call[c].joined => history.founders = {}
  /\ \A u, v \in history.founders : u = v \/ u \in history.late \/ v \in history.late

\* An enabling is one of the user; no code of the list has been used, and a new
\* list has no code of an old one.
Made == (1 .. batches) \X {1, 2}
SecondFactor ==
  /\ FactorConfirmed /\ CodeOnce
  /\ \A code \in factor.codes : code \in history.accepted => code \in history.raced
  /\ factor.codes \subseteq Made /\ history.accepted \subseteq Made
  /\ \A c \in Calls : call[c].codes \subseteq Made

Inv == Typed /\ Quiet /\ Rows /\ Rights /\ Founding /\ SecondFactor

-----------------------------------------------------------------------------
(* What a request does to the others, and what it leaves alone              *)

SameCall(d) ==
  /\ call'[d].phase = call[d].phase /\ call'[d].user = call[d].user /\ call'[d].role = call[d].role
  /\ call'[d].granted = call[d].granted /\ call'[d].secret = call[d].secret
  /\ call'[d].codes = call[d].codes /\ call'[d].code = call[d].code
  /\ call[d].withdrawn \subseteq call'[d].withdrawn
  /\ call[d].gone => call'[d].gone
  /\ call[d].joined => call'[d].joined
  /\ call[d].phase = "idle" => call'[d] = call[d]
Others(c) == \A d \in Calls \ {c} : call'[d] = IdleCall \/ SameCall(d)

LEMMA IdlePhase ==
  /\ IdleCall.phase \notin Owning \union {"serve", "create", "enable", "login"}
  /\ IdleCall.codes = {} /\ IdleCall.phase = "idle"
BY IdleCallType DEF Owning

LEMMA QuietFrame ==
  ASSUME Quiet, NEW c \in Calls, Others(c),
         call'[c].phase = "idle" => call'[c] = IdleCall,
         call'[c].phase = "login" => call'[c].code \in call'[c].codes
  PROVE  Quiet'
BY IdlePhase DEF Quiet, Others, SameCall, At

LEMMA RowsFrame ==
  ASSUME Rows, NEW c \in Calls, Others(c), UNCHANGED <<accounts, roles, keys>>,
         call'[c].phase \in Owning /\ ~call'[c].gone => accounts[call'[c].user] # "none"
  PROVE  Rows'
BY IdlePhase DEF Rows, Others, SameCall

LEMMA RightsFrame ==
  ASSUME Rights, Typed, NEW c \in Calls, Others(c), call'[c].phase # "serve",
         \A u \in Users : Granting(accounts[u], roles) \subseteq Granting(accounts'[u], roles')
  PROVE  Rights'
<1>. SUFFICES ASSUME NEW d \in Calls, call'[d].phase = "serve"
              PROVE  call'[d].granted \subseteq Granting(accounts'[call'[d].user], roles') \union call'[d].withdrawn
  BY DEF Rights
<1>1. d # c /\ SameCall(d)
  BY IdlePhase DEF Others
<1>2. call[d].granted \subseteq Granting(accounts[call[d].user], roles) \union call[d].withdrawn
  BY <1>1 DEF Rights, SameCall
<1>3. PICK u \in Users : u = call[d].user
  BY CallType
<1>4. /\ Granting(accounts[u], roles) \subseteq Granting(accounts'[u], roles') /\ call'[d].user = u
      /\ call'[d].granted = call[d].granted /\ call[d].withdrawn \subseteq call'[d].withdrawn
  BY <1>1, <1>3 DEF SameCall
<1>. QED
  BY <1>2, <1>3, <1>4

LEMMA FoundingFrame ==
  ASSUME Founding, NEW c \in Calls, Others(c), call'[c].phase \notin {"serve", "create"},
         \A u \in Users : accounts'[u] = "none" <=> accounts[u] = "none",
         history'.founders = history.founders, history'.late = history.late, history.founders \subseteq Users,
         Led => Led'
  PROVE  Founding'
BY IdlePhase DEF Founding, Others, SameCall

SameFactor ==
  /\ UNCHANGED <<factor, batches>>
  /\ history'.confirmed = history.confirmed /\ history'.replaced = history.replaced
  /\ history'.overtaken = history.overtaken
  /\ history'.accepted = history.accepted /\ history'.twice = history.twice
  /\ history'.raced = history.raced

LEMMA FactorFrame ==
  ASSUME SecondFactor, NEW c \in Calls, Others(c), SameFactor,
         call'[c].codes \in {{}, call[c].codes, factor.codes}
  PROVE  SecondFactor'
BY IdlePhase DEF SecondFactor, Others, SameCall, SameFactor, FactorConfirmed, CodeOnce, Made

LEMMA LedFrame ==
  ASSUME \A u \in Users : accounts[u] = "admin" => accounts'[u] = "admin",
         history.ousted => history'.ousted, history.guest => history'.guest
  PROVE  Led => Led'
BY DEF Led

LEMMA EndsOthers ==
  ASSUME Typed, NEW c \in Calls, Ends(c)
  PROVE  /\ Others(c) /\ call'[c] = IdleCall /\ call' \in [Calls -> CallRecord]
         /\ Quiet => Quiet'
<1>1. /\ call' \in [Calls -> CallRecord] /\ call'[c] = IdleCall
      /\ \A d \in Calls \ {c} : call'[d] = call[d]
  BY EndsType
<1>2. Others(c)
  BY <1>1 DEF Others, SameCall
<1>. QED
  BY <1>1, <1>2, IdleCallType, QuietFrame

-----------------------------------------------------------------------------
(* Requests that end, having written one thing at most                      *)

\* A request that ends leaves these alone if its writes do.
LEMMA EndsRights ==
  ASSUME Inv, NEW c \in Calls, Ends(c),
         \A u \in Users : Granting(accounts[u], roles) \subseteq Granting(accounts'[u], roles')
  PROVE  Rights'
BY EndsOthers, IdlePhase, RightsFrame DEF Inv

LEMMA EndsRows ==
  ASSUME Inv, NEW c \in Calls, Ends(c), UNCHANGED <<accounts, roles, keys>>
  PROVE  Rows'
BY EndsOthers, IdlePhase, RowsFrame DEF Inv

LEMMA EndsFounding ==
  ASSUME Inv, NEW c \in Calls, Ends(c), UNCHANGED accounts,
         history'.founders = history.founders, history'.late = history.late,
         history'.ousted = history.ousted, history'.guest = history.guest
  PROVE  Founding'
<1>1. history.founders \subseteq Users
  BY DEF Inv, Typed, HistoryRecord
<1>. QED
  BY <1>1, EndsOthers, IdlePhase, LedFrame, FoundingFrame DEF Inv

LEMMA EndsFactor ==
  ASSUME Inv, NEW c \in Calls, Ends(c), SameFactor
  PROVE  SecondFactor'
BY EndsOthers, IdlePhase, FactorFrame DEF Inv

LEMMA RefusedStep ==
  ASSUME Inv, NEW c \in Calls, Refused(c)
  PROVE  Inv'
<1>1. Ends(c) /\ UNCHANGED <<accounts, roles, keys, factor, made, secrets, batches, history>>
  BY DEF Refused
<1>2. Typed' /\ Quiet'
  BY <1>1, EndsOthers DEF Inv, Typed
<1>. QED
  BY <1>1, <1>2, EndsRows, EndsRights, EndsFounding, EndsFactor DEF Inv, SameFactor

LEMMA CreateKeyStep ==
  ASSUME Inv, NEW c \in Calls, NEW k \in Keys, NEW scopes \in SUBSET Scopes, CreateKey(c, k, scopes)
  PROVE  Inv'
<1>1. Ends(c) /\ UNCHANGED <<accounts, roles, factor, made, secrets, batches, history>>
  BY DEF CreateKey
<1>2. PICK r : r = [user |-> call[c].user, scopes |-> scopes, used |-> TRUE]
  OBVIOUS
<1>3. keys' = [keys EXCEPT ![k] = r]
  BY <1>2 DEF CreateKey
<1>4. r \in KeyRecord /\ accounts[r.user] # "none"
  BY <1>2, CallType DEF CreateKey, At, Inv, Rows, Owning, KeyRecord
<1>5. Typed' /\ Quiet'
  BY <1>1, <1>3, <1>4, EndsOthers DEF Inv, Typed
<1>6. Rows'
  <2>1. \A d \in Calls : call'[d].phase \in Owning /\ ~call'[d].gone => accounts[call'[d].user] # "none"
    BY <1>1, EndsOthers, IdlePhase DEF Inv, Rows, Others, SameCall
  <2>2. \A j \in Keys : keys'[j].used => accounts[keys'[j].user] # "none"
    BY <1>3, <1>4 DEF Inv, Rows, Typed
  <2>. QED
    BY <1>1, <2>1, <2>2 DEF Inv, Rows
<1>. QED
  BY <1>1, <1>5, <1>6, EndsRights, EndsFounding, EndsFactor DEF Inv, SameFactor

LEMMA RevokeKeyStep ==
  ASSUME Inv, NEW c \in Calls, NEW k \in Keys, RevokeKey(c, k)
  PROVE  Inv'
<1>1. Ends(c) /\ UNCHANGED <<accounts, roles, factor, made, secrets, batches, history>>
  BY DEF RevokeKey
<1>2. keys' = [keys EXCEPT ![k] = Free]
  BY DEF RevokeKey
<1>3. Free \in KeyRecord /\ Free.used = FALSE
  BY AccountsAssumption DEF Free, KeyRecord
<1>4. Typed' /\ Quiet'
  BY <1>1, <1>2, <1>3, EndsOthers DEF Inv, Typed
<1>5. Rows'
  <2>1. \A d \in Calls : call'[d].phase \in Owning /\ ~call'[d].gone => accounts[call'[d].user] # "none"
    BY <1>1, EndsOthers, IdlePhase DEF Inv, Rows, Others, SameCall
  <2>2. \A j \in Keys : keys'[j].used => accounts[keys'[j].user] # "none"
    BY <1>2, <1>3 DEF Inv, Rows, Typed
  <2>. QED
    BY <1>1, <2>1, <2>2 DEF Inv, Rows
<1>. QED
  BY <1>1, <1>4, <1>5, EndsRights, EndsFounding, EndsFactor DEF Inv, SameFactor

\* A role whose rows only grow takes nothing from anybody.
LEMMA GrantingGrows ==
  ASSUME NEW rows \in [RoleNames -> Role], NEW more \in [RoleNames -> Role],
         \A r \in RoleNames : rows[r].permissions \subseteq more[r].permissions, NEW role
  PROVE  Granting(role, rows) \subseteq Granting(role, more)
BY DEF Granting

LEMMA EndsRoles ==
  ASSUME Inv, NEW c \in Calls, Ends(c), UNCHANGED <<accounts, keys, factor, made, secrets, batches, history>>,
         NEW r \in RoleNames, NEW new \in Role, roles' = [roles EXCEPT ![r] = new],
         new.made, roles[r].permissions \subseteq new.permissions
  PROVE  Inv'
<1>1. roles' \in [RoleNames -> Role] /\ roles \in [RoleNames -> Role]
  BY DEF Inv, Typed
<1>2. Typed' /\ Quiet'
  BY <1>1, EndsOthers DEF Inv, Typed
<1>3. Rows'
  <2>1. \A d \in Calls : call'[d].phase \in Owning /\ ~call'[d].gone => accounts[call'[d].user] # "none"
    BY EndsOthers, IdlePhase DEF Inv, Rows, Others, SameCall
  <2>2. /\ roles'["client"].made
        /\ \A q \in RoleNames : roles'[q].made \/ (roles'[q].permissions = {} /\ \A u \in Users : accounts[u] # q)
    BY <1>1 DEF Inv, Rows, RoleNames
  <2>. QED
    BY <2>1, <2>2 DEF Inv, Rows
<1>4. \A u \in Users : Granting(accounts[u], roles) \subseteq Granting(accounts'[u], roles')
  <2>1. \A q \in RoleNames : roles[q].permissions \subseteq roles'[q].permissions
    BY <1>1
  <2>. QED
    BY <1>1, <2>1, GrantingGrows
<1>. QED
  BY <1>2, <1>3, <1>4, EndsRights, EndsFounding, EndsFactor DEF Inv, SameFactor

LEMMA CreateRoleStep ==
  ASSUME Inv, NEW c \in Calls, NEW r \in RoleNames, CreateRole(c, r)
  PROVE  Inv'
<1>1. roles[r] \in Role
  BY DEF Inv, Typed
<1>2. PICK new : new = [roles[r] EXCEPT !.made = TRUE]
  OBVIOUS
<1>3. new \in Role /\ new.made /\ new.permissions = roles[r].permissions
  BY <1>1, <1>2 DEF Role
<1>4. roles' = [roles EXCEPT ![r] = new]
  BY <1>2 DEF CreateRole, Inv, Typed
<1>. QED
  BY <1>3, <1>4, EndsRoles DEF CreateRole

LEMMA SeedCreateStep ==
  ASSUME Inv, NEW c \in Calls, SeedCreate(c)
  PROVE  Inv'
<1>1. "client" \in RoleNames /\ roles["client"] \in Role /\ roles["client"].made
  BY DEF Inv, Typed, Rows, RoleNames
<1>2. PICK new : new = [roles["client"] EXCEPT !.permissions = @ \union ClientPermissions]
  OBVIOUS
<1>3. new \in Role /\ new.made /\ roles["client"].permissions \subseteq new.permissions
  BY <1>1, <1>2 DEF Role, ClientPermissions
<1>4. roles' = [roles EXCEPT !["client"] = new]
  BY <1>2 DEF SeedCreate, Inv, Typed
<1>. QED
  BY <1>1, <1>3, <1>4, EndsRoles DEF SeedCreate

-----------------------------------------------------------------------------
(* The second factor                                                        *)

LEMMA EndsWithFactor ==
  ASSUME Inv, NEW c \in Calls, Ends(c), UNCHANGED <<accounts, roles, keys, made>>,
         factor' \in Factor, history' \in HistoryRecord,
         secrets' \in 0 .. MaxSecrets, batches' \in 0 .. MaxBatches,
         history'.founders = history.founders, history'.late = history.late,
         history'.ousted = history.ousted, history'.guest = history.guest,
         SecondFactor'
  PROVE  Inv'
<1>1. Typed' /\ Quiet'
  BY EndsOthers DEF Inv, Typed
<1>. QED
  BY <1>1, EndsRows, EndsRights, EndsFounding DEF Inv

\* What is left of the second factor to show once the requests are known.
LEMMA FactorOfOthers ==
  ASSUME Inv, NEW c \in Calls, Ends(c), batches \in Nat, batches' \in Nat, batches <= batches',
         FactorConfirmed', CodeOnce',
         \A code \in factor'.codes : code \in history'.accepted => code \in history'.raced,
         factor'.codes \subseteq Made', history'.accepted \subseteq Made'
  PROVE  SecondFactor'
<1>1. call'[c] = IdleCall /\ \A d \in Calls \ {c} : call'[d] = call[d]
  BY EndsType DEF Inv
<1>2. Made \subseteq Made'
  BY DEF Made
<1>3. \A d \in Calls : call'[d].codes \subseteq Made'
  BY <1>1, <1>2, IdlePhase DEF Inv, SecondFactor
<1>. QED
  BY <1>3 DEF SecondFactor

LEMMA GenerateStep ==
  ASSUME Inv, NEW c \in Calls, Generate(c)
  PROVE  Inv'
<1>0. /\ factor \in Factor /\ history \in HistoryRecord
      /\ secrets \in Nat /\ secrets < MaxSecrets /\ secrets' = secrets + 1 /\ secrets' \in 0 .. MaxSecrets
      /\ batches \in 0 .. MaxBatches /\ batches \in Nat /\ batches' = batches
  BY AccountsAssumption DEF Inv, Typed, Generate
<1>1. PICK s \in 0 .. MaxSecrets : s = secrets + 1
  BY <1>0
<1>2. PICK replaced \in BOOLEAN : replaced = factor.enabled
  BY <1>0 DEF Factor
<1>3. /\ factor' = [factor EXCEPT !.secret = s]
      /\ history' = [history EXCEPT !.replaced = replaced, !.overtaken = FALSE]
  BY <1>1, <1>2 DEF Generate
<1>4. /\ factor' \in Factor /\ factor'.enabled = factor.enabled /\ factor'.codes = factor.codes
      /\ factor'.secret = s /\ s # 0
  BY <1>0, <1>1, <1>3 DEF Factor
<1>5. /\ history' \in HistoryRecord /\ history'.replaced = replaced
      /\ history'.founders = history.founders /\ history'.late = history.late
      /\ history'.ousted = history.ousted /\ history'.guest = history.guest
      /\ history'.accepted = history.accepted /\ history'.twice = history.twice
      /\ history'.raced = history.raced /\ history'.confirmed = history.confirmed
  BY <1>0, <1>3 DEF HistoryRecord
<1>6. Made' = Made /\ Ends(c) /\ UNCHANGED <<accounts, roles, keys, made, batches>>
  BY <1>0 DEF Made, Generate
<1>7. SecondFactor'
  <2>1. FactorConfirmed' /\ CodeOnce'
    BY <1>2, <1>4, <1>5 DEF FactorConfirmed, CodeOnce, Inv, SecondFactor
  <2>2. /\ \A code \in factor'.codes : code \in history'.accepted => code \in history'.raced
        /\ factor'.codes \subseteq Made' /\ history'.accepted \subseteq Made'
    BY <1>4, <1>5, <1>6 DEF Inv, SecondFactor
  <2>3. batches <= batches' /\ batches' \in Nat
    BY <1>0
  <2>. QED
    BY <1>0, <1>6, <2>1, <2>2, <2>3, FactorOfOthers
<1>. QED
  BY <1>0, <1>4, <1>5, <1>6, <1>7, EndsWithFactor

LEMMA EnableWriteStep ==
  ASSUME Inv, NEW c \in Calls, EnableWrite(c)
  PROVE  Inv'
<1>1. CASE call[c].gone
  BY <1>1, RefusedStep DEF EnableWrite, Refused, At
<1>2. CASE ~call[c].gone
  <2>0. /\ factor \in Factor /\ history \in HistoryRecord
        /\ batches \in Nat /\ batches' = batches + 1 /\ batches' \in 0 .. MaxBatches /\ batches' \in Nat
        /\ secrets' = secrets /\ secrets' \in 0 .. MaxSecrets /\ batches <= batches'
    BY <1>2, AccountsAssumption DEF Inv, Typed, EnableWrite
  <2>1. PICK new : new = {batches + 1} \X {1, 2}
    OBVIOUS
  <2>2. new \subseteq Codes /\ new \subseteq Made' /\ new \intersect Made = {} /\ Made \subseteq Made'
    BY <2>0, <2>1 DEF Codes, Made
  <2>3. factor' = [factor EXCEPT !.enabled = TRUE, !.codes = new]
    BY <1>2, <2>1 DEF EnableWrite
  <2>4. PICK s \in 0 .. MaxSecrets, overtaken \in BOOLEAN :
          s = call[c].secret /\ overtaken = (factor.secret # call[c].secret)
    BY CallType DEF Inv
  <2>5. history' = [history EXCEPT !.confirmed = @ \union {s}, !.replaced = FALSE, !.overtaken = overtaken]
    BY <1>2, <2>4 DEF EnableWrite
  <2>6. factor' \in Factor /\ factor'.enabled /\ factor'.codes = new /\ factor'.secret = factor.secret
    BY <2>0, <2>2, <2>3 DEF Factor
  <2>7. /\ history' \in HistoryRecord /\ history'.overtaken = overtaken
        /\ history'.founders = history.founders /\ history'.late = history.late
        /\ history'.ousted = history.ousted /\ history'.guest = history.guest
        /\ history'.accepted = history.accepted /\ history'.twice = history.twice
        /\ history'.raced = history.raced /\ history'.confirmed = history.confirmed \union {s}
    BY <2>0, <2>5 DEF HistoryRecord
  <2>8. Ends(c) /\ UNCHANGED <<accounts, roles, keys, made, secrets>> /\ call[c].phase = "enable"
    BY <1>2 DEF EnableWrite, At
  <2>9. SecondFactor'
    <3>1. FactorConfirmed' /\ CodeOnce'
      BY <2>4, <2>6, <2>7 DEF FactorConfirmed, CodeOnce, Inv, SecondFactor
    <3>2. /\ \A code \in factor'.codes : code \notin history'.accepted
          /\ factor'.codes \subseteq Made' /\ history'.accepted \subseteq Made'
      BY <2>2, <2>6, <2>7 DEF Inv, SecondFactor
    <3>. QED
      BY <2>0, <2>8, <3>1, <3>2, FactorOfOthers
  <2>. QED
    BY <2>0, <2>6, <2>7, <2>8, <2>9, EndsWithFactor
<1>. QED
  BY <1>1, <1>2

LEMMA DisableWriteStep ==
  ASSUME Inv, NEW c \in Calls, DisableWrite(c)
  PROVE  Inv'
<1>1. CASE call[c].gone
  BY <1>1, RefusedStep DEF DisableWrite, Refused, At
<1>2. CASE ~call[c].gone
  <2>0. /\ history \in HistoryRecord
        /\ batches' = batches /\ batches \in 0 .. MaxBatches /\ batches \in Nat
        /\ secrets' = secrets /\ secrets \in 0 .. MaxSecrets
    BY <1>2, AccountsAssumption DEF Inv, Typed, DisableWrite
  <2>2. factor' = Off /\ history' = [history EXCEPT !.replaced = FALSE, !.overtaken = FALSE]
    BY <1>2 DEF DisableWrite
  <2>3. factor' \in Factor /\ ~factor'.enabled /\ factor'.codes = {}
    BY <2>2, AccountsAssumption DEF Off, Factor
  <2>4. /\ history' \in HistoryRecord
        /\ history'.founders = history.founders /\ history'.late = history.late
        /\ history'.ousted = history.ousted /\ history'.guest = history.guest
        /\ history'.accepted = history.accepted /\ history'.twice = history.twice
        /\ history'.raced = history.raced /\ history'.confirmed = history.confirmed
    BY <2>0, <2>2 DEF HistoryRecord
  <2>5. Ends(c) /\ UNCHANGED <<accounts, roles, keys, made, secrets>> /\ Made' = Made
    BY <1>2, <2>0 DEF DisableWrite, Made
  <2>6. SecondFactor'
    <3>1. FactorConfirmed' /\ CodeOnce'
      BY <2>3, <2>4 DEF FactorConfirmed, CodeOnce, Inv, SecondFactor
    <3>2. factor'.codes \subseteq Made' /\ history'.accepted \subseteq Made'
      BY <2>3, <2>4, <2>5 DEF Inv, SecondFactor
    <3>. QED
      BY <2>0, <2>3, <2>5, <3>1, <3>2, FactorOfOthers
  <2>. QED
    BY <2>0, <2>3, <2>4, <2>5, <2>6, EndsWithFactor
<1>. QED
  BY <1>1, <1>2

LEMMA LoginWriteStep ==
  ASSUME Inv, NEW c \in Calls, LoginWrite(c)
  PROVE  Inv'
<1>1. CASE call[c].gone
  BY <1>1, RefusedStep DEF LoginWrite, Refused, At
<1>2. CASE ~call[c].gone
  <2>0. /\ factor \in Factor /\ history \in HistoryRecord
        /\ batches' = batches /\ batches \in 0 .. MaxBatches /\ batches \in Nat
        /\ secrets' = secrets /\ secrets \in 0 .. MaxSecrets
    BY <1>2, AccountsAssumption DEF Inv, Typed, LoginWrite
  <2>1. Accepted(c, call[c].codes \ {call[c].code}) /\ call[c].phase = "login"
    BY <1>2 DEF LoginWrite, At
  <2>2. PICK code \in Codes, list \in SUBSET Codes :
          code = call[c].code /\ list = call[c].codes /\ code \in list /\ list \subseteq Made
    <3>1. call[c].code \in call[c].codes
      BY <2>1 DEF Inv, Quiet, At
    <3>2. call[c].codes \subseteq Made
      BY DEF Inv, SecondFactor
    <3>3. call[c].codes \in SUBSET Codes
      BY CallType DEF Inv
    <3>. QED
      BY <3>1, <3>2, <3>3
  <2>3. PICK twice \in SUBSET Codes, raced \in SUBSET Codes :
          /\ twice = IF code \in history.accepted THEN history.twice \union {code} ELSE history.twice
          /\ raced = IF factor.codes = list THEN history.raced
                     ELSE history.raced \union {code} \union ((list \ {code}) \ factor.codes)
    <3>1. history.twice \in SUBSET Codes /\ history.raced \in SUBSET Codes
      BY <2>0 DEF HistoryRecord
    <3>2. history.twice \union {code} \in SUBSET Codes
      BY <2>2, <3>1
    <3>3. history.raced \union {code} \union ((list \ {code}) \ factor.codes) \in SUBSET Codes
      BY <2>2, <3>1
    <3>4. PICK twice \in SUBSET Codes :
            twice = IF code \in history.accepted THEN history.twice \union {code} ELSE history.twice
      BY <3>1, <3>2
    <3>5. PICK raced \in SUBSET Codes :
            raced = IF factor.codes = list THEN history.raced
                    ELSE history.raced \union {code} \union ((list \ {code}) \ factor.codes)
      BY <3>1, <3>3
    <3>. QED
      BY <3>4, <3>5
  <2>4. /\ factor' = [factor EXCEPT !.codes = list \ {code}]
        /\ history' = [history EXCEPT !.accepted = @ \union {code}, !.twice = twice, !.raced = raced]
    BY <2>1, <2>2, <2>3 DEF Accepted
  <2>5. /\ factor' \in Factor /\ factor'.codes = list \ {code}
        /\ factor'.enabled = factor.enabled /\ factor'.secret = factor.secret
    BY <2>0, <2>4 DEF Factor
  <2>6. /\ history' \in HistoryRecord /\ history'.replaced = history.replaced
        /\ history'.overtaken = history.overtaken
        /\ history'.founders = history.founders /\ history'.late = history.late
        /\ history'.ousted = history.ousted /\ history'.guest = history.guest
        /\ history'.accepted = history.accepted \union {code} /\ history'.twice = twice
        /\ history'.raced = raced /\ history'.confirmed = history.confirmed
    BY <2>0, <2>4 DEF HistoryRecord
  <2>7. Ends(c) /\ UNCHANGED <<accounts, roles, keys, made, secrets>> /\ Made' = Made
    BY <1>2, <2>0 DEF LoginWrite, Made
  <2>8. SecondFactor'
    <3>1. FactorConfirmed'
      BY <2>5, <2>6 DEF FactorConfirmed, Inv, SecondFactor
    <3>2. CodeOnce'
      BY <2>2, <2>3, <2>6 DEF CodeOnce, Inv, SecondFactor
    <3>3. \A used \in factor'.codes : used \in history'.accepted => used \in history'.raced
      BY <2>3, <2>5, <2>6 DEF Inv, SecondFactor
    <3>4. factor'.codes \subseteq Made' /\ history'.accepted \subseteq Made'
      BY <2>2, <2>5, <2>6, <2>7 DEF Inv, SecondFactor
    <3>. QED
      BY <2>0, <2>7, <3>1, <3>2, <3>3, <3>4, FactorOfOthers
  <2>. QED
    BY <2>0, <2>5, <2>6, <2>7, <2>8, EndsWithFactor
<1>. QED
  BY <1>1, <1>2

-----------------------------------------------------------------------------
(* Requests that begin, or go on                                            *)

\* A request that goes on changes nothing but itself.
LEMMA GoesOn ==
  ASSUME Inv, NEW c \in Calls, NEW r \in CallRecord, call' = [call EXCEPT ![c] = r],
         made' \in 0 .. MaxRequests,
         UNCHANGED <<accounts, roles, keys, factor, secrets, batches, history>>,
         r.phase # "idle", r.phase = "login" => r.code \in r.codes,
         r.phase \in Owning /\ ~r.gone => accounts[r.user] # "none",
         r.phase = "serve" => r.granted \subseteq Granting(accounts[r.user], roles) \union r.withdrawn,
         r.phase = "serve" \/ (r.phase = "create" /\ r.role = "client") => Led,
         r.phase = "create" /\ r.role = "admin" /\ ~r.joined => history.founders = {},
         r.codes \in {{}, call[c].codes, factor.codes}
  PROVE  Inv'
<1>1. call'[c] = r /\ \A d \in Calls \ {c} : call'[d] = call[d]
  BY DEF Inv, Typed
<1>2. Others(c)
  BY <1>1 DEF Others, SameCall
<1>3. Typed'
  BY DEF Inv, Typed
<1>4. Quiet' /\ Rows'
  BY <1>1, <1>2, QuietFrame, RowsFrame DEF Inv
<1>5. Rights'
  BY <1>1 DEF Inv, Rights
<1>6. Founding'
  <2>1. Led' <=> Led
    BY DEF Led
  <2>. QED
    BY <1>1, <2>1 DEF Inv, Founding
<1>7. SecondFactor'
  <2>1. Made' = Made /\ FactorConfirmed' /\ CodeOnce'
    BY DEF Inv, SecondFactor, Made, FactorConfirmed, CodeOnce
  <2>2. r.codes \subseteq Made
    BY DEF Inv, SecondFactor
  <2>. QED
    BY <1>1, <2>1, <2>2 DEF Inv, SecondFactor
<1>. QED
  BY <1>3, <1>4, <1>5, <1>6, <1>7 DEF Inv

LEMMA Begins ==
  ASSUME Inv, NEW c \in Calls, Begin(c)
  PROVE  made' \in 0 .. MaxRequests /\ call[c] = IdleCall
BY AccountsAssumption DEF Inv, Typed, Quiet, Begin

LEMMA RegisterStep ==
  ASSUME Inv, NEW c \in Calls, NEW u \in Users, Register(c, u)
  PROVE  Inv'
<1>1. made' \in 0 .. MaxRequests /\ call[c] = IdleCall
  BY Begins DEF Register
<1>2. PICK r : r = [call[c] EXCEPT !.phase = "count", !.user = u]
  OBVIOUS
<1>3. call' = [call EXCEPT ![c] = r]
  BY <1>2 DEF Register, Inv, Typed
<1>4. r \in CallRecord /\ r.phase = "count" /\ r.codes = {}
  BY <1>1, <1>2, IdleCallType, PhaseNames DEF CallRecord
<1>. QED
  BY <1>1, <1>3, <1>4, GoesOn DEF Register, Owning

LEMMA CountStep ==
  ASSUME Inv, NEW c \in Calls, Count(c)
  PROVE  Inv'
<1>1. made' \in 0 .. MaxRequests
  BY DEF Count, Inv, Typed
<1>2. PICK role \in {"client", "admin"} : role = IF Existing = {} THEN "admin" ELSE "client"
  OBVIOUS
<1>3. PICK r : r = [call[c] EXCEPT !.phase = "create", !.role = role]
  OBVIOUS
<1>4. call' = [call EXCEPT ![c] = r]
  BY <1>2, <1>3 DEF Count, Inv, Typed
<1>5. r \in CallRecord /\ r.phase = "create" /\ r.codes = call[c].codes /\ r.role = role
  BY <1>3, CallType, PhaseNames DEF CallRecord, Inv
<1>6. role = "client" => Led
  BY <1>2 DEF Existing, Inv, Founding
<1>7. role = "admin" => history.founders = {}
  BY <1>2 DEF Existing, Inv, Founding, Typed, HistoryRecord
<1>. QED
  BY <1>1, <1>4, <1>5, <1>6, <1>7, GoesOn DEF Count, Owning

LEMMA SessionRequestStep ==
  ASSUME Inv, NEW c \in Calls, NEW u \in Users, SessionRequest(c, u)
  PROVE  Inv'
<1>1. made' \in 0 .. MaxRequests /\ call[c] = IdleCall
  BY Begins DEF SessionRequest
<1>2. PICK granted \in SUBSET Scopes : granted = Granting(accounts[u], roles)
  BY GrantingType DEF Inv, Typed
<1>3. PICK r : r = [call[c] EXCEPT !.phase = "serve", !.user = u, !.granted = granted]
  OBVIOUS
<1>4. call' = [call EXCEPT ![c] = r]
  BY <1>2, <1>3 DEF SessionRequest, PermissionsOf, Inv, Typed
<1>5. r \in CallRecord /\ r.phase = "serve" /\ r.user = u /\ r.granted = granted /\ r.codes = {}
  BY <1>1, <1>3, IdleCallType, PhaseNames DEF CallRecord
<1>6. accounts[u] # "none"
  BY DEF SessionRequest, Existing
<1>7. Led
  BY <1>6 DEF Inv, Founding
<1>8. UNCHANGED <<accounts, roles, keys, factor, secrets, batches, history>>
  BY DEF SessionRequest
<1>9. r.phase = "serve" => r.granted \subseteq Granting(accounts[r.user], roles) \union r.withdrawn
  BY <1>2, <1>5
<1>. QED
  BY <1>1, <1>4, <1>5, <1>6, <1>7, <1>8, <1>9, GoesOn

\* Only the role admin grants the wildcard, and it grants everything.
LEMMA OfKeyType ==
  ASSUME Typed, NEW k \in Keys
  PROVE  /\ OfKey(k) \in SUBSET Scopes
         /\ OfKey(k) \subseteq Granting(accounts[keys[k].user], roles)
<1>1. PICK role : role = accounts[keys[k].user]
  OBVIOUS
<1>2. /\ keys[k].scopes \in SUBSET Scopes
      /\ \A r \in RoleNames : roles[r].permissions \in SUBSET Permissions
  BY DEF Typed, KeyRecord, Role
<1>3. CASE role = "admin"
  BY <1>1, <1>2, <1>3 DEF OfKey, PermissionsOf, Granting
<1>4. CASE role # "admin"
  <2>1. Granting(role, roles) \in SUBSET Permissions
    BY <1>2, <1>4 DEF Granting
  <2>2. "*" \notin Granting(role, roles)
    BY <2>1, AccountsAssumption
  <2>. QED
    BY <1>1, <1>2, <2>1, <2>2 DEF OfKey, PermissionsOf, Scopes
<1>. QED
  BY <1>3, <1>4

LEMMA KeyRequestStep ==
  ASSUME Inv, NEW c \in Calls, NEW k \in Keys, KeyRequest(c, k)
  PROVE  Inv'
<1>1. made' \in 0 .. MaxRequests /\ call[c] = IdleCall
  BY Begins DEF KeyRequest
<1>2. PICK u \in Users : u = keys[k].user
  BY DEF Inv, Typed, KeyRecord
<1>3. PICK granted \in SUBSET Scopes :
        granted = OfKey(k) /\ granted \subseteq Granting(accounts[u], roles)
  BY <1>2, OfKeyType DEF Inv
<1>4. PICK r : r = [call[c] EXCEPT !.phase = "serve", !.user = u, !.granted = granted]
  OBVIOUS
<1>5. call' = [call EXCEPT ![c] = r]
  BY <1>2, <1>3, <1>4 DEF KeyRequest, Inv, Typed
<1>6. r \in CallRecord /\ r.phase = "serve" /\ r.user = u /\ r.granted = granted /\ r.codes = {}
  BY <1>1, <1>4, IdleCallType, PhaseNames DEF CallRecord
<1>7. accounts[u] # "none"
  BY <1>2 DEF KeyRequest, Inv, Rows
<1>8. Led
  BY <1>7 DEF Inv, Founding
<1>. QED
  BY <1>1, <1>3, <1>5, <1>6, <1>7, <1>8, GoesOn DEF KeyRequest

LEMMA EnableCheckStep ==
  ASSUME Inv, NEW c \in Calls, EnableCheck(c)
  PROVE  Inv'
<1>1. made' \in 0 .. MaxRequests /\ call[c].user = Enrolled /\ ~call[c].gone /\ call[c].phase = "serve"
  BY DEF EnableCheck, OwnFactor, At, Inv, Typed
<1>2. PICK s \in 0 .. MaxSecrets : s = factor.secret
  BY DEF Inv, Typed, Factor
<1>3. PICK r : r = [call[c] EXCEPT !.phase = "enable", !.secret = s]
  OBVIOUS
<1>4. call' = [call EXCEPT ![c] = r]
  BY <1>2, <1>3 DEF EnableCheck, Inv, Typed
<1>5. /\ r \in CallRecord /\ r.phase = "enable" /\ r.user = Enrolled /\ r.secret = s
      /\ r.codes = call[c].codes
  BY <1>1, <1>3, CallType, PhaseNames DEF CallRecord, Inv
<1>6. accounts[Enrolled] # "none"
  BY <1>1 DEF Inv, Rows, Owning
<1>. QED
  BY <1>1, <1>2, <1>4, <1>5, <1>6, GoesOn DEF EnableCheck

LEMMA DisableCheckStep ==
  ASSUME Inv, NEW c \in Calls, DisableCheck(c)
  PROVE  Inv'
<1>1. made' \in 0 .. MaxRequests /\ call[c].user = Enrolled /\ ~call[c].gone /\ call[c].phase = "serve"
  BY DEF DisableCheck, OwnFactor, At, Inv, Typed
<1>2. PICK r : r = [call[c] EXCEPT !.phase = "disable"]
  OBVIOUS
<1>3. call' = [call EXCEPT ![c] = r]
  BY <1>2 DEF DisableCheck, Inv, Typed
<1>4. r \in CallRecord /\ r.phase = "disable" /\ r.user = Enrolled /\ r.codes = call[c].codes
  BY <1>1, <1>2, CallType, PhaseNames DEF CallRecord, Inv
<1>5. accounts[Enrolled] # "none"
  BY <1>1 DEF Inv, Rows, Owning
<1>. QED
  BY <1>1, <1>3, <1>4, <1>5, GoesOn DEF DisableCheck

LEMMA LoginCheckStep ==
  ASSUME Inv, NEW c \in Calls, NEW code \in factor.codes, LoginCheck(c, code)
  PROVE  Inv'
<1>1. made' \in 0 .. MaxRequests /\ call[c] = IdleCall
  BY Begins DEF LoginCheck
<1>2. PICK list \in SUBSET Codes : list = factor.codes
  BY DEF Inv, Typed, Factor
<1>3. PICK r : r = [call[c] EXCEPT !.phase = "login", !.codes = list, !.code = code]
  OBVIOUS
<1>4. call' = [call EXCEPT ![c] = r]
  BY <1>2, <1>3 DEF LoginCheck, Inv, Typed
<1>5. /\ r \in CallRecord /\ r.phase = "login" /\ r.user = Enrolled /\ r.codes = list
      /\ r.code = code
  BY <1>1, <1>2, <1>3, IdleCallType, PhaseNames DEF CallRecord
<1>6. accounts[Enrolled] # "none"
  BY DEF LoginCheck, Existing
<1>. QED
  BY <1>1, <1>2, <1>4, <1>5, <1>6, GoesOn DEF LoginCheck

-----------------------------------------------------------------------------
(* Accounts and roles                                                       *)

\* An account is created: the registrations under way are overtaken.
LEMMA JoinedStep ==
  ASSUME Inv, NEW c \in Calls, NEW u \in Users, accounts[u] = "none",
         NEW role \in Roles \ {"none"}, role \in RoleNames => roles[role].made,
         accounts' = [accounts EXCEPT ![u] = role], call' = Joined(c),
         UNCHANGED <<roles, keys, factor, secrets, batches>>, made' \in 0 .. MaxRequests,
         history' \in HistoryRecord, SameFactor, Led',
         \A v \in history'.founders : accounts'[v] # "none",
         \A v, w \in history'.founders : v = w \/ v \in history'.late \/ w \in history'.late
  PROVE  Inv'
<1>1. /\ call' \in [Calls -> CallRecord] /\ call'[c] = IdleCall
      /\ \A d \in Calls \ {c} :
           /\ SameCall(d) /\ call'[d].gone = call[d].gone /\ (call[d].phase = "create" => call'[d].joined)
  BY JoinedType, CallType DEF Inv, SameCall
<1>2. Others(c)
  BY <1>1 DEF Others
<1>3. Typed' /\ Quiet'
  BY <1>1, <1>2, QuietFrame, IdlePhase, IdleCallType DEF Inv, Typed
<1>4. \A v \in Users : accounts'[v] = IF v = u THEN role ELSE accounts[v]
  BY DEF Inv, Typed
<1>5. Rows'
  <2>1. \A d \in Calls : call'[d].phase \in Owning /\ ~call'[d].gone => accounts'[call'[d].user] # "none"
    BY <1>1, <1>4, IdlePhase, CallType DEF SameCall, Inv, Rows
  <2>2. \A k \in Keys : keys[k].used => accounts'[keys[k].user] # "none"
    BY <1>4 DEF Inv, Rows, Typed, KeyRecord
  <2>3. \A r \in RoleNames : roles[r].made \/ (roles[r].permissions = {} /\ \A v \in Users : accounts'[v] # r)
    BY <1>4 DEF Inv, Rows
  <2>. QED
    BY <2>1, <2>2, <2>3 DEF Inv, Rows
<1>6. Rights'
  <2>1. Granting("none", roles) = {}
    BY DEF Granting, RoleNames
  <2>2. \A v \in Users : Granting(accounts[v], roles) \subseteq Granting(accounts'[v], roles')
    BY <1>4, <2>1
  <2>. QED
    BY <1>1, <1>2, <2>2, IdlePhase, RightsFrame DEF Inv
<1>7. Founding'
  <2>1. \A d \in Calls : call'[d].phase = "create" => call'[d].joined
    BY <1>1, IdlePhase DEF SameCall
  <2>. QED
    BY <2>1 DEF Founding
<1>8. SecondFactor'
  BY <1>1, <1>2, IdlePhase, FactorFrame DEF Inv
<1>. QED
  BY <1>3, <1>5, <1>6, <1>7, <1>8 DEF Inv

LEMMA CreateStep ==
  ASSUME Inv, NEW c \in Calls, Create(c)
  PROVE  Inv'
<1>1. PICK u \in Users : u = call[c].user
  BY CallType DEF Inv
<1>2. CASE u \in Existing
  BY <1>1, <1>2, RefusedStep DEF Create, Refused, At
<1>3. CASE u \notin Existing
  <2>1. PICK role \in {"client", "admin"} : role = call[c].role
    BY CallType DEF Inv
  <2>2. /\ accounts[u] = "none" /\ call[c].phase = "create"
        /\ accounts' = [accounts EXCEPT ![u] = role] /\ call' = Joined(c)
        /\ UNCHANGED <<roles, keys, factor, made, secrets, batches>>
        /\ made \in 0 .. MaxRequests /\ history \in HistoryRecord
    BY <1>1, <1>3, <2>1 DEF Create, At, Existing, Inv, Typed
  <2>3. role \in Roles \ {"none"} /\ (role \in RoleNames => roles[role].made)
    BY DEF Roles, RoleNames, Inv, Rows
  <2>4. \A v \in Users : accounts'[v] = IF v = u THEN role ELSE accounts[v]
    BY <2>2 DEF Inv, Typed
  <2>5. PICK late \in SUBSET Users : late = IF call[c].joined THEN history.late \union {u} ELSE history.late
    BY <2>2 DEF HistoryRecord
  <2>6. history' = IF role = "client" THEN history
                   ELSE [history EXCEPT !.founders = @ \union {u}, !.late = late]
    BY <1>1, <1>3, <2>1, <2>5 DEF Create
  <2>7. /\ history' \in HistoryRecord
        /\ history'.founders = IF role = "client" THEN history.founders ELSE history.founders \union {u}
        /\ history'.late = IF role = "client" THEN history.late ELSE late
        /\ history'.ousted = history.ousted /\ history'.guest = history.guest
        /\ history'.confirmed = history.confirmed /\ history'.replaced = history.replaced
        /\ history'.overtaken = history.overtaken
        /\ history'.accepted = history.accepted /\ history'.twice = history.twice
        /\ history'.raced = history.raced
    BY <2>2, <2>6 DEF HistoryRecord
  <2>8. SameFactor
    BY <2>2, <2>7 DEF SameFactor
  <2>9. Led'
    <3>1. CASE role = "client"
      <4>1. Led
        BY <2>1, <2>2, <3>1 DEF Inv, Founding
      <4>2. \A v \in Users : accounts[v] = "admin" => accounts'[v] = "admin"
        BY <2>2, <2>4
      <4>. QED
        BY <2>7, <4>1, <4>2, LedFrame
    <3>2. CASE role = "admin"
      BY <2>4, <3>2 DEF Led
    <3>. QED
      BY <3>1, <3>2
  <2>10. \A v \in history'.founders : accounts'[v] # "none"
    <3>1. history.founders \subseteq Users
      BY <2>2 DEF HistoryRecord
    <3>. QED
      BY <2>4, <2>7, <3>1 DEF Inv, Founding
  <2>11. \A v, w \in history'.founders : v = w \/ v \in history'.late \/ w \in history'.late
    <3>1. CASE role = "client"
      BY <2>7, <3>1 DEF Inv, Founding
    <3>2. CASE role = "admin" /\ call[c].joined
      BY <2>5, <2>7, <3>2 DEF Inv, Founding
    <3>3. CASE role = "admin" /\ ~call[c].joined
      <4>1. history.founders = {}
        BY <2>1, <2>2, <3>3 DEF Inv, Founding
      <4>. QED
        BY <2>7, <3>3, <4>1
    <3>. QED
      BY <3>1, <3>2, <3>3
  <2>. QED
    BY <2>2, <2>3, <2>7, <2>8, <2>9, <2>10, <2>11, JoinedStep
<1>. QED
  BY <1>2, <1>3

LEMMA OAuthLoginStep ==
  ASSUME Inv, NEW c \in Calls, NEW u \in Users, OAuthLogin(c, u)
  PROVE  Inv'
<1>1. /\ accounts[u] = "none" /\ accounts' = [accounts EXCEPT ![u] = "client"] /\ call' = Joined(c)
      /\ UNCHANGED <<roles, keys, factor, secrets, batches>> /\ made' \in 0 .. MaxRequests
      /\ history \in HistoryRecord
  BY Begins DEF OAuthLogin, Existing, Inv, Typed
<1>2. "client" \in Roles \ {"none"} /\ roles["client"].made
  BY DEF Roles, RoleNames, Inv, Rows
<1>3. \A v \in Users : accounts'[v] = IF v = u THEN "client" ELSE accounts[v]
  BY <1>1 DEF Inv, Typed
<1>4. PICK guest \in BOOLEAN : guest = (history.guest \/ Existing = {})
  OBVIOUS
<1>5. history' = [history EXCEPT !.guest = guest]
  BY <1>4 DEF OAuthLogin
<1>6. /\ history' \in HistoryRecord /\ history'.guest = guest
      /\ history'.founders = history.founders /\ history'.late = history.late
      /\ history'.ousted = history.ousted
      /\ history'.confirmed = history.confirmed /\ history'.replaced = history.replaced
      /\ history'.overtaken = history.overtaken
      /\ history'.accepted = history.accepted /\ history'.twice = history.twice
      /\ history'.raced = history.raced
  BY <1>1, <1>5 DEF HistoryRecord
<1>7. SameFactor
  BY <1>1, <1>6 DEF SameFactor
<1>8. Led'
  <2>1. CASE Existing = {}
    BY <1>4, <1>6, <2>1 DEF Led
  <2>2. CASE Existing # {}
    <3>1. Led
      BY <2>2 DEF Existing, Inv, Founding
    <3>2. \A v \in Users : accounts[v] = "admin" => accounts'[v] = "admin"
      BY <1>1, <1>3
    <3>. QED
      BY <1>4, <1>6, <3>1, <3>2, LedFrame
  <2>. QED
    BY <2>1, <2>2
<1>9. \A v \in history'.founders : accounts'[v] # "none"
  <2>1. history.founders \subseteq Users
    BY <1>1 DEF HistoryRecord
  <2>. QED
    BY <1>3, <1>6, <2>1 DEF Inv, Founding
<1>10. \A v, w \in history'.founders : v = w \/ v \in history'.late \/ w \in history'.late
  BY <1>6 DEF Inv, Founding
<1>. QED
  BY <1>1, <1>2, <1>6, <1>7, <1>8, <1>9, <1>10, JoinedStep

LEMMA CreateUserStep ==
  ASSUME Inv, NEW c \in Calls, NEW u \in Users, NEW role \in Assignable, CreateUser(c, u, role)
  PROVE  Inv'
<1>1. /\ accounts[u] = "none" /\ accounts' = [accounts EXCEPT ![u] = role] /\ call' = Joined(c)
      /\ UNCHANGED <<roles, keys, factor, made, secrets, batches, history>> /\ made \in 0 .. MaxRequests
      /\ history \in HistoryRecord /\ call[c].phase = "serve"
  BY DEF CreateUser, Serving, At, Existing, Inv, Typed
<1>2. role \in Roles \ {"none"} /\ (role \in RoleNames => roles[role].made)
  BY DEF Assignable, Roles, RoleNames
<1>3. \A v \in Users : accounts'[v] = IF v = u THEN role ELSE accounts[v]
  BY <1>1 DEF Inv, Typed
<1>4. SameFactor
  BY <1>1 DEF SameFactor
<1>5. Led'
  <2>1. Led
    BY <1>1 DEF Inv, Founding
  <2>2. \A v \in Users : accounts[v] = "admin" => accounts'[v] = "admin"
    BY <1>1, <1>3
  <2>. QED
    BY <1>1, <2>1, <2>2, LedFrame
<1>6. \A v \in history'.founders : accounts'[v] # "none"
  <2>1. history.founders \subseteq Users
    BY <1>1 DEF HistoryRecord
  <2>. QED
    BY <1>1, <1>2, <1>3, <2>1 DEF Inv, Founding
<1>7. \A v, w \in history'.founders : v = w \/ v \in history'.late \/ w \in history'.late
  BY <1>1 DEF Inv, Founding
<1>. QED
  BY <1>1, <1>2, <1>4, <1>5, <1>6, <1>7, JoinedStep

\* Accounts or roles change: what requests under way lose by it is withdrawn.
LEMMA WithdrawOthers ==
  ASSUME Typed, NEW c \in Calls, NEW held, Withdrawn(c, held)
  PROVE  Others(c)
<1>1. ASSUME NEW d \in Calls \ {c}
      PROVE  call'[d] = IdleCall \/ SameCall(d)
  <2>1. CASE Kept(d, held) /\ call[d].phase = "serve"
    BY <2>1 DEF Kept, SameCall
  <2>2. CASE Kept(d, held) /\ call[d].phase # "serve"
    BY <2>2 DEF Kept, SameCall
  <2>. QED
    BY <2>1, <2>2 DEF Withdrawn
<1>. QED
  BY <1>1 DEF Others

LEMMA WithdrawRows ==
  ASSUME Typed, Rows, NEW c \in Calls, NEW held, Withdrawn(c, held), call'[c].phase \in {"idle", "seed"},
         \A u \in Users : accounts'[u] = "none" <=> accounts[u] = "none",
         keys' = keys, roles'["client"].made,
         \A q \in RoleNames : roles'[q].made \/ (roles'[q].permissions = {} /\ \A u \in Users : accounts'[u] # q)
  PROVE  Rows'
<1>1. ASSUME NEW d \in Calls, call'[d].phase \in Owning, ~call'[d].gone
      PROVE  accounts'[call'[d].user] # "none"
  <2>1. d # c
    BY <1>1 DEF Owning
  <2>2. call'[d].phase = call[d].phase /\ call'[d].user = call[d].user /\ call'[d].gone = call[d].gone
    BY <1>1, <2>1, IdlePhase DEF Withdrawn, Kept
  <2>3. call[d].user \in Users
    BY CallType
  <2>4. accounts[call[d].user] # "none"
    BY <1>1, <2>2 DEF Rows
  <2>. QED
    BY <2>2, <2>3, <2>4
<1>2. ASSUME NEW k \in Keys, keys[k].used
      PROVE  accounts'[keys[k].user] # "none"
  <2>1. keys[k].user \in Users
    BY DEF Typed, KeyRecord
  <2>2. accounts[keys[k].user] # "none"
    BY <1>2 DEF Rows
  <2>. QED
    BY <2>1, <2>2
<1>. QED
  BY <1>1, <1>2 DEF Rows

\* What the roles grant after the step.
HeldNow(held) == \A u \in Users : held[u] = Granting(accounts'[u], roles')

LEMMA WithdrawRights ==
  ASSUME Typed, Rights, NEW c \in Calls, NEW held, Withdrawn(c, held), call'[c].phase \in {"idle", "seed"},
         HeldNow(held)
  PROVE  Rights'
<1>0. \A u \in Users : held[u] = Granting(accounts'[u], roles')
  BY DEF HeldNow
<1>. SUFFICES ASSUME NEW d \in Calls, call'[d].phase = "serve"
              PROVE  call'[d].granted \subseteq Granting(accounts'[call'[d].user], roles') \union call'[d].withdrawn
  BY DEF Rights
<1>1. d # c
  OBVIOUS
<1>2. /\ call[d].phase = "serve" /\ call'[d].user = call[d].user /\ call'[d].granted = call[d].granted
      /\ call'[d].withdrawn = call[d].withdrawn \union (call[d].granted \ held[call[d].user])
  BY <1>1, IdlePhase DEF Withdrawn, Kept
<1>3. PICK u \in Users : u = call[d].user
  BY CallType
<1>4. PICK granting : granting = Granting(accounts'[u], roles')
  OBVIOUS
<1>5. call'[d].withdrawn = call[d].withdrawn \union (call[d].granted \ granting)
  BY <1>0, <1>2, <1>3, <1>4
<1>6. call'[d].granted \subseteq granting \union call'[d].withdrawn
  BY <1>2, <1>5
<1>. QED
  BY <1>2, <1>3, <1>4, <1>6

LEMMA WithdrawStep ==
  ASSUME Inv, NEW c \in Calls, NEW base, Base(base, c), Regranted(base),
         accounts' \in [Users -> Roles], roles' \in [RoleNames -> Role],
         UNCHANGED <<keys, factor, secrets, batches>>, made' \in 0 .. MaxRequests,
         \A u \in Users : accounts'[u] = "none" <=> accounts[u] = "none",
         roles'["client"].made,
         \A q \in RoleNames : roles'[q].made \/ (roles'[q].permissions = {} /\ \A u \in Users : accounts'[u] # q),
         history' \in HistoryRecord, SameFactor,
         history'.founders = history.founders, history'.late = history.late, Led => Led'
  PROVE  Inv'
<1>1. [u \in Users |-> Granting(accounts'[u], roles')] \in [Users -> SUBSET Scopes]
  BY GrantingType
<1>2. PICK held \in [Users -> SUBSET Scopes] : held = [u \in Users |-> Granting(accounts'[u], roles')]
  BY <1>1
<1>3. call' = Withdraw(base, held) /\ Typed
  BY <1>2 DEF Inv, Regranted
<1>4. call' \in [Calls -> CallRecord] /\ call'[c] = base[c] /\ Withdrawn(c, held)
  BY <1>3, WithdrawType
<1>5. /\ Others(c) /\ call'[c].phase \in {"idle", "seed"}
      /\ call'[c].phase = "idle" => call'[c] = IdleCall
      /\ call'[c].codes = {}
  BY <1>3, <1>4, WithdrawOthers DEF Base
<1>6. Typed'
  BY <1>4 DEF Inv, Typed
<1>7. Quiet'
  BY <1>5, QuietFrame DEF Inv
<1>8. Rows'
  BY <1>3, <1>4, <1>5, WithdrawRows DEF Inv
<1>9. Rights'
  <2>1. HeldNow(held)
    BY <1>2 DEF HeldNow
  <2>2. Typed /\ Rights /\ Withdrawn(c, held) /\ call'[c].phase \in {"idle", "seed"}
    BY <1>3, <1>4, <1>5 DEF Inv
  <2>. QED
    BY <2>1, <2>2, WithdrawRights
<1>10. Founding'
  <2>1. history.founders \subseteq Users
    BY DEF Inv, Typed, HistoryRecord
  <2>2. call'[c].phase \notin {"serve", "create"}
    BY <1>5
  <2>. QED
    BY <1>5, <2>1, <2>2, FoundingFrame DEF Inv
<1>11. SecondFactor'
  BY <1>5, FactorFrame DEF Inv
<1>. QED
  BY <1>6, <1>7, <1>8, <1>9, <1>10, <1>11 DEF Inv

\* The requests of a Settle: some end, and the others lose what their users lose.
LEMMA SettleBase ==
  ASSUME Typed, NEW c \in Calls, NEW ended, c \in ended, NEW rows, NEW granting, Settle(ended, rows, granting)
  PROVE  /\ accounts' = rows /\ roles' = granting
         /\ \E base : Base(base, c) /\ Regranted(base)
<1>1. PICK base : base = [d \in Calls |-> IF d \in ended THEN IdleCall ELSE call[d]]
  OBVIOUS
<1>2. base \in [Calls -> CallRecord]
  BY <1>1, IdleCallType DEF Typed
<1>3. base[c] = IdleCall /\ \A d \in Calls \ {c} : base[d] = IdleCall \/ base[d] = call[d]
  BY <1>1
<1>4. accounts' = rows /\ roles' = granting
  BY DEF Settle
<1>5. Regranted(base)
  BY <1>1, <1>4 DEF Settle, Regranted
<1>6. Base(base, c)
  BY <1>2, <1>3, IdleCallType DEF Base
<1>. QED
  BY <1>4, <1>5, <1>6

LEMMA SetRoleStep ==
  ASSUME Inv, NEW c \in Calls, NEW u \in Users, NEW role \in Assignable, SetRole(c, u, role)
  PROVE  Inv'
<1>0. Settle({c}, [accounts EXCEPT ![u] = role], roles) /\ Typed
  BY DEF SetRole, Inv
<1>1. /\ accounts[u] # "none" /\ accounts' = [accounts EXCEPT ![u] = role] /\ roles' = roles
      /\ UNCHANGED <<keys, factor, made, secrets, batches>> /\ made \in 0 .. MaxRequests
      /\ history \in HistoryRecord
  BY DEF SetRole, Settle, Existing, Inv, Typed
<1>11. PICK base : Base(base, c) /\ Regranted(base)
  BY <1>0, SettleBase
<1>2. role \in Roles \ {"none"} /\ (role \in RoleNames => roles[role].made)
  BY DEF Assignable, Roles, RoleNames
<1>3. /\ \A v \in Users : accounts'[v] = IF v = u THEN role ELSE accounts[v]
      /\ accounts' \in [Users -> Roles] /\ roles' \in [RoleNames -> Role]
  BY <1>1, <1>2 DEF Inv, Typed
<1>4. PICK ousted \in BOOLEAN : ousted = (history.ousted \/ accounts[u] = "admin")
  OBVIOUS
<1>5. history' = [history EXCEPT !.ousted = ousted]
  BY <1>4 DEF SetRole
<1>6. /\ history' \in HistoryRecord /\ history'.ousted = ousted /\ history'.guest = history.guest
      /\ history'.founders = history.founders /\ history'.late = history.late
      /\ history'.confirmed = history.confirmed /\ history'.replaced = history.replaced
      /\ history'.overtaken = history.overtaken
      /\ history'.accepted = history.accepted /\ history'.twice = history.twice
      /\ history'.raced = history.raced
  BY <1>1, <1>5 DEF HistoryRecord
<1>7. SameFactor
  BY <1>1, <1>6 DEF SameFactor
<1>8. Led => Led'
  BY <1>3, <1>4, <1>6 DEF Led
<1>9. /\ \A v \in Users : accounts'[v] = "none" <=> accounts[v] = "none"
      /\ roles'["client"].made
      /\ \A q \in RoleNames : roles'[q].made \/ (roles'[q].permissions = {} /\ \A v \in Users : accounts'[v] # q)
  BY <1>1, <1>2, <1>3 DEF Inv, Rows
<1>. QED
  BY <1>1, <1>3, <1>6, <1>7, <1>8, <1>9, <1>11, WithdrawStep

\* The permissions of a role are replaced, by one request or by two.
LEMMA PermissionsStep ==
  ASSUME Inv, NEW c \in Calls, NEW ended, c \in ended, NEW r \in RoleNames, roles[r].made,
         NEW permissions \in SUBSET Permissions,
         Settle(ended, accounts, [roles EXCEPT ![r].permissions = permissions]),
         UNCHANGED <<keys, factor, made, secrets, batches, history>>
  PROVE  Inv'
<1>0. Typed
  BY DEF Inv
<1>1. /\ accounts' = accounts /\ roles' = [roles EXCEPT ![r].permissions = permissions]
      /\ made \in 0 .. MaxRequests /\ history \in HistoryRecord /\ accounts' \in [Users -> Roles]
  BY DEF Settle, Inv, Typed
<1>6. PICK base : Base(base, c) /\ Regranted(base)
  BY <1>0, SettleBase
<1>2. /\ roles' \in [RoleNames -> Role]
      /\ \A q \in RoleNames : roles'[q].made = roles[q].made /\ (q # r => roles'[q] = roles[q])
  BY <1>1 DEF Inv, Typed, Role
<1>3. SameFactor /\ (Led => Led')
  BY <1>1 DEF SameFactor, Led
<1>4. /\ roles'["client"].made
      /\ \A q \in RoleNames : roles'[q].made \/ (roles'[q].permissions = {} /\ \A v \in Users : accounts'[v] # q)
  BY <1>1, <1>2 DEF Inv, Rows, RoleNames
<1>. QED
  BY <1>1, <1>2, <1>3, <1>4, <1>6, WithdrawStep

LEMMA SetPermissionsStep ==
  ASSUME Inv, NEW c \in Calls, NEW r \in RoleNames, NEW permissions \in SUBSET Permissions,
         SetPermissions(c, r, permissions)
  PROVE  Inv'
<1>. c \in {c}
  OBVIOUS
<1>. QED
  BY PermissionsStep DEF SetPermissions

LEMMA SetPermissionsTogetherStep ==
  ASSUME Inv, NEW c \in Calls, NEW d \in Calls, NEW r \in RoleNames,
         NEW permissions \in SUBSET Permissions, NEW others \in SUBSET Permissions,
         SetPermissionsTogether(c, d, r, permissions, others)
  PROVE  Inv'
<1>1. PICK union \in SUBSET Permissions : union = permissions \union others
  OBVIOUS
<1>2. PICK ended : ended = {c, d}
  OBVIOUS
<1>3. c \in ended /\ roles[r].made
  BY <1>2 DEF SetPermissionsTogether
<1>4. Settle(ended, accounts, [roles EXCEPT ![r].permissions = union])
  BY <1>1, <1>2 DEF SetPermissionsTogether
<1>5. UNCHANGED <<keys, factor, made, secrets, batches, history>>
  BY DEF SetPermissionsTogether
<1>. QED
  BY <1>3, <1>4, <1>5, PermissionsStep

LEMMA DeleteRoleStep ==
  ASSUME Inv, NEW c \in Calls, NEW r \in RoleNames, DeleteRole(c, r)
  PROVE  Inv'
<1>0. Typed /\ Settle({c}, [u \in Users |-> IF accounts[u] = r THEN "null" ELSE accounts[u]],
                            [roles EXCEPT ![r] = [made |-> FALSE, permissions |-> {}]])
  BY DEF DeleteRole, Inv
<1>8. PICK base : Base(base, c) /\ Regranted(base)
  BY <1>0, SettleBase
<1>1. /\ accounts' = [u \in Users |-> IF accounts[u] = r THEN "null" ELSE accounts[u]]
      /\ roles' = [roles EXCEPT ![r] = [made |-> FALSE, permissions |-> {}]] /\ r # "client"
      /\ UNCHANGED <<keys, factor, made, secrets, batches, history>> /\ made \in 0 .. MaxRequests
      /\ history \in HistoryRecord
  BY DEF DeleteRole, Settle, System, Inv, Typed
<1>2. accounts' \in [Users -> Roles] /\ roles' \in [RoleNames -> Role]
  BY <1>1 DEF Inv, Typed, Roles, Role
<1>3. \A u \in Users : accounts'[u] = IF accounts[u] = r THEN "null" ELSE accounts[u]
  BY <1>1
<1>4. SameFactor /\ (Led => Led')
  BY <1>1, <1>3 DEF SameFactor, Led, RoleNames
<1>5. \A q \in RoleNames : roles'[q] = IF q = r THEN [made |-> FALSE, permissions |-> {}] ELSE roles[q]
  BY <1>1 DEF Inv, Typed
<1>6. /\ \A v \in Users : accounts'[v] = "none" <=> accounts[v] = "none"
      /\ roles'["client"].made
      /\ \A q \in RoleNames : roles'[q].made \/ (roles'[q].permissions = {} /\ \A v \in Users : accounts'[v] # q)
  BY <1>1, <1>3, <1>5 DEF Inv, Rows, RoleNames
<1>. QED
  BY <1>1, <1>2, <1>4, <1>6, <1>8, WithdrawStep

LEMMA SeedDeleteStep ==
  ASSUME Inv, NEW c \in Calls, SeedDelete(c)
  PROVE  Inv'
<1>1. made' \in 0 .. MaxRequests /\ call[c] = IdleCall
  BY Begins DEF SeedDelete
<1>2. PICK r : r = [call[c] EXCEPT !.phase = "seed"]
  OBVIOUS
<1>3. [call EXCEPT ![c].phase = "seed"] = [call EXCEPT ![c] = r]
  BY <1>2 DEF Inv, Typed
<1>4. r \in CallRecord /\ r.phase = "seed" /\ r.codes = {}
  BY <1>1, <1>2, IdleCallType, PhaseNames DEF CallRecord
<1>9. PICK base : base = [call EXCEPT ![c] = r]
  OBVIOUS
<1>10. Base(base, c)
  BY <1>4, <1>9 DEF Inv, Typed, Base
<1>5. /\ accounts' = accounts /\ accounts' \in [Users -> Roles]
      /\ roles' = [roles EXCEPT !["client"].permissions = {}] /\ history \in HistoryRecord
      /\ UNCHANGED <<keys, factor, secrets, batches, history>>
  BY DEF SeedDelete, Inv, Typed
<1>11. Regranted(base)
  BY <1>3, <1>5, <1>9 DEF SeedDelete, Regranted
<1>6. /\ roles' \in [RoleNames -> Role]
      /\ \A q \in RoleNames : roles'[q].made = roles[q].made /\ (q # "client" => roles'[q] = roles[q])
  BY <1>5 DEF Inv, Typed, Role
<1>7. SameFactor /\ (Led => Led')
  BY <1>5 DEF SameFactor, Led
<1>8. /\ roles'["client"].made
      /\ \A q \in RoleNames : roles'[q].made \/ (roles'[q].permissions = {} /\ \A v \in Users : accounts'[v] # q)
  BY <1>5, <1>6 DEF Inv, Rows, RoleNames
<1>. QED
  BY <1>1, <1>5, <1>6, <1>7, <1>8, <1>10, <1>11, WithdrawStep

\* A deleted account: its requests under way go on without it.
Deleted(c, u) ==
  \A d \in Calls \ {c} :
    /\ call'[d].phase = call[d].phase /\ call'[d].user = call[d].user /\ call'[d].role = call[d].role
    /\ call'[d].joined = call[d].joined /\ call'[d].granted = call[d].granted
    /\ call'[d].secret = call[d].secret /\ call'[d].codes = call[d].codes
    /\ call'[d].code = call[d].code
    /\ call[d].phase = "idle" => call'[d] = call[d]
    /\ call[d].user = u /\ call[d].phase \in Owning =>
         call'[d].gone /\ call'[d].withdrawn = call[d].granted
    /\ call[d].user # u => call'[d] = call[d]

LEMMA DeletedType ==
  ASSUME Typed, NEW c \in Calls, NEW u \in Users, DeleteUser(c, u)
  PROVE  call' \in [Calls -> CallRecord] /\ call'[c] = IdleCall /\ Deleted(c, u)
<1>. DEFINE Spared(d) == call[d].user # u \/ call[d].phase \in {"count", "create", "idle"}
<1>1. call' = [d \in Calls |-> IF d = c THEN IdleCall ELSE IF Spared(d) THEN call[d]
                               ELSE [call[d] EXCEPT !.gone = TRUE, !.withdrawn = call[d].granted]]
  BY DEF DeleteUser, At
<1>2. call'[c] = IdleCall
  BY <1>1
<1>3. ASSUME NEW d \in Calls \ {c}, Spared(d)
      PROVE  call'[d] = call[d] /\ ~(call[d].user = u /\ call[d].phase \in Owning)
  BY <1>1, <1>3 DEF Owning
<1>4. ASSUME NEW d \in Calls \ {c}, ~Spared(d)
      PROVE  /\ call'[d] \in CallRecord /\ call'[d].withdrawn = call[d].granted /\ call'[d].gone
             /\ call'[d].phase = call[d].phase /\ call'[d].user = call[d].user
             /\ call'[d].role = call[d].role
             /\ call'[d].joined = call[d].joined /\ call'[d].granted = call[d].granted
             /\ call'[d].secret = call[d].secret /\ call'[d].codes = call[d].codes
             /\ call'[d].code = call[d].code
             /\ call[d].phase # "idle" /\ call[d].user = u
  <2>1. PICK q : q = call'[d]
    OBVIOUS
  <2>2. q = [call[d] EXCEPT !.gone = TRUE, !.withdrawn = call[d].granted]
    BY <1>1, <1>4, <2>1
  <2>3. call[d] \in CallRecord /\ call[d].granted \in SUBSET Scopes
    BY CallType
  <2>4. /\ q \in CallRecord /\ q.withdrawn = call[d].granted /\ q.gone
        /\ q.phase = call[d].phase /\ q.user = call[d].user /\ q.role = call[d].role
        /\ q.joined = call[d].joined /\ q.granted = call[d].granted
        /\ q.secret = call[d].secret /\ q.codes = call[d].codes /\ q.code = call[d].code
    <3>1. PICK r \in CallRecord : r = call[d]
      BY <2>3
    <3>2. PICK w \in SUBSET Scopes : w = call[d].granted
      BY <2>3
    <3>. HIDE DEF Spared
    <3>3. q = [r EXCEPT !.gone = TRUE, !.withdrawn = w]
      BY <2>2, <3>1, <3>2
    <3>4. /\ q \in CallRecord /\ q.withdrawn = w /\ q.gone = TRUE
          /\ q.phase = r.phase /\ q.user = r.user /\ q.role = r.role
          /\ q.joined = r.joined /\ q.granted = r.granted
          /\ q.secret = r.secret /\ q.codes = r.codes /\ q.code = r.code
      BY <3>3 DEF CallRecord
    <3>. QED
      BY <3>1, <3>2, <3>4
  <2>. QED
    BY <1>4, <2>1, <2>4
<1>5. ASSUME NEW d \in Calls
      PROVE  call'[d] \in CallRecord
  <2>1. CASE d = c
    BY <1>2, <2>1, IdleCallType
  <2>2. CASE d # c /\ Spared(d)
    BY <1>3, <2>2, CallType
  <2>3. CASE d # c /\ ~Spared(d)
    BY <1>4, <2>3
  <2>. QED
    BY <2>1, <2>2, <2>3
<1>6. call' = [d \in Calls |-> call'[d]]
  BY <1>1
<1>7. call' \in [Calls -> CallRecord]
  BY <1>5, <1>6
<1>8. Deleted(c, u)
  <2>. HIDE DEF Spared
  <2>. QED
    BY <1>3, <1>4 DEF Deleted
<1>. QED
  BY <1>2, <1>7, <1>8

LEMMA DeletedRows ==
  ASSUME Typed, Rows, NEW c \in Calls, NEW u \in Users, Deleted(c, u), call'[c] = IdleCall,
         \A v \in Users : accounts'[v] = IF v = u THEN "none" ELSE accounts[v],
         roles' = roles,
         \A k \in Keys : keys'[k] = IF keys[k].user = u THEN Free ELSE keys[k]
  PROVE  Rows'
<1>1. ASSUME NEW d \in Calls, call'[d].phase \in Owning, ~call'[d].gone
      PROVE  accounts'[call'[d].user] # "none"
  <2>1. d # c
    BY <1>1, IdlePhase
  <2>2. call'[d].phase = call[d].phase /\ call'[d].user = call[d].user
    BY <2>1 DEF Deleted
  <2>3. call[d].user # u
    BY <1>1, <2>1, <2>2 DEF Deleted
  <2>4. call'[d] = call[d] /\ call[d].user \in Users
    BY <2>1, <2>3, CallType DEF Deleted
  <2>5. accounts[call[d].user] # "none"
    BY <1>1, <2>4 DEF Rows
  <2>. QED
    BY <2>3, <2>4, <2>5
<1>2. ASSUME NEW k \in Keys, keys'[k].used
      PROVE  accounts'[keys'[k].user] # "none"
  <2>1. keys[k].user # u /\ keys'[k] = keys[k]
    BY <1>2 DEF Free
  <2>2. keys[k].user \in Users
    BY DEF Typed, KeyRecord
  <2>3. accounts[keys[k].user] # "none"
    BY <1>2, <2>1 DEF Rows
  <2>. QED
    BY <2>1, <2>2, <2>3
<1>3. roles'["client"].made
  BY DEF Rows
<1>4. \A q \in RoleNames : roles'[q].made \/ (roles'[q].permissions = {} /\ \A v \in Users : accounts'[v] # q)
  BY DEF Rows, RoleNames
<1>. QED
  BY <1>1, <1>2, <1>3, <1>4 DEF Rows

LEMMA DeletedRights ==
  ASSUME Typed, Rights, NEW c \in Calls, NEW u \in Users, Deleted(c, u), call'[c] = IdleCall,
         \A v \in Users : accounts'[v] = IF v = u THEN "none" ELSE accounts[v],
         roles' = roles
  PROVE  Rights'
<1>. SUFFICES ASSUME NEW d \in Calls, call'[d].phase = "serve"
              PROVE  call'[d].granted \subseteq Granting(accounts'[call'[d].user], roles') \union call'[d].withdrawn
  BY DEF Rights
<1>1. d # c
  BY IdlePhase
<1>2. call[d].phase = "serve" /\ call'[d].granted = call[d].granted
  BY <1>1 DEF Deleted
<1>3. CASE call[d].user = u
  BY <1>1, <1>2, <1>3 DEF Deleted, Owning
<1>4. CASE call[d].user # u
  <2>1. call'[d] = call[d] /\ call[d].user \in Users
    BY <1>1, <1>4, CallType DEF Deleted
  <2>2. accounts'[call[d].user] = accounts[call[d].user]
    BY <1>4, <2>1
  <2>. QED
    BY <1>2, <2>1, <2>2 DEF Rights
<1>. QED
  BY <1>3, <1>4

LEMMA DeletedFounding ==
  ASSUME Typed, Founding, NEW c \in Calls, NEW u \in Users, Deleted(c, u), call'[c] = IdleCall,
         \A v \in Users : accounts'[v] = IF v = u THEN "none" ELSE accounts[v],
         history'.founders = history.founders \ {u}, history'.late = history.late \ {u},
         Led => Led'
  PROVE  Founding'
<1>1. history.founders \subseteq Users
  BY DEF Typed, HistoryRecord
<1>2. \A v \in Users : accounts'[v] # "none" => Led'
  BY DEF Founding
<1>3. ASSUME NEW d \in Calls,
             call'[d].phase = "serve" \/ (call'[d].phase = "create" /\ call'[d].role = "client")
      PROVE  Led'
  <2>1. d # c
    BY <1>3, IdlePhase
  <2>2. call'[d].phase = call[d].phase /\ call'[d].role = call[d].role
    BY <2>1 DEF Deleted
  <2>. QED
    BY <1>3, <2>2 DEF Founding
<1>4. \A v \in history'.founders : accounts'[v] # "none"
  BY <1>1 DEF Founding
<1>5. ASSUME NEW d \in Calls, call'[d].phase = "create", call'[d].role = "admin", ~call'[d].joined
      PROVE  history'.founders = {}
  <2>1. d # c
    BY <1>5, IdlePhase
  <2>2. call'[d].phase = call[d].phase /\ call'[d].role = call[d].role /\ call'[d].joined = call[d].joined
    BY <2>1 DEF Deleted
  <2>3. history.founders = {}
    BY <1>5, <2>2 DEF Founding
  <2>. QED
    BY <2>3
<1>6. \A v, w \in history'.founders : v = w \/ v \in history'.late \/ w \in history'.late
  BY DEF Founding
<1>. QED
  BY <1>2, <1>3, <1>4, <1>5, <1>6 DEF Founding

LEMMA DeletedFactor ==
  ASSUME Typed, SecondFactor, NEW c \in Calls, NEW u \in Users, Deleted(c, u), call'[c] = IdleCall,
         factor' = IF u = Enrolled THEN Off ELSE factor, batches' = batches,
         history'.confirmed = history.confirmed, history'.replaced = history.replaced,
         history'.overtaken = history.overtaken, history'.accepted = history.accepted, history'.twice = history.twice,
         history'.raced = history.raced
  PROVE  SecondFactor'
<1>2. FactorConfirmed' /\ CodeOnce'
  BY DEF SecondFactor, FactorConfirmed, CodeOnce, Off
<1>3. \A code \in factor'.codes : code \in history'.accepted => code \in history'.raced
  BY DEF SecondFactor, Off
<1>4. factor'.codes \subseteq Made' /\ history'.accepted \subseteq Made'
  BY DEF SecondFactor, Off, Made
<1>5. \A d \in Calls : call'[d].codes \subseteq Made'
  <2>1. \A d \in Calls \ {c} : call'[d].codes = call[d].codes
    BY DEF Deleted
  <2>2. call'[c].codes = {}
    BY IdlePhase
  <2>. QED
    BY <2>1, <2>2 DEF SecondFactor, Made
<1>. QED
  BY <1>2, <1>3, <1>4, <1>5 DEF SecondFactor

LEMMA DeleteUserStep ==
  ASSUME Inv, NEW c \in Calls, NEW u \in Users, DeleteUser(c, u)
  PROVE  Inv'
<1>1. /\ accounts' = [accounts EXCEPT ![u] = "none"]
      /\ keys' = [k \in Keys |-> IF keys[k].user = u THEN Free ELSE keys[k]]
      /\ factor' = IF u = Enrolled THEN Off ELSE factor
      /\ UNCHANGED <<roles, made, secrets, batches>>
  BY DEF DeleteUser
<1>2. Typed /\ history \in HistoryRecord
  BY DEF Inv, Typed
<1>3. call' \in [Calls -> CallRecord] /\ call'[c] = IdleCall /\ Deleted(c, u)
  BY <1>2, DeletedType
<1>4. PICK ousted \in BOOLEAN : ousted = (history.ousted \/ accounts[u] = "admin")
  OBVIOUS
<1>5. history' = [history EXCEPT !.ousted = ousted, !.founders = @ \ {u}, !.late = @ \ {u}]
  BY <1>4 DEF DeleteUser
<1>6. /\ history' \in HistoryRecord /\ history'.ousted = ousted /\ history'.guest = history.guest
      /\ history'.founders = history.founders \ {u} /\ history'.late = history.late \ {u}
      /\ history'.confirmed = history.confirmed /\ history'.replaced = history.replaced
      /\ history'.overtaken = history.overtaken
      /\ history'.accepted = history.accepted /\ history'.twice = history.twice
      /\ history'.raced = history.raced
  BY <1>2, <1>5 DEF HistoryRecord
<1>7. /\ \A v \in Users : accounts'[v] = IF v = u THEN "none" ELSE accounts[v]
      /\ accounts' \in [Users -> Roles]
  BY <1>1, <1>2 DEF Typed, Roles
<1>8. /\ \A k \in Keys : keys'[k] = IF keys[k].user = u THEN Free ELSE keys[k]
      /\ keys' \in [Keys -> KeyRecord]
  BY <1>1, <1>2, AccountsAssumption DEF Typed, KeyRecord, Free
<1>9. Led => Led'
  BY <1>4, <1>6, <1>7 DEF Led
<1>10. factor' \in Factor
  BY <1>1, <1>2, AccountsAssumption DEF Typed, Factor, Off
<1>11. Typed'
  BY <1>1, <1>2, <1>3, <1>6, <1>7, <1>8, <1>10 DEF Typed
<1>12. Quiet'
  BY <1>3, IdleCallType DEF Inv, Quiet, Deleted, At
<1>13. Rows'
  BY <1>1, <1>2, <1>3, <1>7, <1>8, DeletedRows DEF Inv
<1>14. Rights'
  BY <1>1, <1>2, <1>3, <1>7, DeletedRights DEF Inv
<1>15. Founding'
  BY <1>2, <1>3, <1>6, <1>7, <1>9, DeletedFounding DEF Inv
<1>16. SecondFactor'
  BY <1>1, <1>2, <1>3, <1>6, DeletedFactor DEF Inv
<1>. QED
  BY <1>11, <1>12, <1>13, <1>14, <1>15, <1>16 DEF Inv

-----------------------------------------------------------------------------
(* The theorems                                                             *)

LEMMA InitTyped == Init => Typed
<1>. SUFFICES ASSUME Init
              PROVE  Typed
  OBVIOUS
<1>1. accounts \in [Users -> Roles]
  BY DEF Init, Roles, RoleNames
<1>2. roles \in [RoleNames -> Role]
  BY DEF Init, Role, ClientPermissions
<1>3. keys \in [Keys -> KeyRecord]
  BY AccountsAssumption DEF Init, KeyRecord, Free
<1>4. call \in [Calls -> CallRecord]
  BY IdleCallType DEF Init
<1>5. secrets \in 0 .. MaxSecrets /\ batches \in 0 .. MaxBatches /\ made \in 0 .. MaxRequests
  BY AccountsAssumption DEF Init
<1>6. factor \in Factor
  <2>1. {1} \X {1, 2} \in SUBSET Codes /\ 1 \in 0 .. MaxSecrets /\ 0 \in 0 .. MaxSecrets
    BY AccountsAssumption DEF Codes
  <2>2. PICK codes \in SUBSET Codes : codes = {1} \X {1, 2}
    BY <2>1
  <2>3. factor = Off \/ factor = [enabled |-> TRUE, secret |-> 1, codes |-> codes]
    BY <2>2 DEF Init
  <2>4. Off \in Factor
    BY <2>1 DEF Factor, Off
  <2>5. [enabled |-> TRUE, secret |-> 1, codes |-> codes] \in Factor
    BY <2>1 DEF Factor
  <2>. QED
    BY <2>3, <2>4, <2>5
<1>7. history \in HistoryRecord
  <2>1. {secrets} \ {0} \in SUBSET (0 .. MaxSecrets)
    BY <1>5
  <2>. QED
    BY <2>1 DEF Init, HistoryRecord
<1>. QED
  BY <1>1, <1>2, <1>3, <1>4, <1>5, <1>6, <1>7 DEF Typed

LEMMA InitInv == Init => Inv
<1>. SUFFICES ASSUME Init
              PROVE  Inv
  OBVIOUS
<1>1. Typed
  BY InitTyped
<1>2. \A c \in Calls : call[c] = IdleCall
  BY DEF Init
<1>3. Quiet
  BY <1>2, IdleCallType DEF Quiet, At
<1>4. Rows
  BY <1>2, IdlePhase DEF Init, Rows, Free, RoleNames
<1>5. Rights
  BY <1>2, IdlePhase DEF Rights
<1>6. Founding
  <2>1. history.founders = {}
    BY DEF Init
  <2>2. \A u \in Users : accounts[u] # "none" => Led
    <3>1. CASE accounts = [u \in Users |-> "none"]
      BY <3>1
    <3>2. CASE accounts = [u \in Users |-> IF u = Enrolled THEN "staff" ELSE "admin"]
      BY <3>2, AccountsAssumption DEF Led
    <3>. QED
      BY <3>1, <3>2 DEF Init
  <2>. QED
    BY <1>2, <2>1, <2>2, IdlePhase DEF Founding
<1>7. SecondFactor
  <2>1. history.accepted = {} /\ history.twice = {} /\ history.confirmed = {secrets} \ {0}
    BY DEF Init
  <2>2. factor.codes \subseteq Made /\ FactorConfirmed
    BY <2>1 DEF Init, Off, Made, FactorConfirmed
  <2>. QED
    BY <1>2, <2>1, <2>2, IdlePhase DEF SecondFactor, CodeOnce
<1>. QED
  BY <1>1, <1>3, <1>4, <1>5, <1>6, <1>7 DEF Inv

LEMMA StutterInv == Inv /\ UNCHANGED vars => Inv'
BY DEF vars, Inv, Typed, Quiet, Rows, Rights, Founding, SecondFactor, Led, Made, FactorConfirmed, CodeOnce, At

LEMMA NextInv == Inv /\ [Next]_vars => Inv'
<1>. SUFFICES ASSUME Inv, Next
              PROVE  Inv'
  BY StutterInv
<1>1. PICK c \in Calls :
        \/ RegisterPage(c) \/ Count(c) \/ Create(c)
        \/ OAuthCallback(c) \/ SeedDelete(c) \/ SeedCreate(c)
        \/ \E u \in Users : SessionRequest(c, u)
        \/ \E k \in Keys : KeyRequest(c, k)
        \/ AdminUsersPage(c) \/ AdminRolesPage(c) \/ RoleCard(c) \/ ApiKeysCard(c)
        \/ TwoFactorCard(c) \/ EnableWrite(c) \/ DisableWrite(c)
        \/ (\E code \in factor.codes : LoginCheck(c, code)) \/ LoginWrite(c)
        \/ Refused(c)
  BY DEF Next
<1>2. CASE RegisterPage(c) \/ Count(c) \/ Create(c) \/ OAuthCallback(c)
  BY <1>2, RegisterStep, CountStep, CreateStep, OAuthLoginStep DEF RegisterPage, OAuthCallback
<1>3. CASE SeedDelete(c) \/ SeedCreate(c) \/ Refused(c)
  BY <1>3, SeedDeleteStep, SeedCreateStep, RefusedStep
<1>4. CASE \/ \E u \in Users : SessionRequest(c, u)
           \/ \E k \in Keys : KeyRequest(c, k)
  BY <1>4, SessionRequestStep, KeyRequestStep
<1>5. CASE AdminUsersPage(c)
  BY <1>5, DeleteUserStep, CreateUserStep, SetRoleStep DEF AdminUsersPage
<1>6. CASE AdminRolesPage(c) \/ RoleCard(c)
  BY <1>6, CreateRoleStep, DeleteRoleStep, SetPermissionsStep, SetPermissionsTogetherStep
     DEF AdminRolesPage, RoleCard
<1>7. CASE ApiKeysCard(c)
  BY <1>7, RevokeKeyStep, CreateKeyStep DEF ApiKeysCard
<1>8. CASE TwoFactorCard(c)
  BY <1>8, GenerateStep, EnableCheckStep, DisableCheckStep DEF TwoFactorCard
<1>9. CASE EnableWrite(c) \/ DisableWrite(c) \/ LoginWrite(c)
  BY <1>9, EnableWriteStep, DisableWriteStep, LoginWriteStep
<1>10. CASE \E code \in factor.codes : LoginCheck(c, code)
  BY <1>10, LoginCheckStep
<1>. QED
  BY <1>1, <1>2, <1>3, <1>4, <1>5, <1>6, <1>7, <1>8, <1>9, <1>10

LEMMA Invariance == Spec => []Inv
BY InitInv, NextInv, PTL DEF Spec

\* AccountsInv: rows keep their types, no role or key outlives what it belongs to,
\* and AuthService.register founds an instance once: it has an administrator until
\* one is deleted or demoted, and of two administrators that registrations made, one
\* had been overtaken between its count and its creation.
THEOREM AccountsCorrect == Spec => []AccountsInv
<1>1. Inv => AccountsInv
  <2>. SUFFICES ASSUME Inv
                PROVE  AccountsInv
    OBVIOUS
  <2>1. \A c \in Calls : call[c].phase \in Phases /\ call[c].granted \subseteq Scopes
    BY CallType DEF Inv
  <2>2. TypeOK
    BY <2>1 DEF Inv, Typed, Rows, TypeOK, KeyRecord, Roles
  <2>3. OneFounder
    BY DEF Inv, Founding, Led, OneFounder, Existing
  <2>. QED
    BY <2>2, <2>3 DEF AccountsInv
<1>. QED
  BY <1>1, Invariance, PTL

\* NoExcessRights: a request, by a session or with an API key, may do what its user
\* may do, or could do when the guard read the role (permissionsForRole,
\* ApiKeysService.validateAndGetUser), and has lost that right since.
THEOREM RightsCorrect == Spec => []NoExcessRights
<1>1. Inv => NoExcessRights
  BY DEF Inv, Rights, NoExcessRights, PermissionsOf, At
<1>. QED
  BY <1>1, Invariance, PTL

\* FactorConfirmed: an enabled second factor has a secret whose code the user has
\* shown (enableTwoFactor), unless the secret was generated while the factor was enabled
\* (generateTwoFactorSecret), or an enabling wrote over another secret than it checked.
THEOREM FactorCorrect == Spec => []FactorConfirmed
<1>1. Inv => FactorConfirmed
  BY DEF Inv, SecondFactor
<1>. QED
  BY <1>1, Invariance, PTL

\* CodeOnce: a recovery code opens one session (login), unless the list that a login
\* wrote back had changed since it was read.
THEOREM CodeCorrect == Spec => []CodeOnce
<1>1. Inv => CodeOnce
  BY DEF Inv, SecondFactor
<1>. QED
  BY <1>1, Invariance, PTL

=============================================================================
