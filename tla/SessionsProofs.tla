--------------------------- MODULE SessionsProofs ---------------------------
(***************************************************************************)
(* The sessions of an account, for any number of browsers, requests,       *)
(* tokens, changes of password and faults.                                 *)
(***************************************************************************)
EXTENDS Sessions, SequenceTheorems, FiniteSetTheorems, TLAPS

-----------------------------------------------------------------------------
(* Types                                                                    *)

StoreRecord(n) == [access: {"none", "fresh", "expired"}, refresh: 0 .. n]
CallRecord(n) == [kind: PageCalls \cup AdminCalls \cup {"none"}, phase: Phases,
                  browser: Browsers, fresh: BOOLEAN, retry: BOOLEAN,
                  token: 0 .. n, password: Nat, late: BOOLEAN]

LEMMA IdleCallType ==
  ASSUME NEW n \in Nat
  PROVE  /\ IdleCall \in CallRecord(n)
         /\ IdleCall.token = 0 /\ IdleCall.phase = "idle" /\ IdleCall.kind = "none"
         /\ IdleCall.password = 0 /\ IdleCall.late = FALSE
<1>1. (CHOOSE b \in Browsers : TRUE) \in Browsers
  BY BrowsersAssumption
<1>. QED
  BY <1>1 DEF IdleCall, CallRecord, Phases, PageCalls

\* A row that changes, and rows that are all replaced, leave their number.
LEMMA TokensChange ==
  ASSUME tokens \in Seq(Token)
  PROVE  /\ Len(tokens) \in Nat /\ DOMAIN tokens = 1 .. Len(tokens)
         /\ \A t \in 1 .. Len(tokens) : tokens[t] \in Token
         /\ \A f : f \in [1 .. Len(tokens) -> Token] => f \in Seq(Token) /\ Len(f) = Len(tokens)
OBVIOUS

LEMMA SweptRows ==
  ASSUME tokens \in Seq(Token)
  PROVE  /\ Swept \in Seq(Token) /\ Len(Swept) = Len(tokens)
         /\ \A t \in 1 .. Len(tokens) :
              /\ Swept[t].state = IF tokens[t].state = "live" THEN "swept" ELSE tokens[t].state
              /\ Swept[t].password = tokens[t].password /\ Swept[t].parent = tokens[t].parent
              /\ Swept[t].late = tokens[t].late /\ Swept[t].raced = tokens[t].raced
<1>1. /\ DOMAIN tokens = 1 .. Len(tokens)
      /\ \A t \in 1 .. Len(tokens) : tokens[t] \in Token
  BY TokensChange
<1>2. Swept \in [1 .. Len(tokens) -> Token]
  BY <1>1 DEF Swept, Token, TokenStates
<1>3. Swept \in Seq(Token) /\ Len(Swept) = Len(tokens)
  BY <1>2, TokensChange
<1>. QED
  BY <1>1, <1>3 DEF Swept, Token

\* The row of a call that rotates or checks its token.
LEMMA RowChange ==
  ASSUME tokens \in Seq(Token), NEW t \in 1 .. Len(tokens),
         NEW state \in TokenStates, NEW raced \in BOOLEAN
  PROVE  /\ [tokens EXCEPT ![t].state = state] \in Seq(Token)
         /\ Len([tokens EXCEPT ![t].state = state]) = Len(tokens)
         /\ [tokens EXCEPT ![t].raced = raced] \in Seq(Token)
         /\ Len([tokens EXCEPT ![t].raced = raced]) = Len(tokens)
<1>1. /\ DOMAIN tokens = 1 .. Len(tokens)
      /\ \A u \in 1 .. Len(tokens) : tokens[u] \in Token
      /\ tokens \in [1 .. Len(tokens) -> Token]
  BY TokensChange
<1>2. [tokens EXCEPT ![t].state = state] \in [1 .. Len(tokens) -> Token]
  BY <1>1 DEF Token
<1>3. [tokens EXCEPT ![t].raced = raced] \in [1 .. Len(tokens) -> Token]
  BY <1>1 DEF Token
<1>. QED
  BY <1>2, <1>3, TokensChange

\* TypeOK but for the bound on passwords.
Types ==
  /\ account \in [status: {"ACTIVE", "BLOCKED", "GONE"}, password: Nat]
  /\ tokens \in Seq(Token) /\ Len(tokens) <= MaxTokens
  /\ store \in [Browsers -> StoreRecord(Len(tokens))]
  /\ call \in [Calls -> CallRecord(Len(tokens))]
  /\ made \in 0 .. MaxRequests /\ unswept \in BOOLEAN /\ lost \subseteq Browsers
  /\ faults \in 0 .. MaxFaults

LEMMA CallTypes ==
  ASSUME Types, NEW c \in Calls
  PROVE  /\ Len(tokens) \in Nat /\ call[c] \in CallRecord(Len(tokens))
         /\ call[c].browser \in Browsers /\ call[c].token \in 0 .. Len(tokens)
         /\ call[c].password \in Nat /\ call[c].late \in BOOLEAN
         /\ call[c].kind \in PageCalls \cup AdminCalls \cup {"none"}
         /\ call[c].phase \in Phases
BY DEF Types, CallRecord

\* The ways to change a call.
LEMMA CallUpdates ==
  ASSUME NEW n \in Nat, NEW r \in CallRecord(n), NEW phase \in Phases, NEW token \in 0 .. n,
         NEW late \in BOOLEAN, NEW fresh \in BOOLEAN, NEW retry \in BOOLEAN
  PROVE  /\ [r EXCEPT !.phase = phase] \in CallRecord(n)
         /\ [r EXCEPT !.phase = phase, !.token = token] \in CallRecord(n)
         /\ [r EXCEPT !.phase = phase, !.token = token, !.fresh = fresh, !.retry = retry] \in CallRecord(n)
         /\ [r EXCEPT !.phase = phase, !.fresh = fresh, !.token = token, !.late = late] \in CallRecord(n)
         /\ [r EXCEPT !.late = late] \in CallRecord(n)
BY DEF CallRecord

LEMMA StoreUpdates ==
  ASSUME NEW n \in Nat, store \in [Browsers -> StoreRecord(n)], NEW b \in Browsers,
         NEW access \in {"none", "fresh", "expired"}, NEW token \in 0 .. n
  PROVE  /\ [store EXCEPT ![b] = [access |-> access, refresh |-> token]] \in [Browsers -> StoreRecord(n)]
         /\ [store EXCEPT ![b].access = access] \in [Browsers -> StoreRecord(n)]
BY DEF StoreRecord

LEMMA ThrowsType ==
  ASSUME Types, NEW c \in Calls, Throws(c)
  PROVE  /\ call' \in [Calls -> CallRecord(Len(tokens))]
         /\ store' \in [Browsers -> StoreRecord(Len(tokens))]
<1>1. call' \in [Calls -> CallRecord(Len(tokens))]
  BY IdleCallType, CallTypes DEF Throws, Types
<1>2. store' \in [Browsers -> StoreRecord(Len(tokens))]
  <2>1. [access |-> "none", refresh |-> 0] \in StoreRecord(Len(tokens))
    BY CallTypes DEF StoreRecord
  <2>. QED
    BY <2>1, CallTypes DEF Throws, ClearTokens, Types
<1>. QED
  BY <1>1, <1>2

LEMMA RefuseType ==
  ASSUME Types, NEW c \in Calls, Refuse(c)
  PROVE  /\ call' \in [Calls -> CallRecord(Len(tokens))]
         /\ store' \in [Browsers -> StoreRecord(Len(tokens))]
<1>. DEFINE refresh == store[call[c].browser].refresh
<1>1. refresh \in 0 .. Len(tokens)
  BY CallTypes DEF Types, StoreRecord
<1>2. CASE call[c].retry /\ refresh # 0
  <2>1. call' = [call EXCEPT ![c] = [call[c] EXCEPT !.phase = "check", !.token = refresh,
                                                    !.fresh = FALSE, !.retry = FALSE]]
    BY <1>2 DEF Refuse, Types
  <2>2. [call[c] EXCEPT !.phase = "check", !.token = refresh, !.fresh = FALSE, !.retry = FALSE]
          \in CallRecord(Len(tokens))
    BY <1>1, CallTypes, CallUpdates DEF Phases
  <2>. QED
    BY <1>2, <2>1, <2>2 DEF Refuse, Types
<1>3. CASE ~(call[c].retry /\ refresh # 0)
  BY <1>3, ThrowsType DEF Refuse
<1>. QED
  BY <1>2, <1>3

LEMMA SuccessorType ==
  ASSUME Types, NEW c \in Calls
  PROVE  Successor(c) \in Token
<1>1. call[c].token # 0 => tokens[call[c].token] \in Token
  BY CallTypes, TokensChange DEF Types
<1>. QED
  BY <1>1, CallTypes DEF Successor, Token, TokenStates

\* The requests that hold a token.
PhaseTokens ==
  \A c \in Calls :
    /\ call[c].phase \in {"idle", "send", "compare", "write", "sweep"} => call[c].token = 0
    /\ call[c].phase \in {"check", "revoke", "reply", "answer"} => call[c].token # 0

\* Each step keeps the types.
LEMMA TypesStep ==
  ASSUME Types, PhaseTokens, [Next]_vars
  PROVE  Types'
<1>len. /\ Len(tokens) \in Nat /\ DOMAIN tokens = 1 .. Len(tokens)
        /\ \A t \in 1 .. Len(tokens) : tokens[t] \in Token
  BY TokensChange DEF Types
<1>fault. Fault => faults' \in 0 .. MaxFaults
  BY BoundsAssumption DEF Fault, Types
<1>begin. ASSUME NEW c \in Calls, NEW kind, Begin(c, kind)
          PROVE  made' \in 0 .. MaxRequests
  BY <1>begin, BoundsAssumption DEF Begin, Types
<1>1. ASSUME NEW c \in Calls, Served(c)
      PROVE  Types'
  <2>1. [call[c] EXCEPT !.phase = "compare"] \in CallRecord(Len(tokens))
    BY <1>len, CallTypes, CallUpdates DEF Phases
  <2>. QED
    BY <1>1, <1>len, <2>1, IdleCallType DEF Served, Types
<1>2. ASSUME NEW c \in Calls, Unauthorized(c)
      PROVE  Types'
  BY <1>2, RefuseType DEF Unauthorized, Types
<1>3. ASSUME NEW c \in Calls, Reply(c)
      PROVE  Types'
  <2>1. call' = [call EXCEPT ![c] = [call[c] EXCEPT !.phase = "send", !.fresh = TRUE, !.token = 0, !.late = FALSE]]
    BY <1>3 DEF Reply, Types
  <2>2. /\ "send" \in Phases /\ 0 \in 0 .. Len(tokens) /\ FALSE \in BOOLEAN /\ TRUE \in BOOLEAN
        /\ call[c] \in CallRecord(Len(tokens))
    BY <1>len, CallTypes DEF Phases
  <2>4. [call[c] EXCEPT !.phase = "send", !.fresh = TRUE, !.token = 0, !.late = FALSE] \in CallRecord(Len(tokens))
    BY <1>len, <2>2, CallUpdates, Zenon
  <2>3. store' \in [Browsers -> StoreRecord(Len(tokens))]
    BY <1>3, <1>len, CallTypes, StoreUpdates DEF Reply, SetTokens, Types
  <2>. QED
    BY <1>3, <2>1, <2>4, <2>3 DEF Reply, Types
<1>4. ASSUME NEW c \in Calls, Answer(c)
      PROVE  Types'
  <2>1. [IdleCall EXCEPT !.kind = "me", !.phase = "send", !.browser = call[c].browser,
                         !.fresh = TRUE, !.retry = TRUE] \in CallRecord(Len(tokens))
    BY <1>len, CallTypes, IdleCallType DEF CallRecord, Phases, PageCalls
  <2>2. store' \in [Browsers -> StoreRecord(Len(tokens))]
    BY <1>4, <1>len, CallTypes, StoreUpdates DEF Answer, SetTokens, Types
  <2>. QED
    BY <1>4, <2>1, <2>2 DEF Answer, Types
<1>5. ASSUME NEW c \in Calls, Compare(c)
      PROVE  Types'
  <2>1. \A p \in Phases : [call[c] EXCEPT !.phase = p] \in CallRecord(Len(tokens))
    BY <1>len, CallTypes, CallUpdates
  <2>2. CASE Refuse(c)
    BY <1>5, <2>2, RefuseType DEF Compare, Types
  <2>3. CASE ~Refuse(c)
    BY <1>5, <2>1, <2>3 DEF Compare, Goto, Types, Phases
  <2>. QED
    BY <2>2, <2>3
<1>6. ASSUME NEW c \in Calls, Check(c)
      PROVE  Types'
  <2>1. CASE tokens[call[c].token].state # "live"
    BY <1>6, <2>1, ThrowsType DEF Check, Types
  <2>2. CASE tokens[call[c].token].state = "live"
    <3>1. [call[c] EXCEPT !.phase = "revoke"] \in CallRecord(Len(tokens))
      BY <1>len, CallTypes, CallUpdates DEF Phases
    <3>2. call' \in [Calls -> CallRecord(Len(tokens))] /\ store' = store
      BY <1>6, <2>2, <3>1 DEF Check, Goto, Types
    <3>3. PICK raced \in BOOLEAN :
            raced = (tokens[call[c].token].raced \/ \E d \in Calls : At(d, "revoke") /\ call[d].token = call[c].token)
      OBVIOUS
    <3>4. tokens' = [tokens EXCEPT ![call[c].token].raced = raced]
      BY <1>6, <2>2, <3>3 DEF Check
    <3>5. call[c].token \in 1 .. Len(tokens)
      BY <1>6, <1>len, CallTypes DEF Check, At, PhaseTokens
    <3>6. tokens' \in Seq(Token) /\ Len(tokens') = Len(tokens)
      BY <3>4, <3>5, RowChange, "live" \in TokenStates DEF Types, TokenStates
    <3>. QED
      BY <1>6, <3>2, <3>6 DEF Check, Types
  <2>. QED
    BY <2>1, <2>2
<1>7. ASSUME NEW c \in Calls, Revoke(c)
      PROVE  Types'
  <2>1. CASE account.status = "GONE"
    BY <1>7, <2>1, ThrowsType DEF Revoke, Types
  <2>2. CASE account.status # "GONE"
    <3>1. [call[c] EXCEPT !.phase = "insert"] \in CallRecord(Len(tokens))
      BY <1>len, CallTypes, CallUpdates DEF Phases
    <3>2. call' \in [Calls -> CallRecord(Len(tokens))] /\ store' = store
      BY <1>7, <2>2, <3>1 DEF Revoke, Goto, Types
    <3>3. call[c].token \in 1 .. Len(tokens)
      BY <1>7, <1>len, CallTypes DEF Revoke, At, PhaseTokens
    <3>4. PICK state \in TokenStates :
            state = IF tokens[call[c].token].state \in {"live", "expired"} THEN "rotated" ELSE tokens[call[c].token].state
      BY <1>len, <3>3 DEF Token, TokenStates
    <3>5. tokens' = [tokens EXCEPT ![call[c].token].state = state]
      BY <1>7, <2>2, <3>4 DEF Revoke
    <3>6. tokens' \in Seq(Token) /\ Len(tokens') = Len(tokens)
      BY <3>3, <3>5, RowChange, FALSE \in BOOLEAN DEF Types
    <3>. QED
      BY <1>7, <3>2, <3>6 DEF Revoke, Types
  <2>. QED
    BY <2>1, <2>2
<1>8. ASSUME NEW c \in Calls, Insert(c)
      PROVE  Types'
  <2>1. CASE account.status = "GONE" \/ Len(tokens) = MaxTokens
    <3>1. lost' \subseteq Browsers
      BY <1>8, <2>1, CallTypes DEF Insert, Types
    <3>. QED
      BY <1>8, <2>1, <3>1, ThrowsType DEF Insert, Types
  <2>2. CASE ~(account.status = "GONE" \/ Len(tokens) = MaxTokens)
    <3>1. tokens' \in Seq(Token) /\ Len(tokens') = Len(tokens) + 1 /\ Len(tokens') <= MaxTokens
      <4>1. PICK heir \in Token : heir = Successor(c)
        BY SuccessorType
      <4>2. tokens' = Append(tokens, heir)
        BY <1>8, <2>2, <4>1 DEF Insert
      <4>3. tokens' \in Seq(Token) /\ Len(tokens') = Len(tokens) + 1
        BY <4>2, AppendProperties DEF Types
      <4>4. Len(tokens) <= MaxTokens /\ Len(tokens) # MaxTokens
        BY <2>2 DEF Types
      <4>5. Len(tokens) \in Nat /\ MaxTokens \in Nat
        BY <1>len, BoundsAssumption
      <4>6. \A m, n, max \in Nat : m <= max /\ m # max /\ n = m + 1 => n <= max
        OBVIOUS
      <4>7. Len(tokens') <= MaxTokens
        BY <4>3, <4>4, <4>5, <4>6
      <4>. QED
        BY <4>3, <4>7
    <3>2. PICK phase \in Phases : phase = IF call[c].token = 0 THEN "answer" ELSE "reply"
      BY DEF Phases
    <3>3. call' = [call EXCEPT ![c] = [call[c] EXCEPT !.phase = phase, !.token = Len(tokens) + 1]]
      BY <1>8, <2>2, <3>2 DEF Insert, Types
    <3>4. \A d \in Calls : call[d] \in CallRecord(Len(tokens) + 1)
      BY <1>len, CallTypes DEF CallRecord
    <3>5. [call[c] EXCEPT !.phase = phase, !.token = Len(tokens) + 1] \in CallRecord(Len(tokens) + 1)
      <4>1. PICK n \in Nat : n = Len(tokens) + 1
        BY <1>len
      <4>2. n \in 0 .. n /\ call[c] \in CallRecord(n)
        BY <3>4, <4>1
      <4>3. [call[c] EXCEPT !.phase = phase, !.token = n] \in CallRecord(n)
        BY <4>2 DEF CallRecord
      <4>. QED
        BY <4>1, <4>3
    <3>6. call' \in [Calls -> CallRecord(Len(tokens) + 1)]
      BY <3>3, <3>4, <3>5 DEF Types
    <3>7. store \in [Browsers -> StoreRecord(Len(tokens) + 1)]
      BY <1>len DEF Types, StoreRecord
    <3>. QED
      BY <1>8, <2>2, <3>1, <3>6, <3>7 DEF Insert, Types
  <2>. QED
    BY <2>1, <2>2
<1>9. ASSUME NEW c \in Calls, Write(c)
      PROVE  Types'
  <2>1. CASE account.status = "GONE"
    BY <1>9, <2>1, ThrowsType DEF Write, Types
  <2>2. CASE account.status # "GONE"
    <3>1. [call[c] EXCEPT !.phase = "sweep"] \in CallRecord(Len(tokens))
      BY <1>len, CallTypes, CallUpdates DEF Phases
    <3>2. account' \in [status: {"ACTIVE", "BLOCKED", "GONE"}, password: Nat]
      BY <1>9, <2>2 DEF Write, Types
    <3>3. call' \in [Calls -> CallRecord(Len(tokens))] /\ store' = store
      BY <1>9, <2>2, <3>1 DEF Write, Goto, Types
    <3>. QED
      BY <1>9, <2>2, <3>2, <3>3 DEF Write, Types
  <2>. QED
    BY <2>1, <2>2
<1>10. ASSUME NEW c \in Calls, Sweep(c)
       PROVE  Types'
  <2>1. \A d \in Calls :
          [call[d] EXCEPT !.late = @ \/ At(d, "revoke") \/ At(d, "insert")] \in CallRecord(Len(tokens))
    <3>. TAKE d \in Calls
    <3>1. PICK late \in BOOLEAN : late = (call[d].late \/ At(d, "revoke") \/ At(d, "insert"))
      OBVIOUS
    <3>2. call[d] \in CallRecord(Len(tokens))
      BY CallTypes
    <3>3. [call[d] EXCEPT !.late = late] \in CallRecord(Len(tokens))
      BY <3>2 DEF CallRecord
    <3>. QED
      BY <3>1, <3>3
  <2>2. call' \in [Calls -> CallRecord(Len(tokens))]
    BY <1>10, <1>len, <2>1, IdleCallType DEF Sweep
  <2>. QED
    BY <1>10, <2>2, SweptRows DEF Sweep, Types
<1>11. ASSUME NEW c \in Calls, AnswerLost(c)
       PROVE  Types'
  <2>1. lost' \subseteq Browsers
    BY <1>11, CallTypes DEF AnswerLost, Types
  <2>. QED
    BY <1>11, <1>fault, <2>1, ThrowsType DEF AnswerLost, Types
<1>12. ASSUME NEW c \in Calls, NEW b \in Browsers, NEW kind \in PageCalls, Request(c, b, kind)
       PROVE  Types'
  <2>1. PICK fresh \in BOOLEAN, password \in Nat :
          /\ fresh = (store[b].access = "fresh")
          /\ password = IF kind = "password" THEN account.password ELSE 0
    BY DEF Types
  <2>2. call' = [call EXCEPT ![c] = [IdleCall EXCEPT
            !.kind = kind, !.phase = "send", !.browser = b, !.retry = TRUE,
            !.fresh = fresh, !.password = password]]
    BY <1>12, <2>1 DEF Request
  <2>3. [IdleCall EXCEPT !.kind = kind, !.phase = "send", !.browser = b, !.retry = TRUE,
            !.fresh = fresh, !.password = password] \in CallRecord(Len(tokens))
    BY <1>len, IdleCallType, "send" \in Phases DEF CallRecord, Phases
  <2>. QED
    BY <1>12, <1>begin, <2>2, <2>3 DEF Request, Types
<1>13. ASSUME NEW c \in Calls, NEW b \in Browsers, SubmitLogin(c, b)
       PROVE  Types'
  <2>1. PICK p \in 0 .. account.password :
          call' = [call EXCEPT ![c] = [IdleCall EXCEPT
             !.kind = "login", !.phase = "send", !.browser = b, !.password = p, !.retry = TRUE]]
    BY <1>13 DEF SubmitLogin
  <2>2. p \in Nat
    BY DEF Types
  <2>3. [IdleCall EXCEPT !.kind = "login", !.phase = "send", !.browser = b, !.password = p, !.retry = TRUE]
          \in CallRecord(Len(tokens))
    BY <1>len, <2>2, IdleCallType DEF CallRecord, Phases, PageCalls
  <2>. QED
    BY <1>13, <1>begin, <2>1, <2>3 DEF SubmitLogin, Types
<1>14. ASSUME NEW c \in Calls, NEW kind \in AdminCalls, Administrate(c, kind)
       PROVE  Types'
  <2>1. call' = [call EXCEPT ![c] = [call[c] EXCEPT !.kind = kind, !.phase = "write"]]
    BY <1>14 DEF Administrate, Types
  <2>2. [call[c] EXCEPT !.kind = kind, !.phase = "write"] \in CallRecord(Len(tokens))
    BY <1>len, CallTypes DEF CallRecord, Phases
  <2>. QED
    BY <1>14, <1>begin, <2>1, <2>2 DEF Administrate, Types
<1>15. ASSUME NEW b \in Browsers, Logout(b) \/ AccessExpires(b)
       PROVE  Types'
  <2>1. store' \in [Browsers -> StoreRecord(Len(tokens))]
    <3>1. 0 \in 0 .. Len(tokens) /\ "none" \in {"none", "fresh", "expired"} /\ "expired" \in {"none", "fresh", "expired"}
      BY <1>len
    <3>2. CASE Logout(b)
      BY <3>1, <3>2, <1>len, StoreUpdates DEF Logout, ClearTokens, Types
    <3>3. CASE AccessExpires(b)
      BY <3>1, <3>3, <1>len, StoreUpdates DEF AccessExpires, SetAccess, Types
    <3>. QED
      BY <1>15, <3>2, <3>3
  <2>. QED
    BY <1>15, <2>1 DEF Logout, AccessExpires, Types
<1>19. ASSUME NEW b \in Browsers, RevokeSession(b)
       PROVE  Types'
  <2>1. store[b].refresh \in 1 .. Len(tokens)
    BY <1>19, <1>len DEF RevokeSession, Types, StoreRecord
  <2>2. [tokens EXCEPT ![store[b].refresh].state = "swept"] \in Seq(Token)
        /\ Len([tokens EXCEPT ![store[b].refresh].state = "swept"]) = Len(tokens)
    BY <2>1, RowChange, "swept" \in TokenStates, FALSE \in BOOLEAN DEF Types, TokenStates
  <2>. QED
    BY <1>19, <2>2 DEF RevokeSession, Types
<1>20. ASSUME NEW t \in DOMAIN tokens, RefreshExpires(t)
       PROVE  Types'
  <2>1. t \in 1 .. Len(tokens)
    BY <1>len
  <2>2. [tokens EXCEPT ![t].state = "expired"] \in Seq(Token)
        /\ Len([tokens EXCEPT ![t].state = "expired"]) = Len(tokens)
    BY <2>1, RowChange, "expired" \in TokenStates, FALSE \in BOOLEAN DEF Types, TokenStates
  <2>. QED
    BY <1>20, <2>2 DEF RefreshExpires, Types
<1>16. ASSUME Reactivate \/ DeleteUser
       PROVE  Types'
  BY <1>16, SweptRows DEF Reactivate, DeleteUser, Types
<1>17. ASSUME BackendStops
       PROVE  Types'
  <2>1. call' \in [Calls -> CallRecord(Len(tokens))]
    BY <1>17, <1>len, IdleCallType DEF BackendStops
  <2>2. store' \in [Browsers -> StoreRecord(Len(tokens))]
    BY <1>17, <1>len DEF BackendStops, StoreRecord, Types
  <2>3. lost' \subseteq Browsers
    BY <1>17, CallTypes DEF BackendStops, Types
  <2>4. unswept' \in BOOLEAN
    BY <1>17 DEF BackendStops, Types
  <2>. QED
    BY <1>17, <1>fault, <2>1, <2>2, <2>3, <2>4 DEF BackendStops, Types
<1>18. CASE UNCHANGED vars
  BY <1>18 DEF vars, Types
<1>. QED
  BY <1>1, <1>2, <1>3, <1>4, <1>5, <1>6, <1>7, <1>8, <1>9, <1>10, <1>11, <1>12, <1>13, <1>14,
     <1>15, <1>16, <1>17, <1>18, <1>19, <1>20
  DEF Next, CallStep, AuthController, LoadPage, ChangePassword, ResetPassword, SuspendOrBan,
      PageCalls, AdminCalls

-----------------------------------------------------------------------------
(* What a step does to the tokens, and to the requests that hold them       *)

OnlyCall(c) == \A d \in Calls \ {c} : call'[d] = call[d]
SameCallBut(c) ==
  /\ call'[c].token = call[c].token /\ call'[c].browser = call[c].browser
  /\ call'[c].password = call[c].password /\ call'[c].late = call[c].late
StoresKept == \A b \in Browsers : store'[b].refresh \in {store[b].refresh, 0}
SameRowBut(t) ==
  /\ tokens'[t].parent = tokens[t].parent /\ tokens'[t].password = tokens[t].password
  /\ tokens'[t].late = tokens[t].late
Frame == UNCHANGED <<account, unswept, lost>>

\* A request holds no token, or none any more.
Release(c) ==
  /\ OnlyCall(c) /\ StoresKept /\ UNCHANGED <<tokens, unswept>>
  /\ call'[c].token = 0 /\ call'[c].phase \notin {"check", "revoke", "reply", "answer"}
  /\ call[c].phase = "reply" \/ (call[c].phase = "insert" /\ call[c].token # 0) => call[c].browser \in lost'
  /\ lost \subseteq lost'
  /\ call[c].phase # "sweep"
  /\ account'.password = account.password \/ call'[c].phase = "sweep"
  /\ account.status = "GONE" => account'.status = "GONE"
  /\ call'[c].phase = "insert" => call'[c].password = account'.password
\* A request refreshes with the token that is stored,
Take(c) ==
  /\ OnlyCall(c) /\ Frame /\ UNCHANGED <<tokens, store>>
  /\ call[c].phase \in {"send", "compare"} /\ call'[c].phase = "check"
  /\ call'[c].token = store[call[c].browser].refresh /\ call'[c].token # 0
  /\ call'[c].browser = call[c].browser
\* that is found good,
Pass(c) ==
  /\ OnlyCall(c) /\ SameCallBut(c) /\ Frame /\ UNCHANGED store
  /\ call[c].phase = "check" /\ call'[c].phase = "revoke"
  /\ tokens[call[c].token].state = "live"
  /\ Len(tokens') = Len(tokens)
  /\ \A t \in 1 .. Len(tokens) :
       /\ SameRowBut(t) /\ tokens'[t].state = tokens[t].state
       /\ t # call[c].token => tokens'[t].raced = tokens[t].raced
       /\ tokens[t].raced => tokens'[t].raced
  /\ ~tokens'[call[c].token].raced => \A d \in Calls : ~(At(d, "revoke") /\ call[d].token = call[c].token)
\* revoked,
Rotate(c) ==
  /\ OnlyCall(c) /\ SameCallBut(c) /\ Frame /\ UNCHANGED store
  /\ call[c].phase = "revoke" /\ call'[c].phase = "insert"
  /\ Len(tokens') = Len(tokens)
  /\ \A t \in 1 .. Len(tokens) :
       /\ SameRowBut(t) /\ tokens'[t].raced = tokens[t].raced
       /\ t # call[c].token => tokens'[t].state = tokens[t].state
  /\ tokens'[call[c].token].state = IF tokens[call[c].token].state \in {"live", "expired"} THEN "rotated"
                                    ELSE tokens[call[c].token].state
\* succeeded by another,
Issue(c) ==
  /\ OnlyCall(c) /\ Frame /\ UNCHANGED store
  /\ call[c].phase = "insert"
  /\ call'[c].phase = IF call[c].token = 0 THEN "answer" ELSE "reply"
  /\ call'[c].token = Len(tokens) + 1 /\ call'[c].browser = call[c].browser
  /\ Len(tokens') = Len(tokens) + 1
  /\ \A t \in 1 .. Len(tokens) : tokens'[t] = tokens[t]
  /\ tokens'[Len(tokens) + 1] = Successor(c)
\* and delivered.
Deliver(c) ==
  /\ OnlyCall(c) /\ Frame /\ UNCHANGED tokens
  /\ call[c].phase \in {"reply", "answer"} /\ call'[c].phase = "send" /\ call'[c].token = 0
  /\ \A b \in Browsers \ {call[c].browser} : store'[b] = store[b]
  /\ store'[call[c].browser].refresh = call[c].token
\* All are revoked, or the rows go with the account.
Ends ==
  /\ Len(tokens') = Len(tokens)
  /\ \A t \in 1 .. Len(tokens) :
       /\ SameRowBut(t) /\ tokens'[t].raced = tokens[t].raced
       /\ tokens'[t].state = IF tokens[t].state = "live" THEN "swept" ELSE tokens[t].state
SweepAll(c) ==
  /\ Ends /\ UNCHANGED <<account, store, lost>> /\ unswept' = FALSE
  /\ call[c].phase = "sweep" /\ call'[c].phase = "idle" /\ call'[c].token = 0
  /\ \A d \in Calls \ {c} :
       /\ call'[d].phase = call[d].phase /\ call'[d].token = call[d].token
       /\ call'[d].browser = call[d].browser /\ call'[d].password = call[d].password
       /\ call'[d].late = (call[d].late \/ call[d].phase \in {"revoke", "insert"})
Vanish ==
  /\ Ends /\ UNCHANGED <<store, call, lost, unswept>>
  /\ account'.status = "GONE" /\ account'.password = account.password
\* Tokens end, by their age or for one session.
Retire ==
  /\ UNCHANGED <<account, store, call, lost, unswept>>
  /\ Len(tokens') = Len(tokens)
  /\ \A t \in 1 .. Len(tokens) :
       /\ SameRowBut(t) /\ tokens'[t].raced = tokens[t].raced
       /\ tokens'[t].state \in {tokens[t].state, "expired", "swept"}
\* A browser or an administrator does something that is no request.
Aside ==
  /\ StoresKept /\ UNCHANGED <<tokens, call, lost, unswept>>
  /\ account'.password = account.password
  /\ account.status = "GONE" => account'.status = "GONE"
\* The Backend stops.
Stop ==
  /\ StoresKept /\ UNCHANGED <<account, tokens>>
  /\ \A c \in Calls : call'[c].phase = "idle" /\ call'[c].token = 0
  /\ lost \subseteq lost'
  /\ \A c \in Calls : call[c].phase # "idle" => call[c].browser \in lost'
  /\ unswept' = (unswept \/ \E c \in Calls : At(c, "sweep"))

TokenStep ==
  \/ \E c \in Calls : \/ Release(c) \/ Take(c) \/ Pass(c) \/ Rotate(c)
                      \/ Issue(c) \/ Deliver(c) \/ SweepAll(c)
  \/ Vanish \/ Retire \/ Aside \/ Stop

LEMMA OneRetires ==
  ASSUME Types, NEW t \in 1 .. Len(tokens), NEW state \in {"expired", "swept"},
         tokens' = [tokens EXCEPT ![t].state = state],
         UNCHANGED <<account, store, call, lost, unswept>>
  PROVE  Retire
<1>1. /\ tokens[t] \in Token /\ DOMAIN tokens = 1 .. Len(tokens) /\ state \in TokenStates
  BY TokensChange DEF Types, TokenStates
<1>2. Len(tokens') = Len(tokens)
  BY <1>1, RowChange, FALSE \in BOOLEAN DEF Types
<1>3. /\ tokens'[t] = [tokens[t] EXCEPT !.state = state]
      /\ \A u \in 1 .. Len(tokens) : u # t => tokens'[u] = tokens[u]
  BY <1>1
<1>4. SameRowBut(t) /\ tokens'[t].raced = tokens[t].raced /\ tokens'[t].state = state
  BY <1>1, <1>3 DEF SameRowBut, Token
<1>. QED
  BY <1>2, <1>3, <1>4 DEF Retire, SameRowBut

LEMMA ThrowsReleases ==
  ASSUME Types, NEW c \in Calls, Throws(c)
  PROVE  /\ OnlyCall(c) /\ StoresKept
         /\ call'[c].token = 0 /\ call'[c].phase = "idle"
<1>1. OnlyCall(c) /\ call'[c] = IdleCall
  BY DEF Throws, OnlyCall, Types
<1>2. StoresKept
  <2>1. CASE call[c].kind = "me"
    <3>1. PICK b \in Browsers : store' = [store EXCEPT ![b] = [access |-> "none", refresh |-> 0]]
      BY <2>1, CallTypes DEF Throws, ClearTokens
    <3>2. \A d \in Browsers : store'[d] = IF d = b THEN [access |-> "none", refresh |-> 0] ELSE store[d]
      BY <3>1 DEF Types
    <3>. QED
      BY <3>2 DEF StoresKept
  <2>2. CASE call[c].kind # "me"
    BY <2>2 DEF Throws, StoresKept
  <2>. QED
    BY <2>1, <2>2
<1>. QED
  BY <1>1, <1>2, IdleCallType, CallTypes

LEMMA TokenSteps ==
  ASSUME Types, PhaseTokens, [Next]_vars
  PROVE  TokenStep
<1>len. /\ Len(tokens) \in Nat /\ DOMAIN tokens = 1 .. Len(tokens)
        /\ \A t \in 1 .. Len(tokens) : tokens[t] \in Token
  BY TokensChange DEF Types
<1>refuse. ASSUME NEW c \in Calls, call[c].phase \in {"send", "compare"}, Refuse(c),
                  UNCHANGED <<account, tokens, unswept, lost>>
           PROVE  Release(c) \/ Take(c)
  <2>1. CASE call[c].retry /\ store[call[c].browser].refresh # 0
    BY <1>refuse, <2>1 DEF Refuse, Take, OnlyCall, Frame, Types, CallRecord
  <2>2. CASE ~(call[c].retry /\ store[call[c].browser].refresh # 0)
    <3>1. Throws(c)
      BY <1>refuse, <2>2 DEF Refuse
    <3>. QED
      BY <1>refuse, <3>1, ThrowsReleases DEF Release
  <2>. QED
    BY <2>1, <2>2
<1>1. ASSUME NEW c \in Calls, Served(c)
      PROVE  Release(c)
  <2>1. call[c].token = 0 /\ call[c].phase = "send"
    BY <1>1 DEF Served, At, PhaseTokens
  <2>2. call'[c].token = 0 /\ call'[c].phase \in {"compare", "idle"} /\ OnlyCall(c)
    BY <1>1, <2>1, IdleCallType, <1>len DEF Served, Types, OnlyCall, CallRecord
  <2>3. StoresKept
    BY <1>1 DEF Served, StoresKept
  <2>. QED
    BY <1>1, <2>1, <2>2, <2>3 DEF Served, Release
<1>2. ASSUME NEW c \in Calls, Unauthorized(c)
      PROVE  Release(c) \/ Take(c)
  BY <1>2, <1>refuse DEF Unauthorized, At
<1>3. ASSUME NEW c \in Calls, Reply(c)
      PROVE  Deliver(c)
  <2>1. OnlyCall(c) /\ call'[c].phase = "send" /\ call'[c].token = 0
    BY <1>3 DEF Reply, OnlyCall, Types, CallRecord
  <2>. QED
    BY <1>3, <2>1, CallTypes DEF Reply, At, SetTokens, Deliver, Frame, Types, StoreRecord
<1>4. ASSUME NEW c \in Calls, Answer(c)
      PROVE  Deliver(c)
  <2>1. OnlyCall(c) /\ call'[c].phase = "send" /\ call'[c].token = 0
    BY <1>4, <1>len, IdleCallType DEF Answer, OnlyCall, Types, CallRecord
  <2>. QED
    BY <1>4, <2>1, CallTypes DEF Answer, At, SetTokens, Deliver, Frame, Types, StoreRecord
<1>5. ASSUME NEW c \in Calls, Compare(c)
      PROVE  Release(c) \/ Take(c)
  <2>1. CASE account.status # "GONE" /\ call[c].password = account.password
    <3>1. call[c].token = 0 /\ call[c].phase = "compare"
      BY <1>5 DEF Compare, At, PhaseTokens
    <3>2. /\ call'[c].token = 0 /\ call'[c].phase \in {"insert", "write"} /\ OnlyCall(c)
          /\ call'[c].password = account.password
      BY <1>5, <2>1, <3>1 DEF Compare, Goto, Types, OnlyCall, CallRecord
    <3>3. StoresKept
      BY <1>5, <2>1 DEF Compare, StoresKept
    <3>. QED
      BY <1>5, <3>1, <3>2, <3>3 DEF Compare, Release
  <2>2. CASE ~(account.status # "GONE" /\ call[c].password = account.password)
    BY <1>5, <2>2, <1>refuse DEF Compare, At
  <2>. QED
    BY <2>1, <2>2
<1>6. ASSUME NEW c \in Calls, Check(c)
      PROVE  Release(c) \/ Pass(c)
  <2>1. CASE tokens[call[c].token].state # "live"
    BY <1>6, <2>1, ThrowsReleases DEF Check, At, Release
  <2>2. CASE tokens[call[c].token].state = "live"
    <3>1. OnlyCall(c) /\ SameCallBut(c) /\ call'[c].phase = "revoke" /\ call[c].phase = "check"
      BY <1>6, <2>2 DEF Check, Goto, At, OnlyCall, SameCallBut, Types, CallRecord
    <3>2. PICK raced \in BOOLEAN :
            raced = (tokens[call[c].token].raced \/ \E d \in Calls : At(d, "revoke") /\ call[d].token = call[c].token)
      OBVIOUS
    <3>3. PICK u \in 1 .. Len(tokens) : u = call[c].token
      BY <3>1, <1>len, CallTypes DEF PhaseTokens
    <3>4. tokens' = [tokens EXCEPT ![u].raced = raced]
      BY <1>6, <2>2, <3>2, <3>3 DEF Check
    <3>5. Len(tokens') = Len(tokens)
      BY <3>4, RowChange, "live" \in TokenStates DEF Types, TokenStates
    <3>6. /\ tokens'[u] = [tokens[u] EXCEPT !.raced = raced]
          /\ \A t \in 1 .. Len(tokens) : t # u => tokens'[t] = tokens[t]
      BY <1>len, <3>4
    <3>7. tokens[u] \in Token
      BY <1>len
    <3>8. /\ SameRowBut(u) /\ tokens'[u].state = tokens[u].state /\ tokens'[u].raced = raced
      BY <3>6, <3>7 DEF SameRowBut, Token
    <3>9. \A t \in 1 .. Len(tokens) :
            /\ SameRowBut(t) /\ tokens'[t].state = tokens[t].state
            /\ t # u => tokens'[t].raced = tokens[t].raced
      BY <3>6, <3>8 DEF SameRowBut
    <3>10. /\ tokens[u].raced => raced
           /\ ~raced => \A d \in Calls : ~(At(d, "revoke") /\ call[d].token = call[c].token)
      BY <3>2, <3>3
    <3>. QED
      BY <1>6, <2>2, <3>1, <3>3, <3>5, <3>8, <3>9, <3>10 DEF Check, Pass, Frame
  <2>. QED
    BY <2>1, <2>2
<1>7. ASSUME NEW c \in Calls, Revoke(c)
      PROVE  Release(c) \/ Rotate(c)
  <2>1. CASE account.status = "GONE"
    BY <1>7, <2>1, ThrowsReleases DEF Revoke, At, Release
  <2>2. CASE account.status # "GONE"
    <3>1. OnlyCall(c) /\ SameCallBut(c) /\ call'[c].phase = "insert" /\ call[c].phase = "revoke"
      BY <1>7, <2>2 DEF Revoke, Goto, At, OnlyCall, SameCallBut, Types, CallRecord
    <3>2. PICK u \in 1 .. Len(tokens) : u = call[c].token
      BY <3>1, <1>len, CallTypes DEF PhaseTokens
    <3>3. PICK state \in TokenStates :
            state = IF tokens[u].state \in {"live", "expired"} THEN "rotated" ELSE tokens[u].state
      BY <1>len, <3>2 DEF Token, TokenStates
    <3>4. tokens' = [tokens EXCEPT ![u].state = state]
      BY <1>7, <2>2, <3>2, <3>3 DEF Revoke
    <3>5. Len(tokens') = Len(tokens)
      BY <3>4, RowChange, FALSE \in BOOLEAN DEF Types
    <3>6. /\ tokens'[u] = [tokens[u] EXCEPT !.state = state]
          /\ \A t \in 1 .. Len(tokens) : t # u => tokens'[t] = tokens[t]
      BY <1>len, <3>4
    <3>7. tokens[u] \in Token
      BY <1>len
    <3>8. /\ SameRowBut(u) /\ tokens'[u].state = state /\ tokens'[u].raced = tokens[u].raced
      BY <3>6, <3>7 DEF SameRowBut, Token
    <3>9. \A t \in 1 .. Len(tokens) :
            /\ SameRowBut(t) /\ tokens'[t].raced = tokens[t].raced
            /\ t # u => tokens'[t].state = tokens[t].state
      BY <3>6, <3>8 DEF SameRowBut
    <3>. QED
      BY <1>7, <2>2, <3>1, <3>2, <3>3, <3>5, <3>8, <3>9 DEF Revoke, Rotate, Frame
  <2>. QED
    BY <2>1, <2>2
<1>8. ASSUME NEW c \in Calls, Insert(c)
      PROVE  Release(c) \/ Issue(c)
  <2>1. CASE account.status = "GONE" \/ Len(tokens) = MaxTokens
    BY <1>8, <2>1, ThrowsReleases DEF Insert, At, Release
  <2>2. CASE ~(account.status = "GONE" \/ Len(tokens) = MaxTokens)
    <3>1. PICK heir \in Token : heir = Successor(c)
      BY SuccessorType
    <3>2. tokens' = Append(tokens, heir)
      BY <1>8, <2>2, <3>1 DEF Insert
    <3>3. /\ Len(tokens') = Len(tokens) + 1
          /\ \A t \in 1 .. Len(tokens) : tokens'[t] = tokens[t]
          /\ tokens'[Len(tokens) + 1] = heir
      BY <3>2, AppendProperties DEF Types
    <3>4. /\ OnlyCall(c) /\ call[c].phase = "insert"
          /\ call'[c].phase = IF call[c].token = 0 THEN "answer" ELSE "reply"
          /\ call'[c].token = Len(tokens) + 1 /\ call'[c].browser = call[c].browser
      BY <1>8, <2>2 DEF Insert, At, OnlyCall, Types, CallRecord
    <3>. QED
      BY <1>8, <2>2, <3>1, <3>3, <3>4 DEF Insert, Issue, Frame
  <2>. QED
    BY <2>1, <2>2
<1>9. ASSUME NEW c \in Calls, Write(c)
      PROVE  Release(c)
  <2>1. CASE account.status = "GONE"
    BY <1>9, <2>1, ThrowsReleases DEF Write, At, Release
  <2>2. CASE account.status # "GONE"
    <3>1. call[c].token = 0 /\ call[c].phase = "write"
      BY <1>9 DEF Write, At, PhaseTokens
    <3>2. call'[c].token = 0 /\ call'[c].phase = "sweep" /\ OnlyCall(c)
      BY <1>9, <2>2, <3>1 DEF Write, Goto, Types, OnlyCall, CallRecord
    <3>3. StoresKept
      BY <1>9, <2>2 DEF Write, StoresKept
    <3>. QED
      BY <1>9, <2>2, <3>1, <3>2, <3>3 DEF Write, Release
  <2>. QED
    BY <2>1, <2>2
<1>10. ASSUME NEW c \in Calls, Sweep(c)
       PROVE  SweepAll(c)
  <2>1. Ends
    BY <1>10, SweptRows DEF Sweep, Ends, SameRowBut, Types
  <2>2. call[c].phase = "sweep" /\ call'[c] = IdleCall
    BY <1>10 DEF Sweep, At
  <2>3. ASSUME NEW d \in Calls \ {c}
        PROVE  /\ call'[d].phase = call[d].phase /\ call'[d].token = call[d].token
               /\ call'[d].browser = call[d].browser /\ call'[d].password = call[d].password
               /\ call'[d].late = (call[d].late \/ call[d].phase \in {"revoke", "insert"})
    <3>1. PICK late \in BOOLEAN : late = (call[d].late \/ At(d, "revoke") \/ At(d, "insert"))
      OBVIOUS
    <3>2. call'[d] = [call[d] EXCEPT !.late = late]
      BY <1>10, <3>1 DEF Sweep
    <3>3. call[d] \in CallRecord(Len(tokens))
      BY CallTypes
    <3>4. /\ call'[d].phase = call[d].phase /\ call'[d].token = call[d].token
          /\ call'[d].browser = call[d].browser /\ call'[d].password = call[d].password
          /\ call'[d].late = late
      BY <3>2, <3>3 DEF CallRecord
    <3>. QED
      BY <3>1, <3>4 DEF At
  <2>. QED
    BY <1>10, <1>len, <2>1, <2>2, <2>3, IdleCallType DEF Sweep, SweepAll
<1>11. ASSUME NEW c \in Calls, AnswerLost(c)
       PROVE  Release(c)
  BY <1>11, ThrowsReleases DEF AnswerLost, Release
<1>12. ASSUME NEW c \in Calls, NEW b \in Browsers, NEW kind \in PageCalls, Request(c, b, kind)
       PROVE  Release(c)
  <2>1. OnlyCall(c) /\ call'[c].token = 0 /\ call'[c].phase = "send" /\ StoresKept /\ call[c].phase = "idle"
    BY <1>12, <1>len, IdleCallType DEF Request, Begin, At, OnlyCall, StoresKept, Types, CallRecord
  <2>. QED
    BY <1>12, <2>1 DEF Request, Release
<1>13. ASSUME NEW c \in Calls, NEW b \in Browsers, SubmitLogin(c, b)
       PROVE  Release(c)
  <2>1. OnlyCall(c) /\ call'[c].token = 0 /\ call'[c].phase = "send" /\ StoresKept /\ call[c].phase = "idle"
    <3>1. PICK p \in 0 .. account.password :
            call' = [call EXCEPT ![c] = [IdleCall EXCEPT
               !.kind = "login", !.phase = "send", !.browser = b, !.password = p, !.retry = TRUE]]
      BY <1>13 DEF SubmitLogin
    <3>2. OnlyCall(c) /\ call'[c].token = 0 /\ call'[c].phase = "send"
      BY <1>len, <3>1, IdleCallType DEF OnlyCall, Types, CallRecord
    <3>. QED
      BY <1>13, <3>2 DEF SubmitLogin, Begin, At, StoresKept
  <2>. QED
    BY <1>13, <2>1 DEF SubmitLogin, Release
<1>14. ASSUME NEW c \in Calls, NEW kind \in AdminCalls, Administrate(c, kind)
       PROVE  Release(c)
  <2>1. call[c].phase = "idle" /\ call[c].token = 0
    BY <1>14 DEF Administrate, Begin, At, PhaseTokens
  <2>2. OnlyCall(c) /\ call'[c].token = 0 /\ call'[c].phase = "write" /\ StoresKept
    BY <1>14, <2>1 DEF Administrate, OnlyCall, StoresKept, Types, CallRecord
  <2>. QED
    BY <1>14, <2>1, <2>2 DEF Administrate, Release
<1>15. ASSUME NEW b \in Browsers, Logout(b) \/ AccessExpires(b)
       PROVE  Aside
  <2>1. CASE Logout(b)
    <3>1. \A d \in Browsers : store'[d] = IF d = b THEN [access |-> "none", refresh |-> 0] ELSE store[d]
      BY <2>1 DEF Logout, ClearTokens, Types
    <3>. QED
      BY <2>1, <3>1 DEF Logout, Aside, StoresKept
  <2>2. CASE AccessExpires(b)
    <3>1. \A d \in Browsers : store'[d].refresh = store[d].refresh
      BY <2>2 DEF AccessExpires, SetAccess, Types, StoreRecord
    <3>. QED
      BY <2>2, <3>1 DEF AccessExpires, Aside, StoresKept
  <2>. QED
    BY <1>15, <2>1, <2>2
<1>20. ASSUME NEW b \in Browsers, RevokeSession(b)
       PROVE  Retire
  <2>1. PICK t \in 1 .. Len(tokens) : t = store[b].refresh
    BY <1>20, <1>len DEF RevokeSession, Types, StoreRecord
  <2>. QED
    BY <1>20, <2>1, OneRetires DEF RevokeSession
<1>21. ASSUME NEW t \in DOMAIN tokens, RefreshExpires(t)
       PROVE  Retire
  BY <1>21, <1>len, OneRetires DEF RefreshExpires
<1>16. ASSUME Reactivate
       PROVE  Aside
  BY <1>16 DEF Reactivate, Aside, StoresKept, Types
<1>17. ASSUME DeleteUser
       PROVE  Vanish
  <2>1. Ends
    BY <1>17, SweptRows DEF DeleteUser, Ends, SameRowBut, Types
  <2>. QED
    BY <1>17, <2>1 DEF DeleteUser, Vanish, Types
<1>19. ASSUME BackendStops
       PROVE  Stop
  <2>1. \A b \in Browsers : store'[b].refresh \in {store[b].refresh, 0}
    BY <1>19 DEF BackendStops
  <2>2. \A c \in Calls : call[c].phase # "idle" => call[c].browser \in lost'
    BY <1>19 DEF BackendStops, At
  <2>3. \A c \in Calls : call'[c].phase = "idle" /\ call'[c].token = 0
    BY <1>19, <1>len, IdleCallType DEF BackendStops
  <2>. QED
    BY <1>19, <2>1, <2>2, <2>3 DEF BackendStops, Stop, StoresKept
<1>18. ASSUME UNCHANGED vars
       PROVE  Aside
  BY <1>18 DEF vars, Aside, StoresKept
<1>. QED
  BY <1>1, <1>2, <1>3, <1>4, <1>5, <1>6, <1>7, <1>8, <1>9, <1>10, <1>11, <1>12, <1>13, <1>14,
     <1>15, <1>16, <1>17, <1>18, <1>19, <1>20, <1>21
  DEF Next, CallStep, AuthController, LoadPage, ChangePassword, ResetPassword, SuspendOrBan,
      PageCalls, AdminCalls, TokenStep

-----------------------------------------------------------------------------
(* Whose a token is, and where a rotation stands                            *)

\* A token belongs to one browser: it is stored by one, and the requests that
\* hold it are that browser's.
Owned ==
  /\ \A b, d \in Browsers : store[b].refresh = store[d].refresh /\ store[b].refresh # 0 => b = d
  /\ \A c \in Calls, b \in Browsers :
       call[c].token # 0 /\ store[b].refresh = call[c].token => call[c].browser = b
  /\ \A c, d \in Calls :
       call[c].token # 0 /\ call[c].token = call[d].token => call[c].browser = call[d].browser

\* A token on its way to its browser is known to the request that brings it alone.
Undelivered ==
  \A c \in Calls : call[c].phase \in {"reply", "answer"} =>
    /\ tokens[call[c].token].state # "rotated"
    /\ \A b \in Browsers : store[b].refresh # call[c].token
    /\ \A d \in Calls \ {c} : call[d].token # call[c].token

\* StoredTokenUsable, with the requests that rotate the stored token told from a login.
Rotating ==
  \A b \in Browsers :
    LET t == store[b].refresh
    IN  t # 0 /\ tokens[t].state = "rotated" /\ account.status # "GONE" =>
          \/ b \in lost
          \/ \E c \in Calls : /\ call[c].browser = b
                              /\ \/ call[c].phase = "reply"
                                 \/ call[c].phase = "insert" /\ call[c].token # 0

LEMMA PhaseTokensStep ==
  ASSUME Types, PhaseTokens, TokenStep
  PROVE  PhaseTokens'
<1>0. Len(tokens) \in Nat
  BY TokensChange DEF Types
<1>1. ASSUME NEW c \in Calls, Release(c) \/ Take(c) \/ Pass(c) \/ Rotate(c) \/ Issue(c) \/ Deliver(c)
      PROVE  PhaseTokens'
  BY <1>0, <1>1 DEF Release, Take, Pass, Rotate, Issue, Deliver, OnlyCall, SameCallBut, PhaseTokens
<1>2. ASSUME NEW c \in Calls, SweepAll(c)
      PROVE  PhaseTokens'
  BY <1>2 DEF SweepAll, PhaseTokens
<1>. QED
  BY <1>1, <1>2 DEF TokenStep, Vanish, Retire, Aside, Stop, PhaseTokens

LEMMA OwnedStep ==
  ASSUME Types, PhaseTokens, Owned, Undelivered, TokenStep
  PROVE  Owned'
<1>0. /\ Len(tokens) \in Nat /\ \A b \in Browsers : store[b].refresh \in 0 .. Len(tokens)
      /\ \A c \in Calls : call[c].token \in 0 .. Len(tokens) /\ call[c].browser \in Browsers
  BY CallTypes, TokensChange DEF Types, StoreRecord
<1>1. ASSUME NEW c \in Calls, Release(c)
      PROVE  Owned'
  BY <1>1 DEF Release, OnlyCall, StoresKept, Owned
<1>2. ASSUME NEW c \in Calls, Take(c)
      PROVE  Owned'
  BY <1>0, <1>2 DEF Take, OnlyCall, Owned
<1>3. ASSUME NEW c \in Calls, Pass(c) \/ Rotate(c)
      PROVE  Owned'
  BY <1>3 DEF Pass, Rotate, OnlyCall, SameCallBut, Owned
<1>4. ASSUME NEW c \in Calls, Issue(c)
      PROVE  Owned'
  <2>1. \A d \in Calls \ {c} : call'[d] = call[d] /\ call[d].token # call'[c].token
    BY <1>0, <1>4 DEF Issue, OnlyCall
  <2>2. \A b \in Browsers : store'[b].refresh # call'[c].token
    BY <1>0, <1>4 DEF Issue
  <2>. QED
    BY <1>4, <2>1, <2>2 DEF Issue, Owned
<1>5. ASSUME NEW c \in Calls, Deliver(c)
      PROVE  Owned'
  <2>1. /\ \A b \in Browsers : store[b].refresh # call[c].token
        /\ \A d \in Calls \ {c} : call[d].token # call[c].token
    BY <1>5 DEF Deliver, Undelivered
  <2>. QED
    BY <1>5, <2>1 DEF Deliver, OnlyCall, Owned
<1>6. ASSUME NEW c \in Calls, SweepAll(c)
      PROVE  Owned'
  BY <1>6 DEF SweepAll, Owned
<1>. QED
  BY <1>1, <1>2, <1>3, <1>4, <1>5, <1>6 DEF TokenStep, Vanish, Retire, Aside, Stop, StoresKept, Owned

LEMMA UndeliveredStep ==
  ASSUME Types, PhaseTokens, Undelivered, TokenStep
  PROVE  Undelivered'
<1>0. /\ Len(tokens) \in Nat /\ \A b \in Browsers : store[b].refresh \in 0 .. Len(tokens)
      /\ \A c \in Calls : call[c].token \in 0 .. Len(tokens)
  BY CallTypes, TokensChange DEF Types, StoreRecord
<1>1. \A c \in Calls : call[c].phase \in {"reply", "answer"} => call[c].token \in 1 .. Len(tokens)
  BY <1>0 DEF PhaseTokens
<1>2. ASSUME NEW c \in Calls, Release(c)
      PROVE  Undelivered'
  BY <1>1, <1>2 DEF Release, OnlyCall, StoresKept, Undelivered
<1>3. ASSUME NEW c \in Calls, Take(c)
      PROVE  Undelivered'
  BY <1>1, <1>3, CallTypes DEF Take, OnlyCall, Undelivered
<1>4. ASSUME NEW c \in Calls, Pass(c)
      PROVE  Undelivered'
  BY <1>1, <1>4 DEF Pass, OnlyCall, SameCallBut, Undelivered
<1>5. ASSUME NEW c \in Calls, Rotate(c)
      PROVE  Undelivered'
  BY <1>1, <1>5 DEF Rotate, OnlyCall, SameCallBut, Undelivered
<1>6. ASSUME NEW c \in Calls, Issue(c)
      PROVE  Undelivered'
  <2>1. /\ \A d \in Calls \ {c} : call'[d] = call[d] /\ call[d].token # call'[c].token
        /\ \A b \in Browsers : store'[b].refresh # call'[c].token
    BY <1>0, <1>6 DEF Issue, OnlyCall
  <2>2. tokens'[call'[c].token].state = "live"
    BY <1>6 DEF Issue, Successor
  <2>3. \A d \in Calls \ {c} : call[d].phase \in {"reply", "answer"} =>
          tokens'[call[d].token].state = tokens[call[d].token].state
    BY <1>1, <1>6 DEF Issue
  <2>4. \A b \in Browsers : store'[b] = store[b]
    BY <1>6 DEF Issue
  <2>. QED
    BY <2>1, <2>2, <2>3, <2>4 DEF Undelivered
<1>7. ASSUME NEW c \in Calls, Deliver(c)
      PROVE  Undelivered'
  <2>1. \A d \in Calls \ {c} : call[d].token # call[c].token
    BY <1>7 DEF Deliver, Undelivered
  <2>2. \A d \in Calls : call[d].phase \in {"reply", "answer"} => call[d].token # 0
    BY DEF PhaseTokens
  <2>. QED
    BY <1>7, <2>1, <2>2 DEF Deliver, OnlyCall, Undelivered
<1>8. ASSUME NEW c \in Calls, SweepAll(c)
      PROVE  Undelivered'
  BY <1>1, <1>8 DEF SweepAll, Ends, Undelivered
<1>9. CASE Vanish
  BY <1>1, <1>9 DEF Vanish, Ends, Undelivered
<1>12. CASE Retire
  BY <1>1, <1>12 DEF Retire, Undelivered
<1>10. CASE Aside
  BY <1>1, <1>10 DEF Aside, StoresKept, Undelivered
<1>11. CASE Stop
  BY <1>11 DEF Stop, Undelivered
<1>. QED
  BY <1>2, <1>3, <1>4, <1>5, <1>6, <1>7, <1>8, <1>9, <1>10, <1>11, <1>12 DEF TokenStep

LEMMA RotatingStep ==
  ASSUME Types, PhaseTokens, Owned, Undelivered, Rotating, TokenStep
  PROVE  Rotating'
<1>0. /\ Len(tokens) \in Nat /\ \A b \in Browsers : store[b].refresh \in 0 .. Len(tokens)
      /\ \A c \in Calls : call[c].token \in 0 .. Len(tokens) /\ call[c].browser \in Browsers
  BY CallTypes, TokensChange DEF Types, StoreRecord
<1>. DEFINE Busy(c, b) == /\ call[c].browser = b
                          /\ \/ call[c].phase = "reply"
                             \/ call[c].phase = "insert" /\ call[c].token # 0
<1>1. SUFFICES ASSUME NEW b \in Browsers, store'[b].refresh # 0,
                      tokens'[store'[b].refresh].state = "rotated", account'.status # "GONE",
                      b \notin lost'
               PROVE  \E c \in Calls : Busy(c, b)'
  BY DEF Rotating
<1>. DEFINE t == store[b].refresh
<1>2. ASSUME NEW c \in Calls, Release(c)
      PROVE  \E d \in Calls : Busy(d, b)'
  BY <1>0, <1>1, <1>2 DEF Release, OnlyCall, StoresKept, Rotating
<1>3. ASSUME NEW c \in Calls, Take(c)
      PROVE  \E d \in Calls : Busy(d, b)'
  BY <1>0, <1>1, <1>3 DEF Take, OnlyCall, Frame, Rotating
<1>4. ASSUME NEW c \in Calls, Pass(c)
      PROVE  \E d \in Calls : Busy(d, b)'
  BY <1>0, <1>1, <1>4 DEF Pass, OnlyCall, SameCallBut, Frame, Rotating
<1>5. ASSUME NEW c \in Calls, Rotate(c)
      PROVE  \E d \in Calls : Busy(d, b)'
  <2>1. CASE t = call[c].token
    <3>1. call[c].browser = b /\ call[c].token # 0
      BY <1>1, <1>5, <2>1 DEF Rotate, Owned
    <3>. QED
      BY <1>5, <3>1 DEF Rotate, SameCallBut
  <2>2. CASE t # call[c].token
    BY <1>0, <1>1, <1>5, <2>2 DEF Rotate, OnlyCall, SameCallBut, Frame, Rotating
  <2>. QED
    BY <2>1, <2>2
<1>6. ASSUME NEW c \in Calls, Issue(c)
      PROVE  \E d \in Calls : Busy(d, b)'
  BY <1>0, <1>1, <1>6 DEF Issue, OnlyCall, Frame, Rotating
<1>7. ASSUME NEW c \in Calls, Deliver(c)
      PROVE  \E d \in Calls : Busy(d, b)'
  <2>1. CASE b = call[c].browser
    BY <1>1, <1>7, <2>1 DEF Deliver, Undelivered
  <2>2. CASE b # call[c].browser
    BY <1>0, <1>1, <1>7, <2>2 DEF Deliver, OnlyCall, Frame, Rotating
  <2>. QED
    BY <2>1, <2>2
<1>8. ASSUME NEW c \in Calls, SweepAll(c)
      PROVE  \E d \in Calls : Busy(d, b)'
  <2>1. t # 0 /\ t \in 1 .. Len(tokens) /\ tokens[t].state = "rotated" /\ account.status # "GONE"
    BY <1>0, <1>1, <1>8 DEF SweepAll, Ends
  <2>2. b \notin lost
    BY <1>1, <1>8 DEF SweepAll
  <2>3. PICK d \in Calls : Busy(d, b)
    BY <2>1, <2>2 DEF Rotating
  <2>4. d # c
    BY <1>8, <2>3 DEF SweepAll
  <2>. QED
    BY <1>8, <2>3, <2>4 DEF SweepAll
<1>9. CASE Vanish
  BY <1>1, <1>9 DEF Vanish
<1>12. CASE Retire
  <2>1. t # 0 /\ t \in 1 .. Len(tokens) /\ tokens[t].state = "rotated"
    BY <1>0, <1>1, <1>12 DEF Retire
  <2>. QED
    BY <1>1, <1>12, <2>1 DEF Retire, Rotating
<1>10. CASE Aside
  BY <1>0, <1>1, <1>10 DEF Aside, StoresKept, Rotating
<1>11. CASE Stop
  BY <1>0, <1>1, <1>11 DEF Stop, StoresKept, Rotating
<1>. QED
  BY <1>2, <1>3, <1>4, <1>5, <1>6, <1>7, <1>8, <1>9, <1>10, <1>11, <1>12 DEF TokenStep

-----------------------------------------------------------------------------
(* The successors of a token                                                *)

\* The request is past the check of token t, and has not succeeded it yet.
Presents(c, t) == call[c].token = t /\ call[c].phase \in {"revoke", "insert"}

\* A good token has no successor, and its own row is revoked before one is
\* inserted; unless two requests raced for it, one request at most is past its
\* check, and none once it has a successor.
Presented ==
  \A t \in 1 .. Len(tokens) :
    /\ tokens[t].state = "live" =>
         /\ \A h \in 1 .. Len(tokens) : tokens[h].parent # t
         /\ \A c \in Calls : ~(call[c].phase = "insert" /\ call[c].token = t)
    /\ ~tokens[t].raced =>
         /\ \A c, d \in Calls : Presents(c, t) /\ Presents(d, t) => c = d
         /\ \A c \in Calls, h \in 1 .. Len(tokens) : Presents(c, t) => tokens[h].parent # t
         /\ \A h, i \in 1 .. Len(tokens) : tokens[h].parent = t /\ tokens[i].parent = t => h = i

\* Rows refer to older rows.
Older == \A t \in 1 .. Len(tokens) : tokens[t].parent \in 0 .. Len(tokens)

LEMMA OlderStep ==
  ASSUME Types, Older, TokenStep
  PROVE  Older'
<1>0. /\ Len(tokens) \in Nat /\ \A c \in Calls : call[c].token \in 0 .. Len(tokens)
  BY CallTypes, TokensChange DEF Types
<1>1. ASSUME NEW c \in Calls, Issue(c)
      PROVE  Older'
  <2>1. \A t \in 1 .. Len(tokens) : tokens'[t].parent \in 0 .. Len(tokens')
    BY <1>0, <1>1 DEF Issue, Older
  <2>2. tokens'[Len(tokens) + 1].parent \in 0 .. Len(tokens')
    BY <1>0, <1>1 DEF Issue, Successor
  <2>. QED
    BY <1>0, <1>1, <2>1, <2>2 DEF Issue, Older
<1>2. CASE UNCHANGED tokens
  BY <1>2 DEF Older
<1>3. ASSUME Len(tokens') = Len(tokens), \A t \in 1 .. Len(tokens) : SameRowBut(t)
      PROVE  Older'
  BY <1>3 DEF Older, SameRowBut
<1>. QED
  BY <1>1, <1>2, <1>3 DEF TokenStep, Release, Take, Pass, Rotate, Deliver, SweepAll, Ends, Vanish, Retire, Aside, Stop

LEMMA PresentedStep ==
  ASSUME Types, PhaseTokens, Older, Presented, TokenStep
  PROVE  Presented'
<1>0. /\ Len(tokens) \in Nat
      /\ \A c \in Calls : call[c].token \in 0 .. Len(tokens) /\ call[c].browser \in Browsers
  BY CallTypes, TokensChange DEF Types
<1>1. ASSUME NEW c \in Calls, Release(c) \/ Take(c) \/ Deliver(c)
      PROVE  Presented'
  <2>1. tokens' = tokens /\ \A d \in Calls \ {c} : call'[d] = call[d]
    BY <1>1 DEF Release, Take, Deliver, OnlyCall
  <2>2. \A t \in 1 .. Len(tokens) : ~(call'[c].token = t /\ call'[c].phase \in {"revoke", "insert"})
    BY <1>0, <1>1 DEF Release, Take, Deliver
  <2>. QED
    BY <2>1, <2>2 DEF Presented, Presents
<1>2. ASSUME NEW c \in Calls, Pass(c)
      PROVE  Presented'
  <2>1. /\ Len(tokens') = Len(tokens)
        /\ \A t \in 1 .. Len(tokens) :
             /\ tokens'[t].parent = tokens[t].parent /\ tokens'[t].state = tokens[t].state
             /\ t # call[c].token => tokens'[t].raced = tokens[t].raced
             /\ tokens[t].raced => tokens'[t].raced
        /\ \A d \in Calls \ {c} : call'[d] = call[d]
        /\ call'[c].token = call[c].token /\ call'[c].phase = "revoke"
    BY <1>2 DEF Pass, SameRowBut, SameCallBut, OnlyCall
  <2>2. call[c].token \in 1 .. Len(tokens) /\ tokens[call[c].token].state = "live"
    BY <1>0, <1>2 DEF Pass, PhaseTokens
  <2>3. ~tokens'[call[c].token].raced =>
          /\ ~tokens[call[c].token].raced
          /\ \A d \in Calls : ~Presents(d, call[c].token)
    BY <1>2, <2>2 DEF Pass, At, Presents, Presented
  <2>4. ASSUME NEW t \in 1 .. Len(tokens)
        PROVE  tokens[t].state = "live" =>
                 /\ \A h \in 1 .. Len(tokens) : tokens'[h].parent # t
                 /\ \A d \in Calls : ~(call'[d].phase = "insert" /\ call'[d].token = t)
    BY <2>1 DEF Presented
  <2>5. ASSUME NEW t \in 1 .. Len(tokens), ~tokens'[t].raced
        PROVE  /\ \A d, e \in Calls : Presents(d, t)' /\ Presents(e, t)' => d = e
               /\ \A d \in Calls, h \in 1 .. Len(tokens) : Presents(d, t)' => tokens'[h].parent # t
               /\ \A h, i \in 1 .. Len(tokens) : tokens'[h].parent = t /\ tokens'[i].parent = t => h = i
    <3>1. CASE t = call[c].token
      BY <2>1, <2>2, <2>3, <2>5, <3>1 DEF Presented, Presents
    <3>2. CASE t # call[c].token
      <4>1. ~tokens[t].raced
        BY <2>1, <2>5, <3>2
      <4>2. \A h \in 1 .. Len(tokens') : h \in 1 .. Len(tokens) /\ tokens'[h].parent = tokens[h].parent
        BY <2>1
      <4>3. \A d \in Calls : Presents(d, t)' => Presents(d, t)
        BY <2>1, <3>2 DEF Presents
      <4>. HIDE DEF Presents
      <4>. QED
        BY <2>1, <4>1, <4>2, <4>3 DEF Presented
    <3>. QED
      BY <3>1, <3>2
  <2>. QED
    BY <2>1, <2>4, <2>5 DEF Presented
<1>3. ASSUME NEW c \in Calls, Rotate(c)
      PROVE  Presented'
  <2>1. /\ Len(tokens') = Len(tokens)
        /\ \A t \in 1 .. Len(tokens) :
             /\ tokens'[t].parent = tokens[t].parent /\ tokens'[t].raced = tokens[t].raced
             /\ tokens'[t].state = "live" => tokens[t].state = "live" /\ t # call[c].token
        /\ \A d \in Calls \ {c} : call'[d] = call[d]
        /\ call'[c].token = call[c].token /\ call'[c].phase = "insert" /\ call[c].phase = "revoke"
    BY <1>3 DEF Rotate, SameRowBut, SameCallBut, OnlyCall
  <2>2. \A d \in Calls, t \in 1 .. Len(tokens) : Presents(d, t)' <=> Presents(d, t)
    BY <2>1 DEF Presents
  <2>3. ASSUME NEW t \in 1 .. Len(tokens), tokens'[t].state = "live"
        PROVE  /\ \A h \in 1 .. Len(tokens) : tokens'[h].parent # t
               /\ \A d \in Calls : ~(call'[d].phase = "insert" /\ call'[d].token = t)
    BY <2>1, <2>3 DEF Presented
  <2>4. ASSUME NEW t \in 1 .. Len(tokens), ~tokens'[t].raced
        PROVE  /\ \A d, e \in Calls : Presents(d, t)' /\ Presents(e, t)' => d = e
               /\ \A d \in Calls, h \in 1 .. Len(tokens) : Presents(d, t)' => tokens'[h].parent # t
               /\ \A h, i \in 1 .. Len(tokens) : tokens'[h].parent = t /\ tokens'[i].parent = t => h = i
    BY <2>1, <2>2, <2>4 DEF Presented
  <2>. QED
    BY <2>1, <2>3, <2>4 DEF Presented
<1>4. ASSUME NEW c \in Calls, Issue(c)
      PROVE  Presented'
  <2>. DEFINE n == Len(tokens) + 1
              p == call[c].token
  <2>1. /\ Len(tokens') = n /\ n \in Nat /\ n \notin 1 .. Len(tokens)
        /\ 1 .. n = (1 .. Len(tokens)) \cup {n}
        /\ \A t \in 1 .. Len(tokens) : tokens'[t] = tokens[t]
        /\ \A d \in Calls \ {c} : call'[d] = call[d] /\ call[d].token # n
        /\ call'[c].phase \notin {"revoke", "insert"} /\ call[c].phase = "insert"
    BY <1>0, <1>4 DEF Issue, OnlyCall
  <2>2. tokens'[n].parent = p /\ p # n /\ p \in 0 .. Len(tokens) /\ tokens'[n].state = "live"
    BY <1>0, <1>4 DEF Issue, Successor
  <2>3. /\ \A h \in 1 .. n : tokens'[h].parent # n
        /\ \A d \in Calls : ~Presents(d, n)'
    BY <1>0, <2>1, <2>2 DEF Older, Presents
  <2>4. \A d \in Calls, t \in 1 .. Len(tokens) : Presents(d, t)' <=> Presents(d, t) /\ d # c
    BY <2>1 DEF Presents
  <2>5. ASSUME NEW t \in 1 .. Len(tokens), tokens[t].state = "live"
        PROVE  /\ \A h \in 1 .. n : tokens'[h].parent # t
               /\ \A d \in Calls : ~(call'[d].phase = "insert" /\ call'[d].token = t)
    <3>1. p # t
      BY <2>1, <2>5 DEF Presented
    <3>. QED
      BY <2>1, <2>2, <2>5, <3>1 DEF Presented
  <2>6. ASSUME NEW t \in 1 .. Len(tokens), ~tokens[t].raced
        PROVE  /\ \A d, e \in Calls : Presents(d, t)' /\ Presents(e, t)' => d = e
               /\ \A d \in Calls, h \in 1 .. n : Presents(d, t)' => tokens'[h].parent # t
               /\ \A h, i \in 1 .. n : tokens'[h].parent = t /\ tokens'[i].parent = t => h = i
    <3>1. CASE t = p
      <4>1. Presents(c, t)
        BY <2>1, <3>1 DEF Presents
      <4>2. \A h \in 1 .. Len(tokens) : tokens[h].parent # t
        BY <2>6, <4>1 DEF Presented
      <4>3. \A d \in Calls : ~Presents(d, t)'
        BY <2>4, <2>6, <4>1 DEF Presented
      <4>. QED
        BY <2>1, <4>2, <4>3
    <3>2. CASE t # p
      <4>1. \A h \in 1 .. n : tokens'[h].parent = t => h \in 1 .. Len(tokens) /\ tokens[h].parent = t
        BY <2>1, <2>2, <3>2
      <4>. QED
        BY <2>4, <2>6, <4>1 DEF Presented
    <3>. QED
      BY <3>1, <3>2
  <2>. QED
    BY <2>1, <2>5, <2>6, <2>3 DEF Presented, Presents
<1>5. ASSUME Ends, \A d \in Calls, t \in 1 .. Len(tokens) : Presents(d, t)' => Presents(d, t),
             \A d \in Calls, t \in 1 .. Len(tokens) :
               call'[d].phase = "insert" /\ call'[d].token = t => call[d].phase = "insert" /\ call[d].token = t
      PROVE  Presented'
  <2>1. /\ Len(tokens') = Len(tokens)
        /\ \A t \in 1 .. Len(tokens) :
             /\ tokens'[t].parent = tokens[t].parent /\ tokens'[t].raced = tokens[t].raced
             /\ tokens'[t].state # "live"
    BY <1>5 DEF Ends, SameRowBut
  <2>. QED
    BY <1>5, <2>1 DEF Presented
<1>6. ASSUME NEW c \in Calls, SweepAll(c)
      PROVE  Presented'
  <2>1. \A d \in Calls, t \in 1 .. Len(tokens) : Presents(d, t)' => Presents(d, t)
    BY <1>6 DEF SweepAll, Presents
  <2>2. \A d \in Calls, t \in 1 .. Len(tokens) :
          call'[d].phase = "insert" /\ call'[d].token = t => call[d].phase = "insert" /\ call[d].token = t
    BY <1>6 DEF SweepAll
  <2>. QED
    BY <1>5, <1>6, <2>1, <2>2 DEF SweepAll
<1>7. CASE Vanish
  BY <1>5, <1>7 DEF Vanish, Presents
<1>10. CASE Retire
  <2>1. /\ Len(tokens') = Len(tokens) /\ call' = call
        /\ \A t \in 1 .. Len(tokens) :
             /\ tokens'[t].parent = tokens[t].parent /\ tokens'[t].raced = tokens[t].raced
             /\ tokens'[t].state = "live" => tokens[t].state = "live"
    BY <1>10 DEF Retire, SameRowBut
  <2>. QED
    BY <2>1 DEF Presented, Presents
<1>8. CASE Aside
  BY <1>8 DEF Aside, Presented, Presents
<1>9. CASE Stop
  BY <1>9 DEF Stop, Presented, Presents
<1>. QED
  BY <1>1, <1>2, <1>3, <1>4, <1>6, <1>7, <1>8, <1>9, <1>10 DEF TokenStep

-----------------------------------------------------------------------------
(* Passwords                                                                *)

SweepDue == unswept \/ \E d \in Calls : call[d].phase = "sweep"
PasswordOf(c) == IF call[c].token = 0 THEN call[c].password ELSE tokens[call[c].token].password
LateOf(c) == call[c].late \/ (call[c].token # 0 /\ tokens[call[c].token].late)

\* Unless a revocation is due, the good tokens are of the present password or
\* late, and so will be those that the requests past their check bring.
CurrentPasswords ==
  ~SweepDue =>
    /\ \A t \in 1 .. Len(tokens) :
         tokens[t].state = "live" => tokens[t].password = account.password \/ tokens[t].late
    /\ \A c \in Calls :
         call[c].phase \in {"revoke", "insert"} => PasswordOf(c) = account.password \/ LateOf(c)

LEMMA SuccessorFields ==
  ASSUME NEW c \in Calls
  PROVE  Successor(c).password = PasswordOf(c) /\ Successor(c).late = LateOf(c)
BY DEF Successor, PasswordOf, LateOf

LEMMA CurrentPasswordsStep ==
  ASSUME Types, PhaseTokens, CurrentPasswords, TokenStep
  PROVE  CurrentPasswords'
<1>0. /\ Len(tokens) \in Nat
      /\ \A c \in Calls : call[c].token \in 0 .. Len(tokens)
  BY CallTypes, TokensChange DEF Types
<1>1. SUFFICES ASSUME ~SweepDue'
               PROVE  CurrentPasswords'
  BY DEF CurrentPasswords
<1>2. ASSUME NEW c \in Calls, OnlyCall(c), call[c].phase # "sweep", unswept' = unswept
      PROVE  ~SweepDue
  BY <1>1, <1>2 DEF OnlyCall, SweepDue
<1>3. ASSUME ~SweepDue
      PROVE  /\ \A t \in 1 .. Len(tokens) :
                  tokens[t].state = "live" => tokens[t].password = account.password \/ tokens[t].late
             /\ \A c \in Calls :
                  call[c].phase \in {"revoke", "insert"} => PasswordOf(c) = account.password \/ LateOf(c)
  BY <1>3 DEF CurrentPasswords
<1>4. ASSUME NEW c \in Calls, Release(c)
      PROVE  CurrentPasswords'
  <2>1. ~SweepDue
    BY <1>2, <1>4 DEF Release
  <2>2. account'.password = account.password
    BY <1>1, <1>4 DEF Release, SweepDue
  <2>3. call'[c].phase \in {"revoke", "insert"} => PasswordOf(c)' = account'.password
    BY <1>4 DEF Release, PasswordOf
  <2>4. \A d \in Calls \ {c} : /\ call'[d] = call[d]
                               /\ PasswordOf(d)' = PasswordOf(d) /\ LateOf(d)' = LateOf(d)
    BY <1>4 DEF Release, OnlyCall, PasswordOf, LateOf
  <2>5. tokens' = tokens
    BY <1>4 DEF Release
  <2>. QED
    BY <1>3, <2>1, <2>2, <2>3, <2>4, <2>5 DEF CurrentPasswords
<1>5. ASSUME NEW c \in Calls, Take(c) \/ Deliver(c)
      PROVE  CurrentPasswords'
  <2>1. ~SweepDue
    BY <1>2, <1>5 DEF Take, Deliver, Frame
  <2>2. tokens' = tokens /\ account' = account /\ call'[c].phase \notin {"revoke", "insert"}
    BY <1>5 DEF Take, Deliver, Frame
  <2>3. \A d \in Calls \ {c} : /\ call'[d] = call[d]
                               /\ PasswordOf(d)' = PasswordOf(d) /\ LateOf(d)' = LateOf(d)
    BY <1>5, <2>2 DEF Take, Deliver, OnlyCall, PasswordOf, LateOf
  <2>. QED
    BY <1>3, <2>1, <2>2, <2>3 DEF CurrentPasswords
<1>6. ASSUME NEW c \in Calls, Pass(c) \/ Rotate(c)
      PROVE  CurrentPasswords'
  <2>1. ~SweepDue
    BY <1>2, <1>6 DEF Pass, Rotate, Frame
  <2>2. /\ account' = account /\ Len(tokens') = Len(tokens)
        /\ \A t \in 1 .. Len(tokens) :
             /\ tokens'[t].password = tokens[t].password /\ tokens'[t].late = tokens[t].late
             /\ tokens'[t].state = "live" => tokens[t].state = "live"
        /\ call[c].token \in 1 .. Len(tokens)
    BY <1>0, <1>6 DEF Pass, Rotate, Frame, SameRowBut, PhaseTokens
  <2>3. \A d \in Calls : /\ call'[d].token = call[d].token /\ call'[d].password = call[d].password
                         /\ call'[d].late = call[d].late
                         /\ d # c => call'[d].phase = call[d].phase
    BY <1>6 DEF Pass, Rotate, OnlyCall, SameCallBut
  <2>4. \A d \in Calls : PasswordOf(d)' = PasswordOf(d) /\ LateOf(d)' = LateOf(d)
    BY <1>0, <2>2, <2>3 DEF PasswordOf, LateOf
  <2>5. PasswordOf(c) = account.password \/ LateOf(c)
    BY <1>3, <1>6, <2>1, <2>2 DEF Pass, Rotate, PasswordOf, LateOf
  <2>. QED
    BY <1>3, <2>1, <2>2, <2>3, <2>4, <2>5 DEF CurrentPasswords
<1>7. ASSUME NEW c \in Calls, Issue(c)
      PROVE  CurrentPasswords'
  <2>1. ~SweepDue
    BY <1>2, <1>7 DEF Issue, Frame
  <2>2. /\ account' = account /\ Len(tokens') = Len(tokens) + 1
        /\ \A t \in 1 .. Len(tokens) : tokens'[t] = tokens[t]
        /\ tokens'[Len(tokens) + 1] = Successor(c)
        /\ call[c].phase = "insert" /\ call'[c].phase \notin {"revoke", "insert"}
        /\ \A d \in Calls \ {c} : call'[d] = call[d]
    BY <1>7 DEF Issue, Frame, OnlyCall
  <2>3. \A d \in Calls \ {c} : PasswordOf(d)' = PasswordOf(d) /\ LateOf(d)' = LateOf(d)
    BY <1>0, <2>2 DEF PasswordOf, LateOf
  <2>4. LET n == Len(tokens) + 1
        IN  tokens'[n].password = account.password \/ tokens'[n].late
    BY <1>3, <2>1, <2>2, SuccessorFields
  <2>5. \A t \in 1 .. Len(tokens') : t \in 1 .. Len(tokens) \/ t = Len(tokens) + 1
    BY <1>0, <2>2
  <2>. QED
    BY <1>3, <2>1, <2>2, <2>3, <2>4, <2>5 DEF CurrentPasswords
<1>8. ASSUME NEW c \in Calls, SweepAll(c)
      PROVE  CurrentPasswords'
  <2>1. \A t \in 1 .. Len(tokens') : tokens'[t].state # "live"
    BY <1>8 DEF SweepAll, Ends
  <2>2. \A d \in Calls : call'[d].phase \in {"revoke", "insert"} => LateOf(d)'
    BY <1>8 DEF SweepAll, LateOf
  <2>. QED
    BY <2>1, <2>2 DEF CurrentPasswords
<1>9. CASE Vanish
  <2>1. /\ \A t \in 1 .. Len(tokens') : tokens'[t].state # "live"
        /\ ~SweepDue
    BY <1>1, <1>9 DEF Vanish, Ends, SweepDue
  <2>2. \A d \in Calls : PasswordOf(d)' = PasswordOf(d) /\ LateOf(d)' = LateOf(d)
    BY <1>0, <1>9 DEF Vanish, Ends, SameRowBut, PasswordOf, LateOf
  <2>. QED
    BY <1>3, <1>9, <2>1, <2>2 DEF Vanish, CurrentPasswords
<1>12. CASE Retire
  <2>1. /\ ~SweepDue /\ account' = account /\ call' = call /\ Len(tokens') = Len(tokens)
        /\ \A t \in 1 .. Len(tokens) :
             /\ tokens'[t].password = tokens[t].password /\ tokens'[t].late = tokens[t].late
             /\ tokens'[t].state = "live" => tokens[t].state = "live"
    BY <1>1, <1>12 DEF Retire, SameRowBut, SweepDue
  <2>2. \A d \in Calls : PasswordOf(d)' = PasswordOf(d) /\ LateOf(d)' = LateOf(d)
    BY <1>0, <2>1 DEF PasswordOf, LateOf
  <2>. QED
    BY <1>3, <2>1, <2>2 DEF CurrentPasswords
<1>10. CASE Aside
  <2>1. ~SweepDue /\ account'.password = account.password /\ tokens' = tokens /\ call' = call
    BY <1>1, <1>10 DEF Aside, SweepDue
  <2>2. \A d \in Calls : PasswordOf(d)' = PasswordOf(d) /\ LateOf(d)' = LateOf(d)
    BY <2>1 DEF PasswordOf, LateOf
  <2>. QED
    BY <1>3, <2>1, <2>2 DEF CurrentPasswords
<1>11. CASE Stop
  <2>1. ~SweepDue
    BY <1>1, <1>11 DEF Stop, SweepDue, At
  <2>. QED
    BY <1>3, <1>11, <2>1 DEF Stop, CurrentPasswords
<1>. QED
  BY <1>4, <1>5, <1>6, <1>7, <1>8, <1>9, <1>10, <1>11, <1>12 DEF TokenStep

-----------------------------------------------------------------------------
(* The number of passwords                                                  *)

\* The requests that are to write a new password, and what a request at its
\* comparison or its write is.
Pending == {c \in Calls : call[c].kind \in {"password", "reset"} /\ call[c].phase \notin {"idle", "sweep"}}
Kinds ==
  \A c \in Calls :
    /\ call[c].phase = "compare" => call[c].kind \in {"login", "password"}
    /\ call[c].phase = "write" => call[c].kind \in {"password", "reset", "block"}
PasswordBound == account.password + Cardinality(Pending) <= MaxPasswords

\* What a step does to them: a request goes on, begins, writes, or all are swept.
Going(c) ==
  /\ OnlyCall(c) /\ account'.password = account.password
  /\ \/ call'[c].phase \in {"idle", "sweep"}
     \/ call'[c].phase \notin {"compare", "write"} /\ call'[c].kind \notin {"password", "reset"}
     \/ /\ call'[c].kind = call[c].kind /\ call[c].phase \notin {"idle", "sweep"}
        /\ call'[c].phase = "compare" => call[c].kind \in {"login", "password"}
        /\ call'[c].phase = "write" => call[c].kind = "password"
Beginning(c) ==
  /\ OnlyCall(c) /\ account'.password = account.password
  /\ call'[c].phase \notin {"compare", "idle"}
  /\ call'[c].phase = "write" => call'[c].kind \in {"reset", "block"}
  /\ call'[c].kind \in {"password", "reset"} => account.password + Changing < MaxPasswords
Writing(c) ==
  /\ OnlyCall(c)
  /\ call[c].phase = "write" /\ call'[c].phase = "sweep"
  /\ account'.password = IF call[c].kind = "block" THEN account.password ELSE account.password + 1
GoingAll ==
  /\ account'.password = account.password
  /\ \A c \in Calls : \/ call'[c].phase = "idle"
                      \/ call'[c].kind = call[c].kind /\ call'[c].phase = call[c].phase

LEMMA KindSteps ==
  ASSUME Types, PhaseTokens, Kinds, [Next]_vars
  PROVE  (\E c \in Calls : Going(c) \/ Beginning(c) \/ Writing(c)) \/ GoingAll
<1>len. Len(tokens) \in Nat
  BY TokensChange DEF Types
<1>refuse. ASSUME NEW c \in Calls, call[c].phase \in {"send", "compare"}, Refuse(c),
                  UNCHANGED account
           PROVE  Going(c)
  <2>1. CASE call[c].retry /\ store[call[c].browser].refresh # 0
    BY <1>refuse, <2>1 DEF Refuse, Going, OnlyCall, Types, CallRecord
  <2>2. CASE ~(call[c].retry /\ store[call[c].browser].refresh # 0)
    <3>1. Throws(c)
      BY <1>refuse, <2>2 DEF Refuse
    <3>. QED
      BY <1>refuse, <3>1, ThrowsReleases DEF Going
  <2>. QED
    BY <2>1, <2>2
<1>1. ASSUME NEW c \in Calls, Served(c)
      PROVE  Going(c)
  <2>1. CASE call[c].kind \in {"login", "password"}
    BY <1>1, <2>1 DEF Served, At, Types, OnlyCall, CallRecord, Going
  <2>2. CASE call[c].kind \notin {"login", "password"}
    <3>1. OnlyCall(c) /\ call'[c] = IdleCall
      BY <1>1, <2>2 DEF Served, Types, OnlyCall
    <3>. QED
      BY <1>1, <1>len, <3>1, IdleCallType DEF Served, Going
  <2>. QED
    BY <2>1, <2>2
<1>2. ASSUME NEW c \in Calls, Unauthorized(c)
      PROVE  Going(c)
  BY <1>2, <1>refuse DEF Unauthorized, At
<1>3. ASSUME NEW c \in Calls, Reply(c)
      PROVE  Going(c)
  <2>1. OnlyCall(c) /\ call'[c].phase = "send" /\ call'[c].kind = call[c].kind /\ call[c].phase = "reply"
    BY <1>3 DEF Reply, At, OnlyCall, Types, CallRecord
  <2>. QED
    BY <1>3, <2>1 DEF Reply, Going
<1>4. ASSUME NEW c \in Calls, Answer(c)
      PROVE  Going(c)
  <2>1. OnlyCall(c) /\ call'[c].phase = "send" /\ call'[c].kind = "me"
    BY <1>4, <1>len, IdleCallType DEF Answer, OnlyCall, Types, CallRecord
  <2>. QED
    BY <1>4, <2>1 DEF Answer, Going
<1>5. ASSUME NEW c \in Calls, Compare(c)
      PROVE  Going(c)
  <2>1. CASE account.status # "GONE" /\ call[c].password = account.password
    <3>1. call[c].phase = "compare" /\ call[c].kind \in {"login", "password"}
      BY <1>5 DEF Compare, At, Kinds
    <3>2. /\ OnlyCall(c) /\ call'[c].kind = call[c].kind
          /\ call'[c].phase = IF call[c].kind = "login" THEN "insert" ELSE "write"
      BY <1>5, <2>1 DEF Compare, Goto, Types, OnlyCall, CallRecord
    <3>. QED
      BY <1>5, <3>1, <3>2 DEF Compare, Going
  <2>2. CASE ~(account.status # "GONE" /\ call[c].password = account.password)
    BY <1>5, <2>2, <1>refuse DEF Compare, At
  <2>. QED
    BY <2>1, <2>2
<1>6. ASSUME NEW c \in Calls, Check(c)
      PROVE  Going(c)
  <2>1. CASE tokens[call[c].token].state # "live"
    BY <1>6, <2>1, ThrowsReleases DEF Check, Going
  <2>2. CASE tokens[call[c].token].state = "live"
    <3>1. OnlyCall(c) /\ call'[c].kind = call[c].kind /\ call'[c].phase = "revoke" /\ call[c].phase = "check"
      BY <1>6, <2>2 DEF Check, Goto, At, OnlyCall, Types, CallRecord
    <3>. QED
      BY <1>6, <3>1 DEF Check, Going
  <2>. QED
    BY <2>1, <2>2
<1>7. ASSUME NEW c \in Calls, Revoke(c)
      PROVE  Going(c)
  <2>1. CASE account.status = "GONE"
    BY <1>7, <2>1, ThrowsReleases DEF Revoke, Going
  <2>2. CASE account.status # "GONE"
    <3>1. OnlyCall(c) /\ call'[c].kind = call[c].kind /\ call'[c].phase = "insert" /\ call[c].phase = "revoke"
      BY <1>7, <2>2 DEF Revoke, Goto, At, OnlyCall, Types, CallRecord
    <3>. QED
      BY <1>7, <3>1 DEF Revoke, Going
  <2>. QED
    BY <2>1, <2>2
<1>8. ASSUME NEW c \in Calls, Insert(c)
      PROVE  Going(c)
  <2>1. CASE account.status = "GONE" \/ Len(tokens) = MaxTokens
    BY <1>8, <2>1, ThrowsReleases DEF Insert, Going
  <2>2. CASE ~(account.status = "GONE" \/ Len(tokens) = MaxTokens)
    <3>1. /\ OnlyCall(c) /\ call'[c].kind = call[c].kind /\ call[c].phase = "insert"
          /\ call'[c].phase \in {"answer", "reply"}
      BY <1>8, <2>2 DEF Insert, At, OnlyCall, Types, CallRecord
    <3>. QED
      BY <1>8, <3>1 DEF Insert, Going
  <2>. QED
    BY <2>1, <2>2
<1>9. ASSUME NEW c \in Calls, Write(c)
      PROVE  Going(c) \/ Writing(c)
  <2>1. CASE account.status = "GONE"
    BY <1>9, <2>1, ThrowsReleases DEF Write, Going
  <2>2. CASE account.status # "GONE"
    <3>1. call'[c].phase = "sweep" /\ OnlyCall(c) /\ call[c].phase = "write"
      BY <1>9, <2>2 DEF Write, Goto, At, Types, OnlyCall, CallRecord
    <3>2. account'.password = IF call[c].kind = "block" THEN account.password ELSE account.password + 1
      BY <1>9, <2>2 DEF Write, Types
    <3>. QED
      BY <3>1, <3>2 DEF Writing
  <2>. QED
    BY <2>1, <2>2
<1>10. ASSUME NEW c \in Calls, Sweep(c)
       PROVE  GoingAll
  <2>1. ASSUME NEW d \in Calls \ {c}
        PROVE  call'[d].kind = call[d].kind /\ call'[d].phase = call[d].phase
    <3>1. PICK late \in BOOLEAN : late = (call[d].late \/ At(d, "revoke") \/ At(d, "insert"))
      OBVIOUS
    <3>2. call'[d] = [call[d] EXCEPT !.late = late]
      BY <1>10, <3>1 DEF Sweep
    <3>3. call[d] \in CallRecord(Len(tokens))
      BY CallTypes
    <3>. QED
      BY <3>2, <3>3 DEF CallRecord
  <2>2. call'[c].phase = "idle"
    BY <1>10, <1>len, IdleCallType DEF Sweep
  <2>. QED
    BY <1>10, <2>1, <2>2 DEF Sweep, GoingAll
<1>11. ASSUME NEW c \in Calls, AnswerLost(c)
       PROVE  Going(c)
  BY <1>11, ThrowsReleases DEF AnswerLost, Going
<1>12. ASSUME NEW c \in Calls, NEW b \in Browsers, NEW kind \in PageCalls, Request(c, b, kind)
       PROVE  Beginning(c)
  <2>1. OnlyCall(c) /\ call'[c].phase = "send" /\ call'[c].kind = kind
    BY <1>12, <1>len, IdleCallType DEF Request, OnlyCall, Types, CallRecord
  <2>. QED
    BY <1>12, <2>1 DEF Request, Begin, Beginning
<1>13. ASSUME NEW c \in Calls, NEW b \in Browsers, SubmitLogin(c, b)
       PROVE  Beginning(c)
  <2>1. PICK p \in 0 .. account.password :
          call' = [call EXCEPT ![c] = [IdleCall EXCEPT
             !.kind = "login", !.phase = "send", !.browser = b, !.password = p, !.retry = TRUE]]
    BY <1>13 DEF SubmitLogin
  <2>2. OnlyCall(c) /\ call'[c].phase = "send" /\ call'[c].kind = "login"
    BY <1>len, <2>1, IdleCallType DEF OnlyCall, Types, CallRecord
  <2>. QED
    BY <1>13, <2>2 DEF SubmitLogin, Beginning
<1>14. ASSUME NEW c \in Calls, NEW kind \in AdminCalls, Administrate(c, kind)
       PROVE  Beginning(c)
  <2>1. OnlyCall(c) /\ call'[c].phase = "write" /\ call'[c].kind = kind
    BY <1>14 DEF Administrate, OnlyCall, Types, CallRecord
  <2>. QED
    BY <1>14, <2>1 DEF Administrate, Begin, Beginning, AdminCalls
<1>15. ASSUME \/ \E b \in Browsers : Logout(b) \/ AccessExpires(b) \/ RevokeSession(b)
              \/ \E t \in DOMAIN tokens : RefreshExpires(t)
              \/ Reactivate \/ DeleteUser \/ UNCHANGED vars
       PROVE  GoingAll
  <2>1. call' = call /\ account'.password = account.password
    BY <1>15 DEF Logout, AccessExpires, RevokeSession, RefreshExpires, Reactivate, DeleteUser, vars, Types
  <2>. QED
    BY <2>1 DEF GoingAll
<1>16. ASSUME BackendStops
       PROVE  GoingAll
  BY <1>16, <1>len, IdleCallType DEF BackendStops, GoingAll
<1>. QED
  BY <1>1, <1>2, <1>3, <1>4, <1>5, <1>6, <1>7, <1>8, <1>9, <1>10, <1>11, <1>12, <1>13, <1>14,
     <1>15, <1>16
  DEF Next, CallStep, AuthController, LoadPage, ChangePassword, ResetPassword, SuspendOrBan,
      PageCalls, AdminCalls

LEMMA PendingFinite ==
  /\ IsFiniteSet(Pending) /\ Cardinality(Pending) \in Nat
  /\ Changing \in Nat /\ Cardinality(Pending) <= Changing
<1>. DEFINE Changers == {c \in Calls : ~At(c, "idle") /\ call[c].kind \in {"password", "reset"}}
<1>1. IsFiniteSet(Changers) /\ Cardinality(Changers) \in Nat /\ Changing = Cardinality(Changers)
  BY FS_Subset, FS_CardinalityType, BrowsersAssumption DEF Changing
<1>2. Pending \subseteq Changers
  BY DEF Pending, At
<1>. QED
  BY <1>1, <1>2, FS_Subset, FS_CardinalityType

LEMMA OneMore ==
  ASSUME NEW S, IsFiniteSet(S), NEW x
  PROVE  /\ IsFiniteSet(S \cup {x}) /\ Cardinality(S \cup {x}) \in Nat
         /\ Cardinality(S \cup {x}) <= Cardinality(S) + 1
<1>0. Cardinality(S) \in Nat
  BY FS_CardinalityType
<1>1. CASE x \in S
  <2>1. S \cup {x} = S
    BY <1>1
  <2>2. Cardinality(S) <= Cardinality(S) + 1
    BY <1>0
  <2>. QED
    BY <1>0, <2>1, <2>2
<1>2. CASE x \notin S
  BY <1>0, <1>2, FS_AddElement
<1>. QED
  BY <1>1, <1>2

LEMMA PasswordBoundStep ==
  ASSUME Types, PhaseTokens, Kinds, PasswordBound, [Next]_vars
  PROVE  Kinds' /\ PasswordBound'
<1>0. account.password \in Nat /\ MaxPasswords \in Nat
  BY BoundsAssumption DEF Types
<1>1. PICK P : P = Pending'
  OBVIOUS
<1>2. PICK n \in Nat : n = account.password
  BY <1>0
<1>less. ASSUME P \subseteq Pending, account'.password = account.password
         PROVE  PasswordBound'
  <2>1. Cardinality(P) <= Cardinality(Pending) /\ Cardinality(P) \in Nat
    BY <1>less, PendingFinite, FS_Subset, FS_CardinalityType
  <2>2. n + Cardinality(P) <= MaxPasswords
    BY <1>0, <1>2, <2>1, PendingFinite DEF PasswordBound
  <2>. QED
    BY <1>1, <1>2, <1>less, <2>2 DEF PasswordBound
<1>3. ASSUME NEW c \in Calls, Going(c)
      PROVE  Kinds' /\ PasswordBound'
  <2>1. Kinds'
    BY <1>3 DEF Going, OnlyCall, Kinds
  <2>2. P \subseteq Pending
    BY <1>1, <1>3 DEF Going, OnlyCall, Pending
  <2>. QED
    BY <1>3, <1>less, <2>1, <2>2 DEF Going
<1>4. ASSUME NEW c \in Calls, Beginning(c)
      PROVE  Kinds' /\ PasswordBound'
  <2>1. Kinds'
    BY <1>4 DEF Beginning, OnlyCall, Kinds
  <2>2. CASE call'[c].kind \in {"password", "reset"}
    <3>1. P \subseteq Pending \cup {c}
      BY <1>1, <1>4 DEF Beginning, OnlyCall, Pending
    <3>2. /\ IsFiniteSet(Pending \cup {c})
          /\ Cardinality(Pending \cup {c}) \in Nat
          /\ Cardinality(Pending \cup {c}) <= Cardinality(Pending) + 1
      BY PendingFinite, OneMore
    <3>3. Cardinality(P) \in Nat /\ Cardinality(P) <= Cardinality(Pending \cup {c})
      BY <3>1, <3>2, FS_Subset, FS_CardinalityType
    <3>4. n + Changing < MaxPasswords /\ account'.password = n
      BY <1>2, <1>4, <2>2 DEF Beginning
    <3>5. n + Cardinality(P) <= MaxPasswords
      BY <1>0, <3>2, <3>3, <3>4, PendingFinite
    <3>. QED
      BY <1>1, <2>1, <3>4, <3>5 DEF PasswordBound
  <2>3. CASE call'[c].kind \notin {"password", "reset"}
    <3>1. P \subseteq Pending
      BY <1>1, <1>4, <2>3 DEF Beginning, OnlyCall, Pending
    <3>. QED
      BY <1>4, <1>less, <2>1, <3>1 DEF Beginning
  <2>. QED
    BY <2>2, <2>3
<1>5. ASSUME NEW c \in Calls, Writing(c)
      PROVE  Kinds' /\ PasswordBound'
  <2>1. Kinds'
    BY <1>5 DEF Writing, OnlyCall, Kinds
  <2>2. P \subseteq Pending \ {c}
    BY <1>1, <1>5 DEF Writing, OnlyCall, Pending
  <2>3. CASE call[c].kind = "block"
    BY <1>5, <1>less, <2>1, <2>2, <2>3 DEF Writing
  <2>4. CASE call[c].kind # "block"
    <3>1. c \in Pending
      BY <1>5, <2>4 DEF Writing, Kinds, Pending
    <3>2. /\ IsFiniteSet(Pending \ {c}) /\ Cardinality(Pending \ {c}) \in Nat
          /\ Cardinality(Pending \ {c}) = Cardinality(Pending) - 1
      BY <3>1, PendingFinite, FS_RemoveElement, FS_CardinalityType
    <3>3. Cardinality(P) \in Nat /\ Cardinality(P) <= Cardinality(Pending \ {c})
      BY <2>2, <3>2, FS_Subset, FS_CardinalityType
    <3>4. account'.password = n + 1
      BY <1>2, <1>5, <2>4 DEF Writing
    <3>5. n + Cardinality(Pending) <= MaxPasswords
      BY <1>2 DEF PasswordBound
    <3>6. n + 1 + Cardinality(P) <= MaxPasswords
      BY <1>0, <3>2, <3>3, <3>5, PendingFinite
    <3>. QED
      BY <1>1, <2>1, <3>4, <3>6 DEF PasswordBound
  <2>. QED
    BY <2>3, <2>4
<1>6. CASE GoingAll
  <2>1. Kinds'
    BY <1>6 DEF GoingAll, Kinds
  <2>2. P \subseteq Pending
    BY <1>1, <1>6 DEF GoingAll, Pending
  <2>. QED
    BY <1>6, <1>less, <2>1, <2>2 DEF GoingAll
<1>. QED
  BY <1>3, <1>4, <1>5, <1>6, KindSteps

-----------------------------------------------------------------------------
(* The theorems                                                             *)

Inv ==
  /\ Types /\ PhaseTokens /\ Owned /\ Undelivered /\ Rotating
  /\ Older /\ Presented /\ CurrentPasswords /\ Kinds /\ PasswordBound

LEMMA InitInv == Init => Inv
<1>. SUFFICES ASSUME Init
              PROVE  Inv
  OBVIOUS
<1>1. Len(tokens) = 0 /\ tokens \in Seq(Token)
  BY DEF Init
<1>2. Types
  <2>1. call \in [Calls -> CallRecord(0)]
    BY IdleCallType DEF Init
  <2>2. store \in [Browsers -> StoreRecord(0)]
    BY DEF Init, StoreRecord
  <2>3. account \in [status: {"ACTIVE", "BLOCKED", "GONE"}, password: Nat]
    BY DEF Init
  <2>4. /\ made \in 0 .. MaxRequests /\ unswept \in BOOLEAN /\ lost \subseteq Browsers
        /\ faults \in 0 .. MaxFaults /\ Len(tokens) <= MaxTokens
    <3>1. /\ 0 \in 0 .. MaxRequests /\ 0 \in 0 .. MaxFaults /\ 0 <= MaxTokens
      BY BoundsAssumption
    <3>2. /\ unswept \in BOOLEAN /\ lost \subseteq Browsers
          /\ made = 0 /\ faults = 0
      BY DEF Init
    <3>. QED
      BY <1>1, <3>1, <3>2
  <2>. QED
    BY <1>1, <2>1, <2>2, <2>3, <2>4 DEF Types
<1>3. \A c \in Calls : call[c].token = 0 /\ call[c].phase = "idle"
  BY IdleCallType DEF Init
<1>4. PhaseTokens /\ Owned /\ Undelivered /\ Rotating /\ Kinds
  BY <1>3 DEF Init, PhaseTokens, Owned, Undelivered, Rotating, Kinds
<1>5. Older /\ Presented /\ CurrentPasswords
  BY <1>1, <1>3 DEF Older, Presented, CurrentPasswords
<1>6. PasswordBound
  <2>1. Pending = {}
    BY <1>3 DEF Pending
  <2>. QED
    BY <2>1, FS_EmptySet, BoundsAssumption DEF Init, PasswordBound
<1>. QED
  BY <1>2, <1>4, <1>5, <1>6 DEF Inv

LEMMA NextInv == Inv /\ [Next]_vars => Inv'
<1>. SUFFICES ASSUME Inv, [Next]_vars
              PROVE  Inv'
  OBVIOUS
<1>1. TokenStep
  BY TokenSteps DEF Inv
<1>. QED
  BY <1>1, TypesStep, PhaseTokensStep, OwnedStep, UndeliveredStep, RotatingStep, OlderStep,
     PresentedStep, CurrentPasswordsStep, PasswordBoundStep
  DEF Inv

LEMMA Invariance == Spec => []Inv
BY InitInv, NextInv, PTL DEF Spec

LEMMA OneHeirEach ==
  ASSUME Types, Presented
  PROVE  OneHeir
<1>. SUFFICES ASSUME NEW t \in DOMAIN tokens, ~tokens[t].raced
              PROVE  ~(Cardinality({h \in DOMAIN tokens : tokens[h].parent = t}) > 1)
  BY DEF OneHeir
<1>. DEFINE Heirs == {h \in DOMAIN tokens : tokens[h].parent = t}
<1>1. DOMAIN tokens = 1 .. Len(tokens)
  BY TokensChange DEF Types
<1>2. \A h, i \in Heirs : h = i
  BY <1>1 DEF Presented
<1>3. CASE Heirs = {}
  BY <1>3, FS_EmptySet
<1>4. CASE Heirs # {}
  <2>1. PICK h \in Heirs : TRUE
    BY <1>4
  <2>2. Heirs = {h}
    BY <1>2, <2>1
  <2>. QED
    BY <2>2, FS_Singleton
<1>. QED
  BY <1>3, <1>4

\* SessionsInv: the state keeps its types and its bounds, no session opened
\* with an old password outlives changeOwnPassword or resetPassword, and
\* AuthService.refresh gives a refresh token one successor unless two requests
\* had passed its check before either revoked it.
THEOREM SessionsCorrect == Spec => []SessionsInv
<1>1. Inv => SessionsInv
  <2>. SUFFICES ASSUME Inv
                PROVE  SessionsInv
    OBVIOUS
  <2>1. account.password \in 0 .. MaxPasswords
    <3>1. /\ account.password \in Nat /\ MaxPasswords \in Nat
          /\ account.password + Cardinality(Pending) <= MaxPasswords
      BY BoundsAssumption DEF Inv, Types, PasswordBound
    <3>. QED
      BY <3>1, PendingFinite
  <2>2. account \in [status: {"ACTIVE", "BLOCKED", "GONE"}, password: 0 .. MaxPasswords]
    BY <2>1 DEF Inv, Types
  <2>3. TypeOK
    BY <2>2 DEF Inv, Types, TypeOK, StoreRecord, CallRecord
  <2>4. DOMAIN tokens = 1 .. Len(tokens)
    BY TokensChange DEF Inv, Types
  <2>5. OldPasswordEndsSessions
    BY <2>4 DEF Inv, CurrentPasswords, SweepDue, OldPasswordEndsSessions, At
  <2>6. OneHeir
    BY OneHeirEach DEF Inv
  <2>. QED
    BY <2>3, <2>5, <2>6 DEF SessionsInv
<1>. QED
  BY <1>1, Invariance, PTL

\* OneHeir by itself: the rotation of AuthService.refresh.
THEOREM RotationCorrect == Spec => []OneHeir
<1>1. SessionsInv => OneHeir
  BY DEF SessionsInv
<1>. QED
  BY <1>1, SessionsCorrect, PTL

\* StoredTokenUsable: requests of a page that refresh together leave the browser
\* a refresh token that is good, or one of them is about to bring it.
THEOREM StoredTokenCorrect == Spec => []StoredTokenUsable
<1>1. Inv => StoredTokenUsable
  BY DEF Inv, Rotating, StoredTokenUsable
<1>. QED
  BY <1>1, Invariance, PTL

-----------------------------------------------------------------------------
(* The tokens form the lines of SessionLines                                *)

GoodAll == {t \in 1 .. Len(tokens) : Good(t)}
RacedAll == {t \in 1 .. Len(tokens) : tokens[t].raced}

\* Whatever makes no token and forks none may only end some.
LEMMA LinesEnd ==
  ASSUME Len(tokens') = Len(tokens), RacedAll' = RacedAll, GoodAll' \subseteq GoodAll
  PROVE  Lines!Next
<1>1. PICK ts : ts = GoodAll \ GoodAll'
  OBVIOUS
<1>2. ts \in SUBSET GoodAll /\ GoodAll' = GoodAll \ ts
  BY <1>1
<1>3. Lines!End(ts)
  BY <1>2 DEF Lines!End, GoodAll, RacedAll
<1>. QED
  BY <1>2, <1>3 DEF Lines!Next, GoodAll

\* So may what leaves the rows but for their states, makes none live, and lets
\* no call present a token it did not.
LEMMA LinesNone ==
  ASSUME Len(tokens') = Len(tokens),
         \A t \in 1 .. Len(tokens) : /\ tokens'[t].raced = tokens[t].raced
                                     /\ tokens'[t].state = "live" => tokens[t].state = "live",
         \A t \in 1 .. Len(tokens), c \in Calls : Presents(c, t)' => Good(t)
  PROVE  Lines!Next
<1>1. RacedAll' = RacedAll
  BY DEF RacedAll
<1>2. ASSUME NEW t \in 1 .. Len(tokens), Good(t)'
      PROVE  Good(t)
  BY <1>2 DEF Good, Presents
<1>3. GoodAll' \subseteq GoodAll
  BY <1>2 DEF GoodAll
<1>. QED
  BY <1>1, <1>3, LinesEnd

\* A check that finds the token live, while another request has done so.
LEMMA LinesPass ==
  ASSUME Types, PhaseTokens, NEW c \in Calls, Pass(c)
  PROVE  [Lines!Next]_(Lines!vars)
<1>0. PICK p \in 1 .. Len(tokens) : p = call[c].token
  BY CallTypes, TokensChange DEF Pass, PhaseTokens, Types
<1>1. /\ Len(tokens') = Len(tokens) /\ tokens[p].state = "live"
      /\ \A t \in 1 .. Len(tokens) :
           /\ tokens'[t].state = tokens[t].state
           /\ t # p => tokens'[t].raced = tokens[t].raced
           /\ tokens[t].raced => tokens'[t].raced
  BY <1>0 DEF Pass
<1>2. \A t \in 1 .. Len(tokens), d \in Calls : Presents(d, t)' => Presents(d, t) \/ t = p
  BY <1>0 DEF Pass, OnlyCall, SameCallBut, Presents
<1>3. \A t \in 1 .. Len(tokens), d \in Calls : Presents(d, t) => Presents(d, t)'
  BY <1>0 DEF Pass, OnlyCall, Presents
<1>4. Good(p) /\ p \in GoodAll
  BY <1>1 DEF Good, GoodAll
<1>5. ASSUME NEW t \in 1 .. Len(tokens)
      PROVE  Good(t)' <=> Good(t)
  <2>1. Good(t)' => Good(t)
    BY <1>1, <1>2, <1>4 DEF Good, Presents
  <2>2. Good(t) => Good(t)'
    BY <1>1, <1>3 DEF Good, Presents
  <2>. QED
    BY <2>1, <2>2
<1>6. GoodAll' = GoodAll
  BY <1>1, <1>5 DEF GoodAll
<1>7. RacedAll' = RacedAll \/ RacedAll' = RacedAll \cup {p}
  BY <1>1 DEF RacedAll
<1>8. CASE RacedAll' = RacedAll
  BY <1>1, <1>6, <1>8 DEF Lines!vars, GoodAll, RacedAll
<1>9. CASE RacedAll' = RacedAll \cup {p}
  <2>1. Lines!Race(p)
    BY <1>1, <1>6, <1>9 DEF Lines!Race, GoodAll, RacedAll
  <2>. QED
    BY <1>4, <2>1 DEF Lines!Next, GoodAll
<1>. QED
  BY <1>7, <1>8, <1>9

\* An insertion: the first of a line, or one in the place of the token that the
\* request presents, which stays good only for another request that raced for it.
LEMMA LinesIssue ==
  ASSUME Types, PhaseTokens, Presented, NEW c \in Calls, Issue(c)
  PROVE  Lines!Next
<1>n. PICK n \in Nat : n = Len(tokens)
  BY TokensChange DEF Types
<1>0. /\ \A d \in Calls : call[d].token \in 0 .. n
      /\ n + 1 \in 1 .. n + 1 /\ 1 .. n + 1 = (1 .. n) \cup {n + 1} /\ n + 1 \notin 0 .. n
  BY <1>n, CallTypes
<1>1. /\ Len(tokens') = n + 1 /\ \A t \in 1 .. n : tokens'[t] = tokens[t]
      /\ tokens'[n + 1].state = "live" /\ tokens'[n + 1].raced = FALSE
  BY <1>n DEF Issue, Successor
<1>2. /\ \A d \in Calls \ {c} : call'[d] = call[d]
      /\ call'[c].phase \in {"answer", "reply"}
  BY DEF Issue, OnlyCall
<1>3. RacedAll' = RacedAll
  BY <1>n, <1>0, <1>1 DEF RacedAll
<1>4. \A t \in 1 .. n : \A d \in Calls : Presents(d, t)' <=> Presents(d, t) /\ d # c
  BY <1>2 DEF Presents
<1>5. \A t \in 1 .. n :
        Good(t)' <=> tokens[t].state = "live" \/ \E d \in Calls \ {c} : Presents(d, t)
  BY <1>1, <1>4 DEF Good, Presents
<1>6. Good(n + 1)'
  BY <1>1 DEF Good
<1>7. CASE call[c].token = 0
  <2>1. \A t \in 1 .. n : Good(t)' <=> Good(t)
    BY <1>5, <1>7 DEF Good, Presents
  <2>2. GoodAll' = GoodAll \cup {n + 1}
    BY <1>n, <1>0, <1>1, <1>6, <2>1 DEF GoodAll
  <2>3. Lines!Open
    BY <1>n, <1>1, <1>3, <2>2 DEF Lines!Open, Lines!Number, GoodAll, RacedAll
  <2>. QED
    BY <2>3 DEF Lines!Next
<1>8. CASE call[c].token # 0
  <2>1. PICK p \in 1 .. n : p = call[c].token
    BY <1>0, <1>8
  <2>2. Presents(c, p) /\ tokens[p].state # "live"
    BY <1>n, <2>1 DEF Issue, Presents, Presented
  <2>3. p \in GoodAll
    BY <1>n, <2>2 DEF GoodAll, Good, Presents
  <2>4. \A t \in 1 .. n : t # p => (Good(t)' <=> Good(t))
    BY <1>5, <2>1 DEF Good, Presents
  <2>5. CASE \E d \in Calls \ {c} : Presents(d, p)
    <3>1. p \in RacedAll
      BY <1>n, <2>2, <2>5 DEF Presented, RacedAll
    <3>2. Good(p)'
      BY <1>5, <2>5
    <3>3. GoodAll' = GoodAll \cup {n + 1}
      BY <1>n, <1>0, <1>1, <1>6, <2>3, <2>4, <3>2 DEF GoodAll
    <3>4. Lines!Branch(p)
      BY <1>n, <1>1, <1>3, <3>1, <3>3 DEF Lines!Branch, Lines!Number, GoodAll, RacedAll
    <3>. QED
      BY <2>3, <3>4 DEF Lines!Next, GoodAll
  <2>6. CASE ~\E d \in Calls \ {c} : Presents(d, p)
    <3>1. ~Good(p)'
      BY <1>5, <2>2, <2>6
    <3>2. GoodAll' = (GoodAll \ {p}) \cup {n + 1}
      BY <1>n, <1>0, <1>1, <1>6, <2>4, <3>1 DEF GoodAll
    <3>3. Lines!Renew(p)
      BY <1>n, <1>1, <1>3, <3>2 DEF Lines!Renew, Lines!Number, GoodAll, RacedAll
    <3>. QED
      BY <2>3, <3>3 DEF Lines!Next, GoodAll
  <2>. QED
    BY <2>5, <2>6
<1>. QED
  BY <1>7, <1>8

LEMMA LinesInit == Init => Lines!Init
<1>. SUFFICES ASSUME Init
              PROVE  Lines!Init
  OBVIOUS
<1>1. Len(tokens) = 0 /\ 1 .. Len(tokens) = {}
  BY DEF Init
<1>. QED
  BY <1>1 DEF Lines!Init

LEMMA LinesStep == Inv /\ [Next]_vars => [Lines!Next]_(Lines!vars)
<1>. SUFFICES ASSUME Inv, [Next]_vars
              PROVE  [Lines!Next]_(Lines!vars)
  OBVIOUS
<1>0. TokenStep /\ Types /\ PhaseTokens /\ Presented
  BY TokenSteps DEF Inv
<1>1. ASSUME NEW c \in Calls, Release(c) \/ Take(c) \/ Deliver(c)
      PROVE  Lines!Next
  <2>1. tokens' = tokens /\ \A d \in Calls \ {c} : call'[d] = call[d]
    BY <1>1 DEF Release, Take, Deliver, OnlyCall
  <2>2. \A t \in 1 .. Len(tokens) : ~Presents(c, t)'
    <3>1. call'[c].token = 0 \/ call'[c].phase = "check"
      BY <1>1 DEF Release, Take, Deliver
    <3>2. \A t \in 1 .. Len(tokens) : t # 0
      BY <1>0, TokensChange DEF Types
    <3>. QED
      BY <3>1, <3>2 DEF Presents
  <2>3. \A t \in 1 .. Len(tokens), d \in Calls : Presents(d, t)' => Good(t)
    BY <2>1, <2>2 DEF Presents, Good
  <2>. QED
    BY <2>1, <2>3, LinesNone
<1>2. ASSUME NEW c \in Calls, Pass(c)
      PROVE  [Lines!Next]_(Lines!vars)
  BY <1>0, <1>2, LinesPass
<1>3. ASSUME NEW c \in Calls, Rotate(c)
      PROVE  Lines!Next
  <2>1. \A t \in 1 .. Len(tokens), d \in Calls : Presents(d, t)' => Good(t)
    BY <1>3 DEF Rotate, OnlyCall, SameCallBut, Presents, Good
  <2>2. /\ Len(tokens') = Len(tokens)
        /\ \A t \in 1 .. Len(tokens) : /\ tokens'[t].raced = tokens[t].raced
                                       /\ tokens'[t].state = "live" => tokens[t].state = "live"
    BY <1>3 DEF Rotate
  <2>. QED
    BY <2>1, <2>2, LinesNone
<1>4. ASSUME NEW c \in Calls, Issue(c)
      PROVE  Lines!Next
  BY <1>0, <1>4, LinesIssue
<1>5. ASSUME Ends, \A t \in 1 .. Len(tokens), d \in Calls : Presents(d, t)' => Presents(d, t)
      PROVE  Lines!Next
  <2>1. \A t \in 1 .. Len(tokens), d \in Calls : Presents(d, t)' => Good(t)
    BY <1>5 DEF Presents, Good
  <2>2. /\ Len(tokens') = Len(tokens)
        /\ \A t \in 1 .. Len(tokens) : /\ tokens'[t].raced = tokens[t].raced
                                       /\ tokens'[t].state = "live" => tokens[t].state = "live"
    BY <1>5 DEF Ends
  <2>. QED
    BY <2>1, <2>2, LinesNone
<1>6. ASSUME NEW c \in Calls, SweepAll(c)
      PROVE  Lines!Next
  BY <1>5, <1>6 DEF SweepAll, Presents
<1>7. CASE Vanish
  BY <1>5, <1>7 DEF Vanish, Presents
<1>10. CASE Retire
  <2>1. \A t \in 1 .. Len(tokens), d \in Calls : Presents(d, t)' => Good(t)
    BY <1>10 DEF Retire, Presents, Good
  <2>2. /\ Len(tokens') = Len(tokens)
        /\ \A t \in 1 .. Len(tokens) : /\ tokens'[t].raced = tokens[t].raced
                                       /\ tokens'[t].state = "live" => tokens[t].state = "live"
    BY <1>10 DEF Retire
  <2>. QED
    BY <2>1, <2>2, LinesNone
<1>8. CASE Aside
  BY <1>8 DEF Aside, Lines!vars, Good
<1>9. CASE Stop
  <2>1. tokens' = tokens /\ \A t \in 1 .. Len(tokens), d \in Calls : ~Presents(d, t)'
    BY <1>9 DEF Stop, Presents
  <2>. QED
    BY <2>1, LinesNone
<1>. QED
  BY <1>0, <1>1, <1>2, <1>3, <1>4, <1>6, <1>7, <1>8, <1>9, <1>10 DEF TokenStep

\* KeepsLines: the tokens of an account implement the lines of SessionLines, for
\* any number of browsers, requests and revocations: the statements of
\* AuthService.refresh are one step of a line, a login alone begins one, and
\* what was used or revoked is never good again.
THEOREM LinesCorrect == Spec => KeepsLines
BY LinesInit, LinesStep, InitInv, NextInv, PTL DEF Spec, KeepsLines, Lines!Spec
=============================================================================
