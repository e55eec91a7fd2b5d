----------------------------- MODULE PanelProofs -----------------------------
(***************************************************************************)
(* The two panels of a server's page that change what others see: the      *)
(* console and its gateway, and the files with the mods and packs.         *)
(*                                                                         *)
(* The gateway: every stream can be canceled, for any number of sockets,   *)
(* servers and concurrent subscriptions.  Then the page and the gateway    *)
(* together: the page uses the gateway only through its messages and       *)
(* connections, so what was proved of the gateway holds of the two, and    *)
(* why a panel is silent, or a stream idle, is explained.                  *)
(*                                                                         *)
(* The files: paths under "is a prefix of" and what Clean makes of a       *)
(* client's path; the tree each operation leaves and the trace of what it  *)
(* removes; the requests and rows; and the packs, jars and rights that     *)
(* rest on them.                                                           *)
(***************************************************************************)
EXTENDS ConsolePanel, ServerFiles, SequenceTheorems, WellFoundedInduction, TLAPS

-----------------------------------------------------------------------------
(* The gateway                                                              *)

GatewayInv == TypeOK /\ StreamsReachable

\* No stream runs, no map has an entry.
LEMMA InitGateway == Init => GatewayInv
BY DEF Init, GatewayInv, TypeOK, StreamsReachable

\* Each message and event keeps map and streams in step.
LEMMA NextGateway == GatewayInv /\ [Next]_vars => GatewayInv'
<1>. SUFFICES ASSUME TypeOK, StreamsReachable, [Next]_vars
              PROVE  TypeOK' /\ StreamsReachable'
  BY DEF GatewayInv
<1>target. \A t \in Target : t.socket \in Sockets /\ t.key \in Keys
  BY DEF Target
<1>1. ASSUME NEW s \in Sockets, Connect(s)
      PROVE  TypeOK' /\ StreamsReachable'
  BY <1>1 DEF Connect, TypeOK, StreamsReachable
<1>2. ASSUME NEW s \in Sockets, Disconnect(s)
      PROVE  TypeOK' /\ StreamsReachable'
  <2>1. TypeOK'
    BY <1>2 DEF Disconnect, TypeOK
  <2>2. ASSUME NEW i \in Streams, owner'[i] # Nobody
        PROVE  cancels'[owner'[i].socket][owner'[i].key] = i
    <3>1. owner'[i] = owner[i] /\ \A k \in Keys : cancels[s][k] # i
      BY <1>2, <2>2 DEF Disconnect
    <3>2. owner[i] \in Target /\ cancels[owner[i].socket][owner[i].key] = i
      BY <2>2, <3>1 DEF TypeOK, StreamsReachable
    <3>3. owner[i].socket # s
      BY <3>1, <3>2, <1>target
    <3>4. cancels'[owner[i].socket] = cancels[owner[i].socket]
      BY <1>2, <3>2, <3>3, <1>target DEF Disconnect, TypeOK
    <3>. QED
      BY <3>1, <3>2, <3>4
  <2>. QED
    BY <2>1, <2>2 DEF StreamsReachable
<1>3. ASSUME NEW s \in Sockets, NEW k \in Keys, Unsubscribe(s, k)
      PROVE  TypeOK' /\ StreamsReachable'
  <2>1. TypeOK'
    BY <1>3 DEF Unsubscribe, TypeOK
  <2>2. ASSUME NEW i \in Streams, owner'[i] # Nobody
        PROVE  cancels'[owner'[i].socket][owner'[i].key] = i
    <3>1. owner'[i] = owner[i] /\ cancels[s][k] # i
      BY <1>3, <2>2 DEF Unsubscribe
    <3>2. owner[i] \in Target /\ cancels[owner[i].socket][owner[i].key] = i
      BY <2>2, <3>1 DEF TypeOK, StreamsReachable
    <3>3. ~(owner[i].socket = s /\ owner[i].key = k)
      BY <3>1, <3>2
    <3>4. \A u \in Sockets, m \in Keys :
            ~(u = s /\ m = k) => cancels'[u][m] = cancels[u][m]
      BY <1>3 DEF Unsubscribe, TypeOK
    <3>. QED
      BY <3>1, <3>2, <3>3, <3>4, <1>target
  <2>. QED
    BY <2>1, <2>2 DEF StreamsReachable
<1>4. ASSUME NEW h \in Subscriptions, NEW s \in Sockets, NEW k \in Keys, Subscribe(h, s, k)
      PROVE  TypeOK' /\ StreamsReachable'
  BY <1>4 DEF Subscribe, To, Target, TypeOK, StreamsReachable
<1>5. ASSUME NEW h \in Subscriptions, Denied(h)
      PROVE  TypeOK' /\ StreamsReachable'
  BY <1>5 DEF Denied, TypeOK, StreamsReachable
<1>6. ASSUME NEW h \in Subscriptions, OpenStream(h)
      PROVE  TypeOK' /\ StreamsReachable'
  <2>. DEFINE s == pending[h].socket
              k == pending[h].key
  <2>1. pending[h] \in Target /\ s \in Sockets /\ k \in Keys
    BY <1>6, <1>target DEF OpenStream, TypeOK
  <2>2. PICK i \in Streams :
          /\ Fresh(i)
          /\ owner' = [j \in Streams |-> IF j = i THEN To(s, k)
                                         ELSE IF j = cancels[s][k] THEN Nobody ELSE owner[j]]
          /\ cancels' = [cancels EXCEPT ![s] = [cancels[s] EXCEPT ![k] = i]]
    BY <1>6 DEF OpenStream
  <2>3. To(s, k) \in Target
    BY <2>1 DEF To, Target
  <2>4. TypeOK'
    BY <1>6, <2>1, <2>2, <2>3 DEF OpenStream, TypeOK
  <2>5. cancels'[s][k] = i
    BY <2>1, <2>2 DEF TypeOK
  <2>6. \A u \in Sockets, m \in Keys : ~(u = s /\ m = k) => cancels'[u][m] = cancels[u][m]
    BY <2>1, <2>2 DEF TypeOK
  <2>7. ASSUME NEW j \in Streams, owner'[j] # Nobody
        PROVE  cancels'[owner'[j].socket][owner'[j].key] = j
    <3>1. CASE j = i
      BY <2>2, <2>5, <3>1 DEF To
    <3>2. CASE j # i
      <4>1. owner'[j] = owner[j] /\ j # cancels[s][k]
        BY <2>2, <2>7, <3>2
      <4>2. owner[j] \in Target /\ cancels[owner[j].socket][owner[j].key] = j
        BY <2>7, <4>1 DEF TypeOK, StreamsReachable
      <4>. QED
        BY <2>6, <4>1, <4>2, <1>target
    <3>. QED
      BY <3>1, <3>2
  <2>. QED
    BY <2>4, <2>7 DEF StreamsReachable
<1>7. ASSUME NEW i \in Streams, StreamEnds(i)
      PROVE  TypeOK' /\ StreamsReachable'
  BY <1>7 DEF StreamEnds, TypeOK, StreamsReachable
<1>8. CASE UNCHANGED vars
  BY <1>8 DEF vars, TypeOK, StreamsReachable
<1>. QED
  BY <1>1, <1>2, <1>3, <1>4, <1>5, <1>6, <1>7, <1>8 DEF Next

\* The gateway never loses the cancel function of a stream that runs, nor
\* opens a second stream for a socket and key.
THEOREM GatewayCorrect == Spec => [](TypeOK /\ StreamsReachable)
<1>1. GatewayInv <=> TypeOK /\ StreamsReachable
  BY DEF GatewayInv
<1>. QED
  BY <1>1, InitGateway, NextGateway, PTL DEF Spec

-----------------------------------------------------------------------------
(* The page and the gateway                                                 *)

\* The panel's part of PanelTypeOK.
PanelInv ==
  /\ current \in Clients \cup {None}
  /\ phase \in [Clients -> {"unused", "trying", "refused"}]
  /\ link \in [Clients -> Sockets \cup {None}]
  /\ out \in [Clients -> Seq(Message)]
  /\ panel \in [Keys -> Clients \cup {None}]
  /\ \A c \in Clients : link[c] # None => conn[link[c]] = "open" /\ phase[c] = "trying"
  /\ \A c, d \in Clients : link[c] = link[d] => c = d \/ link[c] = None
  /\ \A k \in Keys : panel[k] # None => phase[panel[k]] # "unused"

\* Every step of the two is a step of the gateway, or leaves the gateway alone, if a
\* client's messages name keys and its connection is a socket.
LEMMA PanelStepIsGatewayStep ==
  PanelInv /\ [PanelNext]_<<vars, panelVars>> => [Next]_vars
<1>. SUFFICES ASSUME PanelInv, [PanelNext]_<<vars, panelVars>>
              PROVE  [Next]_vars
  OBVIOUS
<1>1. CASE ServerDetailPage
  BY <1>1 DEF ServerDetailPage, Mount, Unmount, SendCommand
<1>2. ASSUME NEW c \in Clients, Linked(c)
      PROVE  Next
  BY <1>2 DEF Linked, Next
<1>3. ASSUME NEW c \in Clients, Refused(c) \/ Dropped(c)
      PROVE  UNCHANGED vars
  BY <1>3 DEF Refused, Dropped
<1>4. ASSUME NEW c \in Clients, Handle(c)
      PROVE  [Next]_vars
  <2>1. link[c] \in Sockets /\ out[c] \in Seq(Message) /\ out[c] # <<>>
    BY <1>4 DEF Handle, PanelInv
  <2>2. Head(out[c]) \in Message
    BY <2>1
  <2>3. Head(out[c]).type # "send" => Head(out[c]).key \in Keys
    BY <2>2 DEF Message
  <2>4. CASE Subscribes(c)
    BY <2>1, <2>3, <2>4 DEF Subscribes, Next
  <2>5. CASE Unsubscribes(c)
    BY <2>1, <2>3, <2>5 DEF Unsubscribes, Next
  <2>6. CASE Sends(c)
    BY <2>6 DEF Sends
  <2>. QED
    BY <1>4, <2>4, <2>5, <2>6 DEF Handle
<1>5. ASSUME NEW s \in Sockets, Closed(s)
      PROVE  Next
  BY <1>5 DEF Closed, Next
<1>6. ASSUME NEW h \in Subscriptions, Opened(h) \/ Refuses(h)
      PROVE  Next
  BY <1>6 DEF Opened, Refuses, Next
<1>7. ASSUME NEW i \in Streams, Ends(i)
      PROVE  Next
  BY <1>7 DEF Ends, Next
<1>8. CASE UNCHANGED <<vars, panelVars>>
  BY <1>8
<1>. QED
  BY <1>1, <1>2, <1>3, <1>4, <1>5, <1>6, <1>7, <1>8 DEF PanelNext

\* No panel is mounted, no socket made.
LEMMA InitPanel == PanelInit => PanelInv
BY DEF PanelInit, PanelInv

\* getSocket returns a socket that was made.
LEMMA GetSocketMade ==
  ASSUME NEW c \in Clients, PanelInv, GetSocket(c)
  PROVE  /\ current' \in Clients
         /\ phase' \in [Clients -> {"unused", "trying", "refused"}]
         /\ phase'[c] # "unused"
         /\ \A d \in Clients : phase[d] # "unused" => phase'[d] = phase[d]
<1>1. CASE current # None /\ link[current] # None
  BY <1>1 DEF GetSocket, PanelInv
<1>2. CASE ~(current # None /\ link[current] # None)
  BY <1>2 DEF GetSocket, PanelInv
<1>. QED
  BY <1>1, <1>2

\* A message is queued with the others.
LEMMA EmitKeeps ==
  ASSUME NEW c \in Clients, NEW message \in Message, PanelInv, Emit(c, message)
  PROVE  out' \in [Clients -> Seq(Message)]
BY DEF Emit, PanelInv

\* Each step keeps the panel's types.
LEMMA NextPanel == TypeOK /\ PanelInv /\ [PanelNext]_<<vars, panelVars>> => PanelInv'
<1>. SUFFICES ASSUME TypeOK, PanelInv, [PanelNext]_<<vars, panelVars>>
              PROVE  PanelInv'
  OBVIOUS
<1>1. ASSUME NEW k \in Keys, Mount(k)
      PROVE  PanelInv'
  <2>1. PICK c \in Clients : /\ GetSocket(c)
                             /\ Emit(c, [type |-> "subscribe", key |-> k])
                             /\ panel' = [panel EXCEPT ![k] = c]
    BY <1>1 DEF Mount
  <2>2. [type |-> "subscribe", key |-> k] \in Message
    BY DEF Message
  <2>3. out' \in [Clients -> Seq(Message)]
    BY <2>1, <2>2, EmitKeeps
  <2>4. UNCHANGED <<conn, link>>
    BY <1>1 DEF Mount, vars
  <2>5. /\ current' \in Clients
           /\ phase' \in [Clients -> {"unused", "trying", "refused"}]
           /\ phase'[c] # "unused"
           /\ \A d \in Clients : phase[d] # "unused" => phase'[d] = phase[d]
    BY <2>1, GetSocketMade
  <2>6. \A d \in Clients : link'[d] # None => conn'[link'[d]] = "open" /\ phase'[d] = "trying"
    BY <2>4, <2>5 DEF PanelInv
  <2>7. \A j \in Keys : panel'[j] # None => phase'[panel'[j]] # "unused"
    BY <2>1, <2>5 DEF PanelInv
  <2>. QED
    BY <2>1, <2>3, <2>4, <2>5, <2>6, <2>7 DEF PanelInv
<1>2. ASSUME NEW k \in Keys, Unmount(k)
      PROVE  PanelInv'
  <2>1. [type |-> "unsubscribe", key |-> k] \in Message
    BY DEF Message
  <2>2. panel[k] \in Clients /\ Emit(panel[k], [type |-> "unsubscribe", key |-> k])
    BY <1>2 DEF Unmount, PanelInv
  <2>3. out' \in [Clients -> Seq(Message)]
    BY <2>1, <2>2, EmitKeeps
  <2>. QED
    BY <1>2, <2>3 DEF Unmount, PanelInv, vars
<1>3. CASE SendCommand
  <2>1. PICK c \in Clients : GetSocket(c) /\ Emit(c, [type |-> "send"])
    BY <1>3 DEF SendCommand
  <2>2. [type |-> "send"] \in Message
    BY DEF Message
  <2>3. out' \in [Clients -> Seq(Message)]
    BY <2>1, <2>2, EmitKeeps
  <2>4. UNCHANGED <<conn, link, panel>>
    BY <1>3 DEF SendCommand, vars
  <2>5. /\ current' \in Clients
           /\ phase' \in [Clients -> {"unused", "trying", "refused"}]
           /\ phase'[c] # "unused"
           /\ \A d \in Clients : phase[d] # "unused" => phase'[d] = phase[d]
    BY <2>1, GetSocketMade
  <2>6. \A d \in Clients : link'[d] # None => conn'[link'[d]] = "open" /\ phase'[d] = "trying"
    BY <2>4, <2>5 DEF PanelInv
  <2>7. \A j \in Keys : panel'[j] # None => phase'[panel'[j]] # "unused"
    BY <2>4, <2>5 DEF PanelInv
  <2>. QED
    BY <2>1, <2>3, <2>4, <2>5, <2>6, <2>7 DEF PanelInv
<1>4. ASSUME NEW c \in Clients, Linked(c)
      PROVE  PanelInv'
  <2>1. PICK s \in Sockets : Connect(s) /\ link' = [link EXCEPT ![c] = s]
    BY <1>4 DEF Linked
  <2>2. \A d \in Clients : link[d] # s
    <3>1. conn[s] = "new" /\ s # None
      BY <2>1, NoneAssumption DEF Connect
    <3>. QED
      BY <3>1 DEF PanelInv
  <2>3. conn' = [conn EXCEPT ![s] = "open"]
    BY <2>1 DEF Connect
  <2>. QED
    BY <1>4, <2>1, <2>2, <2>3 DEF Linked, PanelInv, TypeOK
<1>5. ASSUME NEW c \in Clients, Refused(c)
      PROVE  PanelInv'
  BY <1>5 DEF Refused, PanelInv, vars
<1>6. ASSUME NEW c \in Clients, Dropped(c)
      PROVE  PanelInv'
  BY <1>6 DEF Dropped, PanelInv, vars
<1>7. ASSUME NEW c \in Clients, Handle(c)
      PROVE  PanelInv'
  <2>1. out[c] \in Seq(Message) /\ out[c] # <<>>
    BY <1>7 DEF Handle, PanelInv
  <2>2. Tail(out[c]) \in Seq(Message)
    BY <2>1
  <2>3. conn' = conn
    BY <1>7 DEF Handle, Subscribes, Subscribe, Unsubscribes, Unsubscribe, Sends, vars
  <2>. QED
    BY <1>7, <2>2, <2>3 DEF Handle, PanelInv
<1>8. ASSUME NEW s \in Sockets, Closed(s)
      PROVE  PanelInv'
  <2>1. \A d \in Clients : link[d] # s
    BY <1>8 DEF Closed
  <2>2. conn' = [conn EXCEPT ![s] = "closed"]
    BY <1>8 DEF Closed, Disconnect
  <2>. QED
    BY <1>8, <2>1, <2>2 DEF Closed, PanelInv, TypeOK
<1>9. ASSUME NEW h \in Subscriptions, Opened(h) \/ Refuses(h)
      PROVE  PanelInv'
  <2>1. conn' = conn
    BY <1>9 DEF Opened, OpenStream, Refuses, Denied
  <2>. QED
    BY <1>9, <2>1 DEF Opened, Refuses, PanelInv, panelVars
<1>10. ASSUME NEW i \in Streams, Ends(i)
      PROVE  PanelInv'
  BY <1>10 DEF Ends, StreamEnds, PanelInv
<1>11. CASE UNCHANGED <<vars, panelVars>>
  BY <1>11 DEF PanelInv, vars, panelVars
<1>. QED
  BY <1>1, <1>2, <1>3, <1>4, <1>5, <1>6, <1>7, <1>8, <1>9, <1>10, <1>11
     DEF PanelNext, ServerDetailPage

\* The page and the gateway together keep every stream within reach of its socket, with
\* as many panels, client sockets and messages on the way as there are; a connection is
\* used by one client socket, and is open while it is.
THEOREM PanelCorrect == PanelSpec => [](PanelTypeOK /\ StreamsReachable)
<1>1. PanelInit => GatewayInv /\ PanelInv
  BY InitGateway, InitPanel DEF PanelInit
<1>2. GatewayInv /\ PanelInv /\ [PanelNext]_<<vars, panelVars>> => GatewayInv' /\ PanelInv'
  BY PanelStepIsGatewayStep, NextGateway, NextPanel DEF GatewayInv
<1>3. GatewayInv /\ PanelInv => PanelTypeOK /\ StreamsReachable
  BY DEF GatewayInv, PanelInv, PanelTypeOK
<1>. QED
  BY <1>1, <1>2, <1>3, PTL DEF PanelSpec

-----------------------------------------------------------------------------
(* Why a panel is heard and a stream attended: of the messages of a socket  *)
(* about a key, the last says what the page did last.                       *)

\* Every m of the sequence is followed by an n.
Followed(s, m, n) ==
  \A i \in 1 .. Len(s) : s[i] = m => \E j \in i + 1 .. Len(s) : s[j] = n

LEMMA ToSetMember ==
  ASSUME NEW S, NEW s \in Seq(S), NEW x
  PROVE  x \in ToSet(s) <=> \E i \in 1 .. Len(s) : s[i] = x
<1>1. DOMAIN s = 1 .. Len(s)
  OBVIOUS
<1>. QED
  BY <1>1 DEF ToSet

LEMMA ToSetAppend ==
  ASSUME NEW S, NEW s \in Seq(S), NEW x \in S, NEW y
  PROVE  y \in ToSet(Append(s, x)) <=> y \in ToSet(s) \/ y = x
<1>. DEFINE t == Append(s, x)
<1>1. /\ Len(s) \in Nat /\ Len(t) = Len(s) + 1 /\ t[Len(s) + 1] = x /\ t \in Seq(S)
      /\ \A i \in 1 .. Len(s) : t[i] = s[i]
  OBVIOUS
<1>2. y \in ToSet(s) <=> \E i \in 1 .. Len(s) : s[i] = y
  BY ToSetMember
<1>3. y \in ToSet(t) <=> \E i \in 1 .. Len(t) : t[i] = y
  BY <1>1, ToSetMember
<1>. QED
  BY <1>1, <1>2, <1>3

LEMMA ToSetTail ==
  ASSUME NEW S, NEW s \in Seq(S), s # <<>>, NEW y
  PROVE  y \in ToSet(s) <=> y = Head(s) \/ y \in ToSet(Tail(s))
<1>1. /\ Len(s) \in Nat /\ Len(s) > 0 /\ Head(s) = s[1] /\ Tail(s) \in Seq(S)
      /\ Len(Tail(s)) = Len(s) - 1 /\ \A i \in 1 .. Len(s) - 1 : Tail(s)[i] = s[i + 1]
  OBVIOUS
<1>2. y \in ToSet(s) <=> \E i \in 1 .. Len(s) : s[i] = y
  BY ToSetMember
<1>3. y \in ToSet(Tail(s)) <=> \E i \in 1 .. Len(s) - 1 : Tail(s)[i] = y
  <2>1. PICK t \in Seq(S) : t = Tail(s)
    BY <1>1
  <2>2. y \in ToSet(t) <=> \E i \in 1 .. Len(t) : t[i] = y
    BY ToSetMember
  <2>3. Len(t) = Len(s) - 1
    BY <1>1, <2>1
  <2>. QED
    BY <2>1, <2>2, <2>3
<1>4. ASSUME NEW i \in 1 .. Len(s), s[i] = y, i # 1
      PROVE  \E j \in 1 .. Len(s) - 1 : Tail(s)[j] = y
  <2>1. i - 1 \in 1 .. Len(s) - 1 /\ Tail(s)[i - 1] = s[(i - 1) + 1] /\ (i - 1) + 1 = i
    BY <1>1, <1>4
  <2>. QED
    BY <1>4, <2>1
<1>5. ASSUME NEW i \in 1 .. Len(s) - 1, Tail(s)[i] = y
      PROVE  \E j \in 1 .. Len(s) : s[j] = y
  BY <1>1, <1>5
<1>6. y = Head(s) <=> s[1] = y
  BY <1>1
<1>7. 1 \in 1 .. Len(s)
  BY <1>1
<1>8. ASSUME y \in ToSet(s)
      PROVE  y = Head(s) \/ y \in ToSet(Tail(s))
  <2>1. PICK i \in 1 .. Len(s) : s[i] = y
    BY <1>2, <1>8
  <2>2. CASE i = 1
    BY <1>6, <2>1, <2>2
  <2>3. CASE i # 1
    BY <1>3, <1>4, <2>1, <2>3
  <2>. QED
    BY <2>2, <2>3
<1>9. y = Head(s) => y \in ToSet(s)
  BY <1>2, <1>6, <1>7
<1>10. y \in ToSet(Tail(s)) => y \in ToSet(s)
  BY <1>2, <1>3, <1>5
<1>. QED
  BY <1>8, <1>9, <1>10

\* A message that is not the first one of the pair, or is the second, keeps it.
LEMMA FollowedAppend ==
  ASSUME NEW S, NEW s \in Seq(S), NEW x \in S, NEW m, NEW n,
         x # m, Followed(s, m, n) \/ x = n
  PROVE  Followed(Append(s, x), m, n)
<1>. DEFINE t == Append(s, x)
<1>1. /\ Len(s) \in Nat /\ Len(t) = Len(s) + 1 /\ t[Len(s) + 1] = x
      /\ \A i \in 1 .. Len(s) : t[i] = s[i]
  OBVIOUS
<1>. SUFFICES ASSUME NEW i \in 1 .. Len(t), t[i] = m
              PROVE  \E j \in i + 1 .. Len(t) : t[j] = n
  BY DEF Followed
<1>2. i \in 1 .. Len(s) /\ s[i] = m
  BY <1>1
<1>3. CASE x = n
  BY <1>1, <1>2, <1>3
<1>4. CASE Followed(s, m, n)
  <2>1. PICK j \in i + 1 .. Len(s) : s[j] = n
    BY <1>2, <1>4 DEF Followed
  <2>. QED
    BY <1>1, <1>2, <2>1
<1>. QED
  BY <1>3, <1>4

LEMMA FollowedTail ==
  ASSUME NEW S, NEW s \in Seq(S), s # <<>>, NEW m, NEW n, Followed(s, m, n)
  PROVE  /\ Followed(Tail(s), m, n)
         /\ Head(s) = m => n \in ToSet(Tail(s))
<1>1. /\ Len(s) \in Nat /\ Len(s) > 0 /\ Head(s) = s[1]
      /\ Len(Tail(s)) = Len(s) - 1 /\ \A i \in 1 .. Len(s) - 1 : Tail(s)[i] = s[i + 1]
  OBVIOUS
<1>2. ASSUME NEW i \in 0 .. Len(s) - 1, s[i + 1] = m
      PROVE  \E j \in i + 1 .. Len(Tail(s)) : Tail(s)[j] = n
  <2>1. PICK j \in (i + 1) + 1 .. Len(s) : s[j] = n
    BY <1>1, <1>2 DEF Followed
  <2>2. j - 1 \in i + 1 .. Len(s) - 1 /\ j - 1 \in 1 .. Len(s) - 1 /\ (j - 1) + 1 = j
    BY <1>1, <2>1
  <2>. QED
    BY <1>1, <2>1, <2>2
<1>3. Followed(Tail(s), m, n)
  BY <1>1, <1>2 DEF Followed
<1>4. Head(s) = m => n \in ToSet(Tail(s))
  <2>1. SUFFICES ASSUME Head(s) = m
                 PROVE  n \in ToSet(Tail(s))
    OBVIOUS
  <2>2. PICK j \in 0 + 1 .. Len(Tail(s)) : Tail(s)[j] = n
    BY <1>1, <1>2, <2>1
  <2>3. Tail(s) \in Seq(S) /\ j \in 1 .. Len(Tail(s))
    BY <1>1
  <2>. QED
    BY <2>2, <2>3, ToSetMember
<1>. QED
  BY <1>3, <1>4

\* No two entries of the maps hold the same stream.
UniqueEntries ==
  \A s, u \in Sockets, k, m \in Keys :
    cancels[s][k] = cancels[u][m] /\ cancels[s][k] # None => s = u /\ k = m

\* Only a new call is put into a map.
LEMMA UniqueStep == TypeOK /\ UniqueEntries /\ [Next]_vars => UniqueEntries'
<1>. SUFFICES ASSUME TypeOK, UniqueEntries, [Next]_vars
              PROVE  UniqueEntries'
  OBVIOUS
<1>1. ASSUME NEW s \in Sockets, Disconnect(s)
      PROVE  UniqueEntries'
  <2>1. \A u \in Sockets, m \in Keys :
          cancels'[u][m] = IF u = s THEN None ELSE cancels[u][m]
    BY <1>1 DEF Disconnect, TypeOK
  <2>. QED
    BY <2>1 DEF UniqueEntries
<1>2. ASSUME NEW s \in Sockets, NEW k \in Keys, Unsubscribe(s, k)
      PROVE  UniqueEntries'
  <2>1. \A u \in Sockets, m \in Keys :
          cancels'[u][m] = IF u = s /\ m = k THEN None ELSE cancels[u][m]
    BY <1>2 DEF Unsubscribe, TypeOK
  <2>. QED
    BY <2>1 DEF UniqueEntries
<1>3. ASSUME NEW h \in Subscriptions, OpenStream(h)
      PROVE  UniqueEntries'
  <2>. DEFINE s == pending[h].socket
              k == pending[h].key
  <2>1. pending[h] \in Target
    BY <1>3 DEF OpenStream, TypeOK
  <2>2. s \in Sockets /\ k \in Keys
    BY <2>1 DEF Target
  <2>3. PICK i \in Streams :
          Fresh(i) /\ cancels' = [cancels EXCEPT ![s] = [cancels[s] EXCEPT ![k] = i]]
    BY <1>3 DEF OpenStream
  <2>4. \A u \in Sockets, m \in Keys :
          cancels'[u][m] = IF u = s /\ m = k THEN i ELSE cancels[u][m]
    BY <2>2, <2>3 DEF TypeOK
  <2>5. \A u \in Sockets, m \in Keys : cancels[u][m] # i
    BY <2>3 DEF Fresh
  <2>. QED
    BY <2>4, <2>5 DEF UniqueEntries
<1>4. CASE UNCHANGED cancels
  BY <1>4 DEF UniqueEntries
<1>. QED
  BY <1>1, <1>2, <1>3, <1>4 DEF Next, Connect, Subscribe, Denied, StreamEnds, vars

\* A stream that is canceled through an entry of a socket and key is theirs.
LEMMA EntryOfOwner ==
  ASSUME TypeOK, StreamsReachable, UniqueEntries,
         NEW s \in Sockets, NEW k \in Keys, NEW i \in Streams,
         cancels[s][k] = i, owner[i] # Nobody
  PROVE  owner[i] = To(s, k)
<1>1. owner[i] \in Target /\ cancels[owner[i].socket][owner[i].key] = i /\ i # None
  BY NoneAssumption DEF TypeOK, StreamsReachable
<1>2. owner[i].socket = s /\ owner[i].key = k
  BY <1>1 DEF UniqueEntries, Target
<1>. QED
  BY <1>1, <1>2 DEF Target, To

-----------------------------------------------------------------------------

Sub(k) == [type |-> "subscribe", key |-> k]
Unsub(k) == [type |-> "unsubscribe", key |-> k]

\* Of the messages of a client socket about a key, the last one tells whether the key's
\* panel is mounted on it.
LastWord ==
  \A c \in Clients, k \in Keys :
    IF panel[k] = c THEN Followed(out[c], Unsub(k), Sub(k))
                    ELSE Followed(out[c], Sub(k), Unsub(k))

LEMMA MessagesDiffer ==
  ASSUME NEW k \in Keys, NEW m \in Keys
  PROVE  /\ Sub(k) \in Message /\ Unsub(k) \in Message /\ [type |-> "send"] \in Message
         /\ Sub(k) # Unsub(m) /\ Sub(k) # [type |-> "send"] /\ Unsub(k) # [type |-> "send"]
         /\ k # m => Sub(k) # Sub(m) /\ Unsub(k) # Unsub(m)
<1>1. Sub(k).type = "subscribe" /\ Unsub(m).type = "unsubscribe" /\ Unsub(k).type = "unsubscribe"
      /\ [type |-> "send"].type = "send"
  BY DEF Sub, Unsub
<1>2. Sub(k).key = k /\ Sub(m).key = m /\ Unsub(k).key = k /\ Unsub(m).key = m
  BY DEF Sub, Unsub
<1>3. Sub(k) \in Message /\ Unsub(k) \in Message /\ [type |-> "send"] \in Message
  BY DEF Sub, Unsub, Message
<1>. QED
  BY <1>1, <1>2, <1>3

\* What a message is by its type.
LEMMA MessageByType ==
  ASSUME NEW x \in Message
  PROVE  /\ x.type = "subscribe" => x.key \in Keys /\ x = Sub(x.key)
         /\ x.type = "unsubscribe" => x.key \in Keys /\ x = Unsub(x.key)
BY DEF Message, Sub, Unsub

\* A message says what becomes of its panel, and of no other.
LEMMA LastWordEmit ==
  ASSUME PanelInv, LastWord,
         NEW c \in Clients, NEW x \in Message, Emit(c, x),
         \A k \in Keys :
           /\ panel'[k] # panel[k] => panel[k] \in {None, c} /\ panel'[k] \in {None, c}
           /\ panel'[k] = c => x # Unsub(k) /\ (panel[k] = c \/ x = Sub(k))
           /\ panel'[k] # c => x # Sub(k) /\ (panel[k] # c \/ x = Unsub(k))
  PROVE  LastWord'
<1>. SUFFICES ASSUME NEW d \in Clients, NEW k \in Keys
              PROVE  IF panel'[k] = d THEN Followed(out'[d], Unsub(k), Sub(k))
                                      ELSE Followed(out'[d], Sub(k), Unsub(k))
  BY DEF LastWord
<1>1. CASE d # c
  <2>1. out'[d] = out[d] /\ (panel'[k] = d <=> panel[k] = d)
    BY <1>1, ClientsAssumption DEF Emit, PanelInv
  <2>. QED
    BY <2>1 DEF LastWord
<1>2. CASE d = c
  <2>1. out'[c] = Append(out[c], x) /\ out[c] \in Seq(Message)
    BY DEF Emit, PanelInv
  <2>2. CASE panel'[k] = c
    <3>1. x # Unsub(k) /\ (Followed(out[c], Unsub(k), Sub(k)) \/ x = Sub(k))
      BY <2>2 DEF LastWord
    <3>. QED
      BY <1>2, <2>1, <2>2, <3>1, FollowedAppend
  <2>3. CASE panel'[k] # c
    <3>1. x # Sub(k) /\ (Followed(out[c], Sub(k), Unsub(k)) \/ x = Unsub(k))
      BY <2>3 DEF LastWord
    <3>. QED
      BY <1>2, <2>1, <2>3, <3>1, FollowedAppend
  <2>. QED
    BY <2>2, <2>3
<1>. QED
  BY <1>1, <1>2

\* Mounting and unmounting each emit their own message, in the order they happen in.
LEMMA LastWordStep ==
  PanelInv /\ LastWord /\ [PanelNext]_<<vars, panelVars>> => LastWord'
<1>. SUFFICES ASSUME PanelInv, LastWord, [PanelNext]_<<vars, panelVars>>
              PROVE  LastWord'
  OBVIOUS
<1>1. ASSUME NEW k \in Keys, Mount(k)
      PROVE  LastWord'
  <2>1. PICK c \in Clients : Emit(c, Sub(k)) /\ panel' = [panel EXCEPT ![k] = c]
    BY <1>1 DEF Mount, Sub
  <2>2. panel[k] = None /\ c # None
    BY <1>1, ClientsAssumption DEF Mount
  <2>3. \A j \in Keys : panel'[j] = IF j = k THEN c ELSE panel[j]
    BY <2>1 DEF PanelInv
  <2>4. \A j \in Keys : Sub(k) # Unsub(j) /\ (j # k => Sub(k) # Sub(j))
    BY MessagesDiffer
  <2>5. Sub(k) \in Message
    BY MessagesDiffer
  <2>. QED
    BY <2>1, <2>2, <2>3, <2>4, <2>5, LastWordEmit
<1>2. ASSUME NEW k \in Keys, Unmount(k)
      PROVE  LastWord'
  <2>. DEFINE c == panel[k]
  <2>1. c \in Clients /\ c # None /\ Emit(c, Unsub(k)) /\ panel' = [panel EXCEPT ![k] = None]
    BY <1>2 DEF Unmount, Unsub, PanelInv
  <2>3. \A j \in Keys : panel'[j] = IF j = k THEN None ELSE panel[j]
    BY <2>1 DEF PanelInv
  <2>4. \A j \in Keys : Unsub(k) # Sub(j) /\ (j # k => Unsub(k) # Unsub(j))
    BY MessagesDiffer
  <2>5. Unsub(k) \in Message
    BY MessagesDiffer
  <2>. QED
    BY <2>1, <2>3, <2>4, <2>5, LastWordEmit
<1>3. CASE SendCommand
  <2>1. PICK c \in Clients : Emit(c, [type |-> "send"])
    BY <1>3 DEF SendCommand
  <2>2. panel' = panel
    BY <1>3 DEF SendCommand
  <2>3. \A j \in Keys : [type |-> "send"] # Sub(j) /\ [type |-> "send"] # Unsub(j)
    BY MessagesDiffer
  <2>4. [type |-> "send"] \in Message
    BY DEF Message
  <2>. QED
    BY <2>1, <2>2, <2>3, <2>4, LastWordEmit
<1>4. ASSUME NEW c \in Clients, Dropped(c)
      PROVE  LastWord'
  <2>1. \A d \in Clients : out'[d] = IF d = c THEN <<>> ELSE out[d]
    BY <1>4 DEF Dropped, PanelInv
  <2>2. \A m, n : Followed(<<>>, m, n)
    BY DEF Followed
  <2>3. panel' = panel
    BY <1>4 DEF Dropped
  <2>. QED
    BY <2>1, <2>2, <2>3 DEF LastWord
<1>5. ASSUME NEW c \in Clients, Handle(c)
      PROVE  LastWord'
  <2>1. \A d \in Clients : out'[d] = IF d = c THEN Tail(out[c]) ELSE out[d]
    BY <1>5 DEF Handle, PanelInv
  <2>2. out[c] \in Seq(Message) /\ out[c] # <<>> /\ panel' = panel
    BY <1>5 DEF Handle, PanelInv
  <2>3. \A m, n : Followed(out[c], m, n) => Followed(Tail(out[c]), m, n)
    BY <2>2, FollowedTail
  <2>. QED
    BY <2>1, <2>2, <2>3 DEF LastWord
<1>6. CASE UNCHANGED <<panel, out>>
  BY <1>6 DEF LastWord
<1>. QED
  BY <1>1, <1>2, <1>3, <1>4, <1>5, <1>6
     DEF PanelNext, ServerDetailPage, Linked, Refused, Closed, Opened, Refuses, Ends,
         panelVars

-----------------------------------------------------------------------------
(* A mounted panel is heard.                                                *)

\* What keeps the panel of k from being silent on the socket c.
Heard(c, k) ==
  \/ OnTheWay(c, "subscribe", k)
  \/ \E h \in Subscriptions : pending[h] = To(link[c], k)
  \/ \E i \in Streams : owner[i] = To(link[c], k)

\* A target is not Nobody.
LEMMA TargetSomebody ==
  ASSUME NEW s, NEW k \in Keys
  PROVE  /\ To(s, k) # Nobody /\ To(s, k).socket = s /\ To(s, k).key = k
         /\ \A u, m : To(s, k) = To(u, m) => s = u /\ k = m
<1>1. To(s, k).socket = s /\ To(s, k).key = k /\ Nobody.key = None
  BY DEF To, Nobody
<1>2. \A u, m : To(u, m).socket = u /\ To(u, m).key = m
  BY DEF To
<1>. QED
  BY <1>1, <1>2, NoneAssumption

LEMMA TargetFields ==
  ASSUME NEW t \in Target
  PROVE  t.socket \in Sockets /\ t.key \in Keys /\ t = To(t.socket, t.key) /\ t # Nobody
BY NoneAssumption DEF Target, To, Nobody

\* A message put behind the others leaves them there.
LEMMA EmitWay ==
  ASSUME PanelInv, NEW c \in Clients, NEW x \in Message, Emit(c, x),
         NEW d \in Clients, NEW type, NEW k
  PROVE  OnTheWay(d, type, k)' <=>
           OnTheWay(d, type, k) \/ (d = c /\ x = [type |-> type, key |-> k])
<1>1. out[c] \in Seq(Message) /\ out' = [out EXCEPT ![c] = Append(out[c], x)]
  BY DEF Emit, PanelInv
<1>2. CASE d # c
  BY <1>1, <1>2 DEF OnTheWay, PanelInv
<1>3. CASE d = c
  <2>1. out'[d] = Append(out[c], x)
    BY <1>1, <1>3 DEF PanelInv
  <2>. QED
    BY <1>1, <1>3, <2>1, ToSetAppend DEF OnTheWay
<1>. QED
  BY <1>2, <1>3

\* Handling a message takes it, and no other, from the way.
LEMMA HandleWay ==
  ASSUME PanelInv, NEW c \in Clients, Handle(c), NEW d \in Clients, NEW type, NEW k
  PROVE  /\ d # c => (OnTheWay(d, type, k)' <=> OnTheWay(d, type, k))
         /\ OnTheWay(c, type, k) <=>
              Head(out[c]) = [type |-> type, key |-> k] \/ OnTheWay(c, type, k)'
<1>1. /\ out[c] \in Seq(Message) /\ out[c] # <<>>
      /\ \A e \in Clients : out'[e] = IF e = c THEN Tail(out[c]) ELSE out[e]
  BY DEF Handle, PanelInv
<1>. QED
  BY <1>1, ToSetTail DEF OnTheWay

\* A step that only emits keeps a panel heard.
LEMMA EmitHeard ==
  ASSUME PanelInv, NEW c \in Clients, NEW x \in Message, Emit(c, x),
         UNCHANGED <<owner, pending, link>>,
         NEW d \in Clients, NEW k \in Keys, Heard(d, k)
  PROVE  Heard(d, k)'
<1>1. OnTheWay(d, "subscribe", k) => OnTheWay(d, "subscribe", k)'
  BY EmitWay
<1>. QED
  BY <1>1 DEF Heard

\* What each step does to a panel that is mounted and heard.
LEMMA SilenceStep ==
  ASSUME TypeOK, StreamsReachable, PanelInv, UniqueEntries, LastWord, SilenceExplained,
         [PanelNext]_<<vars, panelVars>>
  PROVE  SilenceExplained'
<1>heard. \A k \in Keys : panel[k] # None /\ k \notin excused =>
            panel[k] \in Clients /\ Heard(panel[k], k)
  BY DEF SilenceExplained, Heard, PanelInv
<1>. SUFFICES ASSUME NEW k \in Keys, panel'[k] # None, k \notin excused'
              PROVE  Heard(panel[k], k)'
  BY DEF SilenceExplained, Heard
<1>1. ASSUME NEW j \in Keys, Mount(j)
      PROVE  Heard(panel[k], k)'
  <2>1. PICK c \in Clients : Emit(c, Sub(j)) /\ panel' = [panel EXCEPT ![j] = c]
    BY <1>1 DEF Mount, Sub
  <2>2. Sub(j) \in Message /\ UNCHANGED <<owner, pending, link>> /\ excused' = excused \ {j}
    BY <1>1, MessagesDiffer DEF Mount, vars
  <2>3. CASE k = j
    <3>1. panel'[k] = c
      BY <2>1, <2>3 DEF PanelInv
    <3>2. OnTheWay(c, "subscribe", k)'
      BY <2>1, <2>2, <2>3, EmitWay DEF Sub
    <3>. QED
      BY <3>1, <3>2 DEF Heard
  <2>4. CASE k # j
    <3>1. panel'[k] = panel[k] /\ k \notin excused
      BY <2>1, <2>2, <2>4 DEF PanelInv
    <3>2. panel[k] \in Clients /\ Heard(panel[k], k)
      BY <1>heard, <3>1
    <3>3. \A d \in Clients : Heard(d, k) => Heard(d, k)'
      BY <2>1, <2>2, EmitHeard
    <3>. QED
      BY <3>1, <3>2, <3>3 DEF Heard, OnTheWay
  <2>. QED
    BY <2>3, <2>4
<1>2. ASSUME NEW j \in Keys, Unmount(j)
      PROVE  Heard(panel[k], k)'
  <2>1. panel[j] \in Clients /\ Emit(panel[j], Unsub(j)) /\ panel' = [panel EXCEPT ![j] = None]
    BY <1>2 DEF Unmount, Unsub, PanelInv
  <2>2. Unsub(j) \in Message /\ UNCHANGED <<owner, pending, link, excused>>
    BY <1>2, MessagesDiffer DEF Unmount, vars
  <2>3. k # j /\ panel'[k] = panel[k]
    BY <2>1 DEF PanelInv
  <2>4. panel[k] \in Clients /\ Heard(panel[k], k)
    BY <1>heard, <2>2, <2>3
  <2>5. \A d \in Clients : Heard(d, k) => Heard(d, k)'
    BY <2>1, <2>2, EmitHeard
  <2>. QED
    BY <2>3, <2>4, <2>5 DEF Heard, OnTheWay
<1>3. CASE SendCommand
  <2>1. PICK c \in Clients : Emit(c, [type |-> "send"])
    BY <1>3 DEF SendCommand
  <2>2. [type |-> "send"] \in Message /\ UNCHANGED <<owner, pending, link, excused, panel>>
    BY <1>3 DEF SendCommand, vars, Message
  <2>3. panel[k] \in Clients /\ Heard(panel[k], k)
    BY <1>heard, <2>2
  <2>4. \A d \in Clients : Heard(d, k) => Heard(d, k)'
    BY <2>1, <2>2, EmitHeard
  <2>. QED
    BY <2>2, <2>3, <2>4 DEF Heard, OnTheWay
<1>4. ASSUME UNCHANGED <<panel, out, excused, pending, owner>>,
             \A d \in Clients : link[d] # None => link'[d] = link[d]
      PROVE  Heard(panel[k], k)'
  <2>1. panel[k] \in Clients /\ Heard(panel[k], k)
    BY <1>heard, <1>4
  <2>2. link[panel[k]] = None => OnTheWay(panel[k], "subscribe", k)
    <3>1. ASSUME NEW t \in Target \cup {Nobody}
          PROVE  t # To(None, k)
      BY TargetFields, TargetSomebody, NoneAssumption DEF Nobody
    <3>. QED
      BY <2>1, <3>1 DEF Heard, TypeOK
  <2>. QED
    BY <1>4, <2>1, <2>2 DEF Heard, OnTheWay
<1>5. ASSUME NEW c \in Clients, Linked(c)
      PROVE  Heard(panel[k], k)'
  BY <1>4, <1>5 DEF Linked, Connect, PanelInv
<1>6. ASSUME NEW c \in Clients, Refused(c)
      PROVE  Heard(panel[k], k)'
  BY <1>6, <1>heard DEF Refused, vars, Heard, OnTheWay
<1>7. ASSUME NEW c \in Clients, Dropped(c)
      PROVE  Heard(panel[k], k)'
  <2>1. panel[k] \in Clients /\ Heard(panel[k], k) /\ panel[k] # c
    BY <1>7, <1>heard DEF Dropped, Listening
  <2>2. out'[panel[k]] = out[panel[k]] /\ link'[panel[k]] = link[panel[k]]
    BY <1>7, <2>1 DEF Dropped, PanelInv
  <2>. QED
    BY <1>7, <2>1, <2>2 DEF Dropped, vars, Heard, OnTheWay
<1>8. ASSUME NEW s \in Sockets, Closed(s)
      PROVE  Heard(panel[k], k)'
  <2>1. panel[k] \in Clients /\ Heard(panel[k], k)
    BY <1>8, <1>heard DEF Closed
  <2>2. ASSUME NEW i \in Streams, owner[i] = To(link[panel[k]], k)
        PROVE  owner'[i] = owner[i]
    <3>1. owner[i] # Nobody
      BY <2>2, TargetSomebody
    <3>2. link[panel[k]] # s
      BY <1>8, <2>1 DEF Closed
    <3>3. \A m \in Keys : cancels[s][m] # i
      BY <2>2, <3>1, <3>2, EntryOfOwner, TargetSomebody
    <3>. QED
      BY <1>8, <3>3 DEF Closed, Disconnect
  <2>. QED
    BY <1>8, <2>1, <2>2 DEF Closed, Disconnect, Heard, OnTheWay
<1>9. ASSUME NEW c \in Clients, Handle(c)
      PROVE  Heard(panel[k], k)'
  <2>. DEFINE d == panel[k]
              x == Head(out[c])
  <2>1. UNCHANGED <<panel, link, excused>>
    BY <1>9 DEF Handle
  <2>2. d \in Clients /\ Heard(d, k)
    BY <1>heard, <2>1
  <2>3. /\ out[c] \in Seq(Message) /\ out[c] # <<>> /\ x \in Message
        /\ link[c] \in Sockets /\ out'[c] = Tail(out[c])
    BY <1>9 DEF Handle, PanelInv
  <2>4. CASE OnTheWay(d, "subscribe", k)
    <3>1. CASE OnTheWay(d, "subscribe", k)'
      BY <3>1, <2>1 DEF Heard, OnTheWay
    <3>2. CASE ~OnTheWay(d, "subscribe", k)'
      <4>1. d = c /\ x = Sub(k)
        BY <1>9, <2>1, <2>2, <2>4, <3>2, HandleWay DEF Sub
      <4>2. x.type = "subscribe" /\ x.key = k
        BY <4>1 DEF Sub
      <4>3. PICK h \in Subscriptions : Subscribe(h, link[c], k)
        BY <1>9, <4>2 DEF Handle, Subscribes, Unsubscribes, Sends
      <4>4. pending'[h] = To(link'[d], k)
        BY <2>1, <4>1, <4>3 DEF Subscribe, TypeOK
      <4>. QED
        BY <2>1, <4>4 DEF Heard
    <3>. QED
      BY <3>1, <3>2
  <2>5. ASSUME NEW h \in Subscriptions, pending[h] = To(link[d], k)
        PROVE  Heard(panel[k], k)'
    <3>1. pending[h] # Nobody
      BY <2>5, TargetSomebody
    <3>2. pending'[h] = pending[h]
      BY <1>9, <3>1
         DEF Handle, Subscribes, Subscribe, Unsubscribes, Unsubscribe, Sends, vars,
             TypeOK
    <3>. QED
      BY <2>1, <2>5, <3>2 DEF Heard
  <2>6. ASSUME NEW i \in Streams, owner[i] = To(link[d], k)
        PROVE  Heard(panel[k], k)'
    <3>1. CASE owner'[i] = owner[i]
      BY <2>1, <2>6, <3>1 DEF Heard
    <3>2. CASE owner'[i] # owner[i]
      <4>1. x.type = "unsubscribe" /\ Unsubscribe(link[c], x.key)
        BY <1>9, <3>2 DEF Handle, Subscribes, Subscribe, Unsubscribes, Sends, vars
      <4>2. cancels[link[c]][x.key] = i
        BY <3>2, <4>1 DEF Unsubscribe
      <4>3. x.key \in Keys /\ x = Unsub(x.key)
        BY <2>3, <4>1, MessageByType
      <4>4. owner[i] # Nobody
        BY <2>6, TargetSomebody
      <4>5. owner[i] = To(link[c], x.key)
        BY <2>3, <4>2, <4>3, <4>4, EntryOfOwner
      <4>6. link[d] = link[c] /\ k = x.key
        <5>1. To(link[d], k) = To(link[c], x.key)
          BY <2>6, <4>5
        <5>. QED
          BY <5>1, TargetSomebody
      <4>7. d = c
        BY <2>2, <2>3, <4>6, NoneAssumption DEF PanelInv
      <4>8. Followed(out[c], Unsub(k), Sub(k))
        BY <4>7 DEF LastWord
      <4>9. Sub(k) \in ToSet(Tail(out[c]))
        BY <2>3, <4>3, <4>6, <4>8, FollowedTail
      <4>. QED
        BY <2>1, <2>3, <4>7, <4>9 DEF Heard, OnTheWay, Sub
    <3>. QED
      BY <3>1, <3>2
  <2>. QED
    BY <2>2, <2>4, <2>5, <2>6 DEF Heard
<1>10. ASSUME NEW g \in Subscriptions, Opened(g)
      PROVE  Heard(panel[k], k)'
  <2>. DEFINE d == panel[k]
              s == pending[g].socket
              j == pending[g].key
  <2>1. UNCHANGED panelVars /\ d \in Clients /\ Heard(d, k)
    BY <1>10, <1>heard DEF Opened, panelVars
  <2>2. pending[g] \in Target
    BY <1>10 DEF Opened, OpenStream, TypeOK
  <2>3. s \in Sockets /\ j \in Keys /\ pending[g] = To(s, j)
    BY <2>2, TargetFields
  <2>4. PICK i \in Streams :
          /\ Fresh(i)
          /\ owner' = [e \in Streams |-> IF e = i THEN To(s, j)
                                         ELSE IF e = cancels[s][j] THEN Nobody ELSE owner[e]]
    BY <1>10 DEF Opened, OpenStream
  <2>5. pending' = [pending EXCEPT ![g] = Nobody]
    BY <1>10 DEF Opened, OpenStream
  <2>6. CASE To(s, j) = To(link[d], k)
    <3>1. owner'[i] = To(link'[d], k)
      BY <2>1, <2>4, <2>6 DEF panelVars
    <3>. QED
      BY <2>1, <3>1 DEF Heard, panelVars
  <2>7. CASE To(s, j) # To(link[d], k)
    <3>1. \A h \in Subscriptions : pending[h] = To(link[d], k) => pending'[h] = pending[h]
      BY <2>3, <2>5, <2>7 DEF TypeOK
    <3>2. ASSUME NEW e \in Streams, owner[e] = To(link[d], k)
          PROVE  owner'[e] = owner[e]
      <4>1. owner[e] # Nobody
        BY <3>2, TargetSomebody
      <4>2. e # i
        BY <2>4, <4>1 DEF Fresh
      <4>3. e # cancels[s][j]
        BY <2>3, <2>7, <3>2, <4>1, EntryOfOwner
      <4>. QED
        BY <2>4, <4>2, <4>3
    <3>. QED
      BY <2>1, <3>1, <3>2 DEF Heard, OnTheWay, panelVars
  <2>. QED
    BY <2>6, <2>7
<1>11. ASSUME NEW g \in Subscriptions, Refuses(g)
      PROVE  Heard(panel[k], k)'
  <2>1. UNCHANGED <<out, panel, link, owner>> /\ k \notin excused
    BY <1>11 DEF Refuses, Denied
  <2>2. panel[k] \in Clients /\ Heard(panel[k], k)
    BY <2>1, <1>heard
  <2>3. ASSUME NEW h \in Subscriptions, pending[h] = To(link[panel[k]], k)
        PROVE  pending'[h] = pending[h]
    <3>1. h # g
      <4>1. SUFFICES ASSUME h = g
                     PROVE  FALSE
        OBVIOUS
      <4>2. pending[g].socket = link[panel[k]] /\ pending[g].key = k
        BY <2>3, <4>1, TargetSomebody
      <4>. QED
        BY <1>11, <2>1, <4>2 DEF Refuses, Listening
    <3>. QED
      BY <1>11, <3>1 DEF Refuses, Denied, TypeOK
  <2>. QED
    BY <2>1, <2>2, <2>3 DEF Heard, OnTheWay
<1>12. ASSUME NEW i \in Streams, Ends(i)
      PROVE  Heard(panel[k], k)'
  <2>1. UNCHANGED <<out, panel, link, pending>> /\ k \notin excused
    BY <1>12 DEF Ends, StreamEnds
  <2>2. panel[k] \in Clients /\ Heard(panel[k], k)
    BY <2>1, <1>heard
  <2>3. ASSUME NEW e \in Streams, owner[e] = To(link[panel[k]], k)
        PROVE  owner'[e] = owner[e]
    <3>1. e # i
      <4>1. SUFFICES ASSUME e = i
                     PROVE  FALSE
        OBVIOUS
      <4>2. owner[i].socket = link[panel[k]] /\ owner[i].key = k
        BY <2>3, <4>1, TargetSomebody
      <4>. QED
        BY <1>12, <2>1, <4>2 DEF Ends, Listening
    <3>. QED
      BY <1>12, <3>1 DEF Ends, StreamEnds, TypeOK
  <2>. QED
    BY <2>1, <2>2, <2>3 DEF Heard, OnTheWay
<1>13. CASE UNCHANGED <<vars, panelVars>>
  BY <1>13, <1>heard DEF vars, panelVars, Heard, OnTheWay
<1>. QED
  BY <1>1, <1>2, <1>3, <1>5, <1>6, <1>7, <1>8, <1>9, <1>10, <1>11, <1>12, <1>13
     DEF PanelNext, ServerDetailPage

\* However quickly panels are mounted, unmounted and mounted again, and however their
\* messages, the access checks and the connections interleave: a mounted panel gets its
\* lines or is about to, unless its subscription was cut off, refused or ended.
THEOREM SilenceCorrect == PanelSpec => []SilenceExplained
<1>. DEFINE Inv == GatewayInv /\ PanelInv /\ UniqueEntries /\ LastWord /\ SilenceExplained
<1>1. PanelInit => Inv
  <2>1. PanelInit => LastWord
    BY ClientsAssumption DEF PanelInit, LastWord, Followed
  <2>2. PanelInit => UniqueEntries /\ SilenceExplained
    BY DEF PanelInit, Init, UniqueEntries, SilenceExplained
  <2>. QED
    BY <2>1, <2>2, InitGateway, InitPanel DEF PanelInit
<1>2. Inv /\ [PanelNext]_<<vars, panelVars>> => Inv'
  BY PanelStepIsGatewayStep, NextGateway, NextPanel, UniqueStep, LastWordStep, SilenceStep
     DEF GatewayInv
<1>. QED
  BY <1>1, <1>2, PTL DEF PanelSpec

-----------------------------------------------------------------------------
(* A stream that nobody looks at is attended to.                            *)

\* Somebody listens on the target's socket, or its unsubscription or the end of its socket
\* raced with it, or the gateway has yet to handle the unsubscription or that end.
Attended(t) ==
  \/ t.key \in Listening(t.socket)
  \/ t \in raced
  \/ /\ conn[t.socket] = "open"
     /\ \A c \in Clients : link[c] = t.socket => OnTheWay(c, "unsubscribe", t.key)

\* What the gateway serves, and what it is about to, is attended; a connection it was
\* asked on was made.
AllAttended ==
  /\ \A h \in Subscriptions : pending[h] # Nobody =>
       conn[pending[h].socket] # "new" /\ Attended(pending[h])
  /\ \A i \in Streams : owner[i] # Nobody =>
       conn[owner[i].socket] # "new" /\ Attended(owner[i])

\* The handling of an unsubscription of t.
UnsubscribesFrom(t) ==
  \E c \in Clients : /\ Handle(c) /\ Unsubscribes(c)
                     /\ link[c] = t.socket /\ Head(out[c]).key = t.key

\* The gateway ends what the target has.
EndsFor(t) == UnsubscribesFrom(t) \/ Closed(t.socket)

\* A step that only emits leaves a connected target attended.
LEMMA EmitAttended ==
  ASSUME PanelInv, NEW c \in Clients, NEW x \in Message, Emit(c, x),
         UNCHANGED <<link, raced, conn>>, NEW t \in Target,
         t.key \in Listening(t.socket) => t.key \in Listening(t.socket)', Attended(t)
  PROVE  Attended(t)'
<1>1. \A d \in Clients : OnTheWay(d, "unsubscribe", t.key) => OnTheWay(d, "unsubscribe", t.key)'
  BY EmitWay
<1>. QED
  BY <1>1 DEF Attended

\* Each step but the handling of its unsubscription and of the end of its socket leaves a
\* target attended.
LEMMA AttendedStep ==
  ASSUME TypeOK, PanelInv, [PanelNext]_<<vars, panelVars>>,
         NEW t \in Target, conn[t.socket] # "new", Attended(t), ~EndsFor(t)
  PROVE  Attended(t)'
<1>. DEFINE s == t.socket
            k == t.key
<1>t. s \in Sockets /\ k \in Keys /\ s # None
  BY TargetFields, NoneAssumption
<1>1. ASSUME NEW j \in Keys, Mount(j)
      PROVE  Attended(t)'
  <2>1. PICK c \in Clients : Emit(c, Sub(j)) /\ panel' = [panel EXCEPT ![j] = c]
    BY <1>1 DEF Mount, Sub
  <2>2. Sub(j) \in Message /\ UNCHANGED <<link, raced, conn>> /\ panel[j] = None
    BY <1>1, MessagesDiffer DEF Mount, vars
  <2>3. k \in Listening(s) => k \in Listening(s)'
    BY <2>1, <2>2 DEF Listening, PanelInv
  <2>. QED
    BY <2>1, <2>2, <2>3, EmitAttended
<1>2. ASSUME NEW j \in Keys, Unmount(j)
      PROVE  Attended(t)'
  <2>1. PICK c \in Clients : /\ c = panel[j] /\ Emit(c, Unsub(j))
                             /\ panel' = [panel EXCEPT ![j] = None]
    BY <1>2 DEF Unmount, Unsub, PanelInv
  <2>2. Unsub(j) \in Message /\ UNCHANGED <<link, raced, conn>>
    BY <1>2, MessagesDiffer DEF Unmount, vars
  <2>3. CASE k \in Listening(s) => k \in Listening(s)'
    BY <2>1, <2>2, <2>3, EmitAttended
  <2>4. CASE k \in Listening(s) /\ k \notin Listening(s)'
    <3>1. j = k /\ link[c] = s
      BY <2>1, <2>2, <2>4 DEF Listening, PanelInv
    <3>2. \A d \in Clients : link'[d] = s => d = c
      BY <1>t, <2>2, <3>1 DEF PanelInv
    <3>3. OnTheWay(c, "unsubscribe", k)'
      BY <2>1, <2>2, <3>1, EmitWay DEF Unsub
    <3>4. conn'[s] = "open"
      BY <1>t, <2>2, <3>1 DEF PanelInv
    <3>. QED
      BY <3>2, <3>3, <3>4 DEF Attended
  <2>. QED
    BY <2>3, <2>4
<1>3. CASE SendCommand
  <2>1. PICK c \in Clients : Emit(c, [type |-> "send"])
    BY <1>3 DEF SendCommand
  <2>2. [type |-> "send"] \in Message /\ UNCHANGED <<link, raced, panel, conn>>
    BY <1>3 DEF SendCommand, Message, vars
  <2>3. k \in Listening(s) => k \in Listening(s)'
    BY <2>2 DEF Listening
  <2>. QED
    BY <2>1, <2>2, <2>3, EmitAttended
<1>4. ASSUME NEW c \in Clients, Linked(c)
      PROVE  Attended(t)'
  <2>1. PICK u \in Sockets : conn[u] = "new" /\ link' = [link EXCEPT ![c] = u]
    BY <1>4 DEF Linked, Connect
  <2>2. UNCHANGED <<out, panel, raced>> /\ link[c] = None /\ u # s /\ conn'[s] = conn[s]
    BY <1>t, <1>4, <2>1 DEF Linked, Connect, TypeOK
  <2>3. k \in Listening(s) => k \in Listening(s)'
    BY <1>t, <2>1, <2>2 DEF Listening, PanelInv
  <2>4. \A d \in Clients : link'[d] = s => link[d] = s
    BY <2>1, <2>2 DEF PanelInv
  <2>. QED
    BY <2>2, <2>3, <2>4 DEF Attended, OnTheWay
<1>5. ASSUME NEW c \in Clients, Refused(c)
      PROVE  Attended(t)'
  BY <1>5 DEF Refused, vars, Attended, Listening, OnTheWay
<1>6. ASSUME NEW c \in Clients, Dropped(c)
      PROVE  Attended(t)'
  <2>1. /\ UNCHANGED <<panel, raced, conn>> /\ link' = [link EXCEPT ![c] = None]
        /\ out' = [out EXCEPT ![c] = <<>>]
    BY <1>6 DEF Dropped, vars
  <2>2. \A d \in Clients : link'[d] = s => d # c /\ link[d] = s /\ out'[d] = out[d]
    BY <1>t, <2>1 DEF PanelInv
  <2>3. CASE k \in Listening(s)
    <3>1. PICK d \in Clients : d = panel[k] /\ link[d] = s
      BY <1>t, <2>3 DEF Listening, PanelInv
    <3>2. d = c => \A e \in Clients : link'[e] # s
      BY <1>t, <2>2, <3>1 DEF PanelInv
    <3>3. d # c => k \in Listening(s)'
      BY <1>t, <2>1, <3>1, ClientsAssumption DEF Listening, PanelInv
    <3>4. conn'[s] = "open"
      BY <1>t, <2>1, <3>1 DEF PanelInv
    <3>. QED
      BY <3>2, <3>3, <3>4 DEF Attended
  <2>4. CASE k \notin Listening(s)
    BY <2>1, <2>2, <2>4 DEF Attended, OnTheWay
  <2>. QED
    BY <2>3, <2>4
<1>7. ASSUME NEW c \in Clients, Handle(c)
      PROVE  Attended(t)'
  <2>1. UNCHANGED <<panel, link>> /\ out[c] \in Seq(Message) /\ out[c] # <<>>
        /\ raced \subseteq raced' /\ conn' = conn
    BY <1>7 DEF Handle, Subscribes, Subscribe, Unsubscribes, Unsubscribe, Sends, PanelInv, vars
  <2>2. k \in Listening(s) => k \in Listening(s)'
    BY <2>1 DEF Listening
  <2>3. ASSUME NEW d \in Clients, link[d] = s, OnTheWay(d, "unsubscribe", k)
        PROVE  OnTheWay(d, "unsubscribe", k)'
    <3>1. CASE d # c
      BY <1>7, <2>3, <3>1, HandleWay
    <3>2. CASE d = c
      <4>1. Head(out[c]) # Unsub(k)
        <5>1. SUFFICES ASSUME Head(out[c]).type = "unsubscribe", Head(out[c]).key = k
                       PROVE  FALSE
          BY DEF Unsub
        <5>2. Unsubscribes(c)
          BY <1>7, <5>1 DEF Handle, Subscribes, Sends
        <5>. QED
          BY <1>7, <2>3, <3>2, <5>1, <5>2 DEF EndsFor, UnsubscribesFrom
      <4>. QED
        BY <1>7, <2>3, <3>2, <4>1, HandleWay DEF Unsub
    <3>. QED
      BY <3>1, <3>2
  <2>. QED
    BY <2>1, <2>2, <2>3 DEF Attended
<1>8. ASSUME NEW u \in Sockets, Closed(u)
      PROVE  Attended(t)'
  <2>1. UNCHANGED <<link, out, panel>> /\ raced \subseteq raced' /\ u # s /\ conn'[s] = conn[s]
    BY <1>t, <1>8 DEF Closed, Disconnect, EndsFor, TypeOK
  <2>. QED
    BY <2>1 DEF Attended, Listening, OnTheWay
<1>9. CASE UNCHANGED <<conn, link, out, panel, raced>>
  BY <1>9 DEF Attended, Listening, OnTheWay
<1>. QED
  BY <1>1, <1>2, <1>3, <1>4, <1>5, <1>6, <1>7, <1>8, <1>9
     DEF PanelNext, ServerDetailPage, Opened, OpenStream, Refuses, Denied, Ends, StreamEnds,
         panelVars, vars

\* The handling of an unsubscription cancels what its target has, and keeps the
\* subscriptions that it raced with.
LEMMA UnsubscribedTarget ==
  ASSUME TypeOK, StreamsReachable, PanelInv, NEW t \in Target, UnsubscribesFrom(t)
  PROVE  /\ \A i \in Streams : owner'[i] # t
         /\ UNCHANGED <<conn, pending>>
         /\ t \notin raced' => \A h \in Subscriptions : pending[h] # t
<1>1. t = To(t.socket, t.key) /\ t # Nobody
  BY TargetFields
<1>2. PICK c \in Clients : /\ Unsubscribe(t.socket, t.key)
                           /\ raced' = raced \union {pending[h] : h \in {g \in Subscriptions : pending[g] = t}}
  BY <1>1 DEF UnsubscribesFrom, Unsubscribes
<1>3. ASSUME NEW i \in Streams, owner'[i] = t
      PROVE  FALSE
  <2>1. owner[i] = t /\ i # cancels[t.socket][t.key]
    BY <1>1, <1>2, <1>3 DEF Unsubscribe
  <2>. QED
    BY <1>1, <2>1 DEF StreamsReachable
<1>. QED
  BY <1>2, <1>3 DEF Unsubscribe

\* A subscription that is handled is its panel's, or its unsubscription comes next.
LEMMA SubscribedTarget ==
  ASSUME TypeOK, PanelInv, LastWord, NEW c \in Clients, Handle(c), Subscribes(c),
         NEW t, t = To(link[c], Head(out[c]).key)
  PROVE  t \in Target /\ conn[t.socket] = "open" /\ Attended(t)'
<1>. DEFINE s == t.socket
            k == t.key
<1>1. /\ out[c] \in Seq(Message) /\ out[c] # <<>> /\ Head(out[c]) \in Message
      /\ link[c] \in Sockets /\ conn[link[c]] = "open"
      /\ UNCHANGED <<panel, link>> /\ out'[c] = Tail(out[c])
  BY NoneAssumption DEF Handle, PanelInv
<1>2. s = link[c] /\ k \in Keys /\ Head(out[c]) = Sub(k)
  BY <1>1, MessageByType DEF Subscribes, To
<1>3. t \in Target /\ conn[s] = "open"
  BY <1>1, <1>2 DEF To, Target
<1>4. CASE panel[k] = c
  <2>1. k \in Listening(s)'
    BY <1>1, <1>2, <1>4, ClientsAssumption DEF Listening
  <2>. QED
    BY <1>3, <2>1 DEF Attended
<1>5. CASE panel[k] # c
  <2>1. OnTheWay(c, "unsubscribe", k)'
    BY <1>1, <1>2, <1>5, FollowedTail DEF LastWord, OnTheWay, Unsub
  <2>2. \A d \in Clients : link'[d] = s => d = c
    BY <1>1, <1>2, NoneAssumption DEF PanelInv
  <2>3. conn' = conn
    BY DEF Subscribes, Subscribe
  <2>. QED
    BY <1>3, <2>1, <2>2, <2>3 DEF Attended
<1>. QED
  BY <1>4, <1>5

\* So does the end of its socket.
LEMMA ClosedTarget ==
  ASSUME TypeOK, StreamsReachable, PanelInv, NEW t \in Target, Closed(t.socket)
  PROVE  /\ \A i \in Streams : owner'[i] # t
         /\ pending' = pending
         /\ t \notin raced' => \A h \in Subscriptions : pending[h] # t
<1>1. t.socket \in Sockets /\ t.key \in Keys /\ t # Nobody
  BY TargetFields
<1>2. ASSUME NEW i \in Streams, owner'[i] = t
      PROVE  FALSE
  <2>1. owner[i] = t /\ \A k \in Keys : i # cancels[t.socket][k]
    BY <1>1, <1>2 DEF Closed, Disconnect
  <2>. QED
    BY <1>1, <2>1 DEF StreamsReachable
<1>. QED
  BY <1>2 DEF Closed, Disconnect

\* Every step leaves the gateway's targets attended, and makes none that is not.
LEMMA AllAttendedStep ==
  ASSUME TypeOK, StreamsReachable, PanelInv, LastWord, AllAttended,
         [PanelNext]_<<vars, panelVars>>
  PROVE  AllAttended'
<1>old. ASSUME NEW t \in Target, conn[t.socket] # "new", Attended(t)
        PROVE  /\ conn'[t.socket] # "new"
               /\ Attended(t)' \/ EndsFor(t)
  <2>1. [Next]_vars
    BY PanelStepIsGatewayStep
  <2>2. conn'[t.socket] # "new"
    BY <1>old, <2>1, TargetFields
       DEF TypeOK, Next, vars, Connect, Disconnect, Subscribe, Unsubscribe, OpenStream,
           Denied, StreamEnds
  <2>. QED
    BY <1>old, <2>2, AttendedStep
<1>1. ASSUME NEW h \in Subscriptions, pending'[h] # Nobody
      PROVE  conn'[pending'[h].socket] # "new" /\ Attended(pending[h])'
  <2>1. CASE pending'[h] = pending[h]
    <3>1. /\ pending[h] \in Target /\ conn[pending[h].socket] # "new"
          /\ Attended(pending[h])
      BY <1>1, <2>1 DEF TypeOK, AllAttended
    <3>2. PICK t \in Target : t = pending[h]
      BY <3>1
    <3>3. EndsFor(t) => t \in raced'
      BY <3>2, UnsubscribedTarget, ClosedTarget DEF EndsFor
    <3>4. conn'[t.socket] # "new" /\ Attended(t)'
      BY <1>old, <3>1, <3>2, <3>3 DEF Attended
    <3>. QED
      BY <2>1, <3>2, <3>4 DEF Attended
  <2>2. CASE pending'[h] # pending[h]
    <3>1. PICK c \in Clients : Handle(c) /\ Subscribes(c)
      BY <1>1, <2>2
         DEF PanelNext, ServerDetailPage, Mount, Unmount, SendCommand, Linked, Connect, Refused,
             Dropped, Closed, Disconnect, Handle, Unsubscribes, Unsubscribe, Sends, Opened,
             OpenStream, Refuses, Denied, Ends, StreamEnds, vars, TypeOK
    <3>2. UNCHANGED <<conn, link>>
      BY <3>1 DEF Handle, Subscribes, Subscribe
    <3>3. PICK t : t = To(link[c], Head(out[c]).key)
      OBVIOUS
    <3>4. pending'[h] = t
      BY <2>2, <3>1, <3>3 DEF Subscribes, Subscribe, TypeOK
    <3>5. conn'[t.socket] # "new" /\ Attended(t)'
      BY <3>1, <3>2, <3>3, SubscribedTarget
    <3>. QED
      BY <3>4, <3>5 DEF Attended
  <2>. QED
    BY <2>1, <2>2
<1>2. ASSUME NEW i \in Streams, owner'[i] # Nobody
      PROVE  conn'[owner'[i].socket] # "new" /\ Attended(owner[i])'
  <2>1. \/ owner'[i] = owner[i]
        \/ \E h \in Subscriptions :
             Opened(h) /\ pending[h] # Nobody /\ owner'[i] = To(pending[h].socket, pending[h].key)
    BY <1>2
       DEF PanelNext, ServerDetailPage, Mount, Unmount, SendCommand, Linked, Connect, Refused,
           Dropped, Closed, Disconnect, Handle, Subscribes, Subscribe, Unsubscribes, Unsubscribe,
           Sends, Opened, OpenStream, Refuses, Denied, Ends, StreamEnds, vars, panelVars, TypeOK
  <2>2. PICK t \in Target :
          /\ t = owner'[i] /\ conn[t.socket] # "new" /\ Attended(t)
    <3>1. CASE owner'[i] = owner[i]
      BY <1>2, <3>1 DEF TypeOK, AllAttended
    <3>2. ASSUME NEW h \in Subscriptions, pending[h] # Nobody,
                 owner'[i] = To(pending[h].socket, pending[h].key)
          PROVE  \E t \in Target : t = owner'[i] /\ conn[t.socket] # "new" /\ Attended(t)
      <4>1. pending[h] \in Target /\ pending[h] = owner'[i]
        BY <3>2, TargetFields DEF TypeOK
      <4>. QED
        BY <3>2, <4>1 DEF AllAttended
    <3>. QED
      BY <2>1, <3>1, <3>2
  <2>3. ~EndsFor(t)
    BY <2>2, UnsubscribedTarget, ClosedTarget DEF EndsFor
  <2>4. conn'[t.socket] # "new" /\ Attended(t)'
    BY <1>old, <2>2, <2>3
  <2>. QED
    BY <2>2, <2>4 DEF Attended
<1>. QED
  BY <1>1, <1>2 DEF AllAttended

\* A stream that nobody looks at is about to be canceled, by an "unsubscribe" on its way or
\* by the end of its connection, which is open, unless one of these two passed while a
\* subscription of its target awaited its check: the page and the gateway leak no other.
THEOREM IdleCorrect == PanelSpec => []IdleExplained
<1>. DEFINE Inv == GatewayInv /\ PanelInv /\ LastWord /\ AllAttended
<1>1. PanelInit => Inv
  <2>1. PanelInit => LastWord
    BY ClientsAssumption DEF PanelInit, LastWord, Followed
  <2>2. PanelInit => AllAttended
    BY DEF PanelInit, Init, AllAttended
  <2>. QED
    BY <2>1, <2>2, InitGateway, InitPanel DEF PanelInit
<1>2. Inv /\ [PanelNext]_<<vars, panelVars>> => Inv'
  BY PanelStepIsGatewayStep, NextGateway, NextPanel, LastWordStep, AllAttendedStep
     DEF GatewayInv
<1>3. Inv => IdleExplained
  BY DEF AllAttended, Attended, IdleExplained
<1>. QED
  BY <1>1, <1>2, <1>3, PTL DEF PanelSpec

(***************************************************************************)
(* Paths                                                                   *)
(***************************************************************************)
Text == STRING
Names == Servers \cup Text
Paths == Seq(Names) \ {<<>>}

\* What the constants are made of is text.
LEMMA Texts ==
  /\ RelPaths \subseteq Seq(Text)
  /\ \A r \in Releases : r.dir \in Text /\ r.file \in Text
  /\ \A p \in Packs : p.files \in Seq(Seq(Text)) /\ p.overrides \in Seq(Seq(Text))
BY FilesAssumption DEF Text

\* A set of numbers that is not empty has a least one.
LEMMA LeastNumber ==
  ASSUME NEW S \in SUBSET Nat, S # {}
  PROVE  \E n \in S : \A m \in S : n <= m
<1>1. PICK n \in S : \A m \in S : ~(<<m, n>> \in OpToRel(<, Nat))
  BY WFMin, NatLessThanWellFounded
<1>2. \A m \in S : ~(m < n)
  BY <1>1 DEF OpToRel
<1>. QED
  BY <1>2

\* The walk that Clean makes: there is one function that is defined so.
Step(rel, path, n) == IF rel[n] = ".." THEN Front(path) ELSE Append(path, rel[n])
IsWalk(rel, w, m) ==
  w \in [0 .. m -> Seq(Text)] /\ w[0] = <<>> /\ \A n \in 1 .. m : w[n] = Step(rel, w[n - 1], n)

\* One name of a path walked.
LEMMA StepType ==
  ASSUME NEW rel \in Seq(Text), NEW path \in Seq(Text), NEW n \in 1 .. Len(rel)
  PROVE  Step(rel, path, n) \in Seq(Text)
<1>1. rel[n] \in Text
  OBVIOUS
<1>2. Front(path) \in Seq(Text)
  <2>1. CASE path = <<>>
    BY <2>1 DEF Front
  <2>2. CASE path # <<>>
    BY <2>2 DEF Front
  <2>. QED
    BY <2>1, <2>2
<1>3. Append(path, rel[n]) \in Seq(Text)
  BY <1>1
<1>. QED
  BY <1>2, <1>3 DEF Step

\* Every path can be walked: the least length of a walk that does not exist is none.
LEMMA WalkExists ==
  ASSUME NEW rel \in Seq(Text)
  PROVE  \E w : IsWalk(rel, w, Len(rel))
<1>. DEFINE S == {m \in Nat : m <= Len(rel) /\ ~\E w : IsWalk(rel, w, m)}
<1>1. SUFFICES ASSUME S # {}
               PROVE  FALSE
  <2>1. Len(rel) \in Nat
    OBVIOUS
  <2>. QED
    BY <2>1
<1>2. PICK m \in S : \A k \in S : m <= k
  BY <1>1, LeastNumber
<1>3. m # 0
  <2>1. IsWalk(rel, [n \in 0 .. 0 |-> <<>>], 0)
    BY DEF IsWalk
  <2>. QED
    BY <2>1, <1>2
<1>4. m \in Nat /\ m - 1 \in Nat /\ m <= Len(rel) /\ m - 1 \notin S /\ Len(rel) \in Nat
  BY <1>2, <1>3
<1>5. PICK w : IsWalk(rel, w, m - 1)
  BY <1>4
<1>. DEFINE v == [n \in 0 .. m |-> IF n = m THEN Step(rel, w[m - 1], m) ELSE w[n]]
<1>6. w[m - 1] \in Seq(Text) /\ \A n \in 0 .. m - 1 : w[n] \in Seq(Text)
  BY <1>4, <1>5 DEF IsWalk
<1>7. Step(rel, w[m - 1], m) \in Seq(Text)
  BY <1>3, <1>4, <1>6, StepType
<1>8. v \in [0 .. m -> Seq(Text)]
  BY <1>4, <1>6, <1>7
<1>9. v[0] = <<>> /\ v[m] = Step(rel, w[m - 1], m) /\ \A n \in 0 .. m - 1 : v[n] = w[n]
  BY <1>3, <1>4, <1>5 DEF IsWalk
<1>10. ASSUME NEW n \in 1 .. m
       PROVE  v[n] = Step(rel, v[n - 1], n)
  <2>1. n - 1 \in 0 .. m - 1 /\ v[n - 1] = w[n - 1]
    BY <1>4, <1>9
  <2>2. CASE n = m
    BY <1>9, <2>1, <2>2
  <2>3. CASE n # m
    <3>1. n \in 1 .. m - 1 /\ n \in 0 .. m - 1
      BY <1>4, <2>3
    <3>2. w[n] = Step(rel, w[n - 1], n)
      BY <1>5, <3>1 DEF IsWalk
    <3>. QED
      BY <1>9, <2>1, <3>1, <3>2
  <2>. QED
    BY <2>2, <2>3
<1>. HIDE DEF v
<1>11. IsWalk(rel, v, m)
  BY <1>8, <1>9, <1>10 DEF IsWalk
<1>. QED
  BY <1>2, <1>11

\* Clean is the end of a walk.
LEMMA CleanIsWalk ==
  ASSUME NEW rel \in Seq(Text)
  PROVE  \E w : IsWalk(rel, w, Len(rel)) /\ Clean(rel) = w[Len(rel)]
<1>. DEFINE body(w) == [n \in 0 .. Len(rel) |->
        IF n = 0 THEN <<>>
        ELSE IF rel[n] = ".." THEN Front(w[n - 1]) ELSE Append(w[n - 1], rel[n])]
<1>. DEFINE walk == CHOOSE w : w = body(w)
<1>0. Len(rel) \in Nat
  OBVIOUS
<1>1. PICK w : IsWalk(rel, w, Len(rel))
  BY WalkExists
<1>2. w = body(w)
  <2>1. w = [n \in 0 .. Len(rel) |-> w[n]]
    BY <1>1 DEF IsWalk
  <2>2. \A n \in 0 .. Len(rel) :
          w[n] = IF n = 0 THEN <<>>
                 ELSE IF rel[n] = ".." THEN Front(w[n - 1]) ELSE Append(w[n - 1], rel[n])
    <3>. TAKE n \in 0 .. Len(rel)
    <3>1. CASE n = 0
      BY <1>1, <3>1 DEF IsWalk
    <3>2. CASE n # 0
      <4>1. n \in 1 .. Len(rel)
        BY <1>0, <3>2
      <4>2. w[n] = Step(rel, w[n - 1], n)
        BY <1>1, <4>1 DEF IsWalk
      <4>. QED
        BY <3>2, <4>2 DEF Step
    <3>. QED
      BY <3>1, <3>2
  <2>. QED
    BY <2>1, <2>2
<1>3. walk = body(walk)
  BY <1>2
<1>4. Clean(rel) = walk[Len(rel)]
  BY DEF Clean
<1>. HIDE DEF walk
<1>5. walk[0] = <<>> /\ \A n \in 1 .. Len(rel) : walk[n] = Step(rel, walk[n - 1], n)
  <2>1. 0 \in 0 .. Len(rel) /\ \A n \in 1 .. Len(rel) : n \in 0 .. Len(rel) /\ n # 0
    BY <1>0
  <2>2. ASSUME NEW n \in 0 .. Len(rel)
        PROVE  walk[n] = IF n = 0 THEN <<>>
                 ELSE IF rel[n] = ".." THEN Front(walk[n - 1]) ELSE Append(walk[n - 1], rel[n])
    BY <1>3
  <2>. QED
    BY <2>1, <2>2 DEF Step
<1>6. ASSUME NEW n \in 0 .. Len(rel)
      PROVE  walk[n] \in Seq(Text)
  <2>. DEFINE S == {m \in Nat : m <= Len(rel) /\ walk[m] \notin Seq(Text)}
  <2>1. SUFFICES ASSUME S # {}
                 PROVE  FALSE
    BY <1>0
  <2>2. PICK m \in S : \A k \in S : m <= k
    BY <2>1, LeastNumber
  <2>3. m # 0
    <3>1. <<>> \in Seq(Text)
      OBVIOUS
    <3>. QED
      BY <1>5, <2>2, <3>1
  <2>4. m \in 1 .. Len(rel) /\ m - 1 \in Nat /\ m - 1 \notin S
    BY <1>0, <2>2, <2>3
  <2>5. walk[m - 1] \in Seq(Text)
    BY <1>0, <2>4
  <2>. QED
    BY <1>5, <2>2, <2>4, <2>5, StepType
<1>7. walk \in [0 .. Len(rel) -> Seq(Text)]
  BY <1>3, <1>6
<1>8. IsWalk(rel, walk, Len(rel))
  BY <1>5, <1>7 DEF IsWalk
<1>. QED
  BY <1>4, <1>8

\* Clean leaves names.
LEMMA CleanType ==
  ASSUME NEW rel \in Seq(Text)
  PROVE  Clean(rel) \in Seq(Text)
<1>1. Len(rel) \in Nat
  OBVIOUS
<1>. QED
  BY <1>1, CleanIsWalk DEF IsWalk

\* A path of two names.
LEMMA Pair ==
  ASSUME NEW S, NEW a \in S, NEW b \in S
  PROVE  /\ <<a, b>> \in Seq(S) /\ Len(<<a, b>>) = 2 /\ <<a, b>>[1] = a /\ <<a, b>>[2] = b
         /\ <<>> \in Seq(S) /\ <<a>> \in Seq(S)
         /\ \A u \in Seq(S) : Append(u, b) # <<>> /\ Last(Append(u, b)) = b
BY DEF Last

-----------------------------------------------------------------------------
(* The order of paths                                                       *)

\* Under, name by name.
LEMMA UnderIff ==
  ASSUME NEW p \in Seq(Names), NEW q \in Seq(Names)
  PROVE  Under(p, q) <=> Len(p) <= Len(q) /\ \A i \in 1 .. Len(p) : p[i] = q[i]
<1>1. Len(p) \in Nat /\ Len(q) \in Nat
  OBVIOUS
<1>2. ASSUME Len(p) <= Len(q)
      PROVE  SubSeq(p, 1, Len(p)) = SubSeq(q, 1, Len(p)) <=> \A i \in 1 .. Len(p) : p[i] = q[i]
  <2>1. /\ SubSeq(p, 1, Len(p)) \in Seq(Names) /\ Len(SubSeq(p, 1, Len(p))) = Len(p)
        /\ \A i \in 1 .. Len(p) : SubSeq(p, 1, Len(p))[i] = p[i]
    BY <1>1
  <2>2. /\ SubSeq(q, 1, Len(p)) \in Seq(Names) /\ Len(SubSeq(q, 1, Len(p))) = Len(p)
        /\ \A i \in 1 .. Len(p) : SubSeq(q, 1, Len(p))[i] = q[i]
    BY <1>1, <1>2
  <2>. QED
    BY <2>1, <2>2, SeqEqual
<1>. QED
  BY <1>2 DEF Under, IsPrefix

\* Under is an order.
LEMMA UnderOrder ==
  ASSUME NEW a \in Seq(Names), NEW b \in Seq(Names), NEW c \in Seq(Names)
  PROVE  /\ Under(a, a)
         /\ Under(a, b) /\ Under(b, c) => Under(a, c)
         /\ Under(a, b) /\ Under(b, a) => a = b
         /\ Under(a, c) /\ Under(b, c) => Under(a, b) \/ Under(b, a)
<1>0. Len(a) \in Nat /\ Len(b) \in Nat /\ Len(c) \in Nat
  OBVIOUS
<1>1. Under(a, a)
  BY <1>0, UnderIff
<1>2. ASSUME Under(a, b), Under(b, c)
      PROVE  Under(a, c)
  BY <1>0, <1>2, UnderIff
<1>3. ASSUME Under(a, b), Under(b, a)
      PROVE  a = b
  BY <1>0, <1>3, UnderIff, SeqEqual
<1>4. ASSUME Under(a, c), Under(b, c)
      PROVE  Under(a, b) \/ Under(b, a)
  BY <1>0, <1>4, UnderIff
<1>. QED
  BY <1>1, <1>2, <1>3, <1>4

\* The parents of a path are what it is strictly under.
LEMMA ParentsIff ==
  ASSUME NEW q \in Paths, NEW r
  PROVE  r \in Parents(q) <=> r \in Paths /\ Under(r, q) /\ r # q
<1>0. q \in Seq(Names) /\ Len(q) \in Nat /\ Len(q) > 0
  BY DEF Paths
<1>1. ASSUME NEW n \in 1 .. Len(q) - 1, r = SubSeq(q, 1, n)
      PROVE  r \in Paths /\ Under(r, q) /\ r # q
  <2>1. r \in Seq(Names) /\ Len(r) = n /\ \A i \in 1 .. n : r[i] = q[i]
    BY <1>0, <1>1
  <2>2. n \in Nat /\ n > 0 /\ n < Len(q)
    BY <1>0
  <2>. QED
    BY <1>0, <2>1, <2>2, UnderIff DEF Paths
<1>2. ASSUME r \in Paths, Under(r, q), r # q
      PROVE  \E n \in 1 .. Len(q) - 1 : r = SubSeq(q, 1, n)
  <2>1. r \in Seq(Names) /\ Len(r) \in Nat /\ Len(r) > 0
    BY <1>2 DEF Paths
  <2>2. Len(r) <= Len(q) /\ \A i \in 1 .. Len(r) : r[i] = q[i]
    BY <1>0, <1>2, <2>1, UnderIff
  <2>3. Len(r) # Len(q)
    BY <1>0, <1>2, <2>1, <2>2, SeqEqual
  <2>4. SubSeq(q, 1, Len(r)) \in Seq(Names) /\ Len(SubSeq(q, 1, Len(r))) = Len(r)
        /\ \A i \in 1 .. Len(r) : SubSeq(q, 1, Len(r))[i] = q[i]
    BY <1>0, <2>1, <2>2
  <2>5. r = SubSeq(q, 1, Len(r))
    BY <2>1, <2>2, <2>4, SeqEqual
  <2>6. Len(r) \in 1 .. Len(q) - 1
    BY <1>0, <2>1, <2>2, <2>3
  <2>. QED
    BY <2>5, <2>6
<1>. QED
  BY <1>1, <1>2 DEF Parents

\* Paths below one another are of one server.
LEMMA SameHead ==
  ASSUME NEW p \in Paths, NEW q \in Paths, Under(p, q)
  PROVE  Head(p) = Head(q)
<1>1. p \in Seq(Names) /\ Len(p) \in Nat /\ Len(p) > 0 /\ Head(p) = p[1]
  BY DEF Paths
<1>2. q \in Seq(Names) /\ Len(q) \in Nat /\ Len(q) > 0 /\ Head(q) = q[1]
  BY DEF Paths
<1>. QED
  BY <1>1, <1>2, UnderIff

\* A path resolved is under the directory of its server.
LEMMA ResolvePath ==
  ASSUME NEW s \in Servers, NEW rel \in Seq(Text)
  PROVE  Resolve(s, rel) \in Paths /\ Head(Resolve(s, rel)) = s
<1>1. Clean(rel) \in Seq(Names) /\ <<s>> \in Seq(Names)
  BY CleanType DEF Names
<1>. QED
  BY <1>1 DEF Resolve, Paths

-----------------------------------------------------------------------------
(* Renaming                                                                 *)

\* The path m that q becomes: its names below "from" follow those of "to".
Carries(from, to, q, m) ==
  /\ m \in Paths /\ Len(from) \in Nat /\ Len(to) \in Nat /\ Len(q) \in Nat
  /\ Len(from) <= Len(q) /\ Len(m) = Len(to) + (Len(q) - Len(from))
  /\ \A i \in 1 .. Len(to) : m[i] = to[i]
  /\ \A i \in 1 .. Len(q) - Len(from) : m[Len(to) + i] = q[Len(from) + i]

Joins(u, v, w) ==
  /\ w \in Seq(Names) /\ Len(w) = Len(u) + Len(v)
  /\ \A i \in 1 .. Len(u) : w[i] = u[i]
  /\ \A i \in 1 .. Len(v) : w[Len(u) + i] = v[i]

\* The names of a concatenation.
LEMMA Concatenation ==
  ASSUME NEW u \in Seq(Names), NEW v \in Seq(Names)
  PROVE  Joins(u, v, u \o v)
BY DEF Joins

\* The names of a path that moves.
LEMMA MovedNames ==
  ASSUME NEW from \in Paths, NEW to \in Paths, NEW q \in Paths, Under(from, q)
  PROVE  Carries(from, to, q, Moved(from, to, q))
<1>1. /\ from \in Seq(Names) /\ to \in Seq(Names) /\ q \in Seq(Names) /\ to # <<>>
      /\ Len(from) \in Nat /\ Len(to) \in Nat /\ Len(q) \in Nat /\ Len(to) > 0
  BY DEF Paths
<1>2. Len(from) <= Len(q)
  BY <1>1, UnderIff
<1>rest. PICK rest : rest = SubSeq(q, Len(from) + 1, Len(q))
  OBVIOUS
<1>3. /\ rest \in Seq(Names) /\ Len(rest) = Len(q) - Len(from)
      /\ \A i \in 1 .. Len(q) - Len(from) : rest[i] = q[Len(from) + i]
  BY <1>1, <1>2, <1>rest, SubSeqProperties
<1>4. Moved(from, to, q) = to \o rest
  BY <1>rest DEF Moved
<1>5. PICK m : m = to \o rest
  OBVIOUS
<1>joins. Joins(to, rest, m)
  BY <1>1, <1>3, <1>5, Concatenation
<1>6. /\ m \in Seq(Names) /\ Len(m) = Len(to) + Len(rest)
      /\ \A i \in 1 .. Len(to) : m[i] = to[i]
      /\ \A i \in 1 .. Len(rest) : m[Len(to) + i] = rest[i]
  BY <1>joins DEF Joins
<1>7. m # <<>>
  BY <1>1, <1>3, <1>6
<1>8. Carries(from, to, q, m)
  BY <1>1, <1>2, <1>3, <1>6, <1>7 DEF Paths, Carries
<1>. QED
  BY <1>4, <1>5, <1>8

\* Renaming back brings the names back.
LEMMA MovedBack ==
  ASSUME NEW from \in Paths, NEW to \in Paths, NEW q \in Paths, Under(from, q)
  PROVE  /\ Moved(from, to, q) \in Paths /\ Under(to, Moved(from, to, q))
         /\ Moved(to, from, Moved(from, to, q)) = q
<1>1. PICK m : m = Moved(from, to, q)
  OBVIOUS
<1>carries. Carries(from, to, q, m)
  BY <1>1, MovedNames
<1>2. /\ m \in Paths /\ Len(from) \in Nat /\ Len(to) \in Nat /\ Len(q) \in Nat
      /\ Len(from) <= Len(q) /\ Len(m) = Len(to) + (Len(q) - Len(from))
      /\ \A i \in 1 .. Len(to) : m[i] = to[i]
      /\ \A i \in 1 .. Len(q) - Len(from) : m[Len(to) + i] = q[Len(from) + i]
  BY <1>carries DEF Carries
<1>3. /\ from \in Seq(Names) /\ to \in Seq(Names) /\ q \in Seq(Names) /\ m \in Seq(Names)
      /\ \A i \in 1 .. Len(from) : from[i] = q[i]
  BY <1>2, UnderIff DEF Paths
<1>4. Under(to, m)
  <2>1. Under(to, m) <=> Len(to) <= Len(m) /\ \A i \in 1 .. Len(to) : to[i] = m[i]
    BY <1>3, UnderIff
  <2>2. Len(to) <= Len(m)
    BY <1>2
  <2>3. \A i \in 1 .. Len(to) : to[i] = m[i]
    BY <1>2
  <2>. QED
    BY <2>1, <2>2, <2>3
<1>5. PICK b : b = Moved(to, from, m)
  OBVIOUS
<1>back. Carries(to, from, m, b)
  BY <1>2, <1>4, <1>5, MovedNames
<1>6. /\ b \in Paths /\ Len(b) = Len(from) + (Len(m) - Len(to))
      /\ \A i \in 1 .. Len(from) : b[i] = from[i]
      /\ \A i \in 1 .. Len(m) - Len(to) : b[Len(from) + i] = m[Len(to) + i]
  BY <1>back DEF Carries
<1>7. Len(b) = Len(q) /\ Len(m) - Len(to) = Len(q) - Len(from)
  BY <1>2, <1>6
<1>8. ASSUME NEW i \in 1 .. Len(q)
      PROVE  b[i] = q[i]
  <2>1. CASE i <= Len(from)
    BY <1>2, <1>3, <1>6, <2>1
  <2>2. CASE i > Len(from)
    <3>1. PICK j \in 1 .. Len(q) - Len(from) : i = Len(from) + j
      <4>1. i - Len(from) \in 1 .. Len(q) - Len(from) /\ i = Len(from) + (i - Len(from))
        BY <1>2, <2>2
      <4>. QED
        BY <4>1
    <3>. QED
      BY <1>2, <1>6, <1>7, <3>1
  <2>. QED
    BY <1>2, <2>1, <2>2
<1>9. b = q
  <2>1. b \in Seq(Names)
    BY <1>6 DEF Paths
  <2>. QED
    BY <1>3, <1>7, <1>8, <2>1, SeqEqual
<1>. QED
  BY <1>1, <1>2, <1>4, <1>5, <1>9

\* Paths that move keep their order.
LEMMA MovedKeepsOrder ==
  ASSUME NEW from \in Paths, NEW to \in Paths, NEW a \in Paths, NEW q \in Paths,
         Under(from, a), Under(a, q)
  PROVE  Under(Moved(from, to, a), Moved(from, to, q))
<1>0. from \in Seq(Names) /\ to \in Seq(Names) /\ a \in Seq(Names) /\ q \in Seq(Names)
  BY DEF Paths
<1>1. Under(from, q)
  BY <1>0, UnderOrder
<1>2. PICK m : m = Moved(from, to, q)
  OBVIOUS
<1>carries. Carries(from, to, q, m)
  BY <1>1, <1>2, MovedNames
<1>3. /\ m \in Paths /\ Len(from) \in Nat /\ Len(to) \in Nat /\ Len(q) \in Nat
      /\ Len(from) <= Len(q) /\ Len(m) = Len(to) + (Len(q) - Len(from))
      /\ \A i \in 1 .. Len(to) : m[i] = to[i]
      /\ \A i \in 1 .. Len(q) - Len(from) : m[Len(to) + i] = q[Len(from) + i]
  BY <1>carries DEF Carries
<1>4. PICK b : b = Moved(from, to, a)
  OBVIOUS
<1>above. Carries(from, to, a, b)
  BY <1>4, MovedNames
<1>5. /\ b \in Paths /\ Len(a) \in Nat
      /\ Len(from) <= Len(a) /\ Len(b) = Len(to) + (Len(a) - Len(from))
      /\ \A i \in 1 .. Len(to) : b[i] = to[i]
      /\ \A i \in 1 .. Len(a) - Len(from) : b[Len(to) + i] = a[Len(from) + i]
  BY <1>above DEF Carries
<1>6. Len(a) <= Len(q) /\ \A i \in 1 .. Len(a) : a[i] = q[i]
  BY <1>0, UnderIff
<1>7. ASSUME NEW i \in 1 .. Len(b)
      PROVE  b[i] = m[i]
  <2>1. CASE i <= Len(to)
    BY <1>3, <1>5, <2>1
  <2>2. CASE i > Len(to)
    <3>1. PICK j \in 1 .. Len(a) - Len(from) : i = Len(to) + j
      <4>1. i - Len(to) \in 1 .. Len(a) - Len(from) /\ i = Len(to) + (i - Len(to))
        BY <1>3, <1>5, <2>2
      <4>. QED
        BY <4>1
    <3>2. j \in 1 .. Len(q) - Len(from) /\ Len(from) + j \in 1 .. Len(a)
      BY <1>3, <1>5, <1>6
    <3>. QED
      BY <1>3, <1>5, <1>6, <3>1, <3>2
  <2>. QED
    BY <1>3, <1>5, <2>1, <2>2
<1>8. Len(b) <= Len(m) /\ b \in Seq(Names) /\ m \in Seq(Names)
  BY <1>3, <1>5, <1>6 DEF Paths
<1>9. Under(b, m)
  BY <1>7, <1>8, UnderIff
<1>. QED
  BY <1>2, <1>4, <1>9

\* Where the paths go: those below the one renamed, each to a path of its own below
\* the new name, and the others nowhere.
LEMMA MovedFacts ==
  ASSUME NEW from \in Paths, NEW to \in Paths, NEW q \in Paths
  PROVE  /\ Moved(from, to, q) \in Paths
         /\ ~Under(from, q) => Moved(from, to, q) = q
         /\ Under(from, q) => Under(to, Moved(from, to, q))
         /\ Moved(from, to, from) = to
         /\ from = to => Moved(from, to, q) = q
         /\ Under(from, q) =>
              /\ \A p \in Paths : Under(from, p) /\ Moved(from, to, p) = Moved(from, to, q) => p = q
              /\ \A r \in Paths : Under(to, r) /\ Under(r, Moved(from, to, q)) =>
                   \E a \in Paths : Under(from, a) /\ Under(a, q) /\ r = Moved(from, to, a)
<1>0. from \in Seq(Names) /\ to \in Seq(Names) /\ q \in Seq(Names)
  BY DEF Paths
<1>1. ~Under(from, q) => Moved(from, to, q) = q
  BY DEF Moved
<1>2. Under(from, q) => Moved(from, to, q) \in Paths /\ Under(to, Moved(from, to, q))
  BY MovedBack
<1>3. Moved(from, to, from) = to
  <2>1. Under(from, from)
    BY <1>0, UnderOrder
  <2>2. PICK m : m = Moved(from, to, from)
    OBVIOUS
  <2>carries. Carries(from, to, from, m)
    BY <2>1, <2>2, MovedNames
  <2>3. /\ m \in Paths /\ Len(from) \in Nat /\ Len(to) \in Nat
        /\ Len(m) = Len(to) + (Len(from) - Len(from)) /\ \A i \in 1 .. Len(to) : m[i] = to[i]
    BY <2>carries DEF Carries
  <2>4. m \in Seq(Names) /\ Len(m) = Len(to)
    BY <2>3 DEF Paths
  <2>. QED
    BY <1>0, <2>2, <2>3, <2>4, SeqEqual
<1>4. ASSUME from = to, Under(from, q)
      PROVE  Moved(from, to, q) = q
  <2>1. PICK m : m = Moved(from, to, q)
    OBVIOUS
  <2>carries. Carries(from, to, q, m)
    BY <1>4, <2>1, MovedNames
  <2>2. /\ m \in Paths /\ Len(from) \in Nat /\ Len(to) \in Nat /\ Len(q) \in Nat
        /\ Len(from) <= Len(q) /\ Len(m) = Len(to) + (Len(q) - Len(from))
        /\ \A i \in 1 .. Len(to) : m[i] = to[i]
        /\ \A i \in 1 .. Len(q) - Len(from) : m[Len(to) + i] = q[Len(from) + i]
    BY <2>carries DEF Carries
  <2>3. \A i \in 1 .. Len(from) : from[i] = q[i]
    BY <1>0, <1>4, UnderIff
  <2>4. ASSUME NEW i \in 1 .. Len(q)
        PROVE  m[i] = q[i]
    <3>1. CASE i <= Len(from)
      BY <1>4, <2>2, <2>3, <3>1
    <3>2. CASE i > Len(from)
      <4>1. i - Len(from) \in 1 .. Len(q) - Len(from) /\ i = Len(from) + (i - Len(from))
        BY <2>2, <3>2
      <4>. QED
        BY <1>4, <2>2, <4>1
    <3>. QED
      BY <2>2, <3>1, <3>2
  <2>5. m \in Seq(Names) /\ Len(m) = Len(q)
    BY <1>4, <2>2 DEF Paths
  <2>. QED
    BY <1>0, <2>1, <2>4, <2>5, SeqEqual
<1>5. ASSUME Under(from, q), NEW p \in Paths, Under(from, p), Moved(from, to, p) = Moved(from, to, q)
      PROVE  p = q
  BY <1>5, MovedBack
<1>6. ASSUME Under(from, q), NEW r \in Paths, Under(to, r), Under(r, Moved(from, to, q))
      PROVE  \E a \in Paths : Under(from, a) /\ Under(a, q) /\ r = Moved(from, to, a)
  <2>1. PICK m \in Paths : m = Moved(from, to, q) /\ Moved(to, from, m) = q
    BY <1>6, MovedBack
  <2>2. PICK a \in Paths : a = Moved(to, from, r) /\ Under(from, a) /\ Moved(from, to, a) = r
    BY <1>6, MovedBack
  <2>3. Under(a, q)
    BY <1>6, <2>1, <2>2, MovedKeepsOrder
  <2>. QED
    BY <2>2, <2>3
<1>. QED
  BY <1>1, <1>2, <1>3, <1>4, <1>5, <1>6

-----------------------------------------------------------------------------
(* Operations on the tree                                                   *)

\* The tree part of FilesTypeOK.
Rooted ==
  /\ files \subseteq Paths /\ dirs \subseteq Paths
  /\ files \cap dirs = {}
  /\ \A p \in files \cup dirs : Head(p) \in Servers /\ Parents(p) \subseteq dirs

\* No file goes but those whose paths become loose.
Traced == files \cup loose \subseteq files' \cup loose'

\* The parents of a path, together.
LEMMA ParentFacts ==
  ASSUME NEW p \in Paths
  PROVE  /\ Parents(p) \subseteq Paths /\ p \notin Parents(p)
         /\ \A r \in Parents(p) : /\ Head(r) = Head(p) /\ Under(r, p)
                                  /\ Parents(r) \subseteq Parents(p)
<1>1. Parents(p) \subseteq Paths /\ p \notin Parents(p)
  BY ParentsIff
<1>2. ASSUME NEW r \in Parents(p)
      PROVE  Head(r) = Head(p) /\ Under(r, p) /\ r \in Paths
  BY <1>2, ParentsIff, SameHead
<1>3. ASSUME NEW r \in Parents(p), NEW u \in Parents(r)
      PROVE  u \in Parents(p)
  <2>1. r \in Paths /\ Under(r, p) /\ r # p
    BY <1>3, ParentsIff
  <2>2. u \in Paths /\ Under(u, r) /\ u # r
    BY <1>3, <2>1, ParentsIff
  <2>3. u \in Seq(Names) /\ r \in Seq(Names) /\ p \in Seq(Names)
    BY <2>1, <2>2 DEF Paths
  <2>4. Under(u, p) /\ u # p
    BY <2>1, <2>2, <2>3, UnderOrder
  <2>. QED
    BY <2>2, <2>4, ParentsIff
<1>. QED
  BY <1>1, <1>2, <1>3

\* What each operation leaves: a tree, and a trace.
LEMMA WriteTree ==
  ASSUME Rooted, NEW s \in Servers, NEW p \in Paths, Head(p) = s, Write(p)
  PROVE  Rooted' /\ Traced /\ p \in files' \cup loose'
<1>1. CASE CanWrite(p)
  <2>1. /\ files' = files \cup {p} /\ dirs' = dirs \cup Parents(p) /\ loose' = loose \ {p}
        /\ p \notin dirs /\ files \cap Parents(p) = {}
    BY <1>1 DEF Write, CanWrite
  <2>2. Rooted'
    <3>1. files' \subseteq Paths /\ dirs' \subseteq Paths /\ files' \cap dirs' = {}
      BY <2>1, ParentFacts DEF Rooted
    <3>2. ASSUME NEW q \in files' \cup dirs'
          PROVE  Head(q) \in Servers /\ Parents(q) \subseteq dirs'
      <4>1. CASE q \in files \cup dirs
        BY <2>1, <4>1 DEF Rooted
      <4>2. CASE q \in {p} \cup Parents(p)
        BY <2>1, <4>2, ParentFacts
      <4>. QED
        BY <2>1, <4>1, <4>2
    <3>. QED
      BY <3>1, <3>2 DEF Rooted
  <2>. QED
    BY <2>1, <2>2 DEF Traced
<1>2. CASE ~CanWrite(p)
  <2>1. loose' = loose \cup {p} /\ files' = files /\ dirs' = dirs
    BY <1>2 DEF Write, tree
  <2>. QED
    BY <2>1 DEF Rooted, Traced
<1>. QED
  BY <1>1, <1>2

\* A directory and its parents are made.
LEMMA MkdirTree ==
  ASSUME Rooted, NEW s \in Servers, NEW p \in Paths, Head(p) = s, Mkdir(p)
  PROVE  Rooted' /\ Traced
<1>0. files' = files /\ loose' = loose
  BY DEF Mkdir
<1>1. CASE CanMkdir(p)
  <2>1. dirs' = dirs \cup Parents(p) \cup {p} /\ files \cap (Parents(p) \cup {p}) = {}
    BY <1>1 DEF Mkdir, CanMkdir
  <2>2. Rooted'
    <3>1. files' \subseteq Paths /\ dirs' \subseteq Paths /\ files' \cap dirs' = {}
      BY <1>0, <2>1, ParentFacts DEF Rooted
    <3>2. ASSUME NEW q \in files' \cup dirs'
          PROVE  Head(q) \in Servers /\ Parents(q) \subseteq dirs'
      <4>1. CASE q \in files \cup dirs
        BY <2>1, <4>1 DEF Rooted
      <4>2. CASE q \in {p} \cup Parents(p)
        BY <2>1, <4>2, ParentFacts
      <4>. QED
        BY <1>0, <2>1, <4>1, <4>2
    <3>. QED
      BY <3>1, <3>2 DEF Rooted
  <2>. QED
    BY <1>0, <2>2 DEF Traced
<1>2. CASE ~CanMkdir(p)
  <2>1. dirs' = dirs
    BY <1>2 DEF Mkdir
  <2>. QED
    BY <1>0, <2>1 DEF Rooted, Traced
<1>. QED
  BY <1>1, <1>2

\* A subtree is removed.
LEMMA RemoveTree ==
  ASSUME Rooted, NEW s \in Servers, NEW p \in Paths, Head(p) = s, RemoveAll(p)
  PROVE  /\ Rooted'
         /\ files' \subseteq files /\ \A q \in files \ files' : Under(p, q)
<1>1. files' = {q \in files : ~Under(p, q)} /\ dirs' = {q \in dirs : ~Under(p, q)}
  BY DEF RemoveAll
<1>2. ASSUME NEW q \in files' \cup dirs', NEW r \in Parents(q)
      PROVE  r \in dirs'
  <2>1. q \in Paths /\ r \in dirs /\ ~Under(p, q)
    BY <1>1, <1>2 DEF Rooted
  <2>2. r \in Paths /\ Under(r, q)
    BY <1>2, <2>1, ParentsIff
  <2>3. ~Under(p, r)
    <3>1. p \in Seq(Names) /\ q \in Seq(Names) /\ r \in Seq(Names)
      BY <2>1, <2>2 DEF Paths
    <3>. QED
      BY <2>1, <2>2, <3>1, UnderOrder
  <2>. QED
    BY <1>1, <2>1, <2>3
<1>3. Rooted'
  BY <1>1, <1>2 DEF Rooted
<1>. QED
  BY <1>1, <1>3

\* The same from the page, where what went becomes loose.
LEMMA DeleteFileTree ==
  ASSUME Rooted, NEW s \in Servers, NEW rel \in Seq(Text), DeleteFile(s, rel)
  PROVE  Rooted' /\ Traced
<1>1. Resolve(s, rel) \in Paths /\ Head(Resolve(s, rel)) = s
  BY ResolvePath
<1>2. RemoveAll(Resolve(s, rel)) /\ loose' = loose \cup (files \ files')
  BY DEF DeleteFile
<1>3. Rooted'
  BY <1>1, <1>2, RemoveTree
<1>. QED
  BY <1>2, <1>3 DEF Traced

\* A directory replaces an empty one or nothing, a file no directory: the new paths
\* are a tree again.
LEMMA RenameTree ==
  ASSUME Rooted, NEW s \in Servers, NEW from \in Paths, NEW to \in Paths,
         Head(from) = s, Head(to) = s, NEW new,
         new = Parents(to) \/ (new = {} /\ Parents(to) \subseteq dirs),
         Rename(from, to, new)
  PROVE  Rooted' /\ Traced
<1>new. new \subseteq Parents(to) /\ Parents(to) \subseteq dirs \cup new
  OBVIOUS
<1>1. CASE CanRename(from, to)
  <2>1. /\ files' = {Moved(from, to, q) : q \in files}
        /\ dirs' = {Moved(from, to, q) : q \in dirs} \cup new
        /\ loose' = loose \cup {q \in files : Under(from, q) \/ Under(to, q)}
    BY <1>1 DEF Rename
  <2>2. /\ from \in files \cup dirs
        /\ files \cap Parents(to) = {}
        /\ from \in files => to \notin dirs
        /\ from \in dirs => /\ to \notin files /\ (Under(from, to) => from = to)
                            /\ \A q \in files \cup dirs : Under(to, q) => q = to \/ from = to
    BY <1>1 DEF CanRename
  <2>3. \A q \in Paths : /\ Moved(from, to, q) \in Paths
                         /\ ~Under(from, q) => Moved(from, to, q) = q
                         /\ Under(from, q) => Under(to, Moved(from, to, q))
    BY MovedFacts
  <2>4. \A q \in files \cup dirs : q \in Paths
    BY DEF Rooted
  <2>5. ASSUME NEW q \in files \cup dirs, from \in files, Under(from, q)
        PROVE  q = from
    <3>1. from \in Parents(q) => from \in dirs
      BY <2>5 DEF Rooted
    <3>2. from \notin Parents(q)
      BY <2>5, <3>1 DEF Rooted
    <3>. QED
      BY <2>4, <2>5, <3>2, ParentsIff
  <2>6. ASSUME NEW r \in Parents(to)
        PROVE  ~Under(from, r) /\ Moved(from, to, r) = r /\ ~Under(to, r) /\ r \in Paths
    <3>1. r \in Paths /\ Under(r, to) /\ r # to
      BY <2>6, ParentsIff
    <3>2. from \in Seq(Names) /\ to \in Seq(Names) /\ r \in Seq(Names)
      BY <3>1 DEF Paths
    <3>3. ~Under(to, r)
      BY <3>1, <3>2, UnderOrder
    <3>4. ASSUME Under(from, r)
          PROVE  FALSE
      <4>1. Under(from, to)
        BY <3>1, <3>2, <3>4, UnderOrder
      <4>2. from # to
        BY <3>3, <3>4
      <4>3. from \in Parents(to)
        BY <4>1, <4>2, ParentsIff
      <4>. QED
        BY <2>2, <4>1, <4>2, <4>3
    <3>. QED
      BY <2>3, <3>1, <3>3, <3>4
  <2>7. files' \subseteq Paths /\ dirs' \subseteq Paths
    BY <1>new, <2>1, <2>3, <2>4, <2>6
  <2>8. ASSUME NEW x \in files, NEW y \in dirs, Moved(from, to, x) = Moved(from, to, y)
        PROVE  FALSE
    <3>0. x # y /\ x \in Paths /\ y \in Paths
      BY <2>4 DEF Rooted
    <3>1. CASE Under(from, x) /\ Under(from, y)
      BY <2>8, <3>0, <3>1, MovedFacts
    <3>2. CASE ~Under(from, x) /\ ~Under(from, y)
      BY <2>3, <2>8, <3>0, <3>2
    <3>3. CASE Under(from, x) /\ ~Under(from, y)
      <4>1. Moved(from, to, x) = y /\ Under(to, y)
        BY <2>3, <2>8, <3>0, <3>3
      <4>2. CASE from \in files
        <5>1. x = from
          BY <2>5, <3>3, <4>2
        <5>2. y = to
          BY <3>0, <4>1, <5>1, MovedFacts
        <5>. QED
          BY <2>2, <4>2, <5>2
      <4>3. CASE from \in dirs
        <5>1. from # to
          BY <3>0, <4>1, MovedFacts
        <5>2. y = to
          BY <2>2, <4>1, <4>3, <5>1
        <5>3. Moved(from, to, from) = to /\ Under(from, from)
          <6>1. from \in Seq(Names)
            BY DEF Paths
          <6>. QED
            BY <6>1, MovedFacts, UnderOrder
        <5>4. x = from
          BY <3>0, <3>3, <4>1, <5>2, <5>3, MovedFacts
        <5>. QED
          BY <4>3, <5>4 DEF Rooted
      <4>. QED
        BY <2>2, <4>2, <4>3
    <3>4. CASE ~Under(from, x) /\ Under(from, y)
      <4>1. Moved(from, to, y) = x /\ Under(to, x)
        BY <2>3, <2>8, <3>0, <3>4
      <4>2. CASE from \in files
        <5>1. y = from
          BY <2>5, <3>4, <4>2
        <5>. QED
          BY <4>2, <5>1 DEF Rooted
      <4>3. CASE from \in dirs
        <5>1. from # to
          BY <3>0, <4>1, MovedFacts
        <5>. QED
          BY <2>2, <4>1, <4>3, <5>1
      <4>. QED
        BY <2>2, <4>2, <4>3
    <3>. QED
      BY <3>1, <3>2, <3>3, <3>4
  <2>9. ASSUME NEW x \in files, Moved(from, to, x) \in Parents(to)
        PROVE  FALSE
    <3>1. CASE Under(from, x)
      BY <2>3, <2>4, <2>6, <2>9, <3>1
    <3>2. CASE ~Under(from, x)
      BY <2>2, <2>3, <2>4, <2>9, <3>2
    <3>. QED
      BY <3>1, <3>2
  <2>10. files' \cap dirs' = {}
    BY <1>new, <2>1, <2>8, <2>9
  <2>11. Parents(to) \subseteq dirs'
    BY <1>new, <2>1, <2>6
  <2>12. ASSUME NEW q \in files \cup dirs
         PROVE  Head(Moved(from, to, q)) \in Servers /\ Parents(Moved(from, to, q)) \subseteq dirs'
    <3>0. q \in Paths /\ Moved(from, to, q) \in Paths /\ Head(q) \in Servers /\ Parents(q) \subseteq dirs
      BY <2>3, <2>4 DEF Rooted
    <3>1. CASE ~Under(from, q)
      <4>1. Moved(from, to, q) = q
        BY <2>3, <3>0, <3>1
      <4>2. ASSUME NEW r \in Parents(q)
            PROVE  r \in dirs'
        <5>1. r \in Paths /\ Under(r, q) /\ r \in dirs
          BY <3>0, <4>2, ParentsIff
        <5>2. ~Under(from, r)
          <6>1. from \in Seq(Names) /\ q \in Seq(Names) /\ r \in Seq(Names)
            BY <3>0, <5>1 DEF Paths
          <6>. QED
            BY <3>1, <5>1, <6>1, UnderOrder
        <5>3. Moved(from, to, r) = r
          BY <2>3, <5>1, <5>2
        <5>. QED
          BY <2>1, <5>1, <5>3
      <4>. QED
        BY <3>0, <4>1, <4>2
    <3>2. CASE Under(from, q)
      <4>1. PICK m \in Paths : m = Moved(from, to, q)
        BY <3>0
      <4>2. Under(to, m)
        BY <2>3, <3>0, <3>2, <4>1
      <4>3. Head(m) = s
        BY <4>2, SameHead
      <4>4. ASSUME NEW r \in Parents(m)
            PROVE  r \in dirs'
        <5>1. r \in Paths /\ Under(r, m) /\ r # m
          BY <4>4, ParentsIff
        <5>2. to \in Seq(Names) /\ m \in Seq(Names) /\ r \in Seq(Names)
          BY <5>1 DEF Paths
        <5>3. Under(to, r) \/ (Under(r, to) /\ r # to)
          BY <4>2, <5>1, <5>2, UnderOrder
        <5>4. CASE Under(to, r)
          <6>1. PICK a \in Paths : Under(from, a) /\ Under(a, q) /\ r = Moved(from, to, a)
            BY <3>0, <3>2, <4>1, <5>1, <5>4, MovedFacts
          <6>2. a # q
            BY <4>1, <5>1, <6>1
          <6>3. a \in dirs
            BY <3>0, <6>1, <6>2, ParentsIff
          <6>. QED
            BY <2>1, <6>1, <6>3
        <5>5. CASE Under(r, to) /\ r # to
          BY <2>11, <5>1, <5>5, ParentsIff
        <5>. QED
          BY <5>3, <5>4, <5>5
      <4>. QED
        BY <4>1, <4>3, <4>4
    <3>. QED
      BY <3>1, <3>2
  <2>13. ASSUME NEW q \in new
         PROVE  Head(q) \in Servers /\ Parents(q) \subseteq dirs'
    BY <1>new, <2>11, ParentFacts
  <2>14. ASSUME NEW p \in files' \cup dirs'
         PROVE  Head(p) \in Servers /\ Parents(p) \subseteq dirs'
    <3>1. CASE p \in new
      BY <2>13, <3>1
    <3>2. CASE p \notin new
      <4>1. PICK q \in files \cup dirs : p = Moved(from, to, q)
        BY <2>1, <3>2
      <4>. QED
        BY <2>12, <4>1
    <3>. QED
      BY <3>1, <3>2
  <2>15. Rooted'
    BY <2>7, <2>10, <2>14 DEF Rooted
  <2>16. Traced
    <3>1. ASSUME NEW q \in files, q \notin loose'
          PROVE  q \in files'
      BY <2>1, <2>3, <2>4, <3>1
    <3>. QED
      BY <2>1, <3>1 DEF Traced
  <2>. QED
    BY <2>15, <2>16
<1>2. CASE ~CanRename(from, to)
  <2>1. /\ files' = files /\ loose' = loose
        /\ dirs' = dirs \/ (dirs' = dirs \cup new /\ files \cap new = {})
    BY <1>2 DEF Rename
  <2>2. CASE dirs' = dirs
    BY <2>1, <2>2 DEF Rooted, Traced
  <2>3. CASE dirs' = dirs \cup new /\ files \cap new = {}
    <3>1. new \subseteq Paths /\ Parents(to) \subseteq dirs'
      BY <1>new, <2>3, ParentFacts
    <3>2. ASSUME NEW q \in files' \cup dirs'
          PROVE  Head(q) \in Servers /\ Parents(q) \subseteq dirs'
      <4>1. CASE q \in new
        BY <1>new, <3>1, <4>1, ParentFacts
      <4>2. CASE q \in files \cup dirs
        BY <2>3, <4>2 DEF Rooted
      <4>. QED
        BY <2>1, <2>3, <4>1, <4>2
    <3>3. Rooted'
      BY <2>1, <2>3, <3>1, <3>2 DEF Rooted
    <3>. QED
      BY <2>1, <3>3 DEF Traced
  <2>. QED
    BY <2>1, <2>2, <2>3
<1>. QED
  BY <1>1, <1>2

-----------------------------------------------------------------------------
(* Requests                                                                 *)

InstallCall == [kind : {"install"}, step : {"write", "upsert"}, server : Servers,
                release : Releases, number : 1 .. MaxRequests]
UninstallCall == [kind : {"uninstall"}, step : {"deleteFile", "deleteRow"}, server : Servers,
                  dir : RelPaths, row : Row]
PackCall == [kind : {"pack"}, server : Servers, pack : Packs, done : Nat]
CallTypes == {Idle} \cup InstallCall \cup UninstallCall \cup PackCall

\* FilesTypeOK but for the tree, the requests, and the session.
Recorded ==
  /\ made \in 0 .. MaxRequests
  /\ rows \subseteq Row
  /\ \A v, w \in rows : v.server = w.server /\ v.key = w.key => v = w
  /\ subUser \in [Servers -> SUBSET FilePermissions]
  /\ call \in [Calls -> CallTypes]
  /\ session.server # "none" => session.server \in Servers

\* What a request is, by its kind.
LEMMA CallKinds ==
  ASSUME Recorded, NEW c \in Calls
  PROVE  /\ call[c].kind = "install" => call[c] \in InstallCall
         /\ call[c].kind = "uninstall" => call[c] \in UninstallCall
         /\ call[c].kind = "pack" => call[c] \in PackCall
         /\ call[c].kind = "idle" => call[c] = Idle
BY DEF Recorded, CallTypes, InstallCall, UninstallCall, PackCall, Idle

\* A jar as the installation puts it.
LEMMA ReleaseFacts ==
  ASSUME NEW r \in Releases
  PROVE  r.dir \in Text /\ r.file \in Text /\ <<r.dir, r.file>> \in Seq(Text)
<1>1. r.dir \in Text /\ r.file \in Text
  BY Texts
<1>. QED
  BY <1>1, Pair

\* The file of a row is that of a release.
LEMMA RowFile ==
  ASSUME NEW w \in Row
  PROVE  w.server \in Servers /\ w.file \in Text
<1>1. w.server \in Servers /\ w.file \in {r.file : r \in Releases}
  BY DEF Row
<1>2. PICK r \in Releases : w.file = r.file
  BY <1>1
<1>. QED
  BY <1>1, <1>2, ReleaseFacts

\* The files of a pack, and where they go.
LEMMA WantedPath ==
  ASSUME NEW p \in Packs
  PROVE  /\ Wanted(p) \in Seq(Seq(Text)) /\ Len(Wanted(p)) \in Nat
         /\ \A n \in 1 .. Len(Wanted(p)) : Wanted(p)[n] \in Seq(Text)
<1>1. p.files \in Seq(Seq(Text)) /\ p.overrides \in Seq(Seq(Text))
  BY Texts
<1>. DEFINE S == Seq(Text)
<1>2. ASSUME NEW u \in Seq(S), NEW v \in Seq(S)
      PROVE  u \o v \in Seq(S) /\ Len(u \o v) \in Nat /\ \A n \in 1 .. Len(u \o v) : (u \o v)[n] \in S
  <2>. HIDE DEF S
  <2>1. u \o v \in Seq(S)
    OBVIOUS
  <2>2. PICK w : w = u \o v
    OBVIOUS
  <2>3. w \in Seq(S)
    BY <2>1, <2>2
  <2>4. Len(w) \in Nat /\ \A n \in 1 .. Len(w) : w[n] \in S
    BY <2>3
  <2>. QED
    BY <2>1, <2>2, <2>4
<1>. QED
  BY <1>1, <1>2 DEF Wanted

\* The jar of an installation.
LEMMA JarFacts ==
  ASSUME Recorded, NEW c \in Calls, call[c].kind = "install"
  PROVE  /\ call[c].server \in Servers /\ call[c].release \in Releases
         /\ Jar(c) = Resolve(call[c].server, <<call[c].release.dir, call[c].release.file>>)
         /\ Jar(c) \in Paths /\ Head(Jar(c)) = call[c].server
<1>1. call[c].server \in Servers /\ call[c].release \in Releases
  BY CallKinds DEF InstallCall
<1>2. Jar(c) = Resolve(call[c].server, <<call[c].release.dir, call[c].release.file>>)
  BY DEF Jar
<1>. QED
  BY <1>1, <1>2, ReleaseFacts, ResolvePath

\* The file that an uninstallation removes.
LEMMA RemovedFacts ==
  ASSUME Recorded, NEW c \in Calls, call[c].kind = "uninstall"
  PROVE  /\ call[c].server \in Servers /\ Removed(c) \in Paths /\ Head(Removed(c)) = call[c].server
<1>1. call[c].server \in Servers /\ call[c].row \in Row /\ call[c].dir \in RelPaths
  BY CallKinds DEF UninstallCall
<1>2. call[c].row.file \in Text /\ call[c].dir \in Seq(Text)
  BY <1>1, RowFile, Texts
<1>3. Append(call[c].dir, call[c].row.file) \in Seq(Text)
  BY <1>2
<1>. QED
  BY <1>1, <1>3, ResolvePath DEF Removed

PackPath(i, n) == Resolve(i.server, Wanted(i.pack)[n])

\* The files of a pack that a request installs.
LEMMA PackFacts ==
  ASSUME Recorded, NEW c \in Calls, call[c].kind = "pack"
  PROVE  /\ call[c].server \in Servers /\ call[c].pack \in Packs /\ call[c].done \in Nat
         /\ Len(Wanted(call[c].pack)) \in Nat
         /\ \A n \in 1 .. Len(Wanted(call[c].pack)) :
              PackPath(call[c], n) \in Paths /\ Head(PackPath(call[c], n)) = call[c].server
<1>1. call[c].server \in Servers /\ call[c].pack \in Packs /\ call[c].done \in Nat
  BY CallKinds DEF PackCall
<1>. QED
  BY <1>1, WantedPath, ResolvePath DEF PackPath

-----------------------------------------------------------------------------
(* What a step does to the tree                                             *)

\* A jar deleted by an uninstall is all that goes without a trace.
JarGone(c) ==
  /\ call[c].kind = "uninstall" /\ call[c].step = "deleteFile"
  /\ \A x \in (files \cup loose) \ {Removed(c)} : x \in files' \cup loose'
  /\ Removed(c) \in files' \cup loose'
     \/ /\ call' = [call EXCEPT ![c].step = "deleteRow"]
        /\ rows' = rows /\ reported' = reported
        /\ \A w \in rows, r \in Releases :
             Resolve(w.server, <<r.dir, w.file>>) = Removed(c) => w.id = call[c].row.id
        /\ \A d \in Calls : call[d].kind = "install" /\ call[d].step = "upsert" => Jar(d) # Removed(c)
        /\ \A p \in Packs : \A n \in DOMAIN Wanted(p) : Resolve(call[c].server, Wanted(p)[n]) # Removed(c)

\* What each action does to the tree.  An uninstall is the one that may leave no trace.
LEMMA DeleteJarStep ==
  ASSUME Rooted, Recorded, NEW c \in Calls, DeleteJar(c)
  PROVE  Rooted' /\ (Traced \/ JarGone(c))
<1>. DEFINE jar == Removed(c)
<1>. DEFINE shared ==
       \/ \E w \in rows, r \in Releases :
            w.id # call[c].row.id /\ Resolve(w.server, <<r.dir, w.file>>) = jar
       \/ \E d \in Calls : call[d].kind = "install" /\ call[d].step = "upsert" /\ Jar(d) = jar
       \/ \E p \in Packs : \E n \in DOMAIN Wanted(p) : Resolve(call[c].server, Wanted(p)[n]) = jar
<1>1. /\ call[c].kind = "uninstall" /\ call[c].step = "deleteFile"
      /\ rows' = rows /\ reported' = reported
      /\ \/ /\ RemoveAll(jar)
            /\ loose' = loose \cup (IF shared THEN {jar} ELSE {}) \cup {q \in files \ {jar} : Under(jar, q)}
            /\ call' = [call EXCEPT ![c].step = "deleteRow"]
         \/ UNCHANGED <<files, dirs, loose>>
  BY DEF DeleteJar, OnFiles, Goto, Fail, Removed
<1>2. call[c].server \in Servers /\ jar \in Paths /\ Head(jar) = call[c].server
  BY <1>1, RemovedFacts
<1>. HIDE DEF jar, shared
<1>3. CASE UNCHANGED <<files, dirs, loose>>
  BY <1>3 DEF Rooted, Traced, tree
<1>4. CASE /\ RemoveAll(jar)
           /\ loose' = loose \cup (IF shared THEN {jar} ELSE {}) \cup {q \in files \ {jar} : Under(jar, q)}
           /\ call' = [call EXCEPT ![c].step = "deleteRow"]
  <2>1. /\ Rooted' /\ files' \subseteq files
        /\ \A q \in files \ files' : Under(jar, q)
    BY <1>2, <1>4, RemoveTree
  <2>2. \A x \in (files \cup loose) \ {jar} : x \in files' \cup loose'
    BY <1>4, <2>1
  <2>3. jar \in files' \cup loose' \/ ~shared
    BY <1>4
  <2>4. JarGone(c)
    BY <1>1, <1>4, <2>2, <2>3 DEF JarGone, jar, shared
  <2>. QED
    BY <1>1, <1>2, <2>1, <2>4
<1>. QED
  BY <1>1, <1>3, <1>4

\* The page.
LEMMA PageStep ==
  ASSUME Rooted, NEW s \in Servers, NEW rel \in RelPaths, FileManagerPanel(s, rel)
  PROVE  Rooted' /\ Traced
<1>1. rel \in Seq(Text) /\ \A to \in RelPaths : to \in Seq(Text)
  BY Texts
<1>2. Resolve(s, rel) \in Paths /\ Head(Resolve(s, rel)) = s
  BY <1>1, ResolvePath
<1>3. CASE SaveFile(s, rel)
  <2>1. Write(Resolve(s, rel))
    BY <1>3 DEF SaveFile, WriteFile, Page
  <2>. QED
    BY <1>2, <2>1, WriteTree
<1>4. CASE RemoveFile(s, rel)
  <2>1. DeleteFile(s, rel)
    BY <1>4 DEF RemoveFile, Page
  <2>. QED
    BY <1>1, <2>1, DeleteFileTree
<1>5. CASE NewFolder(s, rel)
  <2>1. Mkdir(Resolve(s, rel))
    BY <1>5 DEF NewFolder, CreateDirectory, Page
  <2>. QED
    BY <1>2, <2>1, MkdirTree
<1>6. ASSUME NEW to \in RelPaths, MoveFile(s, rel, to)
      PROVE  Rooted' /\ Traced
  <2>1. /\ Rename(Resolve(s, rel), Resolve(s, to), Parents(Resolve(s, to)))

    BY <1>6 DEF MoveFile, RenameFile, Page
  <2>2. Resolve(s, to) \in Paths /\ Head(Resolve(s, to)) = s
    BY <1>1, <1>6, ResolvePath
  <2>3. PICK new : new = Parents(Resolve(s, to))
    OBVIOUS
  <2>. QED
    BY <1>2, <2>1, <2>2, <2>3, RenameTree
<1>. QED
  BY <1>3, <1>4, <1>5, <1>6 DEF FileManagerPanel

\* SFTP.
LEMMA SftpStep ==
  ASSUME Rooted, Recorded, NEW rel \in RelPaths,
         Filewrite(rel) \/ \E target \in RelPaths : Filecmd(rel, target)
  PROVE  Rooted' /\ Traced
<1>1. rel \in Seq(Text) /\ \A to \in RelPaths : to \in Seq(Text)
  BY Texts
<1>2. PICK s \in Servers : s = session.server
  BY DEF Recorded, Filewrite, Filecmd
<1>3. Resolve(s, rel) \in Paths /\ Head(Resolve(s, rel)) = s
  BY <1>1, ResolvePath
<1>4. CASE Filewrite(rel)
  <2>1. Write(Resolve(s, rel))
    BY <1>2, <1>4 DEF Filewrite, Sftp
  <2>. QED
    BY <1>3, <2>1, WriteTree
<1>5. ASSUME NEW target \in RelPaths, Filecmd(rel, target)
      PROVE  Rooted' /\ Traced
  <2>1. Resolve(s, target) \in Paths /\ Head(Resolve(s, target)) = s
    BY <1>1, <1>5, ResolvePath
  <2>2. /\ \/ Parents(Resolve(s, target)) \subseteq dirs /\ Rename(Resolve(s, rel), Resolve(s, target), {})
           \/ DeleteFile(s, rel)
           \/ Mkdir(Resolve(s, rel))
    BY <1>2, <1>5 DEF Filecmd, Sftp, CreateDirectory
  <2>3. CASE Parents(Resolve(s, target)) \subseteq dirs /\ Rename(Resolve(s, rel), Resolve(s, target), {})
    <3>1. PICK new : new = {}
      OBVIOUS
    <3>. QED
      BY <1>3, <2>1, <2>2, <2>3, <3>1, RenameTree
  <2>4. CASE DeleteFile(s, rel)
    BY <1>1, <2>2, <2>4, DeleteFileTree
  <2>5. CASE Mkdir(Resolve(s, rel))
    BY <1>3, <2>2, <2>5, MkdirTree
  <2>. QED
    BY <2>2, <2>3, <2>4, <2>5
<1>. QED
  BY <1>4, <1>5

\* An installation: its jar is then there or loose, or the request ends.
LEMMA WriteJarStep ==
  ASSUME Rooted, Recorded, NEW c \in Calls, WriteJar(c)
  PROVE  Rooted' /\ Traced /\ (call' = [call EXCEPT ![c].step = "upsert"] => Jar(c) \in files' \cup loose'
                                \/ call' = [call EXCEPT ![c] = Idle])
<1>1. /\ call[c].kind = "install"
      /\ \/ Write(Jar(c))
         \/ loose' = loose \cup {Jar(c)} /\ UNCHANGED tree
         \/ call' = [call EXCEPT ![c] = Idle] /\ UNCHANGED <<files, dirs, loose>>
  BY DEF WriteJar, OnFiles, RefusedWrite, Fail, End
<1>2. call[c].server \in Servers /\ Jar(c) \in Paths /\ Head(Jar(c)) = call[c].server
  BY <1>1, JarFacts
<1>3. CASE Write(Jar(c))
  <2>1. Rooted' /\ Traced /\ Jar(c) \in files' \cup loose'
    BY <1>2, <1>3, WriteTree
  <2>. QED
    BY <1>1, <1>2, <2>1
<1>4. CASE loose' = loose \cup {Jar(c)} /\ UNCHANGED tree
  BY <1>4 DEF Rooted, Traced, tree
<1>5. CASE call' = [call EXCEPT ![c] = Idle] /\ UNCHANGED <<files, dirs, loose>>
  BY <1>5 DEF Rooted, Traced, tree
<1>. QED
  BY <1>1, <1>3, <1>4, <1>5

\* A pack: a file of a strict one is then there or loose, or the request ends.
LEMMA WritePackStep ==
  ASSUME Rooted, Recorded, NEW c \in Calls, WritePackFile(c)
  PROVE  /\ Rooted' /\ Traced
         /\ call[c].kind = "pack" /\ call[c].done < Len(Wanted(call[c].pack))
         /\ rows' = rows /\ reported' = reported
         /\ \/ call' = [call EXCEPT ![c] = Idle]
            \/ /\ call' = [call EXCEPT ![c].done = @ + 1]
               /\ call[c].pack.strict => PackPath(call[c], call[c].done + 1) \in files' \cup loose'
<1>1. PICK i : i = call[c]
  OBVIOUS
<1>2. PICK path : path = PackPath(i, i.done + 1)
  OBVIOUS
<1>3. /\ i.kind = "pack" /\ i.done < Len(Wanted(i.pack))
      /\ rows' = rows /\ reported' = reported
      /\ \/ Write(path) /\ call' = [call EXCEPT ![c].done = @ + 1]
         \/ loose' = loose \cup {path} /\ UNCHANGED tree /\ call' = [call EXCEPT ![c].done = @ + 1]
         \/ call' = [call EXCEPT ![c] = Idle] /\ UNCHANGED <<files, dirs, loose>>
         \/ ~Strict(i) /\ call' = [call EXCEPT ![c].done = @ + 1] /\ UNCHANGED <<files, dirs, loose>>
  BY <1>1, <1>2 DEF WritePackFile, OnFiles, RefusedWrite, Fail, End, PackPath
<1>4. i.server \in Servers /\ path \in Paths /\ Head(path) = i.server
  <2>1. /\ i.server \in Servers /\ i.done \in Nat /\ Len(Wanted(i.pack)) \in Nat
        /\ \A n \in 1 .. Len(Wanted(i.pack)) : PackPath(i, n) \in Paths /\ Head(PackPath(i, n)) = i.server
    BY <1>1, <1>3, PackFacts
  <2>2. i.done + 1 \in 1 .. Len(Wanted(i.pack))
    BY <1>3, <2>1
  <2>. QED
    BY <1>2, <2>1, <2>2
<1>5. CASE Write(path) /\ call' = [call EXCEPT ![c].done = @ + 1]
  <2>1. Rooted' /\ Traced /\ path \in files' \cup loose'
    BY <1>4, <1>5, WriteTree
  <2>2. Rooted'
    BY <1>3, <1>4, <2>1
  <2>. QED
    BY <1>1, <1>2, <1>3, <1>5, <2>1, <2>2
<1>6. CASE loose' = loose \cup {path} /\ UNCHANGED tree /\ call' = [call EXCEPT ![c].done = @ + 1]
  <2>1. Rooted' /\ Traced /\ path \in loose'
    BY <1>6 DEF Rooted, Traced, tree
  <2>. QED
    BY <1>1, <1>2, <1>3, <1>6, <2>1
<1>7. CASE UNCHANGED <<files, dirs, loose>>
  <2>1. Rooted' /\ Traced
    BY <1>7 DEF Rooted, Traced, tree
  <2>2. CASE call' = [call EXCEPT ![c] = Idle]
    BY <1>1, <1>3, <2>1, <2>2
  <2>3. CASE ~Strict(i) /\ call' = [call EXCEPT ![c].done = @ + 1]
    BY <1>1, <1>3, <2>1, <2>3 DEF Strict
  <2>4. CASE Write(path) /\ call' = [call EXCEPT ![c].done = @ + 1]
    BY <1>5, <2>4
  <2>5. CASE loose' = loose \cup {path} /\ UNCHANGED tree /\ call' = [call EXCEPT ![c].done = @ + 1]
    BY <1>6, <2>5
  <2>. QED
    BY <1>3, <2>2, <2>3, <2>4, <2>5
<1>. QED
  BY <1>3, <1>5, <1>6, <1>7

\* A step that touches no file leaves the tree as it is.
LEMMA StillStep ==
  ASSUME Rooted, UNCHANGED <<files, dirs, loose>>
  PROVE  Rooted' /\ Traced
BY DEF Rooted, Traced, tree

\* A request that begins touches no file and no right.
LEMMA RequestStep ==
  ASSUME NEW c \in Calls, NEW s \in Servers, ModRequest(c, s)
  PROVE  UNCHANGED <<files, dirs, rows, subUser, session, loose, reported, granted, bySub>>
BY DEF ModRequest, ModrinthSearch, CurseforgeSearch, MarketplacePage, ModpackForms, InstallFromModrinth,
       InstallFromCurseforge, InstallFromMarketplace, InstallModrinthModpack, InstallCurseforgeModpack,
       Install, Uninstall, InstallPack, Begin

\* The Backend touches no file when it stops.
LEMMA CrashStep ==
  ASSUME Rooted, BackendCrash
  PROVE  Rooted' /\ Traced
BY DEF BackendCrash, Rooted, Traced, tree

\* Every step keeps the tree, and leaves a trace of what it removes, or deletes a jar.
LEMMA AllTreeSteps ==
  ASSUME Rooted, Recorded, [FilesNext]_fileVars
  PROVE  Rooted' /\ (Traced \/ \E c \in Calls : JarGone(c))
<1>1. ASSUME NEW c \in Calls, ModStep(c)
      PROVE  Rooted' /\ (Traced \/ \E d \in Calls : JarGone(d))
  <2>1. CASE WriteJar(c)
    BY <2>1, WriteJarStep
  <2>2. CASE UpsertRow(c) \/ DeleteRow(c) \/ ReportPack(c)
    <3>1. UNCHANGED <<files, dirs, loose>>
      BY <2>2 DEF UpsertRow, DeleteRow, ReportPack, history
    <3>. QED
      BY <3>1, StillStep
  <2>3. CASE DeleteJar(c)
    BY <2>3, DeleteJarStep
  <2>4. CASE WritePackFile(c)
    BY <2>4, WritePackStep
  <2>. QED
    BY <1>1, <2>1, <2>2, <2>3, <2>4 DEF ModStep
<1>2. ASSUME NEW c \in Calls, NEW s \in Servers, ModRequest(c, s)
      PROVE  Rooted' /\ Traced
  BY <1>2, RequestStep, StillStep
<1>3. ASSUME NEW s \in Servers, SubUsersSettings(s) \/ OpenSession(s) \/ CloseSession \/ UNCHANGED fileVars
      PROVE  Rooted' /\ Traced
  <2>1. UNCHANGED <<files, dirs, loose>>
    BY <1>3 DEF SubUsersSettings, RemoveSubUser, AddSubUser, OpenSession, CloseSession, fileVars, history
  <2>. QED
    BY <2>1, StillStep
<1>4. CloseSession \/ UNCHANGED fileVars => Rooted' /\ Traced
  <2>1. CloseSession \/ UNCHANGED fileVars => UNCHANGED <<files, dirs, loose>>
    BY DEF CloseSession, fileVars, history
  <2>. QED
    BY <2>1, StillStep
<1>. QED
  BY <1>1, <1>2, <1>3, <1>4, PageStep, SftpStep, CrashStep DEF FilesNext

-----------------------------------------------------------------------------
(* Types and rows                                                           *)

\* Request c alone changes, to v.
Sets(c, v) ==
  /\ call' \in [Calls -> CallTypes] /\ call'[c] = v
  /\ \A d \in Calls \ {c} : call'[d] = call[d]

\* One request changes.
LEMMA SetCall ==
  ASSUME Recorded, NEW c \in Calls, NEW v \in CallTypes, call' = [call EXCEPT ![c] = v]
  PROVE  Sets(c, v)
BY DEF Recorded, Sets

\* A record of each kind with one field changed.
LEMMA InstallUpdate ==
  ASSUME NEW i \in InstallCall, NEW v, v = [i EXCEPT !.step = "upsert"]
  PROVE  /\ v \in InstallCall /\ v \in CallTypes /\ v.kind = "install" /\ v.step = "upsert"
         /\ v.server = i.server /\ v.release = i.release
BY DEF InstallCall, CallTypes

\* The same for an uninstallation.
LEMMA UninstallUpdate ==
  ASSUME NEW i \in UninstallCall, NEW v, v = [i EXCEPT !.step = "deleteRow"]
  PROVE  /\ v \in UninstallCall /\ v \in CallTypes /\ v.kind = "uninstall" /\ v.step = "deleteRow"
         /\ v.server = i.server /\ v.dir = i.dir /\ v.row = i.row
BY DEF UninstallCall, CallTypes

\* The same for a pack.
LEMMA PackUpdate ==
  ASSUME NEW i \in PackCall, NEW v, v = [i EXCEPT !.done = @ + 1]
  PROVE  /\ v \in PackCall /\ v \in CallTypes /\ v.kind = "pack" /\ v.done = i.done + 1
         /\ v.server = i.server /\ v.pack = i.pack
BY DEF PackCall, CallTypes

\* No request.
LEMMA IdleFacts == Idle \in CallTypes /\ Idle.kind = "idle"
BY DEF CallTypes, Idle

\* An installation goes on to its row.
LEMMA GotoUpsert ==
  ASSUME Recorded, NEW c \in Calls, call[c].kind = "install", call' = [call EXCEPT ![c].step = "upsert"]
  PROVE  \E v \in InstallCall : /\ Sets(c, v) /\ v.kind = "install" /\ v.step = "upsert"
                                /\ v.server = call[c].server /\ v.release = call[c].release
<1>1. PICK v : v = [call[c] EXCEPT !.step = "upsert"]
  OBVIOUS
<1>2. /\ v \in InstallCall /\ v \in CallTypes /\ v.kind = "install" /\ v.step = "upsert"
      /\ v.server = call[c].server /\ v.release = call[c].release
  BY <1>1, CallKinds, InstallUpdate
<1>3. call' = [call EXCEPT ![c] = v]
  BY <1>1 DEF Recorded
<1>. QED
  BY <1>2, <1>3, SetCall

\* An uninstallation goes on to its row.
LEMMA GotoDeleteRow ==
  ASSUME Recorded, NEW c \in Calls, call[c].kind = "uninstall", call' = [call EXCEPT ![c].step = "deleteRow"]
  PROVE  \E v \in UninstallCall : /\ Sets(c, v) /\ v.kind = "uninstall" /\ v.step = "deleteRow"
                                  /\ v.server = call[c].server /\ v.dir = call[c].dir /\ v.row = call[c].row
<1>1. PICK v : v = [call[c] EXCEPT !.step = "deleteRow"]
  OBVIOUS
<1>2. /\ v \in UninstallCall /\ v \in CallTypes /\ v.kind = "uninstall" /\ v.step = "deleteRow"
      /\ v.server = call[c].server /\ v.dir = call[c].dir /\ v.row = call[c].row
  BY <1>1, CallKinds, UninstallUpdate
<1>3. call' = [call EXCEPT ![c] = v]
  BY <1>1 DEF Recorded
<1>. QED
  BY <1>2, <1>3, SetCall

\* A pack goes on to its next file.
LEMMA NextFile ==
  ASSUME Recorded, NEW c \in Calls, call[c].kind = "pack", call' = [call EXCEPT ![c].done = @ + 1]
  PROVE  \E v \in PackCall : /\ Sets(c, v) /\ v.kind = "pack" /\ v.done = call[c].done + 1
                             /\ v.server = call[c].server /\ v.pack = call[c].pack
<1>1. PICK v : v = [call[c] EXCEPT !.done = @ + 1]
  OBVIOUS
<1>2. /\ v \in PackCall /\ v \in CallTypes /\ v.kind = "pack" /\ v.done = call[c].done + 1
      /\ v.server = call[c].server /\ v.pack = call[c].pack
  BY <1>1, CallKinds, PackUpdate
<1>3. call' = [call EXCEPT ![c] = v]
  BY <1>1 DEF Recorded
<1>. QED
  BY <1>2, <1>3, SetCall

\* How a request begins.
Starting(v) ==
  /\ v \in CallTypes /\ v.kind \in {"install", "uninstall", "pack"}
  /\ v.kind = "install" => v.step = "write"
  /\ v.kind = "uninstall" => v.step = "deleteFile"
  /\ v.kind = "pack" => v.done = 0

\* A request begins where there was none.
LEMMA Begins ==
  ASSUME Recorded, NEW c \in Calls, NEW s \in Servers, ModRequest(c, s)
  PROVE  /\ made' \in 0 .. MaxRequests /\ call[c].kind = "idle"
         /\ \E v : Starting(v) /\ Sets(c, v)
<1>0. MaxRequests \in Nat
  BY FilesAssumption
<1>1. ASSUME NEW r \in Releases, Install(c, s, r)
      PROVE  made' \in 0 .. MaxRequests /\ \E v : Starting(v) /\ Sets(c, v)
  <2>1. PICK v : v = [kind |-> "install", step |-> "write", server |-> s, release |-> r, number |-> made + 1]
    OBVIOUS
  <2>2. made < MaxRequests /\ made' = made + 1 /\ call' = [call EXCEPT ![c] = v]
    BY <1>1, <2>1 DEF Install, Begin, Request
  <2>3. made' \in 0 .. MaxRequests /\ made + 1 \in 1 .. MaxRequests
    BY <1>0, <2>2 DEF Recorded
  <2>4. v \in InstallCall /\ v.kind = "install" /\ v.step = "write"
    BY <2>1, <2>3 DEF InstallCall
  <2>5. Starting(v) /\ v \in CallTypes
    BY <2>4 DEF Starting, CallTypes
  <2>. QED
    BY <2>2, <2>3, <2>5, SetCall
<1>2. ASSUME Uninstall(c, s)
      PROVE  made' \in 0 .. MaxRequests /\ \E v : Starting(v) /\ Sets(c, v)
  <2>1. PICK w \in rows, dir \in RelPaths :
          Begin(c, s, [kind |-> "uninstall", step |-> "deleteFile", server |-> s, dir |-> dir, row |-> w])
    BY <1>2 DEF Uninstall
  <2>2. PICK v : v = [kind |-> "uninstall", step |-> "deleteFile", server |-> s, dir |-> dir, row |-> w]
    OBVIOUS
  <2>3. made < MaxRequests /\ made' = made + 1 /\ call' = [call EXCEPT ![c] = v]
    BY <2>1, <2>2 DEF Begin, Request
  <2>4. made' \in 0 .. MaxRequests
    BY <1>0, <2>3 DEF Recorded
  <2>5. v \in UninstallCall /\ v.kind = "uninstall" /\ v.step = "deleteFile"
    BY <2>1, <2>2 DEF UninstallCall, Recorded
  <2>6. Starting(v) /\ v \in CallTypes
    BY <2>5 DEF Starting, CallTypes
  <2>. QED
    BY <2>3, <2>4, <2>6, SetCall
<1>3. ASSUME NEW p \in Packs, InstallPack(c, s, p)
      PROVE  made' \in 0 .. MaxRequests /\ \E v : Starting(v) /\ Sets(c, v)
  <2>1. PICK v : v = [kind |-> "pack", server |-> s, pack |-> p, done |-> 0]
    OBVIOUS
  <2>2. made < MaxRequests /\ made' = made + 1 /\ call' = [call EXCEPT ![c] = v]
    BY <1>3, <2>1 DEF InstallPack, Begin, Request
  <2>3. made' \in 0 .. MaxRequests
    BY <1>0, <2>2 DEF Recorded
  <2>4. v \in PackCall /\ v.kind = "pack" /\ v.done = 0
    BY <2>1 DEF PackCall
  <2>5. Starting(v) /\ v \in CallTypes
    BY <2>4 DEF Starting, CallTypes
  <2>. QED
    BY <2>2, <2>3, <2>5, SetCall
<1>4. /\ \A r \in Releases : Install(c, s, r) => call[c].kind = "idle"
      /\ Uninstall(c, s) => call[c].kind = "idle"
      /\ \A p \in Packs : InstallPack(c, s, p) => call[c].kind = "idle"
  BY DEF Install, Uninstall, InstallPack, Begin
<1>. QED
  BY <1>1, <1>2, <1>3, <1>4
     DEF ModRequest, ModrinthSearch, CurseforgeSearch, MarketplacePage, ModpackForms, InstallFromModrinth,
         InstallFromCurseforge, InstallFromMarketplace, InstallModrinthModpack, InstallCurseforgeModpack

\* The upsert: one row per server and project, and no other row changes.
LEMMA UpsertFacts ==
  ASSUME Recorded, NEW c \in Calls, UpsertRow(c)
  PROVE  /\ call[c].kind = "install" /\ call[c].step = "upsert" /\ Sets(c, Idle)
         /\ UNCHANGED <<files, dirs, loose, reported, made, subUser, session>>
         /\ rows' \subseteq Row
         /\ \A v, w \in rows' : v.server = w.server /\ v.key = w.key => v = w
         /\ \A w \in rows' : w \in rows \/ (w.server = call[c].server /\ w.file = call[c].release.file)
<1>1. PICK i : i = call[c]
  OBVIOUS
<1>2. PICK old : old = {w \in rows : w.server = i.server /\ w.key = i.release.key}
  OBVIOUS
<1>3. PICK ids : ids = IF old = {} THEN {i.number} ELSE {w.id : w \in old}
  OBVIOUS
<1>4. /\ i.kind = "install" /\ i.step = "upsert"
      /\ rows' = (rows \ old) \cup
           {[server |-> i.server, key |-> i.release.key, file |-> i.release.file, id |-> n] : n \in ids}
      /\ call' = [call EXCEPT ![c] = Idle]
      /\ UNCHANGED <<files, dirs, loose, reported, made, subUser, session>>
  BY <1>1, <1>2, <1>3 DEF UpsertRow, End, history
<1>5. i.server \in Servers /\ i.release \in Releases /\ i.number \in 1 .. MaxRequests
  BY <1>1, <1>4, CallKinds DEF InstallCall
<1>6. old \subseteq Row /\ rows \subseteq Row /\ \A v, w \in old : v = w
  BY <1>2 DEF Recorded
<1>7. ids \subseteq 1 .. MaxRequests /\ \A m, n \in ids : m = n
  <2>1. \A w \in old : w.id \in 1 .. MaxRequests
    BY <1>6 DEF Row
  <2>. QED
    BY <1>3, <1>5, <1>6, <2>1
<1>8. ASSUME NEW w \in rows', w \notin rows \ old
      PROVE  /\ w \in Row /\ w.server = i.server /\ w.key = i.release.key /\ w.file = i.release.file
             /\ w.id \in ids
             /\ w = [server |-> i.server, key |-> i.release.key, file |-> i.release.file, id |-> w.id]
  <2>1. PICK n \in ids :
          w = [server |-> i.server, key |-> i.release.key, file |-> i.release.file, id |-> n]
    BY <1>4, <1>8
  <2>. QED
    BY <1>5, <1>7, <2>1 DEF Row
<1>9. rows' \subseteq Row
  BY <1>6, <1>8
<1>10. ASSUME NEW v \in rows', NEW w \in rows', v.server = w.server, v.key = w.key
       PROVE  v = w
  <2>1. CASE v \in rows \ old /\ w \in rows \ old
    BY <1>10, <2>1 DEF Recorded
  <2>2. CASE v \notin rows \ old /\ w \notin rows \ old
    BY <1>7, <1>8, <2>2
  <2>3. CASE v \in rows \ old /\ w \notin rows \ old
    BY <1>2, <1>8, <1>10, <2>3
  <2>4. CASE v \notin rows \ old /\ w \in rows \ old
    BY <1>2, <1>8, <1>10, <2>4
  <2>. QED
    BY <2>1, <2>2, <2>3, <2>4
<1>11. Sets(c, Idle)
  BY <1>4, IdleFacts, SetCall
<1>. QED
  BY <1>1, <1>4, <1>8, <1>9, <1>10, <1>11

\* What a step does to the requests, the rows and the packs reported.
CallStep ==
  \/ UNCHANGED <<call, rows, reported>>
  \/ \E c \in Calls : \E v :
       /\ call[c].kind = "idle" /\ Starting(v) /\ Sets(c, v) /\ UNCHANGED <<rows, reported>>
  \/ \E c \in Calls : /\ Sets(c, Idle) /\ UNCHANGED <<rows, reported>>
                      /\ call[c].kind = "uninstall" => call[c].step # "deleteRow"
  \/ \E c \in Calls, v \in InstallCall :
       /\ Sets(c, v) /\ call[c].kind = "install" /\ v.kind = "install" /\ UNCHANGED <<rows, reported>>
       /\ v.server = call[c].server /\ v.release = call[c].release
       /\ Jar(c) \in files' \cup loose'
  \/ \E c \in Calls, v \in UninstallCall :
       /\ Sets(c, v) /\ call[c].kind = "uninstall" /\ v.kind = "uninstall" /\ call[c].step = "deleteFile"
       /\ v.server = call[c].server /\ v.dir = call[c].dir /\ v.row = call[c].row /\ UNCHANGED <<rows, reported>>
  \/ \E c \in Calls, v \in PackCall :
       /\ Sets(c, v) /\ call[c].kind = "pack" /\ v.kind = "pack" /\ UNCHANGED <<rows, reported>>
       /\ v.server = call[c].server /\ v.pack = call[c].pack /\ v.done = call[c].done + 1
       /\ call[c].done < Len(Wanted(call[c].pack))
       /\ call[c].pack.strict => PackPath(call[c], call[c].done + 1) \in files' \cup loose'
  \/ \E c \in Calls : UpsertRow(c) \/ DeleteRow(c) \/ ReportPack(c)
  \/ BackendCrash

\* Every step of the system is one of these.
LEMMA CallSteps ==
  ASSUME Rooted, Recorded, [FilesNext]_fileVars
  PROVE  CallStep
<1>1. ASSUME NEW c \in Calls, WriteJar(c)
      PROVE  CallStep
  <2>1. /\ call[c].kind = "install" /\ UNCHANGED <<rows, reported>>
        /\ call' = [call EXCEPT ![c].step = "upsert"] \/ call' = [call EXCEPT ![c] = Idle]
    BY <1>1 DEF WriteJar, OnFiles, Goto, Fail, End
  <2>2. CASE call' = [call EXCEPT ![c] = Idle]
    <3>1. Sets(c, Idle)
      BY <2>2, IdleFacts, SetCall
    <3>. QED
      BY <2>1, <3>1 DEF CallStep
  <2>3. CASE call' = [call EXCEPT ![c].step = "upsert"] /\ ~(call' = [call EXCEPT ![c] = Idle])
    <3>1. Jar(c) \in files' \cup loose'
      BY <1>1, <2>3, WriteJarStep
    <3>2. PICK v \in InstallCall : /\ Sets(c, v) /\ v.kind = "install" /\ v.step = "upsert"
                                   /\ v.server = call[c].server /\ v.release = call[c].release
      BY <2>1, <2>3, GotoUpsert
    <3>. QED
      BY <2>1, <3>1, <3>2 DEF CallStep
  <2>. QED
    BY <2>1, <2>2, <2>3
<1>2. ASSUME NEW c \in Calls, DeleteJar(c)
      PROVE  CallStep
  <2>1. /\ call[c].kind = "uninstall" /\ call[c].step = "deleteFile" /\ UNCHANGED <<rows, reported>>
        /\ call' = [call EXCEPT ![c].step = "deleteRow"] \/ call' = [call EXCEPT ![c] = Idle]
    BY <1>2 DEF DeleteJar, OnFiles, Goto, Fail, End
  <2>2. CASE call' = [call EXCEPT ![c] = Idle]
    <3>1. Sets(c, Idle)
      BY <2>2, IdleFacts, SetCall
    <3>. QED
      BY <2>1, <3>1 DEF CallStep
  <2>3. CASE call' = [call EXCEPT ![c].step = "deleteRow"]
    <3>1. PICK v \in UninstallCall : /\ Sets(c, v) /\ v.kind = "uninstall" /\ v.step = "deleteRow"
                                     /\ v.server = call[c].server /\ v.dir = call[c].dir /\ v.row = call[c].row
      BY <2>1, <2>3, GotoDeleteRow
    <3>. QED
      BY <2>1, <3>1 DEF CallStep
  <2>. QED
    BY <2>1, <2>2, <2>3
<1>3. ASSUME NEW c \in Calls, WritePackFile(c)
      PROVE  CallStep
  <2>1. /\ call[c].kind = "pack" /\ call[c].done < Len(Wanted(call[c].pack))
        /\ rows' = rows /\ reported' = reported
        /\ \/ call' = [call EXCEPT ![c] = Idle]
           \/ /\ call' = [call EXCEPT ![c].done = @ + 1]
              /\ call[c].pack.strict => PackPath(call[c], call[c].done + 1) \in files' \cup loose'
    BY <1>3, WritePackStep
  <2>2. CASE call' = [call EXCEPT ![c] = Idle]
    <3>1. Sets(c, Idle)
      BY <2>2, IdleFacts, SetCall
    <3>. QED
      BY <2>1, <3>1 DEF CallStep
  <2>3. CASE /\ call' = [call EXCEPT ![c].done = @ + 1]
             /\ call[c].pack.strict => PackPath(call[c], call[c].done + 1) \in files' \cup loose'
    <3>1. PICK v \in PackCall : /\ Sets(c, v) /\ v.kind = "pack" /\ v.done = call[c].done + 1
                                /\ v.server = call[c].server /\ v.pack = call[c].pack
      BY <2>1, <2>3, NextFile
    <3>. QED
      BY <2>1, <2>3, <3>1 DEF CallStep
  <2>. QED
    BY <2>1, <2>2, <2>3
<1>4. ASSUME NEW c \in Calls, NEW s \in Servers, ModRequest(c, s)
      PROVE  CallStep
  <2>1. UNCHANGED <<rows, reported>>
    BY <1>4, RequestStep
  <2>2. PICK v : call[c].kind = "idle" /\ Starting(v) /\ Sets(c, v)
    BY <1>4, Begins
  <2>. QED
    BY <2>1, <2>2 DEF CallStep
<1>5. ASSUME NEW s \in Servers, NEW rel \in RelPaths, FileManagerPanel(s, rel)
      PROVE  CallStep
  BY <1>5 DEF FileManagerPanel, SaveFile, RemoveFile, NewFolder, MoveFile, Page, CallStep
<1>6. ASSUME NEW s \in Servers, SubUsersSettings(s) \/ OpenSession(s)
      PROVE  CallStep
  BY <1>6 DEF SubUsersSettings, RemoveSubUser, AddSubUser, OpenSession, history, CallStep
<1>7. ASSUME NEW rel \in RelPaths, Filewrite(rel) \/ \E target \in RelPaths : Filecmd(rel, target)
      PROVE  CallStep
  BY <1>7 DEF Filewrite, Filecmd, Sftp, CallStep
<1>8. CloseSession \/ UNCHANGED fileVars => CallStep
  BY DEF CloseSession, fileVars, history, CallStep
<1>9. BackendCrash \/ (\E c \in Calls : UpsertRow(c) \/ DeleteRow(c) \/ ReportPack(c)) => CallStep
  BY DEF CallStep
<1>. QED
  BY <1>1, <1>2, <1>3, <1>4, <1>5, <1>6, <1>7, <1>8, <1>9 DEF FilesNext, ModStep

\* The end of an uninstallation.
LEMMA DeleteRowFacts ==
  ASSUME Recorded, NEW c \in Calls, DeleteRow(c)
  PROVE  /\ call[c].kind = "uninstall" /\ Sets(c, Idle)
         /\ rows' = {w \in rows : w.id # call[c].row.id}
         /\ UNCHANGED <<files, dirs, loose, reported, made, subUser, session>>
<1>1. /\ call[c].kind = "uninstall" /\ call' = [call EXCEPT ![c] = Idle]
      /\ rows' = {w \in rows : w.id # call[c].row.id}
      /\ UNCHANGED <<files, dirs, loose, reported, made, subUser, session>>
  BY DEF DeleteRow, End, history
<1>. QED
  BY <1>1, IdleFacts, SetCall

\* The end of a pack.
LEMMA ReportFacts ==
  ASSUME Recorded, NEW c \in Calls, ReportPack(c)
  PROVE  /\ call[c].kind = "pack" /\ call[c].done = Len(Wanted(call[c].pack)) /\ Sets(c, Idle)
         /\ reported' = reported \cup {[server |-> call[c].server, pack |-> call[c].pack]}
         /\ UNCHANGED <<files, dirs, rows, loose, made, subUser, session>>
<1>1. /\ call[c].kind = "pack" /\ call[c].done = Len(Wanted(call[c].pack))
      /\ call' = [call EXCEPT ![c] = Idle]
      /\ reported' = reported \cup {[server |-> call[c].server, pack |-> call[c].pack]}
      /\ UNCHANGED <<files, dirs, rows, loose, made, subUser, session>>
  BY DEF ReportPack, End
<1>. QED
  BY <1>1, IdleFacts, SetCall

\* A crash: no request is left, and the jars deleted become loose.
LEMMA CrashFacts ==
  ASSUME Recorded, BackendCrash
  PROVE  /\ call' \in [Calls -> CallTypes] /\ \A c \in Calls : call'[c] = Idle
         /\ UNCHANGED <<files, dirs, rows, reported, made, subUser, session>>
         /\ loose' = loose \cup {Removed(c) :
              c \in {d \in Calls : call[d].kind = "uninstall" /\ call[d].step = "deleteRow"}}
BY IdleFacts DEF BackendCrash, Removed

\* Types, and one row per server and project, are kept.
LEMMA RecordedStep == Rooted /\ Recorded /\ [FilesNext]_fileVars => Recorded'
<1>. SUFFICES ASSUME Rooted, Recorded, [FilesNext]_fileVars
              PROVE  Recorded'
  OBVIOUS
<1>0. MaxRequests \in Nat
  BY FilesAssumption
<1>1. made' \in 0 .. MaxRequests
  <2>1. Request => made' \in 0 .. MaxRequests
    BY <1>0 DEF Request, Recorded
  <2>2. made' = made => made' \in 0 .. MaxRequests
    BY DEF Recorded
  <2>3. ASSUME NEW c \in Calls, ModStep(c)
        PROVE  made' = made
    BY <2>3 DEF ModStep, WriteJar, UpsertRow, DeleteJar, DeleteRow, WritePackFile, ReportPack, OnFiles
  <2>4. ASSUME NEW s \in Servers, NEW rel \in RelPaths, FileManagerPanel(s, rel)
        PROVE  Request
    BY <2>4 DEF FileManagerPanel, SaveFile, RemoveFile, NewFolder, MoveFile, Page
  <2>5. ASSUME NEW s \in Servers, SubUsersSettings(s) \/ OpenSession(s)
        PROVE  Request \/ made' = made
    BY <2>5 DEF SubUsersSettings, RemoveSubUser, AddSubUser, OpenSession
  <2>6. ASSUME NEW rel \in RelPaths, Filewrite(rel) \/ \E target \in RelPaths : Filecmd(rel, target)
        PROVE  Request
    BY <2>6 DEF Filewrite, Filecmd, Sftp
  <2>7. CloseSession \/ BackendCrash \/ UNCHANGED fileVars => made' = made
    BY DEF CloseSession, BackendCrash, fileVars
  <2>. QED
    BY <2>1, <2>2, <2>3, <2>4, <2>5, <2>6, <2>7, Begins DEF FilesNext
<1>2. subUser' \in [Servers -> SUBSET FilePermissions] /\ (session'.server # "none" => session'.server \in Servers)
  <2>1. CASE UNCHANGED <<subUser, session>>
    BY <2>1 DEF Recorded
  <2>2. ASSUME NEW s \in Servers, SubUsersSettings(s)
        PROVE  subUser' \in [Servers -> SUBSET FilePermissions] /\ session' = session
    BY <2>2 DEF SubUsersSettings, RemoveSubUser, AddSubUser, Recorded
  <2>3. ASSUME NEW s \in Servers, OpenSession(s)
        PROVE  subUser' = subUser /\ session'.server = s
    BY <2>3 DEF OpenSession
  <2>4. CloseSession => subUser' = subUser /\ session'.server = "none"
    BY DEF CloseSession
  <2>5. ASSUME NEW c \in Calls, ModStep(c)
        PROVE  UNCHANGED <<subUser, session>>
    BY <2>5 DEF ModStep, WriteJar, UpsertRow, DeleteJar, DeleteRow, WritePackFile, ReportPack, OnFiles
  <2>6. ASSUME NEW s \in Servers, NEW rel \in RelPaths, FileManagerPanel(s, rel)
        PROVE  UNCHANGED <<subUser, session>>
    BY <2>6 DEF FileManagerPanel, SaveFile, RemoveFile, NewFolder, MoveFile, Page
  <2>7. ASSUME NEW rel \in RelPaths, Filewrite(rel) \/ \E target \in RelPaths : Filecmd(rel, target)
        PROVE  UNCHANGED <<subUser, session>>
    BY <2>7 DEF Filewrite, Filecmd, Sftp
  <2>8. BackendCrash \/ UNCHANGED fileVars => UNCHANGED <<subUser, session>>
    BY DEF BackendCrash, fileVars
  <2>. QED
    BY <2>1, <2>2, <2>3, <2>4, <2>5, <2>6, <2>7, <2>8, RequestStep DEF FilesNext, Recorded
<1>3. CallStep
  BY CallSteps
<1>4. /\ rows' \subseteq Row
      /\ \A v, w \in rows' : v.server = w.server /\ v.key = w.key => v = w
  <2>1. CASE rows' \subseteq rows
    BY <2>1 DEF Recorded
  <2>2. ASSUME NEW c \in Calls, UpsertRow(c)
        PROVE  /\ rows' \subseteq Row
               /\ \A v, w \in rows' : v.server = w.server /\ v.key = w.key => v = w
    BY <2>2, UpsertFacts
  <2>3. ASSUME NEW c \in Calls, DeleteRow(c) \/ ReportPack(c)
        PROVE  rows' \subseteq rows
    BY <2>3, DeleteRowFacts, ReportFacts
  <2>4. BackendCrash => rows' \subseteq rows
    BY DEF BackendCrash
  <2>. QED
    BY <1>3, <2>1, <2>2, <2>3, <2>4 DEF CallStep
<1>5. call' \in [Calls -> CallTypes]
  <2>1. CASE UNCHANGED call
    BY <2>1 DEF Recorded
  <2>2. ASSUME NEW c \in Calls, NEW v, Sets(c, v)
        PROVE  call' \in [Calls -> CallTypes]
    BY <2>2 DEF Sets
  <2>3. ASSUME NEW c \in Calls, UpsertRow(c) \/ DeleteRow(c) \/ ReportPack(c)
        PROVE  Sets(c, Idle)
    BY <2>3, UpsertFacts, DeleteRowFacts, ReportFacts
  <2>4. BackendCrash => call' \in [Calls -> CallTypes]
    BY CrashFacts
  <2>. QED
    BY <1>3, <2>1, <2>2, <2>3, <2>4 DEF CallStep
<1>. QED
  BY <1>1, <1>2, <1>4, <1>5 DEF Recorded

-----------------------------------------------------------------------------
(* What is there: packs, jars and rows                                      *)

\* A jar written and not recorded yet, and the files of a strict pack so far, are
\* there or loose.
Delivered(i) ==
  /\ i.kind = "install" /\ i.step = "upsert" =>
       Resolve(i.server, <<i.release.dir, i.release.file>>) \in files \cup loose
  /\ i.kind = "pack" =>
       /\ i.done <= Len(Wanted(i.pack))
       /\ i.pack.strict => \A n \in 1 .. i.done : PackPath(i, n) \in files \cup loose

Reports ==
  \A r \in reported :
    /\ r.server \in Servers /\ r.pack \in Packs
    /\ r.pack.strict => \A n \in 1 .. Len(Wanted(r.pack)) : PackPath(r, n) \in files \cup loose

\* What a row stands for is there or loose; or the jar of its name was deleted by a
\* request that goes on to delete the row.
HasJar(w) == \E r \in Releases : Resolve(w.server, <<r.dir, w.file>>) \in files \cup loose
Removing(c, w) ==
  /\ call[c].kind = "uninstall" /\ call[c].step = "deleteRow" /\ call[c].row.id = w.id
  /\ \E r \in Releases : Resolve(w.server, <<r.dir, w.file>>) = Removed(c)

Present ==
  /\ \A c \in Calls : Delivered(call[c])
  /\ Reports
  /\ \A w \in rows : HasJar(w) \/ \E c \in Calls : Removing(c, w)

\* A sub-user writes only where he was allowed to.
Permitted ==
  /\ \A s \in Servers : "files.write" \in subUser[s] => s \in granted
  /\ session.server # "none" /\ ~session.readOnly => session.server \in granted
  /\ bySub \subseteq granted

FilesIInv == Rooted /\ Recorded /\ Present /\ Permitted

\* A file of a pack, and the jar of an installation about to be recorded, stay.
LEMMA PackPathStays ==
  ASSUME Recorded, Traced \/ \E c \in Calls : JarGone(c),
         NEW i, i.server \in Servers, i.pack \in Packs, NEW n \in 1 .. Len(Wanted(i.pack)),
         PackPath(i, n) \in files \cup loose
  PROVE  PackPath(i, n) \in files' \cup loose'
<1>1. CASE Traced
  BY <1>1 DEF Traced
<1>2. ASSUME NEW c \in Calls, JarGone(c)
      PROVE  PackPath(i, n) \in files' \cup loose'
  <2>1. CASE PackPath(i, n) # Removed(c)
    BY <1>2, <2>1 DEF JarGone
  <2>2. CASE PackPath(i, n) = Removed(c) /\ Removed(c) \notin files' \cup loose'
    <3>1. call[c].kind = "uninstall" /\ \A p \in Packs : \A m \in DOMAIN Wanted(p) :
             Resolve(call[c].server, Wanted(p)[m]) # Removed(c)
      BY <1>2, <2>2 DEF JarGone
    <3>2. Head(Removed(c)) = call[c].server
      BY <3>1, RemovedFacts
    <3>3. Head(PackPath(i, n)) = i.server
      BY WantedPath, ResolvePath DEF PackPath
    <3>4. n \in DOMAIN Wanted(i.pack)
      <4>1. Wanted(i.pack) \in Seq(Seq(Text))
        BY WantedPath
      <4>2. DOMAIN Wanted(i.pack) = 1 .. Len(Wanted(i.pack))
        BY <4>1, LenProperties
      <4>. QED
        BY <4>2
    <3>. QED
      BY <2>2, <3>1, <3>2, <3>3, <3>4 DEF PackPath
  <2>. QED
    BY <2>1, <2>2
<1>. QED
  BY <1>1, <1>2

\* What a request has delivered stays, whoever else acts.
LEMMA DeliveredStays ==
  ASSUME Recorded, Traced \/ \E c \in Calls : JarGone(c), NEW d \in Calls,
         NEW i, i = call[d], Delivered(i)
  PROVE  Delivered(i)'
<1>1. ASSUME i.kind = "install", i.step = "upsert"
      PROVE  Resolve(i.server, <<i.release.dir, i.release.file>>) \in files' \cup loose'
  <2>1. /\ Jar(d) = Resolve(i.server, <<i.release.dir, i.release.file>>)
        /\ Jar(d) \in files \cup loose
    BY <1>1, JarFacts DEF Delivered
  <2>2. CASE Traced
    BY <2>1, <2>2 DEF Traced
  <2>3. ASSUME NEW c \in Calls, JarGone(c)
        PROVE  Jar(d) \in files' \cup loose'
    <3>1. CASE Jar(d) # Removed(c)
      BY <2>1, <2>3, <3>1 DEF JarGone
    <3>2. CASE Jar(d) = Removed(c)
      BY <1>1, <2>3, <3>2 DEF JarGone
    <3>. QED
      BY <3>1, <3>2
  <2>. QED
    BY <2>1, <2>2, <2>3
<1>2. ASSUME i.kind = "pack"
      PROVE  /\ i.done <= Len(Wanted(i.pack))
             /\ i.pack.strict => \A n \in 1 .. i.done : PackPath(i, n) \in files' \cup loose'
  <2>1. /\ i.server \in Servers /\ i.pack \in Packs /\ i.done \in Nat
        /\ Len(Wanted(i.pack)) \in Nat /\ i.done <= Len(Wanted(i.pack))
    BY <1>2, PackFacts DEF Delivered
  <2>2. ASSUME i.pack.strict, NEW n \in 1 .. i.done
        PROVE  PackPath(i, n) \in files' \cup loose'
    <3>1. n \in 1 .. Len(Wanted(i.pack)) /\ PackPath(i, n) \in files \cup loose
      BY <1>2, <2>1, <2>2 DEF Delivered
    <3>. QED
      BY <2>1, <3>1, PackPathStays
  <2>. QED
    BY <2>1, <2>2
<1>. QED
  BY <1>1, <1>2 DEF Delivered, PackPath

\* What a reported pack delivered stays.
LEMMA ReportsStay ==
  ASSUME Recorded, Reports, Traced \/ \E c \in Calls : JarGone(c), NEW r \in reported
  PROVE  /\ r.server \in Servers /\ r.pack \in Packs
         /\ r.pack.strict => \A n \in 1 .. Len(Wanted(r.pack)) : PackPath(r, n) \in files' \cup loose'
BY PackPathStays DEF Reports

\* A row loses its jar to an uninstall of this row only.
LEMMA JarStays ==
  ASSUME Recorded, Traced \/ \E c \in Calls : JarGone(c), NEW w \in rows, HasJar(w)
  PROVE  HasJar(w)' \/ \E c \in Calls : Removing(c, w)'
<1>1. PICK r \in Releases : Resolve(w.server, <<r.dir, w.file>>) \in files \cup loose
  BY DEF HasJar
<1>2. PICK x : x = Resolve(w.server, <<r.dir, w.file>>)
  OBVIOUS
<1>3. x \in files' \cup loose' => HasJar(w)'
  BY <1>2 DEF HasJar
<1>4. CASE Traced
  BY <1>1, <1>2, <1>3, <1>4 DEF Traced
<1>5. ASSUME NEW c \in Calls, JarGone(c), x \notin files' \cup loose'
      PROVE  Removing(c, w)'
  <2>1. x = Removed(c)
    BY <1>1, <1>2, <1>5 DEF JarGone
  <2>2. /\ call[c].kind = "uninstall" /\ call' = [call EXCEPT ![c].step = "deleteRow"]
        /\ w.id = call[c].row.id
    BY <1>2, <1>5, <2>1 DEF JarGone
  <2>3. PICK v \in UninstallCall :
          /\ Sets(c, v) /\ v.kind = "uninstall" /\ v.step = "deleteRow"
          /\ v.server = call[c].server /\ v.dir = call[c].dir /\ v.row = call[c].row
    BY <2>2, GotoDeleteRow
  <2>4. call'[c] = v
    BY <2>3 DEF Sets
  <2>5. Resolve(w.server, <<r.dir, w.file>>)
          = Resolve(call'[c].server, Append(call'[c].dir, call'[c].row.file))
    BY <1>2, <2>1, <2>3, <2>4 DEF Removed
  <2>. QED
    BY <2>2, <2>3, <2>4, <2>5 DEF Removing, Removed
<1>. QED
  BY <1>3, <1>4, <1>5

\* A request that is deleting the row stays, unless it ends.
LEMMA RemovingStays ==
  ASSUME NEW c \in Calls, NEW w, Removing(c, w), call'[c] = call[c]
  PROVE  Removing(c, w)'
BY DEF Removing, Removed

\* Every request keeps what it has delivered, and adds to it.
LEMMA DeliveredStep ==
  ASSUME Rooted, Recorded, Present, [FilesNext]_fileVars
  PROVE  \A c \in Calls : Delivered(call[c])'
<1>1. Traced \/ \E c \in Calls : JarGone(c)
  BY AllTreeSteps
<1>2. CallStep
  BY CallSteps
<1>3. ASSUME NEW d \in Calls, call'[d] = call[d]
      PROVE  Delivered(call[d])'
  <2>1. PICK i : i = call[d]
    OBVIOUS
  <2>2. Delivered(i)
    BY <2>1 DEF Present
  <2>3. Delivered(i)'
    BY <1>1, <2>1, <2>2, DeliveredStays
  <2>. QED
    BY <1>3, <2>1, <2>3 DEF Delivered, PackPath
<1>4. ASSUME NEW d \in Calls, NEW v, call'[d] = v, Delivered(v)'
      PROVE  Delivered(call[d])'
  BY <1>4 DEF Delivered, PackPath
<1>5. Delivered(Idle)'
  BY IdleFacts DEF Delivered
<1>6. ASSUME NEW c \in Calls, NEW v, Sets(c, v), Delivered(v)'
      PROVE  \A d \in Calls : Delivered(call[d])'
  BY <1>3, <1>4, <1>6 DEF Sets
<1>7. CASE UNCHANGED <<call, rows, reported>>
  BY <1>3, <1>7
<1>8. ASSUME NEW c \in Calls, NEW v, Starting(v), Sets(c, v)
      PROVE  \A d \in Calls : Delivered(call[d])'
  <2>1. ASSUME v.kind = "pack"
        PROVE  v.done <= Len(Wanted(v.pack)) /\ v.done = 0
    <3>1. v \in PackCall /\ v.done = 0
      BY <1>8, <2>1 DEF Starting, CallTypes, InstallCall, UninstallCall, Idle
    <3>2. Len(Wanted(v.pack)) \in Nat
      BY <3>1, WantedPath DEF PackCall
    <3>. QED
      BY <3>1, <3>2
  <2>2. Delivered(v)'
    BY <1>8, <2>1 DEF Delivered, Starting
  <2>. QED
    BY <1>6, <1>8, <2>2
<1>9. ASSUME NEW c \in Calls, Sets(c, Idle)
      PROVE  \A d \in Calls : Delivered(call[d])'
  BY <1>5, <1>6, <1>9
<1>10. ASSUME NEW c \in Calls, NEW v \in InstallCall, Sets(c, v), call[c].kind = "install", v.kind = "install",
              v.server = call[c].server, v.release = call[c].release, Jar(c) \in files' \cup loose'
       PROVE  \A d \in Calls : Delivered(call[d])'
  <2>1. Resolve(v.server, <<v.release.dir, v.release.file>>) \in files' \cup loose'
    BY <1>10, JarFacts
  <2>2. Delivered(v)'
    BY <1>10, <2>1 DEF Delivered
  <2>. QED
    BY <1>6, <1>10, <2>2
<1>11. ASSUME NEW c \in Calls, NEW v \in UninstallCall, Sets(c, v), v.kind = "uninstall"
       PROVE  \A d \in Calls : Delivered(call[d])'
  <2>1. Delivered(v)'
    BY <1>11 DEF Delivered
  <2>. QED
    BY <1>6, <1>11, <2>1
<1>12. ASSUME NEW c \in Calls, NEW v \in PackCall, Sets(c, v), call[c].kind = "pack", v.kind = "pack",
              v.server = call[c].server, v.pack = call[c].pack, v.done = call[c].done + 1,
              call[c].done < Len(Wanted(call[c].pack)),
              call[c].pack.strict => PackPath(call[c], call[c].done + 1) \in files' \cup loose'
       PROVE  \A d \in Calls : Delivered(call[d])'
  <2>1. PICK i : i = call[c]
    OBVIOUS
  <2>2. /\ i.kind = "pack" /\ i.done \in Nat /\ Len(Wanted(i.pack)) \in Nat
        /\ v.server = i.server /\ v.pack = i.pack /\ v.done = i.done + 1
    BY <1>12, <2>1, PackFacts
  <2>3. Delivered(i)'
    BY <1>1, <2>1, DeliveredStays DEF Present
  <2>4. ASSUME v.pack.strict, NEW n \in 1 .. v.done
        PROVE  PackPath(v, n) \in files' \cup loose'
    <3>1. PackPath(v, n) = PackPath(i, n)
      BY <2>2 DEF PackPath
    <3>2. CASE n = i.done + 1
      BY <1>12, <2>1, <2>2, <2>4, <3>1, <3>2
    <3>3. CASE n # i.done + 1
      <4>1. n \in 1 .. i.done
        BY <2>2, <3>3
      <4>2. PackPath(i, n) \in files' \cup loose'
        BY <2>2, <2>3, <2>4, <4>1 DEF Delivered, PackPath
      <4>. QED
        BY <3>1, <4>2
    <3>. QED
      BY <3>2, <3>3
  <2>5. v.done <= Len(Wanted(v.pack))
    BY <1>12, <2>1, <2>2
  <2>6. Delivered(v)'
    BY <1>12, <2>4, <2>5 DEF Delivered, PackPath
  <2>. QED
    BY <1>6, <1>12, <2>6
<1>13. ASSUME NEW c \in Calls, UpsertRow(c) \/ DeleteRow(c) \/ ReportPack(c)
       PROVE  \A d \in Calls : Delivered(call[d])'
  BY <1>9, <1>13, UpsertFacts, DeleteRowFacts, ReportFacts
<1>14. ASSUME BackendCrash
       PROVE  \A d \in Calls : Delivered(call[d])'
  BY <1>4, <1>5, <1>14, CrashFacts
<1>. QED
  BY <1>2, <1>7, <1>8, <1>9, <1>10, <1>11, <1>12, <1>13, <1>14 DEF CallStep

\* A pack is reported when all of it is delivered.
LEMMA ReportsStep ==
  ASSUME Rooted, Recorded, Present, [FilesNext]_fileVars
  PROVE  Reports'
<1>1. Traced \/ \E c \in Calls : JarGone(c)
  BY AllTreeSteps
<1>2. CallStep
  BY CallSteps
<1>3. Reports
  BY DEF Present
<1>4. CASE reported' = reported
  BY <1>1, <1>3, <1>4, ReportsStay DEF Reports, PackPath
<1>5. ASSUME NEW c \in Calls, ReportPack(c)
      PROVE  Reports'
  <2>1. PICK i : i = call[c]
    OBVIOUS
  <2>2. PICK x : x = [server |-> i.server, pack |-> i.pack]
    OBVIOUS
  <2>3. /\ i.kind = "pack" /\ i.done = Len(Wanted(i.pack)) /\ reported' = reported \cup {x}
        /\ UNCHANGED <<files, loose>>
    BY <1>5, <2>1, <2>2, ReportFacts
  <2>4. /\ i.server \in Servers /\ i.pack \in Packs /\ Delivered(i)
        /\ x.server = i.server /\ x.pack = i.pack
    BY <2>1, <2>2, <2>3, PackFacts DEF Present
  <2>5. x.pack.strict => \A n \in 1 .. Len(Wanted(x.pack)) : PackPath(x, n) \in files' \cup loose'
    BY <2>3, <2>4 DEF Delivered, PackPath
  <2>6. \A r \in reported :
          /\ r.server \in Servers /\ r.pack \in Packs
          /\ r.pack.strict => \A n \in 1 .. Len(Wanted(r.pack)) : PackPath(r, n) \in files' \cup loose'
    BY <1>1, <1>3, ReportsStay
  <2>. QED
    BY <2>3, <2>4, <2>5, <2>6 DEF Reports, PackPath
<1>6. BackendCrash => reported' = reported
  BY DEF BackendCrash
<1>7. \A c \in Calls : UpsertRow(c) \/ DeleteRow(c) => reported' = reported
  BY UpsertFacts, DeleteRowFacts
<1>. QED
  BY <1>2, <1>4, <1>5, <1>6, <1>7 DEF CallStep

\* A row is new and its jar delivered, or keeps it, or loses it to its own removal.
LEMMA BackedStep ==
  ASSUME Rooted, Recorded, Present, [FilesNext]_fileVars
  PROVE  \A w \in rows' : HasJar(w)' \/ \E c \in Calls : Removing(c, w)'
<1>1. Traced \/ \E c \in Calls : JarGone(c)
  BY AllTreeSteps
<1>2. CallStep
  BY CallSteps
<1>3. ASSUME NEW w \in rows, HasJar(w)
      PROVE  HasJar(w)' \/ \E c \in Calls : Removing(c, w)'
  BY <1>1, <1>3, JarStays
<1>4. ASSUME rows' = rows,
             \A d \in Calls : call[d].kind = "uninstall" /\ call[d].step = "deleteRow" => call'[d] = call[d]
      PROVE  \A w \in rows' : HasJar(w)' \/ \E c \in Calls : Removing(c, w)'
  <2>1. ASSUME NEW w \in rows, NEW d \in Calls, Removing(d, w)
        PROVE  Removing(d, w)'
    BY <1>4, <2>1, RemovingStays DEF Removing
  <2>. QED
    BY <1>3, <1>4, <2>1 DEF Present
<1>5. CASE UNCHANGED <<call, rows, reported>>
  BY <1>4, <1>5
<1>6. ASSUME NEW c \in Calls, NEW v, Sets(c, v), rows' = rows,
             ~(call[c].kind = "uninstall" /\ call[c].step = "deleteRow")
      PROVE  \A w \in rows' : HasJar(w)' \/ \E d \in Calls : Removing(d, w)'
  BY <1>4, <1>6 DEF Sets
<1>7. ASSUME NEW c \in Calls, NEW v, call[c].kind = "idle", Sets(c, v), UNCHANGED <<rows, reported>>
      PROVE  \A w \in rows' : HasJar(w)' \/ \E d \in Calls : Removing(d, w)'
  BY <1>6, <1>7
<1>8. ASSUME NEW c \in Calls, UpsertRow(c)
      PROVE  \A w \in rows' : HasJar(w)' \/ \E d \in Calls : Removing(d, w)'
  <2>1. /\ call[c].kind = "install" /\ call[c].step = "upsert" /\ Sets(c, Idle)
        /\ UNCHANGED <<files, dirs, loose>>
        /\ \A w \in rows' : w \in rows \/ (w.server = call[c].server /\ w.file = call[c].release.file)
    BY <1>8, UpsertFacts
  <2>2. ASSUME NEW w \in rows, NEW d \in Calls, Removing(d, w)
        PROVE  Removing(d, w)'
    <3>1. d # c
      BY <2>1, <2>2 DEF Removing
    <3>. QED
      BY <2>1, <2>2, <3>1, RemovingStays DEF Sets
  <2>3. ASSUME NEW w \in rows', w.server = call[c].server, w.file = call[c].release.file
        PROVE  HasJar(w)'
    <3>1. PICK r \in Releases : r = call[c].release
      BY <2>1, JarFacts
    <3>2. Delivered(call[c])
      BY DEF Present
    <3>3. Resolve(w.server, <<r.dir, w.file>>) \in files \cup loose
      BY <2>1, <2>3, <3>1, <3>2 DEF Delivered
    <3>. QED
      BY <2>1, <3>3 DEF HasJar
  <2>. QED
    BY <1>3, <2>1, <2>2, <2>3 DEF Present
<1>9. ASSUME NEW c \in Calls, DeleteRow(c)
      PROVE  \A w \in rows' : HasJar(w)' \/ \E d \in Calls : Removing(d, w)'
  <2>1. /\ Sets(c, Idle) /\ rows' = {w \in rows : w.id # call[c].row.id}
    BY <1>9, DeleteRowFacts
  <2>2. ASSUME NEW w \in rows', NEW d \in Calls, Removing(d, w)
        PROVE  Removing(d, w)'
    <3>1. d # c
      BY <2>1, <2>2 DEF Removing
    <3>. QED
      BY <2>1, <2>2, <3>1, RemovingStays DEF Sets
  <2>. QED
    BY <1>3, <2>1, <2>2 DEF Present
<1>10. ASSUME NEW c \in Calls, ReportPack(c)
       PROVE  \A w \in rows' : HasJar(w)' \/ \E d \in Calls : Removing(d, w)'
  <2>1. call[c].kind = "pack" /\ Sets(c, Idle) /\ rows' = rows
    BY <1>10, ReportFacts
  <2>. QED
    BY <1>6, <2>1
<1>11. ASSUME BackendCrash
       PROVE  \A w \in rows' : HasJar(w)' \/ \E d \in Calls : Removing(d, w)'
  <2>1. rows' = rows
    BY <1>11, CrashFacts
  <2>2. ASSUME NEW w \in rows, NEW d \in Calls, Removing(d, w)
        PROVE  HasJar(w)'
    <3>1. Removed(d) \in loose'
      BY <1>11, <2>2, CrashFacts DEF Removing
    <3>2. PICK r \in Releases : Resolve(w.server, <<r.dir, w.file>>) = Removed(d)
      BY <2>2 DEF Removing
    <3>. QED
      BY <3>1, <3>2 DEF HasJar
  <2>. QED
    BY <1>3, <2>1, <2>2 DEF Present
<1>. QED
  BY <1>2, <1>5, <1>6, <1>7, <1>8, <1>9, <1>10, <1>11 DEF CallStep

\* Rights and sessions: a session is opened writable by one who may write.
LEMMA PermittedStep ==
  ASSUME Recorded, Permitted, [FilesNext]_fileVars
  PROVE  Permitted'
<1>1. CASE UNCHANGED <<subUser, session, granted, bySub>>
  BY <1>1 DEF Permitted
<1>2. ASSUME NEW c \in Calls, ModStep(c) \/ \E s \in Servers : ModRequest(c, s)
      PROVE  UNCHANGED <<subUser, session, granted, bySub>>
  <2>1. ModStep(c) => UNCHANGED <<subUser, session, granted, bySub>>
    BY DEF ModStep, WriteJar, UpsertRow, DeleteJar, DeleteRow, WritePackFile, ReportPack, OnFiles, history
  <2>. QED
    BY <1>2, <2>1, RequestStep
<1>3. ASSUME NEW s \in Servers, NEW rel \in RelPaths, FileManagerPanel(s, rel)
      PROVE  UNCHANGED <<subUser, session, granted, bySub>>
  BY <1>3 DEF FileManagerPanel, SaveFile, RemoveFile, NewFolder, MoveFile, Page
<1>4. BackendCrash \/ UNCHANGED fileVars => UNCHANGED <<subUser, session, granted, bySub>>
  BY DEF BackendCrash, fileVars
<1>5. ASSUME NEW s \in Servers, NEW p \in SUBSET FilePermissions, AddSubUser(s, p)
      PROVE  Permitted'
  <2>1. /\ subUser' = [subUser EXCEPT ![s] = p] /\ UNCHANGED <<session, bySub>>
        /\ granted' = IF "files.write" \in p THEN granted \cup {s} ELSE granted
    BY <1>5 DEF AddSubUser
  <2>2. subUser \in [Servers -> SUBSET FilePermissions]
    BY DEF Recorded
  <2>3. \A t \in Servers : "files.write" \in subUser'[t] => t \in granted'
    BY <2>1, <2>2 DEF Permitted
  <2>. QED
    BY <2>1, <2>3 DEF Permitted
<1>6. ASSUME NEW s \in Servers, RemoveSubUser(s)
      PROVE  Permitted'
  <2>1. subUser' = [subUser EXCEPT ![s] = {}] /\ UNCHANGED <<session, granted, bySub>>
    BY <1>6 DEF RemoveSubUser, history
  <2>2. subUser \in [Servers -> SUBSET FilePermissions]
    BY DEF Recorded
  <2>3. \A t \in Servers : "files.write" \in subUser'[t] => t \in granted'
    BY <2>1, <2>2 DEF Permitted
  <2>. QED
    BY <2>1, <2>3 DEF Permitted
<1>7. ASSUME NEW s \in Servers, OpenSession(s)
      PROVE  Permitted'
  <2>1. /\ session'.server = s /\ (~session'.readOnly => "files.write" \in subUser[s])
        /\ UNCHANGED <<subUser, granted, bySub>>
    <3>1. session' = [server |-> s, readOnly |-> "files.write" \notin subUser[s]]
      BY <1>7 DEF OpenSession, Authenticate
    <3>2. session'.server = s /\ session'.readOnly = ("files.write" \notin subUser[s])
      BY <3>1
    <3>. QED
      BY <1>7, <3>2 DEF OpenSession, history
  <2>. QED
    BY <2>1 DEF Permitted
<1>8. CloseSession => session'.server = "none" /\ UNCHANGED <<subUser, granted, bySub>>
  BY DEF CloseSession, history
<1>9. CloseSession => Permitted'
  BY <1>8 DEF Permitted
<1>10. ASSUME NEW rel \in RelPaths, Filewrite(rel) \/ \E target \in RelPaths : Filecmd(rel, target)
       PROVE  Permitted'
  <2>1. /\ session.server # "none" /\ ~session.readOnly /\ UNCHANGED <<subUser, session, granted>>
        /\ bySub' \subseteq bySub \cup {session.server}
    BY <1>10 DEF Filewrite, Filecmd, Sftp
  <2>. QED
    BY <2>1 DEF Permitted
<1>. QED
  BY <1>1, <1>2, <1>3, <1>4, <1>5, <1>6, <1>7, <1>9, <1>10 DEF FilesNext, SubUsersSettings

-----------------------------------------------------------------------------
(* The inductive invariant and what follows from it                         *)

\* Empty directories, no request.
LEMMA FilesInitially == FilesInit => FilesIInv
<1>. SUFFICES ASSUME FilesInit
              PROVE  FilesIInv
  OBVIOUS
<1>1. Rooted
  <2>1. files = {} /\ dirs = {<<s>> : s \in Servers}
    BY DEF FilesInit
  <2>2. ASSUME NEW s \in Servers
        PROVE  <<s>> \in Paths /\ Head(<<s>>) \in Servers /\ Parents(<<s>>) = {}
    <3>1. <<s>> \in Paths /\ Head(<<s>>) \in Servers /\ Len(<<s>>) = 1
      BY DEF Paths, Names
    <3>2. Parents(<<s>>) = {}
      BY <3>1 DEF Parents
    <3>. QED
      BY <3>1, <3>2
  <2>. QED
    BY <2>1, <2>2 DEF Rooted
<1>2. Recorded
  <2>1. MaxRequests \in Nat
    BY FilesAssumption
  <2>2. call \in [Calls -> CallTypes] /\ \A c \in Calls : call[c].kind = "idle"
    BY IdleFacts DEF FilesInit
  <2>. QED
    BY <2>1, <2>2 DEF FilesInit, Recorded
<1>3. Present
  <2>1. rows = {} /\ reported = {} /\ \A c \in Calls : call[c].kind = "idle"
    BY IdleFacts DEF FilesInit
  <2>. QED
    BY <2>1 DEF Present, Delivered, Reports
<1>4. Permitted
  BY DEF FilesInit, Permitted
<1>. QED
  BY <1>1, <1>2, <1>3, <1>4 DEF FilesIInv

\* Each part of the invariant is kept; all of them are needed for Present.
LEMMA FilesStep == FilesIInv /\ [FilesNext]_fileVars => FilesIInv'
<1>. SUFFICES ASSUME FilesIInv, [FilesNext]_fileVars
              PROVE  FilesIInv'
  OBVIOUS
<1>1. Rooted /\ Recorded /\ Present /\ Permitted
  BY DEF FilesIInv
<1>2. Rooted'
  BY <1>1, AllTreeSteps
<1>3. Recorded'
  BY <1>1, RecordedStep
<1>4. Present'
  <2>1. (\A c \in Calls : Delivered(call[c])') /\ Reports'
    BY <1>1, DeliveredStep, ReportsStep
  <2>2. \A w \in rows' : HasJar(w)' \/ \E c \in Calls : Removing(c, w)'
    BY <1>1, BackedStep
  <2>. QED
    BY <2>1, <2>2 DEF Present
<1>5. Permitted'
  BY <1>1, PermittedStep
<1>. QED
  BY <1>2, <1>3, <1>4, <1>5 DEF FilesIInv

\* The invariant holds.
LEMMA FilesInvariant == FilesSpec => []FilesIInv
BY FilesInitially, FilesStep, PTL DEF FilesSpec

\* The tree, the types and rights, one row per project, and a jar behind every row:
\* whatever requests of ModsService overlap, fail, or are cut off by a crash, and
\* whatever the page and SFTP do in between (ModsService, filemgr).
THEOREM FilesCorrect == FilesSpec => []FilesInv
<1>1. FilesIInv => FilesInv
  <2>. SUFFICES ASSUME FilesIInv
                PROVE  FilesInv
    OBVIOUS
  <2>1. FilesTypeOK
    BY DEF FilesIInv, Rooted, Recorded, FilesTypeOK
  <2>2. RowsBacked
    BY DEF FilesIInv, Present, HasJar, Removing, RowsBacked
  <2>. QED
    BY <2>1, <2>2 DEF FilesInv
<1>. QED
  BY <1>1, FilesInvariant, PTL

\* A Modrinth pack answered with success is there whole, unless a file was refused
\* or removed by other means since (ModsService.installModrinthModpack).
THEOREM PackCompleteCorrect == FilesSpec => []PackComplete
<1>1. FilesIInv => PackComplete
  <2>. SUFFICES ASSUME FilesIInv, NEW r \in reported, r.pack.strict, NEW n \in DOMAIN Wanted(r.pack)
                PROVE  Resolve(r.server, Wanted(r.pack)[n]) \in files \cup loose
    BY DEF PackComplete
  <2>1. r.pack \in Packs /\ \A m \in 1 .. Len(Wanted(r.pack)) : PackPath(r, m) \in files \cup loose
    BY DEF FilesIInv, Present, Reports
  <2>2. Wanted(r.pack) \in Seq(Seq(Text))
    BY <2>1, WantedPath
  <2>3. n \in 1 .. Len(Wanted(r.pack))
    BY <2>2, LenProperties
  <2>. QED
    BY <2>1, <2>3 DEF PackPath
<1>. QED
  BY <1>1, FilesInvariant, PTL

\* A sub-user who never had files.write changes nothing by SFTP, however long a
\* session outlives the rights it was opened with (SftpAuthService, fsHandlers).
THEOREM ReadOnlyCorrect == FilesSpec => []ReadOnlyKept
<1>1. FilesIInv => ReadOnlyKept
  BY DEF FilesIInv, Permitted, ReadOnlyKept
<1>. QED
  BY <1>1, FilesInvariant, PTL

==============================================================================
