---------------------------- MODULE ConsolePanel ----------------------------
(***************************************************************************)
(* The page of a server in a browser, and the gateway it talks to.  The    *)
(* console and the statistics of the page each subscribe when they are     *)
(* mounted and unsubscribe when they are not.  They share the socket of    *)
(* lib/socket.ts, but for a new one that getSocket makes whenever the last *)
(* is not connected.                                                       *)
(*                                                                         *)
(* A socket of the client (external: socket.io) keeps what it is given     *)
(* until it is connected, sends it in order, connects again by itself, and *)
(* is for the gateway a new socket each time.  The panels subscribe on     *)
(* mounting only.                                                          *)
(***************************************************************************)
EXTENDS ConsoleGateway, Sequences, SequencesExt

CONSTANTS
  Clients,     \* sockets that getSocket makes
  MaxOut       \* bound: messages of a socket that have not been handled

ASSUME ClientsAssumption == None \notin Clients /\ MaxOut \in Nat

VARIABLES
  current,    \* the variable of lib/socket.ts
  phase,      \* per client socket: "unused", "trying" (made, and reconnecting), "refused"
  link,       \* per client socket: its connection at the gateway
  out,        \* per client socket: messages emitted and not handled
  panel,      \* per key: the socket its mounted panel has subscribed on and listens to
  excused,    \* history: keys whose subscription was lost, refused or ended since the mount
  raced       \* history: targets whose unsubscription, or the end of whose socket, found a
              \* subscription pending

panelVars == <<current, phase, link, out, panel, excused, raced>>

Message == [type: {"subscribe", "unsubscribe"}, key: Keys] \cup {[type |-> "send"]}

PanelInit ==
  /\ Init
  /\ current = None
  /\ phase = [c \in Clients |-> "unused"]
  /\ link = [c \in Clients |-> None]
  /\ out = [c \in Clients |-> <<>>]
  /\ panel = [k \in Keys |-> None]
  /\ excused = {} /\ raced = {}

\* Keys whose panel listens to connection s.
Listening(s) == {k \in Keys : panel[k] # None /\ link[panel[k]] = s}

-----------------------------------------------------------------------------
(* The page *)

\* c is the socket that getSocket returns.
GetSocket(c) ==
  IF current # None /\ link[current] # None
  THEN c = current /\ UNCHANGED <<current, phase>>
  ELSE /\ phase[c] = "unused"
       /\ phase' = [phase EXCEPT ![c] = "trying"]
       /\ current' = c

\* Mutant: messages do not keep their order.
EmitFirst(c, message) ==
  /\ Len(out[c]) < MaxOut
  /\ out' = [out EXCEPT ![c] = <<message>> \o @]

Emit(c, message) ==
  /\ Len(out[c]) < MaxOut
  /\ out' = [out EXCEPT ![c] = Append(@, message)]

Mount(k) ==
  /\ panel[k] = None
  /\ \E c \in Clients :
       /\ GetSocket(c)
       /\ Emit(c, [type |-> "subscribe", key |-> k])
       /\ panel' = [panel EXCEPT ![k] = c]
  /\ excused' = excused \ {k}
  /\ UNCHANGED <<vars, link, raced>>

\* Mutant: the effect has no cleanup.
UnmountSilently(k) ==
  /\ panel[k] # None
  /\ panel' = [panel EXCEPT ![k] = None]
  /\ UNCHANGED <<vars, current, phase, link, out, excused, raced>>

\* The cleanup of the effect, on the socket that the effect had.
Unmount(k) ==
  /\ panel[k] # None
  /\ Emit(panel[k], [type |-> "unsubscribe", key |-> k])
  /\ panel' = [panel EXCEPT ![k] = None]
  /\ UNCHANGED <<vars, current, phase, link, excused, raced>>

\* A command asks for the socket again, and may get another than the console has.
SendCommand ==
  /\ \E c \in Clients : GetSocket(c) /\ Emit(c, [type |-> "send"])
  /\ UNCHANGED <<vars, link, panel, excused, raced>>

-----------------------------------------------------------------------------
(* Connections *)

Linked(c) ==
  /\ phase[c] = "trying" /\ link[c] = None
  /\ \E s \in Sockets : Connect(s) /\ link' = [link EXCEPT ![c] = s]
  /\ UNCHANGED <<current, phase, out, panel, excused, raced>>

\* The token that the socket was made with has expired: socket.io does not try again.
Refused(c) ==
  /\ phase[c] = "trying" /\ link[c] = None
  /\ phase' = [phase EXCEPT ![c] = "refused"]
  /\ excused' = excused \union {k \in Keys : panel[k] = c}
  /\ UNCHANGED <<vars, current, link, out, panel, raced>>

\* What was on the way is lost; the gateway learns of it in its own time.
Dropped(c) ==
  /\ link[c] # None
  /\ link' = [link EXCEPT ![c] = None]
  /\ out' = [out EXCEPT ![c] = <<>>]
  /\ excused' = excused \union Listening(link[c])
  /\ UNCHANGED <<vars, current, phase, panel, raced>>

\* A subscription that awaits its check opens its stream later, and nobody cancels it.
Closed(s) ==
  /\ \A c \in Clients : link[c] # s
  /\ Disconnect(s)
  /\ raced' = raced \union {pending[h] : h \in {h \in Subscriptions : pending[h].socket = s}}
  /\ UNCHANGED <<current, phase, link, out, panel, excused>>

-----------------------------------------------------------------------------
(* The gateway *)

Subscribes(c) ==
  /\ Head(out[c]).type = "subscribe"
  /\ \E h \in Subscriptions : Subscribe(h, link[c], Head(out[c]).key)
  /\ UNCHANGED raced

Unsubscribes(c) ==
  /\ Head(out[c]).type = "unsubscribe"
  /\ Unsubscribe(link[c], Head(out[c]).key)
  /\ raced' = raced \union {pending[h] : h \in {h \in Subscriptions : pending[h] = To(link[c], Head(out[c]).key)}}

\* console:send goes to the daemon and changes nothing here.
Sends(c) ==
  /\ Head(out[c]).type = "send"
  /\ UNCHANGED <<vars, raced>>

Handle(c) ==
  /\ link[c] # None /\ out[c] # <<>>
  /\ Subscribes(c) \/ Unsubscribes(c) \/ Sends(c)
  /\ out' = [out EXCEPT ![c] = Tail(@)]
  /\ UNCHANGED <<current, phase, link, panel, excused>>

Opened(h) == OpenStream(h) /\ UNCHANGED panelVars

\* The client is told that its subscription failed, or that its stream ended.
Refuses(h) ==
  /\ Denied(h)
  /\ excused' = excused \union ({pending[h].key} \cap Listening(pending[h].socket))
  /\ UNCHANGED <<current, phase, link, out, panel, raced>>

Ends(i) ==
  /\ StreamEnds(i)
  /\ excused' = excused \union ({owner[i].key} \cap Listening(owner[i].socket))
  /\ UNCHANGED <<current, phase, link, out, panel, raced>>

ServerDetailPage == (\E k \in Keys : Mount(k) \/ Unmount(k)) \/ SendCommand

PanelNext ==
  \/ ServerDetailPage
  \/ \E c \in Clients : Linked(c) \/ Refused(c) \/ Dropped(c) \/ Handle(c)
  \/ \E s \in Sockets : Closed(s)
  \/ \E h \in Subscriptions : Opened(h) \/ Refuses(h)
  \/ \E i \in Streams : Ends(i)

PanelSpec == PanelInit /\ [][PanelNext]_<<vars, panelVars>>

-----------------------------------------------------------------------------
(* Properties *)

\* The gateway has its types; a connection is open while its client socket has it, and
\* belongs to that socket alone; a panel listens to a socket that was made.
PanelTypeOK ==
  /\ TypeOK
  /\ current \in Clients \cup {None}
  /\ phase \in [Clients -> {"unused", "trying", "refused"}]
  /\ link \in [Clients -> Sockets \cup {None}]
  /\ out \in [Clients -> Seq(Message)]
  /\ panel \in [Keys -> Clients \cup {None}]
  /\ \A c \in Clients : link[c] # None => conn[link[c]] = "open" /\ phase[c] = "trying"
  /\ \A c, d \in Clients : link[c] = link[d] => c = d \/ link[c] = None
  /\ \A k \in Keys : panel[k] # None => phase[panel[k]] # "unused"

OnTheWay(c, type, k) == [type |-> type, key |-> k] \in ToSet(out[c])

\* A mounted panel gets its lines, or a subscription is on its way, unless its socket
\* was cut or refused, or the gateway has told it of an error or an end: mounting again
\* at once, while earlier subscriptions await their checks, never leaves it silent.
SilenceExplained ==
  \A k \in Keys : panel[k] # None /\ k \notin excused =>
    LET c == panel[k]
    IN  \/ OnTheWay(c, "subscribe", k)
        \/ \E h \in Subscriptions : pending[h] = To(link[c], k)
        \/ \E i \in Streams : owner[i] = To(link[c], k)

\* A stream that nobody looks at is about to be canceled: its connection is open, and
\* either its client has dropped it, so that the gateway will close it, or the
\* "unsubscribe" is on its way.  The exception are the targets whose unsubscription or
\* whose socket's end passed while a subscription awaited its check: what is opened then
\* runs on, on a closed socket until the daemon ends it.
IdleExplained ==
  \A i \in Streams : owner[i] # Nobody /\ owner[i].key \notin Listening(owner[i].socket) =>
    \/ owner[i] \in raced
    \/ /\ conn[owner[i].socket] = "open"
       /\ \A c \in Clients : link[c] = owner[i].socket => OnTheWay(c, "unsubscribe", owner[i].key)
=============================================================================
