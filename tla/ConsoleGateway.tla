--------------------------- MODULE ConsoleGateway ---------------------------
(***************************************************************************)
(* The WebSocket gateway of the Backend: a client's socket subscribes to   *)
(* the console or the statistics of a server, and the gateway relays a     *)
(* gRPC stream of the server's node.  The cancel function of each stream   *)
(* is kept in a map of the socket, under its key.                          *)
(*                                                                         *)
(* A subscription first awaits the access check; then it cancels the       *)
(* stream of its key, opens a new one and records it, in one turn of the   *)
(* event loop.  Other messages and the disconnection of the socket run     *)
(* during the await.                                                       *)
(***************************************************************************)
CONSTANTS
  Sockets,         \* connections of clients; one is used once
  Keys,            \* console:<server> and stats:<server>
  Subscriptions,   \* subscribe messages served at the same time
  Streams,         \* identities of gRPC calls (bound: calls that are known at once)
  None

ASSUME NoneAssumption == None \notin Streams \cup Sockets \cup Keys

VARIABLES
  conn,      \* per socket: "new", "open", "closed"
  cancels,   \* per socket: socket.data.cancelStreams, None where a key has no entry
  owner,     \* per stream: the socket and key it emits to, Ended when it does not run
  pending    \* per subscription: the socket and key that await the access check

vars == <<conn, cancels, owner, pending>>

Target == [socket: Sockets, key: Keys]
To(s, k) == [socket |-> s, key |-> k]
Nobody == [socket |-> None, key |-> None]   \* no target: ended, or not in use

Init ==
  /\ conn = [s \in Sockets |-> "new"]
  /\ cancels = [s \in Sockets |-> [k \in Keys |-> None]]
  /\ owner = [i \in Streams |-> Nobody]
  /\ pending = [h \in Subscriptions |-> Nobody]

-----------------------------------------------------------------------------

\* The middleware of the namespace has resolved the token.
Connect(s) ==
  /\ conn[s] = "new"
  /\ conn' = [conn EXCEPT ![s] = "open"]
  /\ UNCHANGED <<cancels, owner, pending>>

\* subscribeConsole and subscribeStats, up to the await.
Subscribe(h, s, k) ==
  /\ conn[s] = "open"
  /\ pending[h] = Nobody
  /\ pending' = [pending EXCEPT ![h] = To(s, k)]
  /\ UNCHANGED <<conn, cancels, owner>>

\* findAccessibleOrThrow throws.
Denied(h) ==
  /\ pending[h] # Nobody
  /\ pending' = [pending EXCEPT ![h] = Nobody]
  /\ UNCHANGED <<conn, cancels, owner>>

\* A new gRPC call: no map refers to it.
Fresh(i) == owner[i] = Nobody /\ \A s \in Sockets, k \in Keys : cancels[s][k] # i

\* Mutant: the stream that was there before goes on.
OpenStreamBeside(h) ==
  LET s == pending[h].socket
      k == pending[h].key
  IN
  /\ pending[h] # Nobody
  /\ \E i \in Streams :
       /\ Fresh(i)
       /\ owner' = [owner EXCEPT ![i] = To(s, k)]
       /\ cancels' = [cancels EXCEPT ![s] = [cancels[s] EXCEPT ![k] = i]]
  /\ pending' = [pending EXCEPT ![h] = Nobody]
  /\ UNCHANGED conn

\* The rest of the handler, whatever became of the socket: cancel, open, set.
OpenStream(h) ==
  LET s == pending[h].socket
      k == pending[h].key
  IN
  /\ pending[h] # Nobody
  /\ \E i \in Streams :
       /\ Fresh(i)
       /\ owner' = [j \in Streams |-> IF j = i THEN To(s, k)
                                      ELSE IF j = cancels[s][k] THEN Nobody ELSE owner[j]]
       /\ cancels' = [cancels EXCEPT ![s] = [cancels[s] EXCEPT ![k] = i]]
  /\ pending' = [pending EXCEPT ![h] = Nobody]
  /\ UNCHANGED conn

\* Mutant: the entry is overwritten instead of deleted.
UnsubscribeOverwrites(s, k) ==
  /\ conn[s] = "open"
  /\ owner' = [i \in Streams |-> IF i = cancels[s][k] THEN Nobody ELSE owner[i]]
  /\ cancels' = [cancels EXCEPT ![s] = [cancels[s] EXCEPT ![k] = Nobody]]
  /\ UNCHANGED <<conn, pending>>

Unsubscribe(s, k) ==
  /\ conn[s] = "open"
  /\ owner' = [i \in Streams |-> IF i = cancels[s][k] THEN Nobody ELSE owner[i]]
  /\ cancels' = [cancels EXCEPT ![s] = [cancels[s] EXCEPT ![k] = None]]
  /\ UNCHANGED <<conn, pending>>

\* handleDisconnect: every stream of the map is canceled, the map is cleared.
Disconnect(s) ==
  /\ conn[s] = "open"
  /\ conn' = [conn EXCEPT ![s] = "closed"]
  /\ owner' = [i \in Streams |-> IF \E k \in Keys : cancels[s][k] = i THEN Nobody ELSE owner[i]]
  /\ cancels' = [cancels EXCEPT ![s] = [k \in Keys |-> None]]
  /\ UNCHANGED pending

\* The daemon ends the stream (the container stopped, an error, a restart of
\* the daemon): the client is told, the map keeps the cancel function.
StreamEnds(i) ==
  /\ owner[i] # Nobody
  /\ owner' = [owner EXCEPT ![i] = Nobody]
  /\ UNCHANGED <<conn, cancels, pending>>

Next ==
  \/ \E s \in Sockets : Connect(s) \/ Disconnect(s)
  \/ \E s \in Sockets, k \in Keys :
       Unsubscribe(s, k) \/ \E h \in Subscriptions : Subscribe(h, s, k)
  \/ \E h \in Subscriptions : OpenStream(h) \/ Denied(h)
  \/ \E i \in Streams : StreamEnds(i)

Spec == Init /\ [][Next]_vars

-----------------------------------------------------------------------------
(* Properties *)

TypeOK ==
  /\ conn \in [Sockets -> {"new", "open", "closed"}]
  /\ cancels \in [Sockets -> [Keys -> Streams \cup {None}]]
  /\ owner \in [Streams -> Target \cup {Nobody}]
  /\ pending \in [Subscriptions -> Target \cup {Nobody}]

\* Every running stream can still be canceled: the map of its socket holds it
\* under its key, however subscriptions, unsubscriptions and the disconnection
\* interleave.  So a client never gets the lines of a server twice.
StreamsReachable ==
  \A i \in Streams : owner[i] # Nobody => cancels[owner[i].socket][owner[i].key] = i
=============================================================================
