----------------------------- MODULE PageServer -----------------------------
(***************************************************************************)
(* The simulator's WebSocket server (ws_server.cpp): one current client,   *)
(* the thread that accepts them, a reader thread for each, and stop().     *)
(*                                                                         *)
(* A connection is used once, and they are numbered in the order in which  *)
(* they are made.  The handshake is left out but for the time it takes;    *)
(* framing and the sockets are left out.  What a handler does with a       *)
(* message is SimHost's.                                                   *)
(***************************************************************************)
EXTENDS Naturals, FiniteSets

CONSTANTS
  MaxPages  \* bound: connections that are made

ASSUME PagesAssumption == MaxPages \in Nat

Pages == 1..MaxPages
Nobody == 0
None == "none"   \* no message

VARIABLES
  current,   \* Server::current_
  open,      \* Conn::open, per connection
  accepting, \* the accept thread: its step, the new connection and the one it replaces
  reader,    \* per connection: what its reader thread does
  request,   \* per connection: the message its reader is at, or None
  stop       \* Server::stop(): not called, then its steps

serverVars == <<current, open, accepting, reader, request, stop>>

Stopping == stop # "no"
Reading == {"read", "handle", "flagged"}
ReaderStates == {"none", "done", "joined"} \cup Reading

ServerTypeOK(Messages) ==
  /\ current \in Pages \cup {Nobody}
  /\ open \in [Pages -> BOOLEAN]
  /\ accepting \in [at : {"accept", "handshake", "replace", "connected", "ended"},
                    new : Pages \cup {Nobody}, old : Pages \cup {Nobody}]
  /\ reader \in [Pages -> ReaderStates]
  /\ request \in [Pages -> Messages \cup {None}]
  /\ stop \in {"no", "join_accept", "shut", "join_readers", "stopped"}

\* serves: FALSE for a headless run, which has no server.
ServerInit(serves) ==
  /\ current = Nobody
  /\ open = [p \in Pages |-> FALSE]
  /\ accepting = [at |-> IF serves THEN "accept" ELSE "ended", new |-> Nobody, old |-> Nobody]
  /\ reader = [p \in Pages |-> "none"]
  /\ request = [p \in Pages |-> None]
  /\ stop = "no"

\* Server::connected()
Connected == current # Nobody /\ open[current]

-----------------------------------------------------------------------------
\* accept(): a page connects and starts its handshake.
PageConnects(p) ==
  /\ accepting.at = "accept" /\ ~Stopping
  /\ reader[p] = "none" /\ \A q \in Pages : q < p => reader[q] # "none"
  /\ accepting' = [accepting EXCEPT !.at = "handshake", !.new = p]
  /\ UNCHANGED <<current, open, reader, request, stop>>

\* It does not finish the handshake in time, or is refused.
HandshakeFails ==
  /\ accepting.at = "handshake"
  /\ accepting' = [accepting EXCEPT !.at = "accept", !.new = Nobody]
  /\ UNCHANGED <<current, open, reader, request, stop>>

\* The handshake is done: the page is the current client.
BecomesCurrent ==
  /\ accepting.at = "handshake"
  /\ current' = accepting.new
  /\ open' = [open EXCEPT ![accepting.new] = TRUE]
  /\ accepting' = [accepting EXCEPT !.at = "replace", !.old = current]
  /\ UNCHANGED <<reader, request, stop>>

\* Mutant of ReplacesOld: the replaced client keeps its socket.
ReplacesOldNot ==
  /\ accepting.at = "replace"
  /\ accepting' = [accepting EXCEPT !.at = "connected", !.old = Nobody]
  /\ UNCHANGED <<open, current, reader, request, stop>>

\* The replaced client's socket is shut, for its reader to end.
ReplacesOld ==
  /\ accepting.at = "replace"
  /\ open' = [p \in Pages |-> p # accepting.old /\ open[p]]
  /\ accepting' = [accepting EXCEPT !.at = "connected", !.old = Nobody]
  /\ UNCHANGED <<current, reader, request, stop>>

\* on_connect has run: readers that have finished are joined (reap_readers), and the
\* new one starts.
StartsReader ==
  /\ accepting.at = "connected"
  /\ reader' = [p \in Pages |-> IF p = accepting.new THEN "read"
                                ELSE IF reader[p] = "done" THEN "joined" ELSE reader[p]]
  /\ accepting' = [accepting EXCEPT !.at = "accept", !.new = Nobody]
  /\ UNCHANGED <<current, open, request, stop>>

AcceptEnds ==
  /\ accepting.at = "accept" /\ Stopping
  /\ accepting' = [accepting EXCEPT !.at = "ended"]
  /\ UNCHANGED <<current, open, reader, request, stop>>

AcceptThread == HandshakeFails \/ BecomesCurrent \/ ReplacesOld \/ StartsReader \/ AcceptEnds

-----------------------------------------------------------------------------
\* recv() returns a message of the page, which goes to the handler when its client is
\* the current one, as looked up here.
Receives(p, message) ==
  /\ reader[p] = "read" /\ open[p]
  /\ current = p
  /\ reader' = [reader EXCEPT ![p] = "handle"]
  /\ request' = [request EXCEPT ![p] = message]
  /\ UNCHANGED <<current, open, accepting, stop>>

\* The handler has returned.
Handled(p) ==
  /\ reader' = [reader EXCEPT ![p] = "read"]
  /\ request' = [request EXCEPT ![p] = None]

\* The socket is shut, or the page closes it, or a frame breaks the protocol: the
\* reader shuts it and gives up its place.
ReaderEnds(p) ==
  /\ reader[p] = "read"
  /\ open' = [open EXCEPT ![p] = FALSE]
  /\ current' = IF current = p THEN Nobody ELSE current
  /\ reader' = [reader EXCEPT ![p] = "done"]
  /\ UNCHANGED <<request, accepting, stop>>

\* close_client(): the client that is current now.
CloseClient == open' = [p \in Pages |-> p # current /\ open[p]]

-----------------------------------------------------------------------------
\* stop(): no new client, the accept thread is joined.
StopAccepting ==
  /\ stop = "no"
  /\ stop' = "join_accept"
  /\ UNCHANGED <<current, open, accepting, reader, request>>

AcceptJoined ==
  /\ stop = "join_accept"
  /\ accepting.at = "ended"
  /\ stop' = "shut"
  /\ UNCHANGED <<current, open, accepting, reader, request>>

\* Mutant of StopClient: the readers are waited for before their client is shut.
StopClientOpen ==
  /\ stop = "shut"
  /\ stop' = "join_readers"
  /\ UNCHANGED <<current, open, accepting, reader, request>>

\* The client is shut and the readers are taken to be joined.
StopClient ==
  /\ stop = "shut"
  /\ CloseClient
  /\ stop' = "join_readers"
  /\ UNCHANGED <<current, accepting, reader, request>>

ReadersJoined ==
  /\ stop = "join_readers"
  /\ \A p \in Pages : reader[p] \notin Reading
  /\ reader' = [p \in Pages |-> IF reader[p] = "done" THEN "joined" ELSE reader[p]]
  /\ stop' = "stopped"
  /\ UNCHANGED <<current, open, accepting, request>>

StopSteps == StopAccepting \/ AcceptJoined \/ StopClient \/ ReadersJoined

-----------------------------------------------------------------------------
\* When stop() returns, none of the server's threads is left to call into the host.
StoppedMeansJoined ==
  stop = "stopped" => accepting.at = "ended" /\ \A p \in Pages : reader[p] \in {"none", "joined"}

\* A client that was replaced is cut off: but for the moment in which the accept thread
\* does it, only the current client has an open socket.
OneClient ==
  \A p \in Pages : open[p] => p = current \/ p = accepting.old
=============================================================================
