------------------------------- MODULE HttpSse -------------------------------
(* The HTTP and server-sent-event server of http_sse.cpp, and the clients on *)
(* the other side of its sockets.  One thread serves all of them: a pump     *)
(* polls, drops a stream whose client has left, accepts at most one          *)
(* connection and answers it, and sends one event to the stream.             *)
EXTENDS Integers

CONSTANTS Clients,   \* each connects at most once
          None       \* no socket: a descriptor of -1

ASSUME HttpAssumption == None \notin Clients

VARIABLES conn,       \* each client's connection
          listening,  \* listen_fd is open
          client_fd,  \* the event stream's socket
          incoming,   \* the socket accepted by this pump
          hot,        \* revents of the poll
          reset_out,  \* the pump answered POST /reset
          owed        \* a reset was answered and no pipeline has started since

httpVars == <<conn, listening, client_fd, incoming, hot, reset_out, owed>>

\* GET /events, POST /reset, a request that is answered and closed (the page,
\* and 404 for everything else), and one whose end never comes.
Requests == {"events", "reset", "page", "part"}

\* queued: in the listen backlog.  gone: the client of the stream left.
\* got: an open connection is a stream, or a stream was cut short.
Connections ==
  [st : {"away", "queued", "open", "closed"}, asks : Requests, gone : BOOLEAN,
   got : {"nothing", "stream", "torn"}]

Away == [st |-> "away", asks |-> "part", gone |-> FALSE, got |-> "nothing"]
Closed(got) == [Away EXCEPT !.st = "closed", !.got = got]

NotHot == [listen |-> FALSE, client |-> FALSE]

\* Only the clients in coming will connect.
HttpInit(coming) ==
  /\ conn = [c \in Clients |-> IF c \in coming THEN Away ELSE Closed("nothing")]
  /\ listening = FALSE
  /\ client_fd = None /\ incoming = None
  /\ hot = NotHot
  /\ reset_out = FALSE /\ owed = FALSE

Queued == {c \in Clients : conn[c].st = "queued"}
Open == {c \in Clients : conn[c].st = "open"}
-------------------------------------------------------------------------------
(* Clients *)

Connect(c) ==
  /\ listening /\ conn[c].st = "away"
  /\ \E r \in Requests : conn' = [conn EXCEPT ![c].st = "queued", ![c].asks = r]
  /\ UNCHANGED <<listening, client_fd, incoming, hot, reset_out, owed>>

\* A client that leaves before it has the stream is one whose request does not
\* arrive, or to which sends fail.
HangUp(c) ==
  /\ c = client_fd /\ ~conn[c].gone
  /\ conn' = [conn EXCEPT ![c].gone = TRUE]
  /\ UNCHANGED <<listening, client_fd, incoming, hot, reset_out, owed>>
-------------------------------------------------------------------------------
(* http_sse_pump *)

\* send_all: everything, or (a slow or departed client) less than that.
SendOutcomes == {"all", "part", "nothing"}

Poll ==
  /\ hot' = [listen |-> Queued # {}, client |-> client_fd # None /\ conn[client_fd].gone]
  /\ UNCHANGED <<conn, listening, client_fd, incoming, reset_out, owed>>

\* drop_if_closed, when poll said so.
Drop ==
  /\ IF hot.client
     THEN conn' = [conn EXCEPT ![client_fd] = Closed("nothing")] /\ client_fd' = None
     ELSE UNCHANGED <<conn, client_fd>>
  /\ UNCHANGED <<listening, incoming, hot, reset_out, owed>>

\* accept_client succeeds on a queued connection, even a deserted one.
Accept(c) ==
  /\ hot.listen /\ c \in Queued
  /\ incoming' = c
  /\ conn' = [conn EXCEPT ![c].st = "open"]
  /\ UNCHANGED <<listening, client_fd, hot, reset_out, owed>>

\* read_request gives up: the end never comes, or not in time.
Unread ==
  /\ conn' = [conn EXCEPT ![incoming] = Closed("nothing")]
  /\ incoming' = None
  /\ UNCHANGED <<listening, client_fd, hot, reset_out, owed>>

\* The page and the 404: sent as far as it goes, and closed.
Answer ==
  /\ conn[incoming].asks = "page"
  /\ conn' = [conn EXCEPT ![incoming] = Closed("nothing")]
  /\ incoming' = None
  /\ UNCHANGED <<listening, client_fd, hot, reset_out, owed>>

\* Mutant: the stream that is replaced is not closed.
NothingReplaced == {}

\* What is closed to make room for a new stream.
Replaced == {client_fd}

\* GET /events: the new stream replaces the one there is, unless its header
\* does not get through; then there is none.
Stream ==
  /\ conn[incoming].asks = "events"
  /\ \E sent \in BOOLEAN :
       /\ conn' = [c \in Clients |->
                    CASE c = incoming /\ sent -> [conn[c] EXCEPT !.got = "stream"]
                      [] c = incoming /\ ~sent -> Closed("nothing")
                      [] c # incoming /\ c \in Replaced -> Closed("nothing")
                      [] OTHER -> conn[c]]
       /\ client_fd' = IF sent THEN incoming ELSE None
  /\ incoming' = None
  /\ UNCHANGED <<listening, hot, reset_out, owed>>

\* POST /reset: the result of send_reset_ok is ignored.
Reset ==
  /\ conn[incoming].asks = "reset"
  /\ conn' = [conn EXCEPT ![incoming] = Closed("nothing")]
  /\ owed' = TRUE
  /\ incoming' = None
  /\ reset_out' = TRUE
  /\ UNCHANGED <<listening, client_fd, hot>>

\* Mutant: a failed event leaves the stream open.
StillStreaming(outcome) == TRUE

\* Whether the stream outlives a send.
Streaming(outcome) == outcome = "all"

\* The event goes out to the stream, which a failed send ends.  send_sse_data
\* refuses 8000 bytes or more.
SendEvent(length) ==
  /\ IF client_fd = None \/ length = 0
     THEN UNCHANGED <<conn, client_fd>>
     ELSE \E outcome \in (IF length >= 8000 THEN {"nothing"} ELSE SendOutcomes) :
            LET torn == IF outcome = "part" THEN "torn" ELSE "nothing"
            IN  IF Streaming(outcome)
                THEN /\ conn' = [conn EXCEPT ![client_fd].got =
                                   IF outcome = "all" THEN "stream" ELSE torn]
                     /\ UNCHANGED client_fd
                ELSE conn' = [conn EXCEPT ![client_fd] = Closed(torn)] /\ client_fd' = None
  /\ hot' = NotHot
  /\ UNCHANGED <<listening, incoming, reset_out, owed>>

\* The end of run_observe: the stream is closed, then the listening socket,
\* and the connections nobody accepted are reset with it.
CloseServer ==
  /\ conn' = [c \in Clients |->
               IF c = client_fd \/ c \in Queued THEN Closed("nothing") ELSE conn[c]]
  /\ client_fd' = None
  /\ listening' = FALSE
  /\ UNCHANGED <<incoming, hot, reset_out, owed>>
==============================================================================
