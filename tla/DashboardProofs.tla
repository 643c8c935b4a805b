--------------------------- MODULE DashboardProofs ---------------------------
(* The observer and the supervisor that holds the mapping for it. *)
EXTENDS Dashboard, TLAPS

------------------------------------------------------------------------------
(* The invariant *)

\* The observer with a listening socket.
Pumping == {"loop", "rows", "poll", "drop", "accept", "read", "event", "rerun", "close"} \cup Loads

Flags == {"shutdown", "ingest_done", "compute_done"}
Resetting == Flags \cup {"generation"}

Samples == [generation : Nat, shutdown : 0 .. 1, ingest_done : 0 .. 1,
            compute_done : 0 .. 1, idle : 0 .. 1]

\* The types that TypeOK leaves out.
MoreTypes ==
  /\ hot \in [listen : BOOLEAN, client : BOOLEAN]
  /\ opc \in {"off", "attach", "listen", "ended", "failed", "killed"} \cup Pumping
  /\ supc \in {"create", "spawn", "start", "pipeline", "wait", "cut", "install", "hold", "again",
               "release", "wait_observe", "exit", "killed"} \cup Resetting
  /\ sample \in Samples
  /\ request \in 0 .. 1

\* What is open is what the observer's two variables say, and a stream has got
\* nothing but whole events.
Sockets ==
  /\ listening <=> opc \in Pumping
  /\ attached <=> opc \in Pumping \cup {"listen"}
  /\ Open = {client_fd, incoming} \ {None}
  /\ incoming # None => incoming # client_fd
  /\ opc = "read" <=> incoming # None
  /\ ~listening => client_fd = None /\ Queued = {}
  /\ opc = "drop" /\ hot.client => client_fd # None
  /\ \A c \in Clients : conn[c].got = "torn" => conn[c].st = "closed"
  /\ client_fd # None => conn[client_fd].got = "stream"

\* Where the supervisor is, and what the others may rely on.
Held ==
  /\ supc \in {"create", "spawn"} => opc = "off"
  /\ supc \in {"create", "exit"} => ~linked
  /\ supc = "exit" => ~Serving
  /\ supc \in {"hold", "again"} \cup Resetting => handlers

\* The flags in a sample of this generation are still up, unless the reset that
\* ends the generation is on its way.
SampleHonest ==
  /\ sample.generation <= board.generation
  /\ sample.generation = board.generation /\ supc \notin Resetting =>
       /\ \A f \in Flags : sample[f] = 1 => board[f] = 1
       /\ sample.idle = 1 => Finished
  /\ opc \in Loads \cup {"rows"} => sample.idle = 0
  /\ opc = "generation" => sample = NoSample

DashboardInv ==
  TypeOK /\ MoreTypes /\ Sockets /\ Held /\ SampleHonest /\ RerunKept

------------------------------------------------------------------------------
(* Types *)

\* What a closed connection is.
LEMMA ClosedType ==
  ASSUME NEW got \in {"nothing", "stream", "torn"}
  PROVE  Closed(got) \in Connections /\ Closed(got).st = "closed" /\ Closed(got).got = got
BY Zenon DEF Closed, Away, Connections, Requests

\* The loads and where they lead.
LEMMA LoadsAre ==
  /\ Loads = {"generation", "shutdown", "ingest_done", "compute_done"}
  /\ NextLoad["generation"] = "shutdown" /\ NextLoad["shutdown"] = "ingest_done"
  /\ NextLoad["ingest_done"] = "compute_done" /\ NextLoad["compute_done"] = "rows"
BY Zenon DEF Loads, NextLoad

\* The order of reset_control; nothing leads to "taken".
LEMMA ResetsAre ==
  /\ DOMAIN ResetOrder = {"taken"} \cup Resetting
  /\ ResetOrder.taken = "shutdown"
  /\ ResetOrder["shutdown"] = "ingest_done" /\ ResetOrder["ingest_done"] = "compute_done"
  /\ ResetOrder["compute_done"] = "generation" /\ ResetOrder["generation"] = "again"
BY Zenon DEF ResetOrder, Resetting, Flags

\* The connections keep their type, and the two descriptors theirs.
LEMMA ConnectionTypes ==
  ASSUME TypeOK, MoreTypes, Sockets, [Next]_vars
  PROVE  /\ conn' \in [Clients -> Connections]
         /\ client_fd' \in Clients \cup {None} /\ incoming' \in Clients \cup {None}
<1>1. /\ conn \in [Clients -> Connections]
      /\ client_fd \in Clients \cup {None} /\ incoming \in Clients \cup {None}
  BY Zenon DEF TypeOK
<1>2. CASE UNCHANGED <<conn, client_fd, incoming>>
  BY <1>1, <1>2, Zenon
<1>3. CASE opc = "drop" /\ Drop
  BY <1>1, <1>3, ClosedType, Zenon DEF Drop, Sockets
<1>4. ASSUME NEW c \in Clients, Accept(c)
      PROVE  conn' \in [Clients -> Connections] /\ incoming' \in Clients /\ client_fd' = client_fd
  BY <1>1, <1>4 DEF Accept, Connections
<1>5. CASE opc = "read" /\ (Unread \/ Answer \/ Reset)
  BY <1>1, <1>5, ClosedType, Zenon DEF Unread, Answer, Reset
<1>6. CASE opc = "read" /\ Stream
  BY <1>1, <1>6, ClosedType DEF Stream, Connections
<1>7. CASE SendEvent(EventLength)
  BY <1>1, <1>7, ClosedType DEF SendEvent, Connections, SendOutcomes
<1>8. CASE CloseServer
  BY <1>1, <1>8, ClosedType, Zenon DEF CloseServer
<1>9. CASE KillObserver
  BY <1>1, <1>9, ClosedType, Zenon DEF KillObserver
<1>10. ASSUME NEW c \in Clients, Connect(c) \/ HangUp(c)
       PROVE  conn' \in [Clients -> Connections] /\ UNCHANGED <<client_fd, incoming>>
  <2>1. CASE Connect(c)
    <3>1. PICK r \in Requests : conn' = [conn EXCEPT ![c].st = "queued", ![c].asks = r]
      BY <2>1, Zenon DEF Connect
    <3>2. [[conn[c] EXCEPT !.st = "queued"] EXCEPT !.asks = r] \in Connections
      BY <1>1, Zenon DEF Connections
    <3>3. conn' = [conn EXCEPT ![c] = [[conn[c] EXCEPT !.st = "queued"] EXCEPT !.asks = r]]
      BY <1>1, <3>1, Zenon
    <3> QED BY <1>1, <2>1, <3>2, <3>3, Zenon DEF Connect
  <2>2. CASE HangUp(c)
    <3>1. conn' = [conn EXCEPT ![c] = [conn[c] EXCEPT !.gone = TRUE]] /\ UNCHANGED <<client_fd, incoming>>
      BY <2>2, Zenon DEF HangUp
    <3>2. [conn[c] EXCEPT !.gone = TRUE] \in Connections
      BY <1>1, Zenon DEF Connections
    <3> QED BY <1>1, <3>1, <3>2, Zenon
  <2> QED BY <1>10, <2>1, <2>2, Zenon
<1>11. CASE SupervisorStep \/ ChildFails
  BY <1>2, <1>11, Zenon DEF SupervisorStep, ChildFails, OfSupervisor, httpVars, Create,
     SpawnObserve, IngestDone, ComputeDone, ComputeFails, StageHangs, IngestDies,
     OfChildren, RaiseShutdown, PipelineEnd, CutShort, InstallHandlers, Hold,
     ResetControl, StartPipeline, Release, WaitObserve
<1>12. CASE ObserverStep
  BY <1>1, <1>2, <1>3, <1>4, <1>5, <1>6, <1>7, <1>8, <1>12, Zenon DEF ObserverStep,
     httpVars, Attach, Listen, Loop, Load, Format, ObservePoll, Poll, ObserveDrop,
     ObserveAccept, ObserveRespond, ObserveEvent, ObserveRerun, ObserveClose
<1>13. CASE Signal \/ UNCHANGED vars
  BY <1>2, <1>13, Zenon DEF Signal, vars, httpVars
<1>14. CASE ClientStep
  BY <1>1, <1>10, <1>14, Zenon DEF ClientStep
<1> QED BY <1>9, <1>11, <1>12, <1>13, <1>14, Zenon DEF Next

\* The control block.
LEMMA BoardTypes ==
  ASSUME TypeOK, MoreTypes, [Next]_vars
  PROVE  board' \in [generation : Nat, shutdown : 0 .. 1, ingest_done : 0 .. 1,
                     compute_done : 0 .. 1]
<1>1. board \in [generation : Nat, shutdown : 0 .. 1, ingest_done : 0 .. 1, compute_done : 0 .. 1]
  BY Zenon DEF TypeOK
<1>2. CASE UNCHANGED board
  BY <1>1, <1>2, Zenon
<1>3. CASE ResetControl
  <2>1. supc \in Resetting
    BY <1>3, ResetsAre, Zenon DEF ResetControl, MoreTypes, Resetting, Flags
  <2> QED BY <1>1, <1>3, <2>1 DEF ResetControl, ResetValue, Resetting, Flags
<1>4. CASE IngestDone \/ ComputeDone \/ ChildFails \/ RaiseShutdown \/ CutShort
  BY <1>1, <1>4 DEF IngestDone, ComputeDone, ChildFails, ComputeFails, StageHangs,
     IngestDies, RaiseShutdown, CutShort
<1>5. CASE Signal
  BY <1>1, <1>5 DEF Signal, ChildrenDie
<1>6. CASE SupervisorStep \/ ChildFails
  BY <1>2, <1>3, <1>4, <1>6, Zenon DEF SupervisorStep, ChildFails, Create, SpawnObserve,
     PipelineEnd, InstallHandlers, Hold, StartPipeline, Release, WaitObserve
<1>7. CASE ObserverStep \/ KillObserver \/ ClientStep \/ UNCHANGED vars
  BY <1>2, <1>7, Zenon DEF ObserverStep, supervisorVars, Attach, Listen, Loop, Load,
     Format, ObservePoll, ObserveDrop, ObserveAccept, ObserveRespond, ObserveEvent,
     ObserveRerun, ObserveClose, KillObserver, ClientStep, vars
<1> QED BY <1>5, <1>6, <1>7, Zenon DEF Next

\* The sample, and where the observer is.
LEMMA ObserverTypes ==
  ASSUME TypeOK, MoreTypes, [Next]_vars
  PROVE  /\ hot' \in [listen : BOOLEAN, client : BOOLEAN]
         /\ opc' \in {"off", "attach", "listen", "ended", "failed", "killed"} \cup Pumping
         /\ sample' \in Samples
<1>0. /\ hot \in [listen : BOOLEAN, client : BOOLEAN]
      /\ opc \in {"off", "attach", "listen", "ended", "failed", "killed"} \cup Pumping
      /\ sample \in Samples
  BY Zenon DEF MoreTypes
<1>1. board \in [generation : Nat, shutdown : 0 .. 1, ingest_done : 0 .. 1, compute_done : 0 .. 1]
  BY Zenon DEF TypeOK
<1>2. CASE UNCHANGED <<hot, opc, sample>>
  BY <1>0, <1>2, Zenon
<1>3. CASE Loop
  BY <1>0, <1>3, LoadsAre DEF Loop, NoSample, Samples, FirstLoad, Pumping, httpVars
<1>4. CASE Load
  BY <1>0, <1>1, <1>4, LoadsAre, Zenon DEF Load, Samples, Pumping, httpVars
<1>5. CASE Format
  <2>1. Collected \in Samples
    <3> DEFINE i == IF sample.shutdown = 1 /\ sample.ingest_done = 1 /\ sample.compute_done = 1
                    THEN 1 ELSE 0
    <3>1. sample.generation \in Nat /\ i \in 0 .. 1
      BY <1>0 DEF Samples
    <3>2. Collected = [[NoSample EXCEPT !.generation = sample.generation] EXCEPT !.idle = i]
      BY Zenon DEF Collected
    <3>3. NoSample \in Samples
      BY DEF NoSample, Samples
    <3>4. [NoSample EXCEPT !.generation = sample.generation] \in Samples
      BY <3>1, <3>3, Zenon DEF Samples
    <3> HIDE DEF i
    <3> QED BY <3>1, <3>2, <3>4, Zenon DEF Samples
  <2>2. UNCHANGED hot /\ opc' \in {"loop", "poll"} /\ sample' = Collected
    BY <1>5, Zenon DEF Format, httpVars
  <2> QED BY <1>0, <2>1, <2>2, Zenon DEF Pumping
<1>6. CASE ObservePoll
  <2>1. CASE Poll
    <3> DEFINE l == Queued # {}
               g == client_fd # None /\ conn[client_fd].gone
    <3>1. l \in BOOLEAN /\ g \in BOOLEAN
      BY Zenon
    <3>2. hot' = [listen |-> l, client |-> g]
      BY <2>1, Zenon DEF Poll
    <3> HIDE DEF l, g
    <3>3. hot' \in [listen : BOOLEAN, client : BOOLEAN]
      BY <3>1, <3>2, Zenon
    <3> QED BY <1>0, <1>6, <3>3, Zenon DEF ObservePoll, Pumping
  <2>2. CASE UNCHANGED httpVars
    BY <1>0, <1>6, <2>2, Zenon DEF ObservePoll, Pumping, httpVars
  <2> QED BY <1>6, <2>1, <2>2, Zenon DEF ObservePoll
<1>7. CASE Attach \/ Listen \/ ObserveDrop \/ ObserveAccept \/ ObserveRespond
  BY <1>0, <1>7, Zenon DEF Attach, Listen, ObserveDrop, Drop, ObserveAccept, Accept,
     ObserveRespond, Unread, Answer, Stream, Reset, Pumping, httpVars
<1>8. CASE ObserveEvent \/ ObserveRerun \/ ObserveClose
  <2>1. NotHot \in [listen : BOOLEAN, client : BOOLEAN]
    BY Zenon DEF NotHot
  <2>2. hot' = NotHot \/ hot' = hot
    BY <1>8, Zenon DEF ObserveEvent, SendEvent, ObserveRerun, ObserveClose, CloseServer
  <2>3. opc' \in {"rerun", "loop", "ended"} /\ UNCHANGED sample
    BY <1>8, Zenon DEF ObserveEvent, ObserveRerun, ObserveClose
  <2> QED BY <1>0, <2>1, <2>2, <2>3, Zenon DEF Pumping
<1>9. CASE SupervisorStep \/ ChildFails
  BY <1>0, <1>9, Zenon DEF SupervisorStep, ChildFails, OfSupervisor, httpVars,
     observerVars, Create, SpawnObserve, IngestDone, ComputeDone, ComputeFails,
     StageHangs, IngestDies, OfChildren, RaiseShutdown, PipelineEnd, CutShort,
     InstallHandlers, Hold, ResetControl, StartPipeline, Release, WaitObserve
<1>10. CASE Signal \/ KillObserver \/ ClientStep \/ UNCHANGED vars
  BY <1>0, <1>10, Zenon DEF Signal, KillObserver, ClientStep, Connect, HangUp, vars,
     httpVars, observerVars
<1> QED BY <1>3, <1>4, <1>5, <1>6, <1>7, <1>8, <1>9, <1>10, Zenon DEF Next, ObserverStep

\* Where the supervisor is, and the request.
LEMMA SupervisorTypes ==
  ASSUME MoreTypes, [Next]_vars
  PROVE  /\ supc' \in {"create", "spawn", "start", "pipeline", "wait", "cut", "install", "hold",
                        "again", "release", "wait_observe", "exit", "killed"} \cup Resetting
         /\ request' \in 0 .. 1
<1>0. /\ supc \in {"create", "spawn", "start", "pipeline", "wait", "cut", "install", "hold",
                    "again", "release", "wait_observe", "exit", "killed"} \cup Resetting
      /\ request \in 0 .. 1
  BY Zenon DEF MoreTypes
<1>1. CASE UNCHANGED <<supc, request>>
  BY <1>0, <1>1, Zenon
<1>2. CASE ObserveRerun
  BY <1>0, <1>2 DEF ObserveRerun
<1>3. CASE ResetControl
  BY <1>0, <1>3, ResetsAre, ZenonT(30) DEF ResetControl, OfChildren, Resetting, Flags
<1>4. CASE Hold
  BY <1>0, <1>4, ResetsAre DEF Hold, Resetting, Flags
<1>5. CASE SupervisorStep \/ ChildFails
  BY <1>0, <1>3, <1>4, <1>5, Zenon DEF SupervisorStep, ChildFails, Create, SpawnObserve,
     IngestDone, ComputeDone, ComputeFails, StageHangs, IngestDies, OfChildren,
     RaiseShutdown, PipelineEnd, CutShort, InstallHandlers, RequestKept, StartPipeline,
     Release, WaitObserve
<1>6. CASE Signal
  BY <1>0, <1>6, Zenon DEF Signal, ChildrenDie
<1>7. CASE ObserverStep \/ KillObserver \/ ClientStep \/ UNCHANGED vars
  BY <1>1, <1>2, <1>7, Zenon DEF ObserverStep, supervisorVars, Attach, Listen, Loop,
     Load, Format, ObservePoll, ObserveDrop, ObserveAccept, ObserveRespond,
     ObserveEvent, ObserveClose, KillObserver, ClientStep, vars
<1> QED BY <1>5, <1>6, <1>7, Zenon DEF Next

------------------------------------------------------------------------------
(* Sockets *)

\* A step that leaves the sockets alone moves the observer only to where they
\* are as they should be.
LEMMA SocketsUntouched ==
  ASSUME Sockets, UNCHANGED <<conn, listening, client_fd, incoming, hot, attached>>,
         \/ opc' = opc
         \/ opc \in {"off", "attach"} /\ opc' \in {"attach", "failed", "killed"}
         \/ /\ opc \in Loads \cup {"loop", "rows", "poll", "accept", "rerun"}
            /\ opc' \in Loads \cup {"loop", "rows", "poll", "event", "rerun", "close"}
  PROVE  Sockets'
BY LoadsAre DEF Sockets, Open, Queued, Pumping

\* Every step keeps the sockets in order.
LEMMA SocketsStep ==
  ASSUME TypeOK, MoreTypes, Sockets, Held, [Next]_vars
  PROVE  Sockets'
<1>0. /\ conn \in [Clients -> Connections]
      /\ client_fd \in Clients \cup {None} /\ incoming \in Clients \cup {None}
      /\ None \notin Clients
  BY HttpAssumption, Zenon DEF TypeOK
<1>1. CASE Attach
  BY <1>1, LoadsAre DEF Attach, httpVars, Sockets, Open, Queued, Pumping
<1>2. CASE Listen
  <2>1. ~listening /\ UNCHANGED <<conn, client_fd, incoming>>
    BY <1>2, LoadsAre, Zenon DEF Listen, Sockets, Pumping
  <2>2. Open' = Open /\ Queued' = Queued
    BY <2>1, Zenon DEF Open, Queued
  <2>3. CASE opc' = "loop" /\ listening' = TRUE /\ UNCHANGED attached
    BY <1>2, <2>1, <2>2, <2>3, Zenon DEF Listen, Sockets, Pumping
  <2>4. CASE opc' = "failed" /\ attached' = FALSE /\ UNCHANGED listening
    BY <1>2, <2>1, <2>2, <2>4, LoadsAre, Zenon DEF Listen, Sockets, Pumping
  <2> QED BY <1>2, <2>3, <2>4, Zenon DEF Listen
<1>3. CASE Loop \/ Load \/ Format
  <2>1. opc' \in Loads \cup {"loop", "rows", "poll", "close"}
    BY <1>3, LoadsAre, Zenon DEF Loop, Load, Format, FirstLoad
  <2> QED BY <1>3, <2>1, SocketsUntouched, Zenon DEF Loop, Load, Format, httpVars
<1>4. CASE ObservePoll
  <2>1. CASE Poll /\ opc' = "drop"
    BY <1>4, <2>1, Zenon DEF ObservePoll, Poll, Sockets, Open, Queued, Pumping
  <2> QED BY <1>4, <2>1, SocketsUntouched, Zenon DEF ObservePoll, httpVars
<1>5. CASE ObserveDrop
  <2>1. CASE hot.client
    BY <1>0, <1>5, <2>1, ClosedType DEF ObserveDrop, Drop, Sockets, Open, Queued, Pumping
  <2>2. CASE ~hot.client
    BY <1>5, <2>2, Zenon DEF ObserveDrop, Drop, Sockets, Open, Queued, Pumping
  <2> QED BY <2>1, <2>2, Zenon
<1>6. CASE ObserveAccept
  <2>1. ASSUME NEW c \in Clients, Accept(c), opc' = "read"
        PROVE  Sockets'
    BY <1>0, <1>6, <2>1 DEF ObserveAccept, Accept, Connections, Sockets, Open, Queued,
       Pumping
  <2>2. CASE UNCHANGED httpVars /\ opc' = "event"
    BY <1>6, <2>2, SocketsUntouched, Zenon DEF ObserveAccept, httpVars
  <2> QED BY <1>6, <2>1, <2>2, Zenon DEF ObserveAccept
<1>7. CASE ObserveRespond
  <2>0. incoming \in Clients /\ incoming # client_fd /\ opc = "read" /\ opc' = "event"
    BY <1>0, <1>7, Zenon DEF ObserveRespond, Sockets
  <2>1. CASE Unread \/ Answer \/ Reset
    <3>1. /\ conn' = [conn EXCEPT ![incoming] = Closed("nothing")]
          /\ incoming' = None /\ UNCHANGED <<listening, client_fd, attached>>
      BY <1>7, <2>1, Zenon DEF ObserveRespond, Unread, Answer, Reset
    <3>2. Open' = Open \ {incoming} /\ Queued' = Queued \ {incoming}
      BY <1>0, <2>0, <3>1, ClosedType, Zenon DEF Open, Queued
    <3>3. \A c \in Clients : conn'[c].got = "torn" => conn'[c].st = "closed"
      BY <1>0, <2>0, <3>1, ClosedType, Zenon DEF Sockets
    <3>4. client_fd # None => conn'[client_fd].got = "stream"
      BY <1>0, <2>0, <3>1, Zenon DEF Sockets
    <3> QED BY <1>0, <2>0, <3>1, <3>2, <3>3, <3>4, Zenon DEF Sockets, Pumping
  <2>2. CASE Stream
    BY <1>0, <1>7, <2>0, <2>2, ClosedType
       DEF ObserveRespond, Stream, Replaced, Connections, Sockets, Open, Queued, Pumping
  <2> QED BY <1>7, <2>1, <2>2, Zenon DEF ObserveRespond
<1>8. CASE ObserveEvent
  BY <1>0, <1>8, ClosedType DEF ObserveEvent, SendEvent, Streaming, SendOutcomes,
     Connections, Sockets, Open, Queued, Pumping
<1>9. CASE ObserveRerun
  BY <1>9, SocketsUntouched, Zenon DEF ObserveRerun
<1>10. CASE ObserveClose
  <2>1. Open = {client_fd} \ {None} /\ incoming = None
    BY <1>10, Zenon DEF ObserveClose, Sockets
  <2>2. \A c \in Clients : conn'[c] = IF c = client_fd \/ c \in Queued THEN Closed("nothing")
                                      ELSE conn[c]
    BY <1>10, Zenon DEF ObserveClose, CloseServer
  <2>3. Open' = {} /\ Queued' = {}
    BY <2>1, <2>2, ClosedType DEF Open, Queued
  <2>4. \A c \in Clients : conn'[c].got = "torn" => conn'[c].st = "closed"
    BY <2>2, ClosedType, Zenon DEF Sockets
  <2> QED BY <1>10, <2>1, <2>3, <2>4, LoadsAre, Zenon DEF ObserveClose, CloseServer, Sockets, Pumping
<1>11. CASE SupervisorStep \/ ChildFails
  <2>1. CASE SpawnObserve
    BY <2>1, SocketsUntouched, Zenon DEF SpawnObserve, Held, httpVars
  <2> QED BY <1>11, <2>1, SocketsUntouched, Zenon DEF SupervisorStep, ChildFails, OfSupervisor, httpVars, observerVars,
     Create, IngestDone, ComputeDone, ComputeFails, StageHangs, IngestDies, OfChildren, RaiseShutdown, PipelineEnd,
     CutShort, InstallHandlers, Hold, ResetControl, StartPipeline, Release, WaitObserve
<1>12. CASE Signal \/ UNCHANGED vars
  BY <1>12, SocketsUntouched, Zenon DEF Signal, vars, httpVars, observerVars
<1>13. CASE KillObserver
  <2>1. \A c \in Clients : conn'[c] = IF c \in Queued \cup Open THEN Closed("nothing") ELSE conn[c]
    BY <1>13, Zenon DEF KillObserver
  <2>2. Open' = {} /\ Queued' = {}
    BY <2>1, ClosedType, Zenon DEF Open, Queued
  <2>3. \A c \in Clients : conn'[c].got = "torn" => conn'[c].st = "closed"
    BY <2>1, ClosedType, Zenon DEF Sockets
  <2> QED BY <1>13, <2>2, <2>3, LoadsAre, Zenon DEF KillObserver, Sockets, Pumping
<1>14. CASE ClientStep
  <2>1. ASSUME NEW c \in Clients, Connect(c)
        PROVE  Sockets'
    <3>1. /\ \A d \in Clients \ {c} : conn'[d] = conn[d]
          /\ conn'[c].st = "queued" /\ conn'[c].got = conn[c].got /\ conn[c].st = "away"
      BY <1>0, <2>1 DEF Connect, Connections
    <3>2. Open' = Open /\ c \notin Open
      BY <3>1, Zenon DEF Open
    <3>3. listening /\ UNCHANGED <<listening, client_fd, incoming, hot, opc, attached>>
      BY <1>14, <2>1, Zenon DEF ClientStep, Connect, observerVars
    <3>4. client_fd # c
      BY <1>0, <3>2, Zenon DEF Sockets
    <3>5. \A d \in Clients : conn'[d].got = "torn" => conn'[d].st = "closed"
      BY <3>1, Zenon DEF Sockets
    <3> QED BY <1>0, <3>1, <3>2, <3>3, <3>4, <3>5, Zenon DEF Sockets
  <2>2. ASSUME NEW c \in Clients, HangUp(c)
        PROVE  Sockets'
    BY <1>0, <1>14, <2>2 DEF ClientStep, HangUp, observerVars, Connections, Sockets,
       Open, Queued, Pumping
  <2> QED BY <1>14, <2>1, <2>2, Zenon DEF ClientStep
<1> QED BY <1>1, <1>2, <1>3, <1>4, <1>5, <1>6, <1>7, <1>8, <1>9, <1>10, <1>11, <1>12, <1>13, <1>14, Zenon
        DEF Next, ObserverStep

------------------------------------------------------------------------------
(* The supervisor, the sample and the request *)

\* The name of the mapping, the handlers and the observer's end.
LEMMA HeldStep ==
  ASSUME MoreTypes, Held, [Next]_vars
  PROVE  Held'
<1>2. CASE ObserverStep
  <2>1. opc # "off" /\ Serving
    BY <1>2, LoadsAre, Zenon DEF ObserverStep, Serving, Attach, Listen, Loop, Load,
       Format, ObservePoll, ObserveDrop, ObserveAccept, ObserveRespond, ObserveEvent,
       ObserveRerun, ObserveClose
  <2>2. UNCHANGED <<supc, release, holdstop, handlers, linked>>
    BY <1>2, Zenon DEF ObserverStep, supervisorVars, Attach, Listen, Loop, Load, Format,
       ObservePoll, ObserveDrop, ObserveAccept, ObserveRespond, ObserveEvent,
       ObserveRerun, ObserveClose
  <2> QED BY <2>1, <2>2, Zenon DEF Held, Serving
<1>3. CASE Create \/ SpawnObserve
  BY <1>3 DEF Create, SpawnObserve, OfSupervisor, observerVars, Held, Serving,
     Resetting, Flags
<1>4. CASE IngestDone \/ ComputeDone \/ ChildFails \/ RaiseShutdown \/ PipelineEnd \/ CutShort
  BY <1>4, Zenon DEF IngestDone, ComputeDone, ChildFails, ComputeFails, StageHangs,
     IngestDies, RaiseShutdown, PipelineEnd, CutShort, OfChildren, OfSupervisor,
     observerVars, Held, Serving, Resetting, Flags
<1>5. CASE InstallHandlers \/ Hold \/ ResetControl \/ StartPipeline
  BY <1>5, ResetsAre DEF InstallHandlers, Hold, ResetControl, OfChildren, StartPipeline,
     OfSupervisor, observerVars, MoreTypes, Held, Serving, Resetting, Flags
<1>6. CASE Release \/ WaitObserve
  BY <1>6, Zenon DEF Release, WaitObserve, OfSupervisor, observerVars, Held, Serving,
     Resetting, Flags
<1>7. CASE Signal
  BY <1>7, Zenon DEF Signal, ChildrenDie, Held, Serving, Resetting, Flags
<1>8. CASE KillObserver \/ ClientStep \/ UNCHANGED vars
  BY <1>8 DEF KillObserver, ClientStep, vars, observerVars, supervisorVars, Held, Serving
<1> QED BY <1>2, <1>3, <1>4, <1>5, <1>6, <1>7, <1>8, Zenon DEF Next, SupervisorStep, ChildFails

\* A step that leaves the sample alone keeps it honest if it raises flags only,
\* starts the next generation or is one of a reset.
LEMMA SampleStands ==
  ASSUME TypeOK, MoreTypes, SampleHonest, UNCHANGED sample,
         opc' = opc \/ opc' \notin Loads \cup {"rows"},
         \/ UNCHANGED board /\ (supc' \in Resetting \/ supc \notin Resetting)
         \/ \E f \in Flags : board' = [board EXCEPT ![f] = 1] /\ supc \notin Resetting
         \/ board' = [board EXCEPT !.generation = @ + 1]
         \/ \E f \in Flags : board' = [board EXCEPT ![f] = 0] /\ supc' \in Resetting
  PROVE  SampleHonest'
<1>0. /\ board \in [generation : Nat, shutdown : 0 .. 1, ingest_done : 0 .. 1, compute_done : 0 .. 1]
      /\ sample \in Samples
  BY Zenon DEF TypeOK, MoreTypes
<1>1. CASE UNCHANGED board /\ (supc' \in Resetting \/ supc \notin Resetting)
  BY <1>1, LoadsAre, Zenon DEF SampleHonest, Finished
<1>2. ASSUME NEW f \in Flags, board' = [board EXCEPT ![f] = 1], supc \notin Resetting
      PROVE  SampleHonest'
  BY <1>0, <1>2, LoadsAre DEF SampleHonest, Finished, Flags
<1>3. CASE board' = [board EXCEPT !.generation = @ + 1]
  BY <1>0, <1>3, LoadsAre DEF SampleHonest, Samples
<1>4. ASSUME NEW f \in Flags, board' = [board EXCEPT ![f] = 0], supc' \in Resetting
      PROVE  SampleHonest'
  BY <1>0, <1>4, LoadsAre, Zenon DEF SampleHonest, Flags
<1> QED BY <1>1, <1>2, <1>3, <1>4, Zenon

\* Loads come while the supervisor is anywhere; resets while the observer is.
LEMMA SampleStep ==
  ASSUME TypeOK, MoreTypes, Held, SampleHonest, [Next]_vars
  PROVE  SampleHonest'
<1>0. /\ board \in [generation : Nat, shutdown : 0 .. 1, ingest_done : 0 .. 1, compute_done : 0 .. 1]
      /\ sample \in Samples
  BY Zenon DEF TypeOK, MoreTypes
<1>1. CASE Loop
  <2>1. UNCHANGED <<supc, board>> /\ sample' = NoSample /\ opc' \in {"close", "generation"}
    BY <1>1, Zenon DEF Loop, FirstLoad, supervisorVars
  <2> QED BY <1>0, <2>1, LoadsAre DEF SampleHonest, NoSample, Flags
<1>2. CASE Load
  <2>1. UNCHANGED <<supc, board>> /\ opc \in Loads /\ opc' = NextLoad[opc]
        /\ sample' = [sample EXCEPT ![opc] = board[opc]]
    BY <1>2, Zenon DEF Load, supervisorVars
  <2>2. CASE opc = "generation"
    BY <1>0, <2>1, <2>2, LoadsAre DEF SampleHonest, NoSample, Samples, Flags
  <2>3. CASE opc # "generation"
    BY <1>0, <2>1, <2>3, LoadsAre DEF SampleHonest, Samples, Flags
  <2> QED BY <2>2, <2>3, Zenon
<1>3. CASE Format
  <2>1. UNCHANGED <<supc, board>> /\ sample' = Collected /\ opc' \in {"loop", "poll"}
    BY <1>3, Zenon DEF Format, supervisorVars
  <2>2. /\ Collected.generation = sample.generation
        /\ Collected.idle = 1 => \A f \in Flags : sample[f] = 1
        /\ \A f \in Flags : Collected[f] = 0
    BY DEF Collected, NoSample, Flags
  <2> QED BY <1>0, <2>1, <2>2, LoadsAre DEF SampleHonest, Finished, Flags
<1>4. CASE ObserverStep /\ ~Loop /\ ~Load /\ ~Format
  <2>1. UNCHANGED <<supc, board, sample>> /\ opc' \notin Loads \cup {"rows"}
    BY <1>4, LoadsAre, Zenon DEF ObserverStep, supervisorVars, Attach, Listen, ObservePoll,
       ObserveDrop, ObserveAccept, ObserveRespond, ObserveEvent, ObserveRerun, ObserveClose
  <2> QED BY <2>1, SampleStands, Zenon
<1>5. CASE ResetControl
  <2>1. supc \in Resetting /\ UNCHANGED <<opc, sample>> /\ supc' = ResetOrder[supc]
        /\ board' = [board EXCEPT ![supc] = ResetValue(supc, @)]
    BY <1>5, ResetsAre, Zenon DEF ResetControl, OfChildren, OfSupervisor, observerVars,
       MoreTypes, Resetting, Flags
  <2>2. CASE supc = "generation"
    BY <2>1, <2>2, SampleStands, Zenon DEF ResetValue
  <2>3. CASE supc \in Flags
    <3>1. board' = [board EXCEPT ![supc] = 0] /\ supc' \in Resetting
      BY <2>1, <2>3, ResetsAre, Zenon DEF ResetValue, Resetting, Flags
    <3> QED BY <2>1, <2>3, <3>1, SampleStands, Zenon
  <2> QED BY <2>1, <2>2, <2>3, Zenon DEF Resetting
<1>6. CASE IngestDone \/ ComputeDone \/ RaiseShutdown \/ CutShort
  <2>1. UNCHANGED <<opc, sample>> /\ supc \notin Resetting
        /\ \E f \in Flags : board' = [board EXCEPT ![f] = 1]
    BY <1>6, Zenon DEF IngestDone, ComputeDone, RaiseShutdown, CutShort, OfChildren,
       OfSupervisor, observerVars, Resetting, Flags
  <2> QED BY <2>1, SampleStands, Zenon
<1>7. CASE ChildFails
  <2>1. UNCHANGED <<opc, sample>> /\ supc \notin Resetting
    BY <1>7, Zenon DEF ChildFails, ComputeFails, StageHangs, IngestDies, OfChildren,
       OfSupervisor, observerVars, Resetting, Flags
  <2>2. \/ UNCHANGED board
        \/ board' = [board EXCEPT !.generation = @ + 1]
        \/ \E f \in Flags : board' = [board EXCEPT ![f] = 1]
    BY <1>7, Zenon DEF ChildFails, ComputeFails, StageHangs, IngestDies, Flags
  <2> QED BY <2>1, <2>2, SampleStands, Zenon
<1>8. CASE Create \/ SpawnObserve \/ PipelineEnd \/ InstallHandlers \/ Hold \/ StartPipeline \/ Release
           \/ WaitObserve
  <2>1. /\ UNCHANGED <<board, sample>> /\ supc \notin Resetting
        /\ opc' = opc \/ opc' \notin Loads \cup {"rows"}
    BY <1>8, LoadsAre, Zenon DEF Create, SpawnObserve, PipelineEnd, InstallHandlers,
       Hold, StartPipeline, Release, WaitObserve, OfChildren, OfSupervisor,
       observerVars, Resetting, Flags
  <2> QED BY <2>1, SampleStands, Zenon
<1>9. CASE Signal
  <2>1. UNCHANGED sample /\ (opc' = opc \/ opc' \notin Loads \cup {"rows"})
    BY <1>9, LoadsAre, Zenon DEF Signal
  <2>2. \/ UNCHANGED board /\ (supc' \in Resetting \/ supc \notin Resetting)
        \/ board' = [board EXCEPT !.generation = @ + 1]
    BY <1>9, Zenon DEF Signal, ChildrenDie, Held, Resetting, Flags
  <2> QED BY <2>1, <2>2, SampleStands, Zenon
<1>10. CASE KillObserver \/ ClientStep \/ UNCHANGED vars
  <2>1. UNCHANGED <<supc, board, sample>> /\ (opc' = opc \/ opc' \notin Loads \cup {"rows"})
    BY <1>10, LoadsAre, Zenon DEF KillObserver, ClientStep, vars, observerVars,
       supervisorVars
  <2> QED BY <2>1, SampleStands, Zenon
<1> QED BY <1>1, <1>2, <1>3, <1>4, <1>5, <1>6, <1>7, <1>8, <1>9, <1>10, Zenon
        DEF Next, SupervisorStep, ChildFails

\* A request goes from the pump to the control block, from there to the hold
\* loop, and is answered by the pipeline that the reset leads to.
LEMMA RerunStep ==
  ASSUME MoreTypes, Held, RerunKept, [Next]_vars
  PROVE  RerunKept'
<1>0. DOMAIN ResetOrder = {"taken"} \cup Resetting /\ supc # "taken"
  BY ResetsAre, Zenon DEF MoreTypes, Resetting, Flags
<1>1. CASE UNCHANGED <<owed, reset_out, request, supc>> /\ (opc' = opc \/ opc \notin {"event", "rerun", "killed"})
  BY <1>1, Zenon DEF RerunKept
<1>2. CASE ObserveRespond
  <2>1. opc = "read" /\ opc' = "event" /\ UNCHANGED <<request, supc>>
    BY <1>2, Zenon DEF ObserveRespond, supervisorVars
  <2>2. UNCHANGED <<owed, reset_out>> \/ (owed' = TRUE /\ reset_out' = TRUE)
    BY <1>2, Zenon DEF ObserveRespond, Unread, Answer, Stream, Reset
  <2> QED BY <2>1, <2>2, Zenon DEF RerunKept
<1>3. CASE ObserveEvent
  <2>1. opc = "event" /\ opc' = "rerun" /\ UNCHANGED <<request, supc>>
    BY <1>3, SMT DEF ObserveEvent, supervisorVars
  <2>2. UNCHANGED <<owed, reset_out>>
    BY <1>3, SMT DEF ObserveEvent, SendEvent
  <2> QED BY <2>1, <2>2, Zenon DEF RerunKept
<1>4. CASE ObserveRerun
  BY <1>4, Zenon DEF ObserveRerun, RerunKept
<1>5. CASE ObserverStep /\ ~ObserveRespond /\ ~ObserveEvent /\ ~ObserveRerun
  <2>1. UNCHANGED <<owed, reset_out, request, supc>> /\ opc \notin {"event", "rerun", "killed"}
    BY <1>5, LoadsAre, Zenon DEF ObserverStep, httpVars, supervisorVars, Attach, Listen,
       Loop, Load, Format, ObservePoll, Poll, ObserveDrop, Drop, ObserveAccept, Accept,
       ObserveClose, CloseServer
  <2> QED BY <1>1, <2>1, Zenon
<1>6. CASE Hold \/ ResetControl \/ StartPipeline
  BY <1>0, <1>6, ResetsAre, Zenon DEF Hold, ResetControl, OfChildren, StartPipeline,
     OfSupervisor, httpVars, observerVars, RerunKept, Resetting, Flags
<1>7. CASE InstallHandlers
  BY <1>7, <1>0, Zenon DEF InstallHandlers, RequestKept, OfSupervisor, httpVars,
     observerVars, RerunKept, Resetting, Flags
<1>8. CASE SpawnObserve
  BY <1>0, <1>8, Zenon DEF SpawnObserve, httpVars, Held, RerunKept, Resetting, Flags
<1>9. CASE \/ ChildFails
           \/ SupervisorStep /\ ~Hold /\ ~ResetControl /\ ~StartPipeline /\ ~InstallHandlers
              /\ ~SpawnObserve
  <2>1. UNCHANGED <<owed, reset_out, request, opc>> /\ supc \notin Resetting \cup {"again"}
    BY <1>9, ZenonT(30) DEF SupervisorStep, ChildFails, OfSupervisor, httpVars, observerVars,
       Create, IngestDone, ComputeDone, ComputeFails, StageHangs, IngestDies,
       OfChildren, RaiseShutdown, PipelineEnd, CutShort, Release, WaitObserve,
       Resetting, Flags
  <2> QED BY <1>0, <2>1, Zenon DEF RerunKept
<1>10. CASE Signal
  <2>1. UNCHANGED <<owed, reset_out, request>> /\ (opc' = opc \/ (opc = "attach" /\ opc' = "killed"))
    BY <1>10, Zenon DEF Signal, httpVars
  <2>2. supc \in Resetting \cup {"again"} => supc' = supc
    BY <1>10, Zenon DEF Signal, ChildrenDie, Held, Resetting, Flags
  <2> QED BY <1>0, <2>1, <2>2, Zenon DEF RerunKept
<1>11. CASE KillObserver
  BY <1>11, Zenon DEF KillObserver, RerunKept
<1>12. CASE ClientStep \/ UNCHANGED vars
  BY <1>1, <1>12, Zenon DEF ClientStep, Connect, HangUp, vars, httpVars, observerVars,
     supervisorVars
<1> QED BY <1>2, <1>3, <1>4, <1>5, <1>6, <1>7, <1>8, <1>9, <1>10, <1>11, <1>12, Zenon
        DEF Next, SupervisorStep, ChildFails

------------------------------------------------------------------------------
(* The theorems *)

\* Nothing is open before the observer starts.
LEMMA DashboardInit ==
  ASSUME Init
  PROVE  DashboardInv
<1>1. PICK s \in Scenarios : HttpInit(s.clients)
  BY Zenon DEF Init
<1>2. Away \in Connections
  BY Zenon DEF Away, Connections, Requests
<1>3. conn = [c \in Clients |-> IF c \in s.clients THEN Away ELSE Closed("nothing")]
  BY <1>1, Zenon DEF HttpInit
<1>4. conn \in [Clients -> Connections]
  BY <1>2, <1>3, ClosedType, Zenon
<1>5. \A c \in Clients : conn[c].st \in {"away", "closed"} /\ conn[c].got = "nothing"
  BY <1>3, ClosedType, Zenon DEF Away
<1>6. TypeOK
  BY <1>1, <1>4 DEF TypeOK, HttpInit, Init, FreshBoard
<1>7. MoreTypes
  BY <1>1 DEF MoreTypes, HttpInit, Init, NotHot, NoSample, Samples
<1>8. Sockets
  BY <1>1, <1>5, LoadsAre, Zenon DEF Sockets, HttpInit, Init, Open, Queued, Pumping
<1>9. Held /\ RerunKept
  BY <1>1, Zenon DEF Held, RerunKept, HttpInit, Init, Serving, Resetting, Flags
<1>10. SampleHonest
  BY LoadsAre DEF SampleHonest, Init, NoSample, FreshBoard, Flags
<1> QED BY <1>6, <1>7, <1>8, <1>9, <1>10, Zenon DEF DashboardInv

\* Every step of the observer, the supervisor and the clients keeps it.
LEMMA DashboardStep ==
  ASSUME DashboardInv, [Next]_vars
  PROVE  DashboardInv'
<1>1. TypeOK /\ MoreTypes /\ Sockets /\ Held /\ SampleHonest /\ RerunKept
  BY Zenon DEF DashboardInv
<1>2. TypeOK'
  BY <1>1, ConnectionTypes, BoardTypes, Zenon DEF TypeOK
<1>3. MoreTypes'
  BY <1>1, ObserverTypes, SupervisorTypes, Zenon DEF MoreTypes
<1> QED BY <1>1, <1>2, <1>3, SocketsStep, HeldStep, SampleStep, RerunStep, Zenon DEF DashboardInv

\* The invariant of the observer and the supervisor, for any clients, failures
\* and signals.
THEOREM DashboardInvariant == Spec => []DashboardInv
<1>1. Init => DashboardInv
  BY DashboardInit, Zenon
<1>2. DashboardInv /\ [Next]_vars => DashboardInv'
  BY DashboardStep, Zenon
<1> QED BY <1>1, <1>2, PTL DEF Spec

\* The connections, the descriptors and the control block keep their types.
THEOREM DashboardTypes == Spec => []TypeOK
<1>1. DashboardInv => TypeOK
  BY Zenon DEF DashboardInv
<1> QED BY <1>1, DashboardInvariant, PTL

\* No socket, mapping or name is left behind by run_observe and run_supervisor.
THEOREM NoLeak == Spec => []NothingLeaks
<1>1. ASSUME DashboardInv
      PROVE  NothingLeaks
  <2>1. TypeOK /\ MoreTypes /\ Sockets /\ Held
    BY <1>1, Zenon DEF DashboardInv
  <2>2. opc \in {"loop", "poll"} \cup Loads => Open = {client_fd} \ {None}
    BY <2>1, LoadsAre, Zenon DEF Sockets
  <2>3. opc \in {"ended", "failed"} => Open = {} /\ Queued = {} /\ ~listening /\ ~attached
    BY <2>1, LoadsAre, Zenon DEF Sockets, Pumping
  <2> QED BY <2>1, <2>2, <2>3, Zenon DEF NothingLeaks, Held
<1> QED BY <1>1, DashboardInvariant, PTL

\* An event stream consists of whole events.
THEOREM EventsWhole == Spec => []StreamWhole
<1>1. ASSUME DashboardInv
      PROVE  StreamWhole
  <2>1. TypeOK /\ Sockets
    BY <1>1, Zenon DEF DashboardInv
  <2> QED BY <2>1, HttpAssumption, Zenon DEF StreamWhole, Sockets, Open, TypeOK
<1> QED BY <1>1, DashboardInvariant, PTL

\* Idle is honest about the generation it is shown with.
THEOREM IdleTrue == Spec => []IdleHonest
<1>1. ASSUME DashboardInv
      PROVE  IdleHonest
  BY <1>1, ResetsAre, Zenon DEF DashboardInv, SampleHonest, IdleHonest
<1> QED BY <1>1, DashboardInvariant, PTL

\* An acknowledged rerun is not forgotten on its way to the supervisor.
THEOREM RerunSafe == Spec => []RerunKept
<1>1. DashboardInv => RerunKept
  BY Zenon DEF DashboardInv
<1> QED BY <1>1, DashboardInvariant, PTL
==============================================================================
