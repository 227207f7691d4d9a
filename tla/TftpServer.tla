------------------------------ MODULE TftpServer ------------------------------
(***************************************************************************)
(* The server: tftp_server with its tftp_connection_handler.  Requests     *)
(* arrive on the listening socket, wait in the request queue, become       *)
(* sessions in the list of client connections, are served by the epoll     *)
(* loop and are erased by its clean-up pass.  A session is abstracted to   *)
(* what the loop sees of it: being served may set its finished flag,       *)
(* throw, or never return (module ServerConnection models the session      *)
(* itself).                                                                *)
(***************************************************************************)
EXTENDS Naturals, Sequences, SequencesExt, FiniteSets

CONSTANTS
    Clients,       \* requests that may arrive, each becoming one session
    Bad,           \* a datagram that is not a read or write request
    Empty,         \* a datagram without payload
    Listener,      \* the listening socket, as the origin of an event
    MaxClients,    \* _max_clients
    MaxNoise       \* bound: bad and empty datagrams that arrive

ASSUME ServerAssumption ==
    /\ MaxClients \in Nat /\ MaxNoise \in Nat
    /\ Bad \notin Clients /\ Empty \notin Clients /\ Listener \notin Clients
    /\ Bad # Empty

VARIABLES
    socket,          \* datagrams in the listening socket's buffer
    request_queue,   \* _request_queue: parsed requests
    connections,     \* _client_connections: the list of sessions
    finished,        \* sessions whose is_finished() holds
    events,          \* fetched by epoll_wait and not served yet
    iter,            \* the clean-up loop's position in the list
    pc,              \* where the loop is
    exit_requested,  \* set by stop(), from the signal handler
    noise,           \* bad and empty datagrams so far
    arrived,         \* history: requests in order of arrival
    accepted         \* history: requests in order of acceptance

queueVars == <<request_queue, accepted>>
sessionVars == <<connections, finished>>
vars == <<socket, queueVars, sessionVars, events, iter, pc, exit_requested,
          noise, arrived>>

Sessions == Range(connections)

-----------------------------------------------------------------------------
(* The environment: datagrams arrive, the operator stops the server.       *)

Running == pc \notin {"stopped", "dead"}

Arrive(c) ==
    /\ Running /\ c \notin Range(arrived)
    /\ socket' = Append(socket, c)
    /\ arrived' = Append(arrived, c)
    /\ UNCHANGED <<queueVars, sessionVars, events, iter, pc, exit_requested, noise>>

ArriveNoise(d) ==
    /\ Running /\ noise < MaxNoise
    /\ noise' = noise + 1
    /\ socket' = Append(socket, d)
    /\ UNCHANGED <<queueVars, sessionVars, events, iter, pc, exit_requested, arrived>>

stop ==
    /\ Running /\ ~exit_requested
    /\ exit_requested' = TRUE
    /\ UNCHANGED <<socket, queueVars, sessionVars, events, iter, pc, noise, arrived>>

-----------------------------------------------------------------------------
(* The loop: the flag is tested, epoll_wait returns at most MAX_EVENTS     *)
(* events (none after a second), or is interrupted.                        *)

MAX_EVENTS == MaxClients + 1

(* Every session has two descriptors: its socket and its timer.            *)
Ready == [origin : Sessions, fd : {"sd", "timer"}]
         \cup (IF socket = <<>> THEN {} ELSE {[origin |-> Listener, fd |-> "sd"]})

Fetched == {b \in SUBSET Ready : Cardinality(b) <= MAX_EVENTS}

MayExitWhenIdle == exit_requested /\ connections = <<>>
MayExit == exit_requested

TestExit ==
    /\ pc = "loop"
    /\ pc' = IF MayExit THEN "stopped" ELSE "poll"
    /\ UNCHANGED <<socket, queueVars, sessionVars, events, iter, exit_requested, noise, arrived>>

EpollWait ==
    /\ pc = "poll"
    /\ events' \in Fetched
    /\ pc' = "serve"
    /\ UNCHANGED <<socket, queueVars, sessionVars, iter, exit_requested, noise, arrived>>

Interrupted ==
    /\ pc = "poll"
    /\ pc' = "loop"
    /\ UNCHANGED <<socket, queueVars, sessionVars, events, iter, exit_requested, noise, arrived>>

-----------------------------------------------------------------------------
(* tftp_connection_handler::handle_read reads until recv_from returns no   *)
(* data, which an empty datagram does too, and queues what parses.         *)

Drained ==
    LET empties == {i \in DOMAIN socket : socket[i] = Empty} IN
    IF empties = {} THEN Len(socket)
    ELSE CHOOSE i \in empties : \A j \in empties : i <= j

(* The requests among the datagrams, in order: one turn of the loop per    *)
(* datagram.                                                               *)
Requests(datagrams) ==
    LET queued[i \in 0 .. Len(datagrams)] ==
            IF i = 0 THEN <<>>
            ELSE IF datagrams[i] \in Clients THEN Append(queued[i - 1], datagrams[i])
            ELSE queued[i - 1]
    IN queued[Len(datagrams)]

HasRoomForOneMore(n) == n <= MaxClients
HasRoom(n) == n < MaxClients

(* How many of a queue of requests are accepted.                           *)
AcceptedFrom(queue) ==
    CHOOSE k \in 0 .. Len(queue) :
        /\ k = Len(queue) \/ ~HasRoom(Len(connections) + k)
        /\ \A j \in 0 .. k - 1 : HasRoom(Len(connections) + j)

DropsWaiting(queue, k) == <<>>
Waiting(queue, k) == SubSeq(queue, k + 1, Len(queue))

(* The listening socket's event: the queue is filled, then emptied into    *)
(* the list while there is room.                                           *)
ServeListener ==
    LET queue == request_queue \o Requests(SubSeq(socket, 1, Drained))
        k     == AcceptedFrom(queue)
    IN
    /\ pc = "serve"
    /\ [origin |-> Listener, fd |-> "sd"] \in events
    /\ events' = events \ {[origin |-> Listener, fd |-> "sd"]}
    /\ socket' = SubSeq(socket, Drained + 1, Len(socket))
    /\ request_queue' = Waiting(queue, k)
    /\ connections' = connections \o SubSeq(queue, 1, k)
    /\ accepted' = accepted \o SubSeq(queue, 1, k)
    /\ UNCHANGED <<finished, iter, pc, exit_requested, noise, arrived>>

(* The constructor of a session, or its registration, throws at any turn   *)
(* of the loop (no descriptor left, an unreadable path) and nothing        *)
(* catches it.  The j requests before are sessions; the one of this turn   *)
(* has left the queue, and the list may hold its session already.          *)
AcceptThrows(j) ==
    LET queue == request_queue \o Requests(SubSeq(socket, 1, Drained)) IN
    /\ pc = "serve"
    /\ [origin |-> Listener, fd |-> "sd"] \in events
    /\ j < AcceptedFrom(queue)
    /\ socket' = SubSeq(socket, Drained + 1, Len(socket))
    /\ request_queue' = Waiting(queue, j + 1)
    /\ \E n \in {j, j + 1} : connections' = connections \o SubSeq(queue, 1, n)
    /\ accepted' = accepted \o SubSeq(queue, 1, j)
    /\ pc' = "dead"
    /\ UNCHANGED <<finished, events, iter, exit_requested, noise, arrived>>

ServeSessionErasing(e) ==
    /\ pc = "serve" /\ e \in events /\ e.origin # Listener
    /\ events' = events \ {e}
    /\ connections' = SelectSeq(connections, LAMBDA c : c # e.origin)
    /\ UNCHANGED <<socket, queueVars, finished, iter, pc, exit_requested, noise, arrived>>

(* handle_read, handle_write or set_finished of the session; it is erased  *)
(* later, by the clean-up pass.                                            *)
ServeSession(e) ==
    /\ pc = "serve" /\ e \in events /\ e.origin # Listener
    /\ events' = events \ {e}
    /\ finished' \in {finished, finished \cup {e.origin}}
    /\ UNCHANGED <<socket, queueVars, connections, iter, pc, exit_requested, noise, arrived>>

SessionThrows(e) ==
    /\ pc = "serve" /\ e \in events /\ e.origin # Listener
    /\ pc' = "dead"
    /\ UNCHANGED <<socket, queueVars, sessionVars, events, iter, exit_requested, noise, arrived>>

(* The octet loop of tftp_write_file::write may turn for ever: the handler *)
(* does not return, and the server's only thread is gone.                  *)
SessionHangs(e) ==
    /\ pc = "serve" /\ e \in events /\ e.origin # Listener
    /\ pc' = "hung"
    /\ UNCHANGED <<socket, queueVars, sessionVars, events, iter, exit_requested, noise, arrived>>

-----------------------------------------------------------------------------
(* The clean-up pass: erase returns the position after the erased session, *)
(* and the loop then steps past that one too.  Erasing the last session    *)
(* yields end(); in the standard library's circular list the step from     *)
(* there leads to the beginning.                                           *)

SecondPosition == 2
FirstPosition == 1

StartCleanup ==
    /\ pc = "serve" /\ events = {}
    /\ pc' = "cleanup"
    /\ iter' = FirstPosition
    /\ UNCHANGED <<socket, queueVars, sessionVars, events, exit_requested, noise, arrived>>

StepsPastEnd(i, n) == i + 1
StepAfterErase(i, n) == IF i > n THEN 1 ELSE i + 1

CleanupStep ==
    /\ pc = "cleanup" /\ iter <= Len(connections)
    /\ IF connections[iter] \in finished
       THEN /\ connections' = RemoveAt(connections, iter)
            /\ finished' = finished \ {connections[iter]}
            /\ iter' = StepAfterErase(iter, Len(connections) - 1)
       ELSE /\ iter' = iter + 1
            /\ UNCHANGED sessionVars
    /\ UNCHANGED <<socket, queueVars, events, pc, exit_requested, noise, arrived>>

EndCleanup ==
    /\ pc = "cleanup" /\ iter > Len(connections)
    /\ pc' = "loop"
    /\ UNCHANGED <<socket, queueVars, sessionVars, events, iter, exit_requested, noise, arrived>>

Ended == (~Running \/ pc = "hung") /\ UNCHANGED vars

-----------------------------------------------------------------------------
Init ==
    /\ socket = <<>> /\ request_queue = <<>> /\ accepted = <<>>
    /\ connections = <<>> /\ finished = {}
    /\ events = {} /\ iter = 1 /\ pc = "loop"
    /\ exit_requested = FALSE /\ noise = 0 /\ arrived = <<>>

Loop ==
    \/ TestExit \/ EpollWait \/ Interrupted
    \/ ServeListener \/ (\E j \in 0 .. MaxClients : AcceptThrows(j))
    \/ (\E e \in events : ServeSession(e) \/ SessionThrows(e) \/ SessionHangs(e))
    \/ StartCleanup \/ CleanupStep \/ EndCleanup

Next ==
    \/ Loop
    \/ (\E c \in Clients : Arrive(c)) \/ (\E d \in {Bad, Empty} : ArriveNoise(d))
    \/ stop
    \/ Ended

Spec == Init /\ [][Next]_vars

(* The process keeps running, and signals do not interrupt every wait.     *)
(* Nothing is assumed of a handler: it may be the one that never returns.  *)
Fairness == WF_vars(Loop) /\ SF_vars(EpollWait)

FairSpec == Spec /\ Fairness

-----------------------------------------------------------------------------
(* Every variable keeps its type; the clean-up iterator never leaves the   *)
(* list (one past its end at most).                                        *)
TypeOK ==
    /\ socket \in Seq(Clients \cup {Bad, Empty})
    /\ request_queue \in Seq(Clients) /\ accepted \in Seq(Clients)
    /\ connections \in Seq(Clients) /\ finished \subseteq Clients
    /\ events \subseteq [origin : Clients \cup {Listener}, fd : {"sd", "timer"}]
    /\ iter \in Nat /\ (pc = "cleanup" => iter \in 1 .. Len(connections) + 1)
    /\ pc \in {"loop", "poll", "serve", "cleanup", "stopped", "dead", "hung"}
    /\ exit_requested \in BOOLEAN
    /\ noise \in 0 .. MaxNoise
    /\ arrived \in Seq(Clients)

(* Every fetched event that is still to be served points to a session that *)
(* is in the list: its data.ptr never dangles, although a session may have *)
(* two events in one batch and finish in the first (start, lines 89-111).  *)
NoDanglingEvent == \A e \in events : e.origin \in Sessions \cup {Listener}

(* No request is lost, repeated or overtaken: what arrived is what was     *)
(* accepted, what is queued and what is still in the socket, in order      *)
(* (tftp_connection_handler::handle_read, get_request).  Only a server     *)
(* that ends while it accepts a request loses one: that request.           *)
RequestsConserved ==
    \/ arrived = accepted \o request_queue \o Requests(socket)
    \/ /\ pc = "dead"
       /\ \E c \in Clients : arrived = accepted \o <<c>> \o request_queue \o Requests(socket)

(* The list never holds more sessions than the configured maximum, also    *)
(* when many requests are accepted in one event (start, line 77).          *)
WithinCapacity == Len(connections) <= MaxClients

(* A finished session is erased in the end, although a clean-up pass that  *)
(* erases the session before it skips it (start, lines 116-125), unless    *)
(* the server ends or a handler never returns.                             *)
FinishedErased ==
    \A c \in Clients : (c \in finished) ~> (c \notin Sessions \/ ~Running \/ pc = "hung")

(* Once stop() was called the loop ends, whatever sessions are open and    *)
(* however the signal interrupts the wait, unless a handler never returns: *)
(* the flag is then never looked at again.                                 *)
StopHonoured == exit_requested ~> (~Running \/ pc = "hung")
=============================================================================
