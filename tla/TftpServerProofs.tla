--------------------------- MODULE TftpServerProofs ---------------------------
(***************************************************************************)
(* What the server's loop, its request queue and its list of sessions      *)
(* guarantee for every number of clients, every capacity and every mix of  *)
(* requests, bad and empty datagrams.                                      *)
(***************************************************************************)
EXTENDS TftpServer, Induction

Datagrams == Clients \cup {Bad, Empty}

-----------------------------------------------------------------------------
(* The requests among datagrams: what the loop of handle_read computes.    *)

(* q[i] holds the requests among the first i datagrams.                    *)
Queues(q, s) ==
    /\ q \in [0 .. Len(s) -> Seq(Clients)]
    /\ q[0] = <<>>
    /\ \A i \in 1 .. Len(s) :
        q[i] = IF s[i] \in Clients THEN Append(q[i - 1], s[i]) ELSE q[i - 1]

(* The recursion of Requests has a solution.                               *)
LEMMA QueuesExist ==
    ASSUME NEW s \in Seq(Datagrams)
    PROVE  \E q : Queues(q, s)
<1> DEFINE S == Seq(Clients)
           G == [i \in Nat |-> [v \in S |-> IF i \in 1 .. Len(s) /\ s[i] \in Clients
                                           THEN Append(v, s[i]) ELSE v]]
<1>1. G \in [Nat -> [S -> S]]
    OBVIOUS
<1>2. <<>> \in S /\ Len(s) \in Nat
    OBVIOUS
<1>3. PICK q : Solves(q, S, <<>>, G, Len(s))
    <2> HIDE DEF S, G
    <2> QED BY <1>1, <1>2, FiniteRecursion
<1> HIDE DEF S, G
<1>4. ASSUME NEW i \in 1 .. Len(s)
      PROVE  q[i] = IF s[i] \in Clients THEN Append(q[i - 1], s[i]) ELSE q[i - 1]
    <2>1. i \in Nat /\ i - 1 \in 0 .. Len(s) /\ q[i - 1] \in S
        BY <1>2, <1>3 DEF Solves
    <2>2. q[i] = G[i][q[i - 1]]
        BY <1>3 DEF Solves
    <2> QED BY <2>1, <2>2 DEF G
<1> QED BY <1>3, <1>4 DEF Queues, Solves, S

(* So Requests is the last of its values.                                  *)
LEMMA RequestsQueue ==
    ASSUME NEW s \in Seq(Datagrams)
    PROVE  \E q : Queues(q, s) /\ Requests(s) = q[Len(s)]
<1> DEFINE Turn(f) == [i \in 0 .. Len(s) |->
                          IF i = 0 THEN <<>>
                          ELSE IF s[i] \in Clients THEN Append(f[i - 1], s[i])
                          ELSE f[i - 1]]
           q == CHOOSE f : f = Turn(f)
<1>1. PICK g : Queues(g, s)
    BY QueuesExist
<1>2. Len(s) \in Nat
    OBVIOUS
<1>3. \A f : /\ DOMAIN Turn(f) = 0 .. Len(s) /\ Turn(f) = [i \in 0 .. Len(s) |-> Turn(f)[i]]
             /\ Turn(f)[0] = <<>>
             /\ \A i \in 1 .. Len(s) :
                    Turn(f)[i] = IF s[i] \in Clients THEN Append(f[i - 1], s[i]) ELSE f[i - 1]
    BY <1>2
<1>4. Requests(s) = q[Len(s)]
    BY DEF Requests
<1> HIDE DEF Turn
<1>5. g = Turn(g)
    <2>1. \A i \in 0 .. Len(s) : g[i] = Turn(g)[i]
        <3> SUFFICES ASSUME NEW i \in 0 .. Len(s) PROVE g[i] = Turn(g)[i]
            OBVIOUS
        <3>1. CASE i = 0
            BY <1>1, <1>3, <3>1 DEF Queues
        <3>2. CASE i # 0
            <4>1. i \in 1 .. Len(s)
                BY <1>2, <3>2
            <4> QED BY <1>1, <1>3, <4>1 DEF Queues
        <3> QED BY <3>1, <3>2
    <2>2. g = [i \in 0 .. Len(s) |-> g[i]]
        BY <1>1 DEF Queues
    <2> QED BY <1>3, <2>1, <2>2
<1>6. q = Turn(q)
    BY <1>5
<1> HIDE DEF q
<1>7. /\ DOMAIN q = 0 .. Len(s) /\ q = [i \in 0 .. Len(s) |-> q[i]]
      /\ q[0] = <<>>
      /\ \A i \in 1 .. Len(s) :
            q[i] = IF s[i] \in Clients THEN Append(q[i - 1], s[i]) ELSE q[i - 1]
    BY <1>3, <1>6
<1>8. q \in [0 .. Len(s) -> Seq(Clients)]
    <2> DEFINE T == {n \in Nat : n <= Len(s) => q[n] \in Seq(Clients)}
    <2>1. 0 \in T
        BY <1>7
    <2>2. ASSUME NEW n \in Nat, n \in T PROVE n + 1 \in T
        <3> SUFFICES ASSUME n + 1 <= Len(s) PROVE q[n + 1] \in Seq(Clients)
            OBVIOUS
        <3>1. n + 1 \in 1 .. Len(s) /\ (n + 1) - 1 = n /\ n <= Len(s)
            BY <1>2
        <3>2. q[n] \in Seq(Clients)
            BY <2>2, <3>1
        <3>3. q[n + 1] = IF s[n + 1] \in Clients THEN Append(q[n], s[n + 1]) ELSE q[n]
            BY <1>7, <3>1
        <3> QED BY <3>2, <3>3
    <2> HIDE DEF T
    <2>3. \A n \in Nat : n \in T
        BY <2>1, <2>2, SetInduction
    <2>4. \A n \in 0 .. Len(s) : q[n] \in Seq(Clients)
        BY <1>2, <2>3 DEF T
    <2> QED BY <1>7, <2>4
<1>9. Queues(q, s)
    BY <1>7, <1>8 DEF Queues
<1> QED BY <1>4, <1>9

(* Equal beginnings hold the same requests.                                *)
LEMMA QueuesAgree ==
    ASSUME NEW s \in Seq(Datagrams), NEW t \in Seq(Datagrams),
           NEW q, Queues(q, s), NEW r, Queues(r, t),
           NEW m \in Nat, m <= Len(s), m <= Len(t),
           \A i \in 1 .. m : s[i] = t[i]
    PROVE  q[m] = r[m]
<1> DEFINE T == {n \in Nat : n <= m => q[n] = r[n]}
<1>1. 0 \in T
    BY DEF Queues
<1>2. ASSUME NEW n \in Nat, n \in T PROVE n + 1 \in T
    <2> SUFFICES ASSUME n + 1 <= m PROVE q[n + 1] = r[n + 1]
        OBVIOUS
    <2>1. n + 1 \in 1 .. m /\ n + 1 \in 1 .. Len(s) /\ n + 1 \in 1 .. Len(t) /\ (n + 1) - 1 = n
        OBVIOUS
    <2>2. q[n] = r[n] /\ s[n + 1] = t[n + 1]
        BY <1>2, <2>1
    <2> QED BY <2>1, <2>2 DEF Queues
<1> HIDE DEF T
<1>3. m \in T
    BY <1>1, <1>2, SetInduction
<1> QED BY <1>3 DEF T

(* Every member of the queue is a request.                                 *)
LEMMA RequestsType ==
    ASSUME NEW s \in Seq(Datagrams)
    PROVE  Requests(s) \in Seq(Clients)
BY RequestsQueue DEF Queues

(* No datagram, no request.                                                *)
LEMMA RequestsEmpty == Requests(<<>>) = <<>>
<1>1. <<>> \in Seq(Datagrams) /\ Len(<<>>) = 0
    OBVIOUS
<1> QED BY <1>1, RequestsQueue DEF Queues

(* One more datagram adds itself, or nothing.                              *)
LEMMA RequestsAppend ==
    ASSUME NEW s \in Seq(Datagrams), NEW d \in Datagrams
    PROVE  Requests(Append(s, d)) = IF d \in Clients THEN Append(Requests(s), d) ELSE Requests(s)
<1> DEFINE t == Append(s, d)
<1>1. /\ t \in Seq(Datagrams) /\ Len(s) \in Nat /\ Len(t) = Len(s) + 1
      /\ t[Len(s) + 1] = d /\ \A i \in 1 .. Len(s) : s[i] = t[i]
    OBVIOUS
<1> HIDE DEF t
<1>2. PICK q : Queues(q, s) /\ Requests(s) = q[Len(s)]
    BY RequestsQueue
<1>3. PICK r : Queues(r, t) /\ Requests(t) = r[Len(t)]
    BY <1>1, RequestsQueue
<1>4. q[Len(s)] = r[Len(s)]
    BY <1>1, <1>2, <1>3, QueuesAgree
<1>5. Len(s) + 1 \in 1 .. Len(t) /\ (Len(s) + 1) - 1 = Len(s)
    BY <1>1
<1>6. r[Len(t)] = IF d \in Clients THEN Append(r[Len(s)], d) ELSE r[Len(s)]
    BY <1>1, <1>3, <1>5 DEF Queues
<1> QED BY <1>2, <1>3, <1>4, <1>6 DEF t

(* Appending to a concatenation appends to its right part.                 *)
LEMMA AppendRequest ==
    \A d \in Clients : \A x, y \in Seq(Clients) : Append(x \o y, d) = x \o Append(y, d)
<1> SUFFICES ASSUME NEW d \in Clients, NEW x \in Seq(Clients), NEW y \in Seq(Clients)
             PROVE  Append(x \o y, d) = x \o Append(y, d)
    OBVIOUS
<1>1. x \o y \in Seq(Clients) /\ <<d>> \in Seq(Clients)
    OBVIOUS
<1>2. Append(x \o y, d) = (x \o y) \o <<d>> /\ Append(y, d) = y \o <<d>>
    BY <1>1, AppendIsConcat
<1>3. (x \o y) \o <<d>> = x \o (y \o <<d>>)
    BY <1>1, ConcatAssociative
<1> QED BY <1>2, <1>3

(* Concatenation of sequences of requests is associative.                  *)
LEMMA ConcatRequests ==
    \A x, y, z \in Seq(Clients) : (x \o y) \o z = x \o (y \o z)
BY ConcatAssociative

(* The requests of two parts are those of the whole, in order.             *)
LEMMA RequestsConcat ==
    ASSUME NEW s \in Seq(Datagrams), NEW t \in Seq(Datagrams)
    PROVE  Requests(s \o t) = Requests(s) \o Requests(t)
<1> DEFINE T == {n \in Nat : \A u \in Seq(Datagrams) :
                    Len(u) = n => Requests(s \o u) = Requests(s) \o Requests(u)}
<1>1. 0 \in T
    <2> SUFFICES ASSUME NEW u \in Seq(Datagrams), Len(u) = 0
                 PROVE  Requests(s \o u) = Requests(s) \o Requests(u)
        OBVIOUS
    <2>1. u = <<>>
        OBVIOUS
    <2>2. s \o <<>> = s /\ Requests(s) \o <<>> = Requests(s)
        BY ConcatEmptySeq, RequestsType
    <2> QED BY <2>1, <2>2, RequestsEmpty
<1>2. ASSUME NEW n \in Nat, n \in T PROVE n + 1 \in T
    <2> SUFFICES ASSUME NEW u \in Seq(Datagrams), Len(u) = n + 1
                 PROVE  Requests(s \o u) = Requests(s) \o Requests(u)
        OBVIOUS
    <2>1. u # <<>>
        OBVIOUS
    <2>2. PICK v \in Seq(Datagrams), d \in Datagrams : u = Append(v, d)
        BY <2>1, SequenceEmptyOrAppend
    <2>3. Len(v) = n
        BY <2>2
    <2>4. Requests(s \o v) = Requests(s) \o Requests(v)
        BY <1>2, <2>3
    <2>5. s \o u = Append(s \o v, d) /\ s \o v \in Seq(Datagrams)
        BY <2>2
    <2>6. Requests(s) \in Seq(Clients) /\ Requests(v) \in Seq(Clients)
        BY RequestsType
    <2>7. CASE d \in Clients
        <3>1. Requests(s \o u) = Append(Requests(s) \o Requests(v), d)
            BY <2>4, <2>5, <2>7, RequestsAppend
        <3>2. Requests(u) = Append(Requests(v), d)
            BY <2>2, <2>7, RequestsAppend
        <3>3. Append(Requests(s) \o Requests(v), d) = Requests(s) \o Append(Requests(v), d)
            BY <2>6, <2>7, AppendRequest, Zenon
        <3> QED BY <3>1, <3>2, <3>3
    <2>8. CASE d \notin Clients
        BY <2>2, <2>4, <2>5, <2>8, RequestsAppend
    <2> QED BY <2>7, <2>8
<1> HIDE DEF T
<1>3. Len(t) \in T
    BY <1>1, <1>2, SetInduction
<1> QED BY <1>3 DEF T

-----------------------------------------------------------------------------
(* Facts about the other operators.                                        *)

(* handle_read stops within the datagrams it finds.                        *)
LEMMA DrainedRange ==
    ASSUME socket \in Seq(Datagrams)
    PROVE  Drained \in 0 .. Len(socket)
<1> DEFINE empties == {i \in DOMAIN socket : socket[i] = Empty}
<1>1. Len(socket) \in Nat /\ DOMAIN socket = 1 .. Len(socket)
    OBVIOUS
<1>2. CASE empties = {}
    BY <1>1, <1>2 DEF Drained
<1>3. CASE empties # {}
    <2>1. \E i \in empties : \A j \in empties : i <= j
        <3>1. empties \subseteq Nat
            BY <1>1
        <3> HIDE DEF empties
        <3> QED BY <1>3, <3>1, SmallestElement
    <2>2. Drained = CHOOSE i \in empties : \A j \in empties : i <= j
        BY <1>3 DEF Drained
    <2> HIDE DEF empties
    <2>3. Drained \in empties
        BY <2>1, <2>2
    <2> QED BY <1>1, <2>3 DEF empties
<1> QED BY <1>2, <1>3

(* Requests are accepted while there is room, and no longer.               *)
LEMMA AcceptedFacts ==
    ASSUME NEW queue \in Seq(Clients), Len(connections) \in Nat
    PROVE  /\ AcceptedFrom(queue) \in 0 .. Len(queue)
           /\ AcceptedFrom(queue) = 0 \/ Len(connections) + AcceptedFrom(queue) <= MaxClients
<1> DEFINE n == Len(connections)
           Right(k) == /\ k = Len(queue) \/ ~HasRoom(n + k)
                       /\ \A j \in 0 .. k - 1 : HasRoom(n + j)
           room == IF n < MaxClients THEN MaxClients - n ELSE 0
           k0 == IF Len(queue) <= room THEN Len(queue) ELSE room
           k == AcceptedFrom(queue)
<1>1. MaxClients \in Nat /\ n \in Nat /\ Len(queue) \in Nat
    BY ServerAssumption
<1>2. k0 \in 0 .. Len(queue) /\ Right(k0)
    BY <1>1 DEF HasRoom
<1>3. k = CHOOSE i \in 0 .. Len(queue) : Right(i)
    BY DEF AcceptedFrom
<1> HIDE DEF k0, k, Right
<1>4. k \in 0 .. Len(queue) /\ Right(k)
    BY <1>2, <1>3
<1>5. k # 0 => n + (k - 1) < MaxClients
    BY <1>1, <1>4 DEF Right, HasRoom
<1>6. k \in 0 .. Len(queue) /\ (k = 0 \/ n + k <= MaxClients)
    BY <1>1, <1>4, <1>5
<1> QED BY <1>6 DEF k

-----------------------------------------------------------------------------
(* The inductive invariant.                                                *)

(* An event is pending only while a batch is served, or was when the       *)
(* process died: this is why the clean-up pass can erase a session.        *)
Batch == pc \in {"loop", "poll", "cleanup", "stopped"} => events = {}

ServerInv == TypeOK /\ Batch /\ NoDanglingEvent /\ WithinCapacity /\ RequestsConserved

(* What RequestsConserved says of a server that has not ended.             *)
InOrder == arrived = accepted \o request_queue \o Requests(socket)

LEMMA AliveInOrder ==
    /\ RequestsConserved /\ pc # "dead" => InOrder
    /\ InOrder => RequestsConserved
BY DEF RequestsConserved, InOrder

LEMMA OrderPrimed == InOrder' => RequestsConserved'
BY DEF RequestsConserved, InOrder

(* A step that moves no request loses none.                                *)
LEMMA NoRequestMoves ==
    ASSUME RequestsConserved, UNCHANGED <<socket, request_queue, accepted, arrived>>,
           pc' = pc \/ pc # "dead"
    PROVE  RequestsConserved'
BY DEF RequestsConserved

(* The server starts with nothing to do.                                   *)
LEMMA InitServer == Init => ServerInv
<1> SUFFICES ASSUME Init PROVE ServerInv
    OBVIOUS
<1>1. TypeOK
    <2>1. \A S : <<>> \in Seq(S)
        OBVIOUS
    <2>2. MaxNoise \in Nat /\ Len(<<>>) = 0 /\ 0 \in 0 .. MaxNoise /\ 1 \in 1 .. 1
        BY ServerAssumption
    <2>3. iter \in Nat /\ (pc = "cleanup" => iter \in 1 .. Len(connections) + 1)
        BY DEF Init
    <2> QED BY <2>1, <2>2, <2>3 DEF Init, TypeOK
<1>2. RequestsConserved
    BY RequestsEmpty, ConcatEmptySeq DEF Init, RequestsConserved
<1>3. WithinCapacity
    BY ServerAssumption DEF Init, WithinCapacity
<1> QED BY <1>1, <1>2, <1>3 DEF Init, ServerInv, Batch, NoDanglingEvent

(* The datagrams read and the queue they are added to.                     *)
Queue == request_queue \o Requests(SubSeq(socket, 1, Drained))

(* handle_read moves the requests of the datagrams it reads to the queue,  *)
(* behind the ones that wait there, and leaves the other datagrams.        *)
LEMMA QueueFacts ==
    ASSUME TypeOK
    PROVE  /\ Queue \in Seq(Clients)
           /\ SubSeq(socket, Drained + 1, Len(socket)) \in Seq(Datagrams)
           /\ request_queue \o Requests(socket)
                = Queue \o Requests(SubSeq(socket, Drained + 1, Len(socket)))
<1> DEFINE read == SubSeq(socket, 1, Drained)
           left == SubSeq(socket, Drained + 1, Len(socket))
<1>1. socket \in Seq(Datagrams) /\ request_queue \in Seq(Clients)
    BY DEF TypeOK, Datagrams
<1>2. Drained \in 0 .. Len(socket)
    BY <1>1, DrainedRange
<1>3. read \in Seq(Datagrams) /\ left \in Seq(Datagrams) /\ read \o left = socket
    BY <1>1, <1>2, SplitAt
<1> HIDE DEF read, left
<1>4. Requests(read) \in Seq(Clients) /\ Requests(left) \in Seq(Clients)
    BY <1>3, RequestsType
<1>5. Requests(socket) = Requests(read) \o Requests(left)
    BY <1>3, RequestsConcat
<1>6. Queue = request_queue \o Requests(read)
    BY DEF Queue, read
<1>7. request_queue \o Requests(socket) = Queue \o Requests(left)
    BY <1>1, <1>4, <1>5, <1>6, ConcatAssociative
<1>8. Queue \in Seq(Clients)
    BY <1>1, <1>4, <1>6
<1> QED BY <1>3, <1>7, <1>8 DEF left

(* The order of arrival, with the queue of QueueFacts split into x and y.  *)
LEMMA OrderKept ==
    ASSUME TypeOK, InOrder,
           NEW x \in Seq(Clients), NEW y \in Seq(Clients), Queue = x \o y
    PROVE  arrived = (accepted \o x) \o y
                        \o Requests(SubSeq(socket, Drained + 1, Len(socket)))
<1> DEFINE rest == Requests(SubSeq(socket, Drained + 1, Len(socket)))
<1>1. /\ accepted \in Seq(Clients) /\ request_queue \in Seq(Clients)
      /\ Requests(socket) \in Seq(Clients) /\ rest \in Seq(Clients)
    BY QueueFacts, RequestsType DEF TypeOK, Datagrams
<1>2. request_queue \o Requests(socket) = Queue \o rest
    BY QueueFacts
<1> HIDE DEF rest
<1>3. arrived = accepted \o (request_queue \o Requests(socket))
    BY <1>1, ConcatAssociative DEF InOrder
<1>4. arrived = accepted \o ((x \o y) \o rest)
    BY <1>2, <1>3
<1>5. arrived = (accepted \o x) \o (y \o rest)
    <2> DEFINE z == y \o rest
    <2>1. z \in Seq(Clients)
        BY <1>1
    <2>2. (x \o y) \o rest = x \o z
        BY <1>1, ConcatRequests, Zenon
    <2> HIDE DEF z
    <2>3. (accepted \o x) \o z = accepted \o (x \o z)
        <3>1. accepted \in Seq(Clients)
            BY <1>1
        <3> QED BY <2>1, <3>1, ConcatRequests, SMT
    <2> QED BY <1>4, <2>2, <2>3 DEF z
<1>6. (accepted \o x) \o (y \o rest) = ((accepted \o x) \o y) \o rest
    <2> DEFINE z == accepted \o x
    <2>1. z \in Seq(Clients)
        BY <1>1
    <2> HIDE DEF z
    <2>2. (z \o y) \o rest = z \o (y \o rest)
        BY <1>1, <2>1, ConcatRequests, Zenon
    <2> QED BY <2>2 DEF z
<1> QED BY <1>5, <1>6 DEF rest

(* A request that arrives goes to the end of the order.                    *)
LEMMA ArriveStep ==
    ASSUME ServerInv, NEW c \in Clients, Arrive(c)
    PROVE  ServerInv'
<1>1. socket \in Seq(Datagrams) /\ c \in Datagrams
    BY DEF ServerInv, TypeOK, Datagrams
<1>2. Requests(socket') = Append(Requests(socket), c)
    BY <1>1, RequestsAppend DEF Arrive
<1>3. Requests(socket) \in Seq(Clients) /\ accepted \o request_queue \in Seq(Clients)
    BY <1>1, RequestsType DEF ServerInv, TypeOK
<1>4. Append((accepted \o request_queue) \o Requests(socket), c)
        = (accepted \o request_queue) \o Append(Requests(socket), c)
    BY <1>3, AppendRequest, Zenon
<1>5. arrived' = (accepted \o request_queue) \o Requests(socket')
    <2>1. InOrder
        BY AliveInOrder DEF ServerInv, Arrive, Running
    <2> QED BY <1>2, <1>4, <2>1 DEF Arrive, InOrder
<1>6. RequestsConserved'
    <2>1. InOrder'
        BY <1>5 DEF Arrive, queueVars, InOrder
    <2> QED BY <2>1, OrderPrimed
<1>7. TypeOK'
    BY <1>1 DEF ServerInv, TypeOK, Arrive, queueVars, sessionVars, Datagrams
<1> QED BY <1>6, <1>7 DEF ServerInv, Arrive, sessionVars, Batch, NoDanglingEvent, WithinCapacity, Sessions

(* A bad or an empty datagram is none of the requests.                     *)
LEMMA NoiseStep ==
    ASSUME ServerInv, NEW d \in {Bad, Empty}, ArriveNoise(d)
    PROVE  ServerInv'
<1>1. socket \in Seq(Datagrams) /\ d \in Datagrams /\ d \notin Clients
    BY ServerAssumption DEF ServerInv, TypeOK, Datagrams
<1>2. Requests(socket') = Requests(socket)
    BY <1>1, RequestsAppend DEF ArriveNoise
<1>3. RequestsConserved'
    <2>1. InOrder
        BY AliveInOrder DEF ServerInv, ArriveNoise, Running
    <2>2. InOrder'
        BY <1>2, <2>1 DEF ArriveNoise, queueVars, InOrder
    <2> QED BY <2>2, OrderPrimed
<1>4. socket' \in Seq(Clients \cup {Bad, Empty})
    BY <1>1 DEF ArriveNoise, Datagrams
<1>5. noise' \in 0 .. MaxNoise
    BY ServerAssumption DEF ServerInv, TypeOK, ArriveNoise
<1>6. TypeOK'
    BY <1>4, <1>5 DEF ServerInv, TypeOK, ArriveNoise, queueVars, sessionVars
<1> QED BY <1>3, <1>6 DEF ServerInv, ArriveNoise, sessionVars, Batch, NoDanglingEvent, WithinCapacity, Sessions

(* epoll_wait fetches events of open sessions and of the listening socket. *)
LEMMA EpollStep ==
    ASSUME ServerInv, EpollWait
    PROVE  ServerInv'
<1>1. events' \subseteq Ready
    BY DEF EpollWait, Fetched
<1>2. Sessions \subseteq Clients
    BY DEF ServerInv, TypeOK, Sessions, Range
<1>3. \A e \in events' : /\ e.origin \in Sessions \cup {Listener}
                         /\ e \in [origin : Clients \cup {Listener}, fd : {"sd", "timer"}]
    BY <1>1, <1>2 DEF Ready
<1>4. TypeOK'
    BY <1>3 DEF ServerInv, TypeOK, EpollWait, queueVars, sessionVars
<1>5. NoDanglingEvent'
    BY <1>3 DEF NoDanglingEvent, EpollWait, sessionVars, Sessions
<1>6. RequestsConserved' /\ WithinCapacity' /\ Batch'
    BY NoRequestMoves DEF ServerInv, WithinCapacity, Batch, EpollWait, queueVars, sessionVars
<1> QED BY <1>4, <1>5, <1>6 DEF ServerInv

(* Requests that are accepted keep their order, fit into the list, and     *)
(* leave the sessions with pending events where they are.                  *)
LEMMA ListenerStep ==
    ASSUME ServerInv, ServeListener
    PROVE  ServerInv'
<1> DEFINE k == AcceptedFrom(Queue)
           taken == SubSeq(Queue, 1, k)
           left == SubSeq(Queue, k + 1, Len(Queue))
<1>1. /\ socket' = SubSeq(socket, Drained + 1, Len(socket))
      /\ request_queue' = left
      /\ connections' = connections \o taken
      /\ accepted' = accepted \o taken
      /\ events' \subseteq events
      /\ pc = "serve" /\ pc' = "serve"
      /\ UNCHANGED <<finished, iter, exit_requested, noise, arrived>>
    BY DEF ServeListener, Queue, Waiting
<1>2. TypeOK /\ InOrder
    BY <1>1, AliveInOrder DEF ServerInv
<1>3. Queue \in Seq(Clients) /\ socket' \in Seq(Datagrams)
    BY <1>1, <1>2, QueueFacts
<1>4. connections \in Seq(Clients) /\ Len(connections) \in Nat
    BY <1>2 DEF TypeOK
<1>5. k \in 0 .. Len(Queue) /\ (k = 0 \/ Len(connections) + k <= MaxClients)
    BY <1>3, <1>4, AcceptedFacts
<1> HIDE DEF k
<1>6. taken \in Seq(Clients) /\ Len(taken) = k /\ left \in Seq(Clients) /\ taken \o left = Queue
    BY <1>3, <1>5, SplitAt
<1> HIDE DEF taken, left
<1>7. TypeOK'
    BY <1>1, <1>2, <1>3, <1>4, <1>6 DEF TypeOK, Datagrams
<1>8. RequestsConserved'
    <2>1. InOrder'
        BY <1>1, <1>2, <1>6, OrderKept DEF InOrder
    <2> QED BY <2>1, OrderPrimed
<1>9. WithinCapacity'
    <2>1. Len(connections') = Len(connections) + k
        BY <1>1, <1>4, <1>6, ConcatProperties
    <2> QED BY <1>4, <1>5, <2>1, ServerAssumption DEF ServerInv, WithinCapacity
<1>10. NoDanglingEvent'
    <2>1. Range(connections') = Range(connections) \cup Range(taken)
        BY <1>1, <1>4, <1>6, RangeConcatenation
    <2> QED BY <1>1, <2>1 DEF ServerInv, NoDanglingEvent, Sessions
<1>11. Batch'
    BY <1>1 DEF Batch
<1> QED BY <1>7, <1>8, <1>9, <1>10, <1>11 DEF ServerInv

(* The part of a queue that is one request long.                           *)
LEMMA OneRequest ==
    ASSUME NEW s \in Seq(Clients), NEW m \in 1 .. Len(s)
    PROVE  SubSeq(s, m, m) = <<s[m]>>
<1> DEFINE one == SubSeq(s, m, m)
           c == s[m]
<1>1. m \in Int /\ Len(s) \in Nat /\ m - m + 1 = 1 /\ m + 1 - 1 = m /\ m <= m
    OBVIOUS
<1>2. \A i \in m .. m : s[i] \in Clients
    OBVIOUS
<1>3. /\ one \in Seq(Clients) /\ Len(one) = IF m <= m THEN m - m + 1 ELSE 0
      /\ \A i \in 1 .. m - m + 1 : one[i] = s[m + i - 1]
    BY <1>1, <1>2, SubSeqProperties
<1>4. Len(one) = 1 /\ one[1] = c
    BY <1>1, <1>3
<1>5. c \in Clients
    OBVIOUS
<1>6. <<c>> \in Seq(Clients) /\ Len(<<c>>) = 1 /\ <<c>>[1] = c
    BY <1>5
<1> HIDE DEF one, c
<1>7. \A i \in 1 .. Len(one) : one[i] = <<c>>[i]
    BY <1>4, <1>6
<1>8. one = <<c>>
    BY <1>3, <1>4, <1>6, <1>7, SeqEqual
<1> QED BY <1>8 DEF one, c

(* When a constructor or a registration throws, the requests before it     *)
(* were accepted, its own has left the queue, and the others still wait.   *)
LEMMA ThrowStep ==
    ASSUME ServerInv, NEW j \in 0 .. MaxClients, AcceptThrows(j)
    PROVE  ServerInv'
<1> DEFINE k == AcceptedFrom(Queue)
           taken == SubSeq(Queue, 1, j)
           c == Queue[j + 1]
           left == SubSeq(Queue, (j + 1) + 1, Len(Queue))
           rest == Requests(socket')
<1>1. /\ socket' = SubSeq(socket, Drained + 1, Len(socket))
      /\ j < k /\ pc = "serve" /\ pc' = "dead"
      /\ request_queue' = left
      /\ accepted' = accepted \o taken
      /\ UNCHANGED <<finished, events, iter, exit_requested, noise, arrived>>
    BY DEF AcceptThrows, Queue, Waiting
<1>2. PICK n \in {j, j + 1} : connections' = connections \o SubSeq(Queue, 1, n)
    BY DEF AcceptThrows, Queue
<1>3. TypeOK /\ InOrder
    BY <1>1, AliveInOrder DEF ServerInv
<1>4. Queue \in Seq(Clients) /\ socket' \in Seq(Datagrams) /\ rest \in Seq(Clients)
    BY <1>1, <1>3, QueueFacts, RequestsType
<1>5. /\ connections \in Seq(Clients) /\ Len(connections) \in Nat /\ accepted \in Seq(Clients)
      /\ Len(Queue) \in Nat /\ MaxClients \in Nat /\ j \in Nat
    BY <1>3, <1>4, ServerAssumption DEF TypeOK
<1>6. k \in 0 .. Len(Queue) /\ (k = 0 \/ Len(connections) + k <= MaxClients)
    BY <1>4, <1>5, AcceptedFacts
<1> HIDE DEF k
<1>7. j \in 0 .. Len(Queue) /\ j + 1 \in 1 .. Len(Queue) /\ n \in 0 .. Len(Queue) /\ n <= k
    BY <1>1, <1>5, <1>6
<1>8. c \in Clients /\ <<c>> \in Seq(Clients)
    BY <1>4, <1>7
<1>9. /\ taken \in Seq(Clients) /\ left \in Seq(Clients)
      /\ taken \o (<<c>> \o left) = Queue /\ <<c>> \o left \in Seq(Clients)
    <2>1. taken \in Seq(Clients) /\ taken \o SubSeq(Queue, j + 1, Len(Queue)) = Queue
        BY <1>4, <1>7, SplitAt
    <2>2. left \in Seq(Clients)
        <3>1. j + 1 \in 0 .. Len(Queue)
            BY <1>5, <1>7
        <3> QED BY <1>4, <3>1, SplitAt
    <2>3. SubSeq(Queue, j + 1, j + 1) \o left = SubSeq(Queue, j + 1, Len(Queue))
        <3>1. /\ j + 1 \in 1 .. Len(Queue) + 1 /\ j + 1 \in (j + 1) - 1 .. Len(Queue)
              /\ Len(Queue) \in j + 1 .. Len(Queue)
            BY <1>5, <1>7
        <3> QED BY <1>4, <3>1, ConcatAdjacentSubSeq
    <2>4. SubSeq(Queue, j + 1, j + 1) = <<c>>
        BY <1>4, <1>7, OneRequest
    <2> HIDE DEF left
    <2>5. <<c>> \o left \in Seq(Clients)
        BY <1>8, <2>2
    <2> QED BY <2>1, <2>2, <2>3, <2>4, <2>5
<1> HIDE DEF taken, c, left, rest
<1>10. arrived' = ((accepted' \o <<c>>) \o request_queue') \o rest
    <2>1. arrived = ((accepted \o taken) \o (<<c>> \o left)) \o rest
        BY <1>1, <1>3, <1>9, OrderKept DEF InOrder, rest
    <2> DEFINE z == accepted \o taken
    <2>2. z \in Seq(Clients)
        BY <1>5, <1>9
    <2> HIDE DEF z
    <2>3. (z \o <<c>>) \o left = z \o (<<c>> \o left)
        BY <1>8, <1>9, <2>2, ConcatRequests, Zenon
    <2>4. arrived' = (z \o (<<c>> \o left)) \o rest
        BY <1>1, <2>1 DEF z
    <2>5. arrived' = ((z \o <<c>>) \o left) \o rest
        BY <2>3, <2>4
    <2> QED BY <1>1, <2>5 DEF z
<1>11. RequestsConserved'
    BY <1>1, <1>8, <1>10 DEF RequestsConserved, rest
<1>12. SubSeq(Queue, 1, n) \in Seq(Clients) /\ Len(SubSeq(Queue, 1, n)) = n
    BY <1>4, <1>7, SplitAt
<1> DEFINE new == SubSeq(Queue, 1, n)
<1> HIDE DEF new
<1>13. new \in Seq(Clients) /\ Len(new) = n /\ connections' = connections \o new
    BY <1>2, <1>12 DEF new
<1>14. connections' \in Seq(Clients) /\ Len(connections') = Len(connections) + n
    BY <1>5, <1>13, ConcatProperties
<1>15. WithinCapacity'
    BY <1>1, <1>5, <1>6, <1>7, <1>14 DEF WithinCapacity
<1>16. NoDanglingEvent'
    <2>1. Range(connections') = Range(connections) \cup Range(new)
        BY <1>5, <1>13, RangeConcatenation
    <2> QED BY <1>1, <2>1 DEF ServerInv, NoDanglingEvent, Sessions
<1>17. accepted' \in Seq(Clients)
    BY <1>1, <1>5, <1>9
<1>18. TypeOK'
    BY <1>1, <1>3, <1>4, <1>9, <1>14, <1>17 DEF TypeOK, Datagrams
<1> QED BY <1>1, <1>11, <1>15, <1>16, <1>18 DEF ServerInv, Batch

(* A session that finishes, throws or never returns stays in the list.     *)
LEMMA SessionStep ==
    ASSUME ServerInv, NEW e \in events, ServeSession(e) \/ SessionThrows(e) \/ SessionHangs(e)
    PROVE  ServerInv'
<1>1. e.origin \in Clients
    BY DEF ServerInv, TypeOK, ServeSession, SessionThrows, SessionHangs
<1>2. CASE ServeSession(e)
    <2>1. finished' \subseteq Clients
        BY <1>1, <1>2 DEF ServerInv, TypeOK, ServeSession
    <2>2. TypeOK'
        BY <1>2, <2>1 DEF ServerInv, TypeOK, ServeSession, queueVars
    <2>3. NoDanglingEvent' /\ Batch'
        BY <1>2 DEF ServerInv, ServeSession, NoDanglingEvent, Batch, Sessions
    <2>4. RequestsConserved' /\ WithinCapacity'
        BY <1>2, NoRequestMoves DEF ServerInv, ServeSession, queueVars, WithinCapacity
    <2> QED BY <2>2, <2>3, <2>4 DEF ServerInv
<1>3. CASE SessionThrows(e) \/ SessionHangs(e)
    <2>1. TypeOK'
        BY <1>3 DEF ServerInv, TypeOK, SessionThrows, SessionHangs, queueVars, sessionVars
    <2>2. NoDanglingEvent' /\ Batch'
        BY <1>3 DEF ServerInv, SessionThrows, SessionHangs, sessionVars, NoDanglingEvent, Batch, Sessions
    <2>3. RequestsConserved' /\ WithinCapacity'
        BY <1>3, NoRequestMoves DEF ServerInv, SessionThrows, SessionHangs, queueVars, sessionVars,
                                    WithinCapacity
    <2> QED BY <2>1, <2>2, <2>3 DEF ServerInv
<1> QED BY <1>2, <1>3

(* erase makes the list shorter by one.                                    *)
LEMMA EraseOne ==
    ASSUME NEW S, NEW s \in Seq(S), NEW i \in 1 .. Len(s)
    PROVE  LET t == SubSeq(s, 1, i - 1) \o SubSeq(s, i + 1, Len(s))
           IN  t \in Seq(S) /\ Len(t) = Len(s) - 1
<1>1. Len(s) \in Nat
    OBVIOUS
<1>2. SubSeq(s, 1, i - 1) \in Seq(S) /\ Len(SubSeq(s, 1, i - 1)) = i - 1
    BY <1>1
<1>3. SubSeq(s, i + 1, Len(s)) \in Seq(S) /\ Len(SubSeq(s, i + 1, Len(s))) = Len(s) - i
    BY <1>1
<1>4. \A a, b \in Seq(S) : a \o b \in Seq(S) /\ Len(a \o b) = Len(a) + Len(b)
    BY ConcatProperties
<1>5. /\ SubSeq(s, 1, i - 1) \o SubSeq(s, i + 1, Len(s)) \in Seq(S)
      /\ Len(SubSeq(s, 1, i - 1) \o SubSeq(s, i + 1, Len(s)))
            = Len(SubSeq(s, 1, i - 1)) + Len(SubSeq(s, i + 1, Len(s)))
    BY <1>2, <1>3, <1>4, Zenon
<1>6. (i - 1) + (Len(s) - i) = Len(s) - 1
    BY <1>1
<1> QED BY <1>2, <1>3, <1>5, <1>6, Zenon

(* The clean-up erases sessions while no event is pending, and its         *)
(* iterator stays within the list it shortens.                             *)
LEMMA CleanupKeeps ==
    ASSUME ServerInv, CleanupStep
    PROVE  ServerInv'
<1>1. /\ connections \in Seq(Clients) /\ Len(connections) \in Nat
      /\ iter \in 1 .. Len(connections)
      /\ events = {} /\ events' = {} /\ pc = "cleanup" /\ pc' = "cleanup"
    BY DEF ServerInv, TypeOK, Batch, CleanupStep
<1>2. RequestsConserved'
    BY NoRequestMoves DEF ServerInv, CleanupStep, queueVars
<1>3. NoDanglingEvent' /\ Batch'
    BY <1>1 DEF NoDanglingEvent, Batch
<1>4. /\ connections' \in Seq(Clients) /\ finished' \subseteq Clients
      /\ iter' \in 1 .. Len(connections') + 1
      /\ Len(connections') <= Len(connections)
    <2>1. CASE connections[iter] \in finished
        <3>1. /\ connections' = SubSeq(connections, 1, iter - 1)
                                    \o SubSeq(connections, iter + 1, Len(connections))
              /\ finished' = finished \ {connections[iter]}
              /\ iter' = StepAfterErase(iter, Len(connections) - 1)
            BY <2>1 DEF CleanupStep, RemoveAt
        <3>2. connections' \in Seq(Clients) /\ Len(connections') = Len(connections) - 1
            BY <1>1, <3>1, EraseOne
        <3>3. iter' = IF iter > Len(connections') THEN 1 ELSE iter + 1
            BY <3>1, <3>2 DEF StepAfterErase
        <3>4. Len(connections') \in Nat /\ Len(connections') <= Len(connections)
            BY <1>1, <3>2
        <3>5. iter' \in 1 .. Len(connections') + 1
            BY <1>1, <3>3, <3>4
        <3>6. finished' \subseteq Clients
            BY <3>1 DEF ServerInv, TypeOK
        <3> QED BY <3>2, <3>4, <3>5, <3>6
    <2>2. CASE connections[iter] \notin finished
        BY <1>1, <2>2 DEF ServerInv, TypeOK, CleanupStep, sessionVars
    <2> QED BY <2>1, <2>2
<1>5. iter' \in Nat
    BY <1>1, <1>4
<1>6. TypeOK'
    BY <1>1, <1>4, <1>5 DEF ServerInv, TypeOK, CleanupStep, queueVars
<1>7. WithinCapacity'
    BY <1>1, <1>4, ServerAssumption DEF ServerInv, WithinCapacity
<1> QED BY <1>2, <1>3, <1>6, <1>7 DEF ServerInv

(* The other steps move only the program counter, the iterator or the flag.*)
LEMMA ControlStep ==
    ASSUME ServerInv, TestExit \/ Interrupted \/ StartCleanup \/ EndCleanup \/ stop \/ Ended
    PROVE  ServerInv'
<1>1. UNCHANGED <<socket, request_queue, accepted, connections, finished, events, noise, arrived>>
    BY DEF TestExit, Interrupted, StartCleanup, EndCleanup, stop, Ended, queueVars, sessionVars, vars
<1>2. Batch'
    BY <1>1 DEF ServerInv, Batch, TestExit, Interrupted, StartCleanup, EndCleanup, stop, Ended, vars
<1>3. RequestsConserved' /\ WithinCapacity' /\ NoDanglingEvent'
    <2>1. pc' = pc \/ pc # "dead"
        BY DEF TestExit, Interrupted, StartCleanup, EndCleanup, stop, Ended, vars
    <2> QED BY <1>1, <2>1, NoRequestMoves DEF ServerInv, WithinCapacity, NoDanglingEvent, Sessions
<1>4. /\ iter' \in Nat /\ (pc' = "cleanup" => iter' \in 1 .. Len(connections) + 1)
      /\ pc' \in {"loop", "poll", "serve", "cleanup", "stopped", "dead", "hung"}
      /\ exit_requested' \in BOOLEAN
    <2>1. Len(connections) \in Nat
        BY DEF ServerInv, TypeOK
    <2>2. CASE TestExit
        BY <2>2 DEF ServerInv, TypeOK, TestExit
    <2>3. CASE Interrupted
        BY <2>3 DEF ServerInv, TypeOK, Interrupted
    <2>4. CASE StartCleanup
        BY <2>1, <2>4 DEF ServerInv, TypeOK, StartCleanup, FirstPosition
    <2>5. CASE EndCleanup
        BY <2>5 DEF ServerInv, TypeOK, EndCleanup
    <2>6. CASE stop
        BY <2>6 DEF ServerInv, TypeOK, stop
    <2>7. CASE Ended
        BY <2>7 DEF ServerInv, TypeOK, Ended, vars
    <2> QED BY <2>2, <2>3, <2>4, <2>5, <2>6, <2>7
<1>5. TypeOK'
    BY <1>1, <1>4 DEF ServerInv, TypeOK
<1> QED BY <1>2, <1>3, <1>5 DEF ServerInv

(* Every step of the server and of its environment keeps the invariant.    *)
LEMMA NextKeepsServerInv == ServerInv /\ [Next]_vars => ServerInv'
<1> SUFFICES ASSUME ServerInv, [Next]_vars PROVE ServerInv'
    OBVIOUS
<1>1. CASE UNCHANGED vars
    <2>1. UNCHANGED <<socket, request_queue, accepted, connections, finished, events, noise,
                      arrived, iter, pc, exit_requested>>
        BY <1>1 DEF vars, queueVars, sessionVars
    <2> QED BY <2>1 DEF ServerInv, TypeOK, Batch, NoDanglingEvent, WithinCapacity,
                        RequestsConserved, Sessions
<1>2. CASE Next
    BY <1>2, ArriveStep, NoiseStep, EpollStep, ListenerStep, ThrowStep, SessionStep,
       CleanupKeeps, ControlStep DEF Next, Loop
<1> QED BY <1>1, <1>2

(* The invariant holds for ever.                                           *)
LEMMA ServerInvariant == Spec => []ServerInv
BY InitServer, NextKeepsServerInv, PTL DEF Spec

-----------------------------------------------------------------------------
(* Every variable of the server keeps its type, and the iterator of the    *)
(* clean-up pass never leaves the list.                                    *)
THEOREM ServerTypeCorrect == Spec => []TypeOK
<1>1. ServerInv => TypeOK
    BY DEF ServerInv
<1> QED BY <1>1, ServerInvariant, PTL

(* No event that the loop still has to serve points to an erased session.  *)
THEOREM EventsPointToSessions == Spec => []NoDanglingEvent
<1>1. ServerInv => NoDanglingEvent
    BY DEF ServerInv
<1> QED BY <1>1, ServerInvariant, PTL

(* There are never more sessions than _max_clients.                        *)
THEOREM CapacityRespected == Spec => []WithinCapacity
<1>1. ServerInv => WithinCapacity
    BY DEF ServerInv
<1> QED BY <1>1, ServerInvariant, PTL

(* What arrived is what was accepted, what is queued and what is in the    *)
(* socket, in this order: handle_read and get_request lose, repeat and     *)
(* reorder no request, and a server that ends while it accepts one loses   *)
(* only that one.                                                          *)
THEOREM NoRequestLost == Spec => []RequestsConserved
<1>1. ServerInv => RequestsConserved
    BY DEF ServerInv
<1> QED BY <1>1, ServerInvariant, PTL
=============================================================================
