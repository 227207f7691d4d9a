------------------------ MODULE ServerConnectionProofs ------------------------
(***************************************************************************)
(* What ServerConnection guarantees for every block size, file size, width *)
(* of the block number, set of requests and set of datagrams.              *)
(***************************************************************************)
EXTENDS ServerConnection, TLAPS

-----------------------------------------------------------------------------
(* Facts about the operators.                                              *)

(* The uint16_t operations stay in the range of block numbers.             *)
LEMMA BlockNumberRange ==
    ASSUME NEW n \in BlockNumbers
    PROVE  Inc(n) \in BlockNumbers /\ Dec(n) \in BlockNumbers
BY ConstantsAssumption DEF BlockNumbers, Inc, Dec

(* The smaller of two numbers is one of them, and bounded by both.         *)
LEMMA SmallerFacts ==
    ASSUME NEW a \in Int, NEW b \in Int
    PROVE  /\ Smaller(a, b) \in {a, b}
           /\ Smaller(a, b) <= a /\ Smaller(a, b) <= b
BY DEF Smaller

(* A datagram that was read as DATA holds at least its header.             *)
LEMMA RecvFacts ==
    ASSUME NEW d \in Datagrams, NEW size \in Nat
    PROVE  /\ recv(d, size) \in Nat
           /\ deserialise_data_packet(d, size) => recv(d, size) - HeaderSize \in Nat
BY ConstantsAssumption DEF recv, deserialise_data_packet, Smaller

(* A fetched batch is a sequence of events that are ready, of which at     *)
(* most one is a write event.                                              *)
LEMMA BatchFacts ==
    ASSUME NEW b \in Batches
    PROVE  /\ b \in Seq(Events)
           /\ \A i \in 1 .. Len(b) : b[i] \in Ready
           /\ \A i, j \in 1 .. Len(b) : b[i] = "sd_out" /\ b[j] = "sd_out" => i = j
<1>1. CASE \E e \in Ready : b = <<e>>
    BY <1>1 DEF Ready
<1>2. CASE b \in Ready \X Ready /\ (b[1] = "timer_in") # (b[2] = "timer_in")
    <2>1. PICK x \in Ready, y \in Ready : b = <<x, y>>
        BY <1>2
    <2>2. (x = "timer_in") # (y = "timer_in")
        BY <1>2, <2>1
    <2>3. x \in Events /\ y \in Events
        BY DEF Ready
    <2>4. ~(x = "sd_out" /\ y = "sd_out")
        BY <2>2
    <2> QED BY <2>1, <2>3, <2>4
<1> QED BY <1>1, <1>2 DEF Batches

-----------------------------------------------------------------------------
(* Type correctness.                                                       *)

(* The constructor yields a well-typed session for every request.          *)
LEMMA InitType == Init => TypeOK
<1> SUFFICES ASSUME Init PROVE TypeOK
    OBVIOUS
<1>1. PICK r \in Requests, mtu \in MtuResults, opened \in BOOLEAN :
            Constructed(r, mtu, opened)
    BY DEF Init
<1>2. /\ r.type \in {"READ", "WRITE"} /\ r.mode \in {"OCTET", "NETASCII"}
      /\ r.blksize \in Nat \cup {NoOption}
      /\ mtu \in Int
    BY ConstantsAssumption
<1>3. negotiated_block_size(r, mtu) \in Nat
    BY <1>2, ConstantsAssumption DEF negotiated_block_size, NoOption
<1>4. acknowledged_options(r) \subseteq {"BLKSIZE", "TSIZE", "TIMEOUT"}
    BY DEF acknowledged_options
<1>5. RequestType
    BY <1>1, <1>2, <1>3, <1>4, ConstantsAssumption DEF Constructed, RequestType
<1>6. state \in States
    BY <1>1 DEF Constructed, first_state, States, SendStates
<1>7. block_number \in BlockNumbers
    BY <1>1, ConstantsAssumption DEF Constructed, BlockNumbers
<1>8. MachineType
    BY <1>6, <1>7, ConstantsAssumption DEF Init, MachineType
<1>9. reader_open \in BOOLEAN
    BY <1>1 DEF Constructed
<1>10. FlagType
    BY <1>9 DEF Init, FlagType
<1>11. data_pkt \in DataPackets
    BY ConstantsAssumption DEF Init, DataPackets, BlockNumbers
<1>12. FileType
    BY <1>11, ConstantsAssumption DEF Init, FileType
<1>13. LoopType
    BY ConstantsAssumption DEF Init, LoopType, InterestOf
<1> QED
    BY <1>5, <1>8, <1>10, <1>12, <1>13 DEF TypeOK

(* Serving an event removes it and leaves the rest of the loop alone.      *)
LEMMA ServeType ==
    ASSUME TypeOK, NEW kinds, Serve(kinds)
    PROVE  /\ RequestType'
           /\ reader_open' \in BOOLEAN /\ polling' \in BOOLEAN
           /\ events' \in Seq(Events)
           /\ budget' \in 0 .. MaxDatagrams /\ older' \in 0 .. OlderConnections
<1>1. events' \in Seq(Events)
    BY DEF Serve, TypeOK, LoopType
<1>2. RequestType'
    BY DEF Serve, TypeOK, RequestType, requestVars
<1>3. reader_open' \in BOOLEAN /\ polling' \in BOOLEAN
    BY DEF Serve, TypeOK, FlagType, requestVars
<1>4. budget' \in 0 .. MaxDatagrams /\ older' \in 0 .. OlderConnections
    BY DEF Serve, TypeOK, LoopType
<1> QED BY <1>1, <1>2, <1>3, <1>4

(* Reading a datagram takes it from the receive buffer.                    *)
LEMMA ReceivedType ==
    ASSUME TypeOK, NEW s, Received(s)
    PROVE  /\ ServeRead
           /\ Head(inbox) \in Datagrams
           /\ inbox' \in Seq(Datagrams)
           /\ UNCHANGED <<timer, sock_err, sent>>
BY DEF Received, TypeOK, LoopType

(* Handling a read event keeps the types.                                  *)
LEMMA HandleReadType ==
    ASSUME TypeOK, handle_read, epoll_ctl_mod
    PROVE  TypeOK'
<1>1. interest' \in {"IN", "OUT"}
    BY DEF epoll_ctl_mod, InterestOf
<1>2. Dec(block_number) \in BlockNumbers /\ Inc(block_number) \in BlockNumbers
    BY BlockNumberRange DEF TypeOK, MachineType
<1>3. CASE TimedOut
    <2>1. ServeRead
        BY <1>3 DEF TimedOut
    <2>2. /\ RequestType'
          /\ reader_open' \in BOOLEAN /\ polling' \in BOOLEAN
          /\ events' \in Seq(Events)
          /\ budget' \in 0 .. MaxDatagrams /\ older' \in 0 .. OlderConnections
        BY <2>1, ServeType DEF ServeRead
    <2>3. FlagType'
        BY <1>3, <2>2 DEF TimedOut, TypeOK, FlagType, readVars
    <2>4. MachineType'
        BY <1>3, <1>2, ConstantsAssumption DEF TimedOut, TypeOK, MachineType, retransmit, TooManyTimeouts, States, SendStates, WaitStates
    <2>5. FileType'
        BY <1>3 DEF TimedOut, TypeOK, FileType, readVars
    <2>6. LoopType'
        BY <1>3, <1>1, <2>2 DEF TimedOut, TypeOK, LoopType, retransmit
    <2> QED BY <2>2, <2>3, <2>4, <2>5, <2>6 DEF TypeOK
<1>4. CASE NothingRead
    <2>1. ServeRead
        BY <1>4 DEF NothingRead
    <2>2. /\ RequestType'
          /\ reader_open' \in BOOLEAN /\ polling' \in BOOLEAN
          /\ events' \in Seq(Events)
          /\ budget' \in 0 .. MaxDatagrams /\ older' \in 0 .. OlderConnections
        BY <2>1, ServeType DEF ServeRead
    <2>3. FlagType'
        BY <1>4, <2>2 DEF NothingRead, TypeOK, FlagType, machineVars, readVars
    <2>4. MachineType'
        BY <1>4, <1>2 DEF NothingRead, TypeOK, MachineType, machineVars
    <2>5. FileType'
        BY <1>4 DEF NothingRead, TypeOK, FileType, machineVars, readVars
    <2>6. LoopType'
        BY <1>4, <1>1, <2>2 DEF NothingRead, TypeOK, LoopType, machineVars
    <2> QED BY <2>2, <2>3, <2>4, <2>5, <2>6 DEF TypeOK
<1>5. CASE RecvThrows
    <2>1. ServeRead
        BY <1>5 DEF RecvThrows
    <2>2. /\ RequestType'
          /\ reader_open' \in BOOLEAN /\ polling' \in BOOLEAN
          /\ events' \in Seq(Events)
          /\ budget' \in 0 .. MaxDatagrams /\ older' \in 0 .. OlderConnections
        BY <2>1, ServeType DEF ServeRead
    <2>3. FlagType'
        BY <1>5, <2>2 DEF RecvThrows, TypeOK, FlagType, machineVars, readVars
    <2>4. MachineType'
        BY <1>5, <1>2 DEF RecvThrows, TypeOK, MachineType, machineVars
    <2>5. FileType'
        BY <1>5 DEF RecvThrows, TypeOK, FileType, machineVars, readVars
    <2>6. LoopType'
        BY <1>5, <1>1, <2>2 DEF RecvThrows, TypeOK, LoopType, machineVars
    <2> QED BY <2>2, <2>3, <2>4, <2>5, <2>6 DEF TypeOK
<1>6. CASE AckReceived
    <2>1. /\ Received("WAIT_FOR_ACK") /\ ServeRead
          /\ Head(inbox) \in Datagrams /\ inbox' \in Seq(Datagrams)
          /\ UNCHANGED <<timer, sock_err, sent>>
        BY <1>6, ReceivedType DEF AckReceived
    <2>2. /\ RequestType'
          /\ reader_open' \in BOOLEAN /\ polling' \in BOOLEAN
          /\ events' \in Seq(Events)
          /\ budget' \in 0 .. MaxDatagrams /\ older' \in 0 .. OlderConnections
        BY <2>1, ServeType DEF ServeRead
    <2>3. FlagType'
        BY <1>6, <2>1, <2>2 DEF AckReceived, TypeOK, FlagType
    <2>4. MachineType'
        BY <1>6, <1>2, ConstantsAssumption DEF AckReceived, TypeOK, MachineType, States, SendStates
    <2>5. FileType'
        BY <1>6, <2>1 DEF AckReceived, TypeOK, FileType
    <2>6. LoopType'
        BY <1>6, <1>1, <2>1, <2>2 DEF AckReceived, TypeOK, LoopType
    <2> QED BY <2>2, <2>3, <2>4, <2>5, <2>6 DEF TypeOK
<1>7. CASE NoAckReceived
    <2>1. /\ Received("WAIT_FOR_ACK") /\ ServeRead
          /\ Head(inbox) \in Datagrams /\ inbox' \in Seq(Datagrams)
          /\ UNCHANGED <<timer, sock_err, sent>>
        BY <1>7, ReceivedType DEF NoAckReceived
    <2>2. /\ RequestType'
          /\ reader_open' \in BOOLEAN /\ polling' \in BOOLEAN
          /\ events' \in Seq(Events)
          /\ budget' \in 0 .. MaxDatagrams /\ older' \in 0 .. OlderConnections
        BY <2>1, ServeType DEF ServeRead
    <2>3. FlagType'
        BY <1>7, <2>1, <2>2 DEF NoAckReceived, TypeOK, FlagType, readVars
    <2>4. MachineType'
        BY <1>7, <1>2 DEF NoAckReceived, TypeOK, MachineType
    <2>5. FileType'
        BY <1>7, <2>1 DEF NoAckReceived, TypeOK, FileType, readVars
    <2>6. LoopType'
        BY <1>7, <1>1, <2>1, <2>2 DEF NoAckReceived, TypeOK, LoopType
    <2> QED BY <2>2, <2>3, <2>4, <2>5, <2>6 DEF TypeOK
<1>8. ASSUME NEW outcome \in {"ok", "error", "exception", "hung"}, DataWritten(outcome)
      PROVE  TypeOK'
    <2>1. /\ Received("WAIT_FOR_DATA") /\ ServeRead
          /\ Head(inbox) \in Datagrams /\ inbox' \in Seq(Datagrams)
          /\ UNCHANGED <<timer, sock_err, sent>>
        BY <1>8, ReceivedType DEF DataWritten
    <2>2. /\ RequestType'
          /\ reader_open' \in BOOLEAN /\ polling' \in BOOLEAN
          /\ events' \in Seq(Events)
          /\ budget' \in 0 .. MaxDatagrams /\ older' \in 0 .. OlderConnections
        BY <2>1, ServeType DEF ServeRead
    <2> DEFINE len == recv(Head(inbox), block_size) - HeaderSize
    <2>7. len \in Nat /\ Head(inbox).num \in BlockNumbers /\ Head(inbox).len \in Nat
        BY <1>8, <2>1, RecvFacts, ConstantsAssumption DEF DataWritten, TypeOK, RequestType
    <2>8. file' \in Seq([num : BlockNumbers, len : Nat, stored : Nat])
        <3> DEFINE block  == [num |-> Head(inbox).num, len |-> Head(inbox).len, stored |-> len]
                   Blocks == [num : BlockNumbers, len : Nat, stored : Nat]
        <3>1. block \in Blocks
            BY <2>7
        <3>2. file' = file \/ file' = Append(file, block)
            BY <1>8 DEF DataWritten
        <3>3. file \in Seq(Blocks)
            BY DEF TypeOK, FileType
        <3> HIDE DEF block, Blocks
        <3>4. file' \in Seq(Blocks)
            BY <3>1, <3>2, <3>3
        <3> QED BY <3>4 DEF Blocks
    <2>3. FlagType'
        BY <1>8, <2>1, <2>2 DEF DataWritten, TypeOK, FlagType, readVars
    <2>4. MachineType'
        BY <1>8, <1>2, ConstantsAssumption DEF DataWritten, TypeOK, MachineType, StateAfterWrite, States, SendStates
    <2>5. FileType'
        BY <1>8, <2>1, <2>8 DEF DataWritten, TypeOK, FileType, readVars
    <2>6. LoopType'
        BY <1>8, <1>1, <2>1, <2>2 DEF DataWritten, TypeOK, LoopType
    <2> QED BY <2>2, <2>3, <2>4, <2>5, <2>6 DEF TypeOK
<1>9. CASE DataNotWritten
    <2>1. /\ Received("WAIT_FOR_DATA") /\ ServeRead
          /\ Head(inbox) \in Datagrams /\ inbox' \in Seq(Datagrams)
          /\ UNCHANGED <<timer, sock_err, sent>>
        BY <1>9, ReceivedType DEF DataNotWritten
    <2>2. /\ RequestType'
          /\ reader_open' \in BOOLEAN /\ polling' \in BOOLEAN
          /\ events' \in Seq(Events)
          /\ budget' \in 0 .. MaxDatagrams /\ older' \in 0 .. OlderConnections
        BY <2>1, ServeType DEF ServeRead
    <2>3. FlagType'
        BY <1>9, <2>1, <2>2 DEF DataNotWritten, TypeOK, FlagType, readVars
    <2>4. MachineType'
        BY <1>9, <1>2, ConstantsAssumption DEF DataNotWritten, TypeOK, MachineType, States, SendStates
    <2>5. FileType'
        BY <1>9, <2>1 DEF DataNotWritten, TypeOK, FileType, readVars
    <2>6. LoopType'
        BY <1>9, <1>1, <2>1, <2>2 DEF DataNotWritten, TypeOK, LoopType
    <2> QED BY <2>2, <2>3, <2>4, <2>5, <2>6 DEF TypeOK
<1>10. CASE NoDataReceived
    <2>1. /\ Received("WAIT_FOR_DATA") /\ ServeRead
          /\ Head(inbox) \in Datagrams /\ inbox' \in Seq(Datagrams)
          /\ UNCHANGED <<timer, sock_err, sent>>
        BY <1>10, ReceivedType DEF NoDataReceived
    <2>2. /\ RequestType'
          /\ reader_open' \in BOOLEAN /\ polling' \in BOOLEAN
          /\ events' \in Seq(Events)
          /\ budget' \in 0 .. MaxDatagrams /\ older' \in 0 .. OlderConnections
        BY <2>1, ServeType DEF ServeRead
    <2>3. FlagType'
        BY <1>10, <2>1, <2>2 DEF NoDataReceived, TypeOK, FlagType, readVars
    <2>4. MachineType'
        BY <1>10, <1>2 DEF NoDataReceived, TypeOK, MachineType
    <2>5. FileType'
        BY <1>10, <2>1 DEF NoDataReceived, TypeOK, FileType, readVars
    <2>6. LoopType'
        BY <1>10, <1>1, <2>1, <2>2 DEF NoDataReceived, TypeOK, LoopType
    <2> QED BY <2>2, <2>3, <2>4, <2>5, <2>6 DEF TypeOK
<1> QED
    BY <1>3, <1>4, <1>5, <1>6, <1>7, <1>8, <1>9, <1>10 DEF handle_read

(* send adds a well-formed packet to what was sent.                        *)
LEMMA SendType ==
    ASSUME TypeOK, NEW result \in SendResults, NEW packet \in Packets, send(result, packet)
    PROVE  sent' \subseteq Packets /\ sock_err' \in BOOLEAN /\ inbox' \in Seq(Datagrams)
BY DEF send, TypeOK, FileType, LoopType

(* The packets other than DATA are well formed.                            *)
LEMMA PacketType ==
    ASSUME TypeOK, NEW op \in {"ACK", "OACK", "ERROR"}, NEW num \in BlockNumbers
    PROVE  Packet(op, num) \in Packets
<1>1. Len(file) \in Nat
    BY DEF TypeOK, FileType
<1> QED BY <1>1 DEF Packet, Packets

(* The block read next is well formed and stays within the file.           *)
LEMMA NextBlockType ==
    ASSUME TypeOK
    PROVE  NextBlock \in DataPackets /\ read_pos + NextBlock.len \in 0 .. FileSize
<1>1. /\ block_number \in BlockNumbers /\ blocks_read \in Nat
      /\ read_pos \in 0 .. FileSize /\ block_size \in Nat /\ FileSize \in Nat
    BY ConstantsAssumption DEF TypeOK, MachineType, FileType, RequestType
<1> QED BY <1>1 DEF NextBlock, DataPackets, Smaller

(* Handling a write event keeps the types.                                 *)
LEMMA HandleWriteType ==
    ASSUME TypeOK, ReadFails \/ (\E result \in SendResults : handle_write(result)),
           epoll_ctl_mod
    PROVE  TypeOK'
<1>1. interest' \in {"IN", "OUT"}
    BY DEF epoll_ctl_mod, InterestOf
<1>2. Inc(block_number) \in BlockNumbers /\ 0 \in BlockNumbers
    BY BlockNumberRange, ConstantsAssumption DEF TypeOK, MachineType, BlockNumbers
<1>3. CASE ReadFails
    <2>1. ServeWrite
        BY <1>3 DEF ReadFails
    <2>2. /\ RequestType'
          /\ reader_open' \in BOOLEAN /\ polling' \in BOOLEAN
          /\ events' \in Seq(Events)
          /\ budget' \in 0 .. MaxDatagrams /\ older' \in 0 .. OlderConnections
        BY <2>1, ServeType DEF ServeWrite
    <2>3. FlagType'
        BY <1>3, <2>2 DEF ReadFails, TypeOK, FlagType, readVars
    <2>4. MachineType'
        BY <1>3, <1>2 DEF ReadFails, TypeOK, MachineType, States, SendStates, WaitStates
    <2>5. FileType'
        BY <1>3 DEF ReadFails, TypeOK, FileType, readVars
    <2>6. LoopType'
        BY <1>3, <1>1, <2>2 DEF ReadFails, TypeOK, LoopType
    <2> QED BY <2>2, <2>3, <2>4, <2>5, <2>6 DEF TypeOK
<1>4. ASSUME NEW result \in SendResults, SendData(result)
      PROVE  TypeOK'
    <2>1. ServeWrite
        BY <1>4 DEF SendData
    <2>2. /\ RequestType'
          /\ reader_open' \in BOOLEAN /\ polling' \in BOOLEAN
          /\ events' \in Seq(Events)
          /\ budget' \in 0 .. MaxDatagrams /\ older' \in 0 .. OlderConnections
        BY <2>1, ServeType DEF ServeWrite
    <2> DEFINE pkt == IF NeedsRead THEN NextBlock ELSE data_pkt
    <2>8. /\ data_pkt' = pkt /\ pkt \in DataPackets
          /\ read_pos' \in 0 .. FileSize /\ blocks_read' \in Nat
        BY <1>4, NextBlockType DEF SendData, TypeOK, FileType
    <2>7. sent' \subseteq Packets /\ sock_err' \in BOOLEAN /\ inbox' \in Seq(Datagrams)
        <3> DEFINE packet == [op |-> "DATA", num |-> pkt.num, idx |-> pkt.idx,
                              off |-> pkt.off, len |-> pkt.len]
        <3>1. send(result, packet)
            BY <1>4 DEF SendData
        <3>2. packet \in Packets
            BY <2>8 DEF DataPackets, Packets
        <3> QED BY <1>4, <3>1, <3>2, SendType
    <2>3. FlagType'
        BY <1>4, <2>2, <2>7 DEF SendData, TypeOK, FlagType
    <2>4. MachineType'
        BY <1>4, <1>2 DEF SendData, TypeOK, MachineType, States, SendStates, WaitStates
    <2>5. FileType'
        BY <1>4, <2>7, <2>8 DEF SendData, TypeOK, FileType
    <2>6. LoopType'
        BY <1>4, <1>1, <2>2, <2>7 DEF SendData, TypeOK, LoopType, arm_timer
    <2> QED BY <2>2, <2>3, <2>4, <2>5, <2>6 DEF TypeOK
<1>5. ASSUME NEW result \in SendResults, SendAck(result)
      PROVE  TypeOK'
    <2>1. ServeWrite
        BY <1>5 DEF SendAck
    <2>2. /\ RequestType'
          /\ reader_open' \in BOOLEAN /\ polling' \in BOOLEAN
          /\ events' \in Seq(Events)
          /\ budget' \in 0 .. MaxDatagrams /\ older' \in 0 .. OlderConnections
        BY <2>1, ServeType DEF ServeWrite
    <2>7. sent' \subseteq Packets /\ sock_err' \in BOOLEAN /\ inbox' \in Seq(Datagrams)
        <3>1. send(result, Packet("ACK", block_number))
            BY <1>5 DEF SendAck
        <3> QED BY <1>5, <1>2, <3>1, SendType, PacketType DEF TypeOK, MachineType
    <2>3. FlagType'
        BY <1>5, <2>2, <2>7 DEF SendAck, TypeOK, FlagType, readVars
    <2>4. MachineType'
        BY <1>5, <1>2 DEF SendAck, TypeOK, MachineType, States, SendStates, WaitStates
    <2>5. FileType'
        BY <1>5, <2>7 DEF SendAck, TypeOK, FileType, readVars
    <2>6. LoopType'
        BY <1>5, <1>1, <2>2, <2>7 DEF SendAck, TypeOK, LoopType, arm_timer
    <2> QED BY <2>2, <2>3, <2>4, <2>5, <2>6 DEF TypeOK
<1>6. ASSUME NEW result \in SendResults, SendOack(result)
      PROVE  TypeOK'
    <2>1. ServeWrite
        BY <1>6 DEF SendOack
    <2>2. /\ RequestType'
          /\ reader_open' \in BOOLEAN /\ polling' \in BOOLEAN
          /\ events' \in Seq(Events)
          /\ budget' \in 0 .. MaxDatagrams /\ older' \in 0 .. OlderConnections
        BY <2>1, ServeType DEF ServeWrite
    <2>7. sent' \subseteq Packets /\ sock_err' \in BOOLEAN /\ inbox' \in Seq(Datagrams)
        <3>1. send(result, Packet("OACK", 0))
            BY <1>6 DEF SendOack
        <3> QED BY <1>6, <1>2, <3>1, SendType, PacketType DEF TypeOK, MachineType
    <2>3. FlagType'
        BY <1>6, <2>2, <2>7 DEF SendOack, TypeOK, FlagType, readVars
    <2>4. MachineType'
        BY <1>6, <1>2 DEF SendOack, TypeOK, MachineType, States, SendStates, WaitStates
    <2>5. FileType'
        BY <1>6, <2>7 DEF SendOack, TypeOK, FileType, readVars
    <2>6. LoopType'
        BY <1>6, <1>1, <2>2, <2>7 DEF SendOack, TypeOK, LoopType
    <2> QED BY <2>2, <2>3, <2>4, <2>5, <2>6 DEF TypeOK
<1>7. ASSUME NEW result \in SendResults, SendError(result)
      PROVE  TypeOK'
    <2>1. ServeWrite
        BY <1>7 DEF SendError
    <2>2. /\ RequestType'
          /\ reader_open' \in BOOLEAN /\ polling' \in BOOLEAN
          /\ events' \in Seq(Events)
          /\ budget' \in 0 .. MaxDatagrams /\ older' \in 0 .. OlderConnections
        BY <2>1, ServeType DEF ServeWrite
    <2>7. sent' \subseteq Packets /\ sock_err' \in BOOLEAN /\ inbox' \in Seq(Datagrams)
        <3>1. CASE state = "ERROR"
            <4>1. send(result, Packet("ERROR", 0))
                BY <1>7, <3>1 DEF SendError
            <4> QED BY <1>7, <1>2, <4>1, SendType, PacketType
        <3>2. CASE state # "ERROR"
            BY <1>7, <3>2 DEF SendError, TypeOK, FlagType, FileType, LoopType
        <3> QED BY <3>1, <3>2
    <2>3. FlagType'
        BY <1>7, <2>2, <2>7 DEF SendError, TypeOK, FlagType, readVars
    <2>4. MachineType'
        BY <1>7, <1>2 DEF SendError, TypeOK, MachineType, States, SendStates, WaitStates
    <2>5. FileType'
        BY <1>7, <2>7 DEF SendError, TypeOK, FileType, readVars
    <2>6. LoopType'
        BY <1>7, <1>1, <2>2, <2>7 DEF SendError, TypeOK, LoopType
    <2> QED BY <2>2, <2>3, <2>4, <2>5, <2>6 DEF TypeOK
<1> QED
    BY <1>3, <1>4, <1>5, <1>6, <1>7 DEF handle_write

(* Every step of the loop, the client and the clock keeps the types.       *)
LEMMA NextType == TypeOK /\ [Next]_vars => TypeOK'
<1> SUFFICES ASSUME TypeOK, [Next]_vars PROVE TypeOK'
    OBVIOUS
<1>1. CASE EpollWait
    <2>1. events' \in Seq(Events)
        <3>1. CASE events' \in Batches
            BY <3>1, BatchFacts
        <3>2. CASE events' = <<>>
            BY <3>2
        <3> QED BY <1>1, <3>1, <3>2 DEF EpollWait
    <2>2. RequestType' /\ MachineType'
        BY <1>1 DEF EpollWait, TypeOK, RequestType, MachineType, requestVars, machineVars
    <2>3. FlagType'
        BY <1>1 DEF EpollWait, TypeOK, FlagType, requestVars, machineVars, readVars, kernelVars
    <2>4. FileType'
        BY <1>1 DEF EpollWait, TypeOK, FileType, machineVars, readVars
    <2>5. LoopType'
        BY <1>1, <2>1 DEF EpollWait, TypeOK, LoopType, kernelVars
    <2> QED BY <2>2, <2>3, <2>4, <2>5 DEF TypeOK
<1>2. CASE Dispatch
    <2>1. CASE SocketError
        <3>1. Serve({"sd_err"}) /\ interest' \in {"IN", "OUT"}
            BY <1>2, <2>1 DEF SocketError, Dispatch, epoll_ctl_mod, InterestOf
        <3>2. /\ RequestType'
              /\ reader_open' \in BOOLEAN /\ polling' \in BOOLEAN
              /\ events' \in Seq(Events)
              /\ budget' \in 0 .. MaxDatagrams /\ older' \in 0 .. OlderConnections
            BY <3>1, ServeType
        <3>3. FlagType'
            BY <2>1, <3>2 DEF SocketError, TypeOK, FlagType, readVars
        <3>4. MachineType'
            BY <2>1 DEF SocketError, TypeOK, MachineType
        <3>5. FileType'
            BY <2>1 DEF SocketError, TypeOK, FileType, readVars
        <3>6. LoopType'
            BY <2>1, <3>1, <3>2 DEF SocketError, TypeOK, LoopType
        <3> QED BY <3>2, <3>3, <3>4, <3>5, <3>6 DEF TypeOK
    <2> QED
        BY <1>2, <2>1, HandleReadType, HandleWriteType DEF Dispatch
<1>3. CASE Cleanup
    <2>1. RequestType' /\ MachineType'
        BY <1>3 DEF Cleanup, TypeOK, RequestType, MachineType, requestVars, machineVars
    <2>2. FlagType'
        BY <1>3 DEF Cleanup, TypeOK, FlagType, requestVars, machineVars, readVars, kernelVars
    <2>3. FileType'
        BY <1>3 DEF Cleanup, TypeOK, FileType, machineVars, readVars
    <2>4. LoopType'
        BY <1>3, ConstantsAssumption DEF Cleanup, ErasedLife, TypeOK, LoopType, kernelVars
    <2> QED BY <2>1, <2>2, <2>3, <2>4 DEF TypeOK
<1>4. ASSUME NEW d \in Datagrams, Deliver(d)
      PROVE  TypeOK'
    <2>1. RequestType' /\ MachineType'
        BY <1>4 DEF Deliver, TypeOK, RequestType, MachineType, requestVars, machineVars
    <2>2. FlagType'
        BY <1>4 DEF Deliver, TypeOK, FlagType, requestVars, machineVars, readVars, loopVars
    <2>3. FileType'
        BY <1>4 DEF Deliver, TypeOK, FileType, machineVars, readVars
    <2>4. LoopType'
        BY <1>4, ConstantsAssumption DEF Deliver, TypeOK, LoopType, loopVars
    <2> QED BY <2>1, <2>2, <2>3, <2>4 DEF TypeOK
<1>5. CASE IcmpError
    <2>1. RequestType' /\ MachineType'
        BY <1>5 DEF IcmpError, TypeOK, RequestType, MachineType, requestVars, machineVars
    <2>2. FlagType'
        BY <1>5 DEF IcmpError, TypeOK, FlagType, requestVars, machineVars, readVars, loopVars
    <2>3. FileType'
        BY <1>5 DEF IcmpError, TypeOK, FileType, machineVars, readVars
    <2>4. LoopType'
        BY <1>5, ConstantsAssumption DEF IcmpError, TypeOK, LoopType, loopVars
    <2> QED BY <2>1, <2>2, <2>3, <2>4 DEF TypeOK
<1>6. CASE TimerExpires
    <2>1. RequestType' /\ MachineType'
        BY <1>6 DEF TimerExpires, TypeOK, RequestType, MachineType, requestVars, machineVars
    <2>2. FlagType'
        BY <1>6 DEF TimerExpires, TypeOK, FlagType, requestVars, machineVars, readVars, loopVars
    <2>3. FileType'
        BY <1>6 DEF TimerExpires, TypeOK, FileType, machineVars, readVars
    <2>4. LoopType'
        BY <1>6 DEF TimerExpires, TypeOK, LoopType, loopVars
    <2> QED BY <2>1, <2>2, <2>3, <2>4 DEF TypeOK
<1>7. CASE UNCHANGED vars
    <2>1. RequestType' /\ MachineType'
        BY <1>7 DEF vars, TypeOK, RequestType, MachineType, requestVars, machineVars
    <2>2. FlagType'
        BY <1>7 DEF vars, TypeOK, FlagType, requestVars, machineVars, readVars, kernelVars, loopVars
    <2>3. FileType'
        BY <1>7 DEF vars, TypeOK, FileType, machineVars, readVars
    <2>4. LoopType'
        BY <1>7 DEF vars, TypeOK, LoopType, kernelVars, loopVars
    <2> QED BY <2>1, <2>2, <2>3, <2>4 DEF TypeOK
<1> QED
    BY <1>1, <1>2, <1>3, <1>4, <1>5, <1>6, <1>7 DEF Next, Ended

(* Every reachable state is well typed: block numbers stay within the      *)
(* width of their counter, the retry counter within MAX_TIMEOUTS, and the  *)
(* reader within the file, for every request, file and client.             *)
THEOREM TypeCorrect == Spec => []TypeOK
BY InitType, NextType, PTL DEF Spec

-----------------------------------------------------------------------------
(* The write handler is never entered in a waiting state.                  *)

(* The registration follows the state, a fetched write event is the only   *)
(* one of its batch, and it was fetched for a sending state which nothing  *)
(* before it in the batch can leave.                                       *)
LoopInv ==
    /\ NoErrorState
    /\ interest = InterestOf(state)
    /\ \A i \in 1 .. Len(events) : events[i] = "sd_out" => state \in SendStates
    /\ \A i, j \in 1 .. Len(events) : events[i] = "sd_out" /\ events[j] = "sd_out" => i = j

(* A read event leaves a sending state as it is.                           *)
LEMMA ReadKeepsSending ==
    ASSUME TypeOK, state \in SendStates, handle_read \/ SocketError
    PROVE  state' = state
<1>1. state \notin WaitStates /\ state # "WAIT_FOR_ACK" /\ state # "WAIT_FOR_DATA"
    BY DEF SendStates, WaitStates
<1>2. CASE TimedOut
    BY <1>1, <1>2 DEF TimedOut, retransmit
<1>3. CASE NothingRead
    BY <1>3 DEF NothingRead, machineVars
<1> QED
    BY <1>1, <1>2, <1>3
    DEF handle_read, RecvThrows, AckReceived, NoAckReceived, DataWritten, DataNotWritten,
        NoDataReceived, Received, SocketError

(* What is served first is no longer in the batch.                         *)
LEMMA TailFacts ==
    ASSUME NEW S, NEW q \in Seq(S), q # <<>>
    PROVE  /\ Head(q) = q[1] /\ Len(q) \in Nat /\ Len(q) >= 1
           /\ Len(Tail(q)) = Len(q) - 1
           /\ \A i \in 1 .. Len(Tail(q)) : Tail(q)[i] = q[i + 1] /\ i + 1 \in 1 .. Len(q)
OBVIOUS

(* Serving an event keeps the invariant.                                   *)
LEMMA DispatchLoopInv ==
    ASSUME TypeOK, LoopInv, Dispatch
    PROVE  LoopInv'
<1>1. interest' = InterestOf(state)'
    BY DEF Dispatch, epoll_ctl_mod, InterestOf
<1>2. events \in Seq(Events) /\ state \in States
    BY DEF TypeOK, LoopType, MachineType
<1>3. ASSUME NEW kinds, Serve(kinds)
      PROVE  /\ Head(events) = events[1] /\ Head(events) \in kinds /\ Len(events) >= 1
             /\ Len(events) \in Nat /\ Len(events') = Len(events) - 1
             /\ \A i \in 1 .. Len(events') :
                    events'[i] = events[i + 1] /\ i + 1 \in 1 .. Len(events)
    BY <1>2, <1>3, TailFacts DEF Serve
<1>4. ASSUME NEW kinds, Serve(kinds)
      PROVE  \A i, j \in 1 .. Len(events') :
                events'[i] = "sd_out" /\ events'[j] = "sd_out" => i = j
    BY <1>3, <1>4 DEF LoopInv
<1>5. CASE handle_read \/ SocketError
    <2>1. PICK kinds : Serve(kinds)
        BY <1>5 DEF handle_read, TimedOut, NothingRead, RecvThrows, AckReceived, NoAckReceived,
                    DataWritten, DataNotWritten, NoDataReceived, Received, ServeRead, SocketError
    <2>2. life' # "error_state"
        BY <1>5 DEF handle_read, TimedOut, retransmit, NothingRead, RecvThrows, AckReceived,
                    NoAckReceived, DataWritten, DataNotWritten, NoDataReceived, SocketError,
                    LoopInv, NoErrorState
    <2>3. \A i \in 1 .. Len(events') : events'[i] = "sd_out" => state' \in SendStates
        BY <1>3, <1>5, <2>1, ReadKeepsSending DEF LoopInv
    <2> QED BY <1>1, <1>4, <2>1, <2>2, <2>3 DEF LoopInv, NoErrorState
<1>6. CASE ReadFails \/ (\E result \in SendResults : handle_write(result))
    <2>1. Serve({"sd_out"})
        BY <1>6 DEF ReadFails, handle_write, SendData, SendAck, SendOack, SendError, ServeWrite
    <2>2. events[1] = "sd_out" /\ 1 \in 1 .. Len(events)
        BY <2>1, <1>3
    <2>3. state \in SendStates
        BY <2>2 DEF LoopInv
    <2>4. life' # "error_state"
        BY <1>6, <2>3
        DEF ReadFails, handle_write, SendData, SendAck, SendOack, SendError, SendStates,
            LoopInv, NoErrorState
    <2>5. \A i \in 1 .. Len(events') : events'[i] # "sd_out"
        BY <2>1, <2>2, <1>3 DEF LoopInv
    <2> QED BY <1>1, <1>4, <2>1, <2>4, <2>5 DEF LoopInv, NoErrorState
<1> QED BY <1>5, <1>6 DEF Dispatch

(* Every step keeps the invariant.                                         *)
LEMMA NextLoopInv == TypeOK /\ LoopInv /\ [Next]_vars => LoopInv'
<1> SUFFICES ASSUME TypeOK, LoopInv, [Next]_vars PROVE LoopInv'
    OBVIOUS
<1>1. CASE EpollWait
    <2>1. UNCHANGED <<state, interest, life>>
        BY <1>1 DEF EpollWait, machineVars
    <2>2. CASE events' \in Batches
        <3>1. /\ \A i \in 1 .. Len(events') : events'[i] \in Ready
              /\ \A i, j \in 1 .. Len(events') :
                    events'[i] = "sd_out" /\ events'[j] = "sd_out" => i = j
            BY <2>2, BatchFacts
        <3>2. "sd_out" \in Ready => state \in SendStates
            BY DEF Ready, LoopInv, InterestOf, TypeOK, MachineType, States
        <3> QED BY <2>1, <3>1, <3>2 DEF LoopInv, NoErrorState, InterestOf
    <2>3. CASE events' = <<>>
        BY <2>1, <2>3 DEF LoopInv, NoErrorState, InterestOf
    <2> QED BY <1>1, <2>2, <2>3 DEF EpollWait
<1>2. CASE Dispatch
    BY <1>2, DispatchLoopInv
<1>3. CASE Cleanup
    <2>1. UNCHANGED <<state, interest, events>> /\ life' # "error_state"
        BY <1>3 DEF Cleanup, ErasedLife, machineVars, LoopInv, NoErrorState
    <2> QED BY <2>1 DEF LoopInv, NoErrorState, InterestOf
<1>4. CASE \/ \E d \in Datagrams : Deliver(d)
           \/ IcmpError \/ TimerExpires \/ UNCHANGED vars
    <2>1. UNCHANGED <<state, interest, events, life>>
        BY <1>4 DEF Deliver, IcmpError, TimerExpires, vars, machineVars, loopVars
    <2> QED BY <2>1 DEF LoopInv, NoErrorState, InterestOf
<1> QED BY <1>1, <1>2, <1>3, <1>4 DEF Next, Ended

(* The server is never ended by the exception "Error state": whatever the  *)
(* client sends, however events of the timer and the socket are batched,   *)
(* and whenever sends are refused, handle_write finds a sending state.     *)
THEOREM NeverErrorState == Spec => []NoErrorState
<1>1. Init => LoopInv
    BY DEF Init, LoopInv, NoErrorState
<1>2. LoopInv => NoErrorState
    BY DEF LoopInv
<1> QED BY <1>1, <1>2, NextLoopInv, TypeCorrect, PTL DEF Spec

-----------------------------------------------------------------------------
(* The number of unanswered packets is bounded.                            *)

(* An unanswered packet was paid for by a time-out, except the one that is *)
(* being waited for.                                                       *)
RetryInv ==
    ~finished => silent <= timeout_count + (IF state \in WaitStates THEN 1 ELSE 0)

(* Every step keeps the invariant.                                         *)
LEMMA NextRetryInv == TypeOK /\ RetryInv /\ [Next]_vars => RetryInv'
<1> SUFFICES ASSUME TypeOK, RetryInv, [Next]_vars PROVE RetryInv'
    OBVIOUS
<1>1. silent \in Nat /\ timeout_count \in Nat
    BY ConstantsAssumption DEF TypeOK, MachineType
<1>2. CASE handle_read
    <2>1. CASE TimedOut
        BY <1>1, <2>1
        DEF TimedOut, retransmit, TooManyTimeouts, RetryInv, WaitStates
    <2>2. CASE NothingRead \/ RecvThrows
        BY <2>2 DEF NothingRead, RecvThrows, machineVars, RetryInv
    <2>3. CASE AckReceived
        BY <2>3 DEF AckReceived, RetryInv, WaitStates
    <2>4. CASE NoAckReceived \/ NoDataReceived
        BY <2>4 DEF NoAckReceived, NoDataReceived, RetryInv
    <2>5. ASSUME NEW outcome \in {"ok", "error", "exception", "hung"}, DataWritten(outcome)
          PROVE  RetryInv'
        BY <2>5 DEF DataWritten, RetryInv
    <2>6. CASE DataNotWritten
        BY <2>6 DEF DataNotWritten, RetryInv
    <2> QED BY <1>2, <2>1, <2>2, <2>3, <2>4, <2>5, <2>6 DEF handle_read
<1>3. CASE ReadFails
    BY <1>3 DEF ReadFails, RetryInv, WaitStates
<1>4. ASSUME NEW result \in SendResults, handle_write(result)
      PROVE  RetryInv'
    <2>1. CASE SendData(result)
        BY <1>1, <2>1 DEF SendData, RetryInv, WaitStates
    <2>2. CASE SendAck(result)
        <3>1. ~finished' => ~finished /\ (result = "sent" => ~final_ack)
            BY <2>2 DEF SendAck
        <3>2. ~finished => silent <= timeout_count
            BY <1>1, <2>2 DEF SendAck, RetryInv, WaitStates
        <3>3. CASE result = "sent" /\ ~final_ack
            BY <1>1, <2>2, <3>1, <3>2, <3>3 DEF SendAck, RetryInv, WaitStates
        <3>4. CASE result # "sent"
            <4>1. silent' = silent /\ timeout_count' = timeout_count /\ state' \notin WaitStates
                BY <2>2, <3>4 DEF SendAck, WaitStates
            <4> QED BY <1>1, <3>1, <3>2, <4>1 DEF RetryInv
        <3> QED BY <3>1, <3>3, <3>4 DEF RetryInv
    <2>3. CASE SendOack(result)
        <3>1. ~finished' => ~finished
            BY <2>3 DEF SendOack
        <3>2. ~finished => silent <= timeout_count
            BY <1>1, <2>3 DEF SendOack, RetryInv, WaitStates
        <3>3. /\ timeout_count' = timeout_count
              /\ silent' = IF result = "sent" THEN silent + 1 ELSE silent
              /\ result = "sent" => state' \in WaitStates
            BY <2>3 DEF SendOack, WaitStates
        <3> QED BY <1>1, <3>1, <3>2, <3>3 DEF RetryInv
    <2>4. CASE SendError(result)
        BY <2>4 DEF SendError, RetryInv
    <2> QED BY <1>4, <2>1, <2>2, <2>3, <2>4 DEF handle_write
<1>5. CASE SocketError
    BY <1>5 DEF SocketError, RetryInv
<1>6. CASE \/ EpollWait \/ Cleanup \/ UNCHANGED vars
           \/ \E d \in Datagrams : Deliver(d)
           \/ IcmpError \/ TimerExpires
    <2>1. UNCHANGED <<state, finished, silent, timeout_count>>
        BY <1>6 DEF EpollWait, Cleanup, Deliver, IcmpError, TimerExpires, vars, machineVars
    <2> QED BY <2>1 DEF RetryInv
<1> QED BY <1>2, <1>3, <1>4, <1>5, <1>6 DEF Next, Dispatch, Ended

(* A session that is not being closed never has more than MAX_TIMEOUTS + 1 *)
(* unanswered packets, whatever else arrives and for every timing.         *)
THEOREM RetriesBounded == Spec => []RetryBound
<1>1. Init => RetryInv
    BY DEF Init, RetryInv
<1>2. TypeOK /\ RetryInv => RetryBound
    BY ConstantsAssumption DEF TypeOK, MachineType, RetryInv, RetryBound
<1> QED BY <1>1, <1>2, NextRetryInv, TypeCorrect, PTL DEF Spec

-----------------------------------------------------------------------------
(* Lock-step transfer of the right bytes.                                  *)

(* The block being transferred, counted from 1 without wrapping.           *)
Current == blocks_read + (IF pkt_ready THEN 0 ELSE 1)

(* Which states belong to which operation, and how the transfer begins     *)
(* when an OACK precedes it: from block 0, with the timer off.             *)
PhaseInv ==
    /\ state \in {"SEND_DATA", "WAIT_FOR_ACK"} => type = "READ"
    /\ state \in {"SEND_ACK", "WAIT_FOR_DATA"} => type = "WRITE"
    /\ state = "SEND_OACK" \/ (state = "WAIT_FOR_ACK" /\ ~pkt_ready)
        => block_number = 0 /\ ~pkt_ready /\ blocks_read = 0 /\ timer = "off"

(* The block number is that of the current block, and all blocks before it *)
(* were acknowledged.                                                      *)
CountInv ==
    /\ state = "SEND_DATA" \/ (state = "WAIT_FOR_ACK" /\ pkt_ready)
        => block_number = Current % Modulus
    /\ Current <= acked + 1

(* The kept packet is the current block of the file, and the reader is     *)
(* right behind it until the final block was read.                         *)
PacketInv ==
    /\ pkt_ready =>
        /\ blocks_read >= 1
        /\ data_pkt.idx = blocks_read
        /\ data_pkt.num = blocks_read % Modulus
        /\ data_pkt.off = (blocks_read - 1) * block_size
        /\ data_pkt.len = Smaller(block_size, FileSize - data_pkt.off)
    /\ type = "READ" /\ final_ack => pkt_ready /\ data_pkt.len < block_size
    /\ type = "READ" /\ ~final_ack => read_pos = blocks_read * block_size

(* Nothing beyond the blocks read was sent.                                *)
SentInv == \A p \in sent : p.op = "DATA" => p.idx <= blocks_read

TransferInv == PhaseInv /\ CountInv /\ PacketInv /\ SentInv

(* Division with remainder by the number of block numbers.                 *)
LEMMA DivMod ==
    ASSUME NEW k \in Nat
    PROVE  /\ k = Modulus * (k \div Modulus) + (k % Modulus)
           /\ k \div Modulus \in Nat /\ k % Modulus \in BlockNumbers
BY ConstantsAssumption DEF BlockNumbers

(* A remainder is what it is computed from.                                *)
LEMMA RemainderOf ==
    ASSUME NEW q \in Nat, NEW r \in BlockNumbers
    PROVE  (Modulus * q + r) % Modulus = r
BY ConstantsAssumption DEF BlockNumbers

(* The uint16_t increment counts blocks modulo the width of the counter.   *)
LEMMA IncCounts ==
    ASSUME NEW k \in Nat
    PROVE  Inc(k % Modulus) = (k + 1) % Modulus
<1> DEFINE q == k \div Modulus
           r == k % Modulus
<1>1. k = Modulus * q + r /\ q \in Nat /\ r \in BlockNumbers
    BY DivMod
<1> HIDE DEF q, r
<1>2. CASE r = Modulus - 1
    <2>1. k + 1 = Modulus * (q + 1) + 0
        BY <1>1, <1>2, ConstantsAssumption DEF BlockNumbers
    <2>2. (Modulus * (q + 1) + 0) % Modulus = 0
        BY <1>1, RemainderOf, ConstantsAssumption DEF BlockNumbers
    <2> QED BY <1>2, <2>1, <2>2 DEF Inc, r
<1>3. CASE r # Modulus - 1
    <2>1. k + 1 = Modulus * q + (r + 1) /\ r + 1 \in BlockNumbers
        BY <1>1, <1>3, ConstantsAssumption DEF BlockNumbers
    <2>2. (Modulus * q + (r + 1)) % Modulus = r + 1
        BY <1>1, <2>1, RemainderOf
    <2> QED BY <1>3, <2>1, <2>2 DEF Inc, r
<1> QED BY <1>2, <1>3

(* The first block has number 1.                                           *)
LEMMA FirstNumber == 1 % Modulus = 1 /\ Inc(0) = 1
<1>1. 0 \in Nat /\ 1 \in BlockNumbers
    BY ConstantsAssumption DEF BlockNumbers
<1>2. (Modulus * 0 + 1) % Modulus = 1
    BY <1>1, RemainderOf
<1> QED BY <1>2, ConstantsAssumption DEF Inc

(* More acknowledgements never put a block out of reach.                   *)
LEMMA StillNext ==
    ASSUME NEW c \in Nat, NEW x \in Nat, NEW y \in Nat, x <= y, c <= x + 1
    PROVE  c <= y + 1
OBVIOUS

(* No step changes what the constructor chose.                             *)
LEMMA RequestKept == [Next]_vars => UNCHANGED requestVars
BY DEF Next, vars, EpollWait, Dispatch, Cleanup, Deliver, IcmpError, TimerExpires, Ended,
       handle_read, handle_write, ReadFails, SocketError, TimedOut, NothingRead, RecvThrows,
       AckReceived, NoAckReceived, DataWritten, DataNotWritten, NoDataReceived, Received,
       SendData, SendAck, SendOack, SendError, ServeRead, ServeWrite, Serve

(* Steps that leave the transfer alone keep its invariant.                 *)
LEMMA TransferFrame ==
    ASSUME TransferInv,
           UNCHANGED <<type, block_size, state, block_number, timer, acked, pkt_ready,
                       data_pkt, read_pos, blocks_read, final_ack, sent>>
    PROVE  TransferInv'
<1>1. PhaseInv'
    BY DEF TransferInv, PhaseInv
<1>2. CountInv'
    BY DEF TransferInv, CountInv, Current
<1>3. PacketInv'
    BY DEF TransferInv, PacketInv
<1>4. SentInv'
    BY DEF TransferInv, SentInv
<1> QED BY <1>1, <1>2, <1>3, <1>4 DEF TransferInv

(* A time-out makes the session send the current packet again.             *)
LEMMA TimedOutTransfer ==
    ASSUME TypeOK, TransferInv, TimedOut, UNCHANGED requestVars
    PROVE  TransferInv'
<1>1. /\ timer = "expired" /\ timer' = "off"
      /\ UNCHANGED <<type, block_size, final_ack, acked, pkt_ready, data_pkt, read_pos,
                     blocks_read, sent>>
    BY DEF TimedOut, readVars, requestVars
<1>2. state # "SEND_OACK" /\ (state = "WAIT_FOR_ACK" => pkt_ready)
    BY <1>1 DEF TransferInv, PhaseInv
<1>3. \/ state' = state /\ block_number' = block_number
      \/ state = "WAIT_FOR_ACK" /\ state' = "SEND_DATA" /\ block_number' = block_number
      \/ state = "WAIT_FOR_DATA" /\ state' = "SEND_ACK"
    BY DEF TimedOut, retransmit
<1>4. PhaseInv'
    BY <1>1, <1>2, <1>3 DEF TransferInv, PhaseInv
<1>5. CountInv'
    BY <1>1, <1>2, <1>3 DEF TransferInv, CountInv, Current
<1>6. PacketInv'
    BY <1>1 DEF TransferInv, PacketInv
<1>7. SentInv'
    BY <1>1 DEF TransferInv, SentInv
<1> QED BY <1>4, <1>5, <1>6, <1>7 DEF TransferInv

(* An acknowledgement moves the session on only when it is that of the     *)
(* current block, or answers the OACK.                                     *)
LEMMA AckReceivedTransfer ==
    ASSUME TypeOK, TransferInv, AckReceived, UNCHANGED requestVars
    PROVE  TransferInv'
<1> DEFINE d == Head(inbox)
<1>1. /\ state = "WAIT_FOR_ACK"
      /\ acked' = IF d.num = (acked + 1) % Modulus THEN acked + 1 ELSE acked
      /\ UNCHANGED <<type, block_size, timer, final_ack, data_pkt, read_pos, blocks_read, sent>>
    BY DEF AckReceived, Received, requestVars
<1>2. acked \in Nat /\ blocks_read \in Nat /\ acked' \in Nat /\ acked' >= acked
    BY <1>1 DEF TypeOK, FileType
<1>3. type = "READ"
    BY <1>1 DEF TransferInv, PhaseInv
<1>4. SentInv'
    BY <1>1 DEF TransferInv, SentInv
<1>5. CASE ~IsPrevious(d.num) /\ IsCurrent(d.num) /\ ~final_ack
    <2>1. /\ d.num = block_number /\ pkt_ready' = FALSE /\ state' = "SEND_DATA"
          /\ block_number' = Inc(block_number)
        BY <1>5 DEF AckReceived, IsCurrent
    <2>2. PhaseInv'
        BY <1>1, <1>3, <2>1 DEF PhaseInv
    <2>3. PacketInv'
        BY <1>1, <1>5, <2>1 DEF TransferInv, PacketInv
    <2>4. CASE pkt_ready
        <3>1. block_number = blocks_read % Modulus /\ blocks_read <= acked + 1
            BY <1>1, <1>2, <2>4 DEF TransferInv, CountInv, Current
        <3>2. block_number' = (blocks_read + 1) % Modulus
            BY <1>2, <2>1, <3>1, IncCounts
        <3>3. blocks_read <= acked'
            BY <1>1, <1>2, <2>1, <3>1
        <3>4. Current' = blocks_read + 1
            BY <1>1, <2>1 DEF Current
        <3>5. CountInv'
            <4>1. block_number' = Current' % Modulus
                BY <3>2, <3>4
            <4>2. blocks_read + 1 \in Nat /\ blocks_read + 1 <= blocks_read + 1
                BY <1>2
            <4>3. blocks_read + 1 <= acked' + 1
                BY <1>2, <3>3, <4>2, StillNext
            <4> QED BY <3>4, <4>1, <4>3 DEF CountInv
        <3> QED BY <1>4, <2>2, <2>3, <3>5 DEF TransferInv
    <2>5. CASE ~pkt_ready
        <3>1. block_number = 0 /\ blocks_read = 0
            BY <1>1, <2>5 DEF TransferInv, PhaseInv
        <3>2. Current' = 1 /\ block_number' = 1
            BY <1>1, <2>1, <3>1, FirstNumber DEF Current
        <3>3. CountInv'
            <4>1. block_number' = Current' % Modulus
                BY <3>2, FirstNumber
            <4>2. 1 \in Nat /\ 1 <= acked + 1 /\ acked <= acked'
                BY <1>2
            <4>3. 1 <= acked' + 1
                BY <1>2, <4>2, StillNext
            <4> QED BY <3>2, <4>1, <4>3 DEF CountInv
        <3> QED BY <1>4, <2>2, <2>3, <3>3 DEF TransferInv
    <2> QED BY <2>4, <2>5 DEF TypeOK, FlagType
<1>6. CASE ~(~IsPrevious(d.num) /\ IsCurrent(d.num) /\ ~final_ack)
    <2>1. pkt_ready' = pkt_ready /\ block_number' = block_number
        BY <1>6 DEF AckReceived
    <2>2. \/ state' = "ERROR" \/ state' = state
          \/ state' = "SEND_DATA" /\ IsPrevious(d.num)
        BY <1>6 DEF AckReceived
    <2>3. IsPrevious(d.num) => pkt_ready
        <3>1. d.num \in BlockNumbers
            BY ReceivedType, ConstantsAssumption DEF AckReceived
        <3>2. SUFFICES ASSUME IsPrevious(d.num), ~pkt_ready PROVE FALSE
            BY DEF TypeOK, FlagType
        <3>3. block_number = 0
            BY <1>1, <3>2 DEF TransferInv, PhaseInv
        <3> QED BY <3>1, <3>2, <3>3, ConstantsAssumption DEF IsPrevious, BlockNumbers
    <2>4. PhaseInv'
        BY <1>1, <1>3, <2>1, <2>2 DEF TransferInv, PhaseInv
    <2>5. Current' = Current /\ Current \in Nat
        BY <1>1, <1>2, <2>1 DEF Current
    <2>6. CountInv'
        <3>1. Current' <= acked' + 1
            <4>1. Current <= acked + 1
                BY DEF TransferInv, CountInv
            <4>2. acked <= acked'
                BY <1>2
            <4>3. Current <= acked' + 1
                BY <1>2, <2>5, <4>1, <4>2, StillNext
            <4> QED BY <2>5, <4>3
        <3>2. state' = "SEND_DATA" \/ (state' = "WAIT_FOR_ACK" /\ pkt_ready') => pkt_ready
            BY <1>1, <2>1, <2>2, <2>3
        <3>3. pkt_ready => block_number = Current % Modulus
            BY <1>1 DEF TransferInv, CountInv
        <3> QED BY <2>1, <2>5, <3>1, <3>2, <3>3 DEF CountInv
    <2>7. PacketInv'
        BY <1>1, <2>1 DEF TransferInv, PacketInv
    <2> QED BY <1>4, <2>4, <2>6, <2>7 DEF TransferInv
<1> QED BY <1>5, <1>6

(* Data that arrive belong to a write, where nothing is read.              *)
LEMMA DataReceivedTransfer ==
    ASSUME TypeOK, TransferInv, UNCHANGED requestVars,
           DataNotWritten \/ \E outcome \in {"ok", "error", "exception", "hung"} : DataWritten(outcome)
    PROVE  TransferInv'
<1>1. /\ state = "WAIT_FOR_DATA" /\ state' \in {"SEND_ACK", "ERROR", "WAIT_FOR_DATA"}
      /\ UNCHANGED <<type, block_size, timer, acked, pkt_ready, data_pkt, read_pos, blocks_read, sent>>
    BY DEF DataNotWritten, DataWritten, StateAfterWrite, Received, readVars, requestVars
<1>2. type = "WRITE"
    BY <1>1 DEF TransferInv, PhaseInv
<1>3. PhaseInv'
    BY <1>1, <1>2 DEF PhaseInv
<1>4. CountInv'
    BY <1>1 DEF TransferInv, CountInv, Current
<1>5. PacketInv'
    BY <1>1, <1>2 DEF TransferInv, PacketInv
<1>6. SentInv'
    BY <1>1 DEF TransferInv, SentInv
<1> QED BY <1>3, <1>4, <1>5, <1>6 DEF TransferInv

(* Only SEND_DATA sends DATA, and what it sends is the kept packet.        *)
LEMMA SendDataSends ==
    ASSUME TypeOK, NEW result \in SendResults, SendData(result)
    PROVE  \A p \in sent' : p \in sent \/ p = [op |-> "DATA", num |-> data_pkt'.num,
                idx |-> data_pkt'.idx, off |-> data_pkt'.off, len |-> data_pkt'.len]
BY DEF SendData, send

(* The other states send no DATA.                                          *)
LEMMA OthersSendNoData ==
    ASSUME TypeOK, NEW result \in SendResults,
           SendAck(result) \/ SendOack(result) \/ SendError(result)
    PROVE  \A p \in sent' : p.op = "DATA" => p \in sent
<1>1. \A op, num : Packet(op, num).op = op
    BY DEF Packet
<1>2. CASE SendAck(result)
    BY <1>1, <1>2 DEF SendAck, send
<1>3. CASE SendOack(result)
    BY <1>1, <1>3 DEF SendOack, send
<1>4. CASE SendError(result)
    BY <1>1, <1>4 DEF SendError, send
<1> QED BY <1>2, <1>3, <1>4

(* Sending a block, read now or kept from before, keeps the invariant.     *)
LEMMA SendDataTransfer ==
    ASSUME TypeOK, TransferInv, NEW result \in SendResults, SendData(result),
           UNCHANGED requestVars
    PROVE  TransferInv'
<1>1. /\ state = "SEND_DATA" /\ state' \in {"WAIT_FOR_ACK", "ERROR", "SEND_DATA"}
      /\ pkt_ready' = TRUE
      /\ UNCHANGED <<type, block_size, block_number, acked>>
    BY DEF SendData, requestVars
<1>2. type = "READ"
    BY <1>1 DEF TransferInv, PhaseInv
<1>3. /\ blocks_read \in Nat /\ block_size \in Nat /\ FileSize \in Nat
      /\ read_pos \in 0 .. FileSize /\ acked \in Nat
    BY ConstantsAssumption DEF TypeOK, FileType, RequestType
<1>4. block_number = Current % Modulus /\ Current <= acked + 1
    BY <1>1 DEF TransferInv, CountInv
<1>5. PhaseInv'
    BY <1>1, <1>2 DEF PhaseInv
<1>6. CASE pkt_ready
    <2>1. UNCHANGED <<data_pkt, read_pos, blocks_read, final_ack, pkt_ready>>
        BY <1>1, <1>6 DEF SendData, NeedsRead
    <2>2. PacketInv'
        BY <1>1, <2>1 DEF TransferInv, PacketInv
    <2>3. Current' = Current
        BY <2>1 DEF Current
    <2>4. CountInv'
        BY <1>1, <1>4, <2>3 DEF CountInv
    <2>5. data_pkt'.idx = blocks_read'
        BY <1>6, <2>1 DEF TransferInv, PacketInv
    <2>6. SentInv'
        BY <1>3, <2>1, <2>5, SendDataSends DEF TransferInv, SentInv
    <2> QED BY <1>5, <2>2, <2>4, <2>6 DEF TransferInv
<1>7. CASE ~pkt_ready
    <2>1. /\ data_pkt' = NextBlock
          /\ read_pos' = read_pos + NextBlock.len
          /\ blocks_read' = blocks_read + 1
          /\ final_ack' = (final_ack \/ IsFinal(NextBlock.len))
        BY <1>7 DEF SendData, NeedsRead
    <2>2. ~final_ack /\ read_pos = blocks_read * block_size
        BY <1>2, <1>7 DEF TransferInv, PacketInv, TypeOK, FlagType
    <2>3. Current = blocks_read + 1 /\ Current' = blocks_read + 1
        BY <1>1, <1>3, <1>7, <2>1 DEF Current
    <2>4. CountInv'
        BY <1>1, <1>4, <2>3 DEF CountInv
    <2>5. /\ data_pkt'.idx = blocks_read'
          /\ data_pkt'.num = blocks_read' % Modulus
          /\ data_pkt'.off = (blocks_read' - 1) * block_size
          /\ data_pkt'.len = Smaller(block_size, FileSize - data_pkt'.off)
        BY <1>3, <1>4, <2>1, <2>2, <2>3 DEF NextBlock
    <2>6. ~(data_pkt'.len < block_size) => read_pos' = blocks_read' * block_size
        <3>1. data_pkt'.len \in Int /\ data_pkt'.len <= block_size
            BY <1>3, <2>1, SmallerFacts DEF NextBlock
        <3>2. (blocks_read + 1) * block_size = blocks_read * block_size + block_size
            BY <1>3
        <3>3. ~(data_pkt'.len < block_size) => data_pkt'.len = block_size
            BY <1>3, <3>1
        <3> QED BY <2>1, <2>2, <3>2, <3>3
    <2>7. final_ack' <=> data_pkt'.len < block_size
        BY <2>1, <2>2 DEF IsFinal
    <2>8. PacketInv'
        <3>1. blocks_read' >= 1
            BY <1>3, <2>1
        <3>2. block_size' = block_size /\ type' = type /\ pkt_ready'
            BY <1>1
        <3> QED BY <2>5, <2>6, <2>7, <3>1, <3>2 DEF PacketInv
    <2>9. SentInv'
        <3>1. \A p \in sent : p.op = "DATA" => p.idx \in Nat /\ p.idx <= blocks_read
            BY DEF TransferInv, SentInv, TypeOK, FileType, Packets
        <3> QED BY <1>3, <2>1, <2>5, <3>1, SendDataSends DEF SentInv
    <2> QED BY <1>5, <2>4, <2>8, <2>9 DEF TransferInv
<1> QED BY <1>6, <1>7 DEF TypeOK, FlagType

(* Every step keeps the invariant of the transfer.                         *)
LEMMA NextTransferInv == TypeOK /\ TransferInv /\ [Next]_vars => TransferInv'
<1> SUFFICES ASSUME TypeOK, TransferInv, [Next]_vars PROVE TransferInv'
    OBVIOUS
<1>1. UNCHANGED requestVars
    BY RequestKept
<1>2. UNCHANGED <<type, block_size>>
    BY <1>1 DEF requestVars
<1>3. CASE TimedOut \/ AckReceived \/ DataNotWritten
            \/ \E outcome \in {"ok", "error", "exception", "hung"} : DataWritten(outcome)
    BY <1>1, <1>3, TimedOutTransfer, AckReceivedTransfer, DataReceivedTransfer
<1>4. CASE \/ NothingRead \/ RecvThrows \/ NoAckReceived \/ NoDataReceived \/ SocketError
           \/ EpollWait \/ Cleanup \/ IcmpError \/ UNCHANGED vars
           \/ \E d \in Datagrams : Deliver(d)
    <2>1. UNCHANGED <<state, block_number, timer, acked, pkt_ready, data_pkt, read_pos,
                      blocks_read, final_ack, sent>>
        BY <1>4 DEF NothingRead, RecvThrows, NoAckReceived, NoDataReceived, Received, SocketError,
                    EpollWait, Cleanup, IcmpError, Deliver, vars, machineVars, readVars, kernelVars
    <2> QED BY <1>2, <2>1, TransferFrame
<1>5. CASE TimerExpires
    <2>1. /\ timer = "armed"
          /\ UNCHANGED <<state, block_number, acked, pkt_ready, data_pkt, read_pos,
                         blocks_read, final_ack, sent>>
        BY <1>5 DEF TimerExpires, machineVars, readVars
    <2>2. PhaseInv'
        BY <1>2, <2>1 DEF TransferInv, PhaseInv
    <2>3. CountInv' /\ SentInv'
        BY <2>1 DEF TransferInv, CountInv, Current, SentInv
    <2>4. PacketInv'
        BY <1>2, <2>1 DEF TransferInv, PacketInv
    <2> QED BY <2>2, <2>3, <2>4 DEF TransferInv
<1>6. ASSUME NEW result \in SendResults, SendData(result) PROVE TransferInv'
    BY <1>1, <1>6, SendDataTransfer
<1>7. ASSUME \/ ReadFails
             \/ \E result \in SendResults : SendAck(result) \/ SendOack(result) \/ SendError(result)
      PROVE  TransferInv'
    <2>1. UNCHANGED <<acked, pkt_ready, data_pkt, read_pos, blocks_read, final_ack>>
        BY <1>7 DEF ReadFails, SendAck, SendOack, SendError, readVars
    <2>2. \A p \in sent' : p.op = "DATA" => p \in sent
        BY <1>7, OthersSendNoData DEF ReadFails
    <2>3. PacketInv' /\ SentInv'
        BY <1>2, <2>1, <2>2 DEF TransferInv, PacketInv, SentInv
    <2>4. \/ UNCHANGED <<state, block_number, timer>>
          \/ state' = "ERROR"
          \/ state = "SEND_ACK" /\ state' = "WAIT_FOR_DATA"
          \/ state = "SEND_OACK" /\ type = "READ" /\ state' = "WAIT_FOR_ACK"
                /\ UNCHANGED <<block_number, timer>>
          \/ type # "READ" /\ state' = "WAIT_FOR_DATA"
        BY <1>7 DEF ReadFails, SendAck, SendOack, SendError
    <2>5. PhaseInv'
        BY <1>2, <2>1, <2>4 DEF TransferInv, PhaseInv, TypeOK, RequestType
    <2>6. CountInv'
        BY <2>1, <2>4 DEF TransferInv, CountInv, PhaseInv, Current
    <2> QED BY <2>3, <2>5, <2>6 DEF TransferInv
<1> QED
    BY <1>3, <1>4, <1>5, <1>6, <1>7 DEF Next, Dispatch, handle_read, handle_write, Ended

(* Before anything was read or sent the invariant holds.                   *)
LEMMA InitTransferInv == Init => TransferInv
<1> SUFFICES ASSUME Init PROVE TransferInv
    OBVIOUS
<1>1. PICK r \in Requests, mtu \in MtuResults, opened \in BOOLEAN :
            Constructed(r, mtu, opened)
    BY DEF Init
<1>2. r.type \in {"READ", "WRITE"}
    BY ConstantsAssumption
<1>3. /\ ~pkt_ready /\ ~final_ack /\ blocks_read = 0 /\ acked = 0 /\ read_pos = 0
      /\ timer = "off" /\ sent = {}
    BY DEF Init
<1>4. /\ state \in {"SEND_DATA", "SEND_ACK", "SEND_OACK", "ERROR"}
      /\ state = "SEND_DATA" => type = "READ" /\ block_number = 1
      /\ state = "SEND_ACK" => type = "WRITE"
      /\ state = "SEND_OACK" => block_number = 0
    BY <1>1, <1>2 DEF Constructed, first_state
<1>5. PhaseInv
    BY <1>3, <1>4 DEF PhaseInv
<1>6. Current = 1
    BY <1>3 DEF Current
<1>7. CountInv
    BY <1>3, <1>4, <1>6, FirstNumber DEF CountInv
<1>8. block_size \in Nat
    BY InitType DEF TypeOK, RequestType
<1>9. 0 = 0 * block_size
    BY <1>8
<1>10. PacketInv
    BY <1>3, <1>9 DEF PacketInv
<1>11. SentInv
    BY <1>3 DEF SentInv
<1> QED BY <1>5, <1>7, <1>10, <1>11 DEF TransferInv

(* The invariant of the transfer holds in every reachable state.           *)
LEMMA TransferInvariant == Spec => []TransferInv
BY InitTransferInv, NextTransferInv, TypeCorrect, PTL DEF Spec

(* Lock-step for every file, block size and width of the block number: no  *)
(* duplicated, delayed or foreign acknowledgement makes a READ session     *)
(* send a block whose predecessors were not all acknowledged.              *)
THEOREM LockStep == Spec => []StopAndWait
<1>1. TypeOK /\ TransferInv => StopAndWait
    <2> SUFFICES ASSUME TypeOK, TransferInv, NEW p \in sent, p.op = "DATA"
                 PROVE  p.idx <= acked + 1
        BY DEF StopAndWait
    <2>1. p.idx \in Nat /\ blocks_read \in Nat /\ acked \in Nat
        BY DEF TypeOK, FileType, Packets
    <2>2. p.idx <= blocks_read
        BY DEF TransferInv, SentInv
    <2>3. Current \in Nat /\ blocks_read <= Current
        BY <2>1 DEF Current
    <2>4. Current <= acked + 1
        BY DEF TransferInv, CountInv
    <2> QED BY <2>1, <2>2, <2>3, <2>4
<1> QED BY <1>1, TransferInvariant, TypeCorrect, PTL

(* A new DATA packet is the current block, so it carries what it should.   *)
LEMMA NextFidelity ==
    TypeOK /\ TransferInv /\ TransferInv' /\ DataFidelity /\ [Next]_vars => DataFidelity'
<1> SUFFICES ASSUME TypeOK, TransferInv, TransferInv', DataFidelity, [Next]_vars
             PROVE  DataFidelity'
    OBVIOUS
<1>1. block_size' = block_size
    BY RequestKept DEF requestVars
<1>2. ASSUME NEW result \in SendResults, SendData(result)
      PROVE  DataFidelity'
    <2>1. pkt_ready' /\ PacketInv'
        BY <1>2 DEF SendData, TransferInv
    <2>2. /\ data_pkt'.num = data_pkt'.idx % Modulus
          /\ data_pkt'.off = (data_pkt'.idx - 1) * block_size'
          /\ data_pkt'.len = Smaller(block_size', FileSize - data_pkt'.off)
        BY <2>1 DEF PacketInv
    <2> QED BY <1>1, <1>2, <2>2, SendDataSends DEF DataFidelity
<1>3. ASSUME \A p \in sent' : p.op = "DATA" => p \in sent
      PROVE  DataFidelity'
    BY <1>1, <1>3 DEF DataFidelity
<1>4. CASE \E result \in SendResults : SendAck(result) \/ SendOack(result) \/ SendError(result)
    BY <1>3, <1>4, OthersSendNoData
<1>5. CASE sent' = sent
    BY <1>3, <1>5
<1>6. \/ \E result \in SendResults : handle_write(result)
      \/ sent' = sent
    BY DEF Next, Dispatch, handle_read, EpollWait, Cleanup, Deliver, IcmpError, TimerExpires,
           Ended, vars, TimedOut, NothingRead, RecvThrows, AckReceived, NoAckReceived, DataWritten,
           DataNotWritten, NoDataReceived, Received, ReadFails, SocketError
<1> QED BY <1>2, <1>4, <1>5, <1>6 DEF handle_write

(* Every DATA packet, sent for the first time or again, carries the bytes  *)
(* of the block its number stands for, for every file and block size.      *)
THEOREM BlocksFaithful == Spec => []DataFidelity
<1>1. Init => DataFidelity
    BY DEF Init, DataFidelity
<1> QED BY <1>1, NextFidelity, TransferInvariant, TypeCorrect, PTL DEF Spec

(* The final acknowledgement comes after all the others.                   *)
LEMMA NextComplete ==
    TypeOK /\ TransferInv /\ ReadComplete /\ [Next]_vars => ReadComplete'
<1> SUFFICES ASSUME TypeOK, TransferInv, ReadComplete, [Next]_vars PROVE ReadComplete'
    OBVIOUS
<1>1. block_size' = block_size /\ type' = type
    BY RequestKept DEF requestVars
<1>2. /\ acked \in Nat /\ blocks_read \in Nat /\ block_size \in Nat /\ FileSize \in Nat
    BY ConstantsAssumption DEF TypeOK, FileType, RequestType
<1>3. CASE AckReceived /\ ~completed /\ completed' /\ type = "READ"
    <2> DEFINE d == Head(inbox)
    <2>1. /\ state = "WAIT_FOR_ACK" /\ final_ack /\ d.num = block_number
          /\ acked' = IF d.num = (acked + 1) % Modulus THEN acked + 1 ELSE acked
        BY <1>3 DEF AckReceived, Received, IsCurrent
    <2>2. /\ pkt_ready
          /\ data_pkt.off = (blocks_read - 1) * block_size
          /\ data_pkt.len = Smaller(block_size, FileSize - data_pkt.off)
          /\ data_pkt.len < block_size
        BY <1>3, <2>1 DEF TransferInv, PacketInv
    <2>3. block_number = blocks_read % Modulus /\ blocks_read <= acked + 1
        BY <1>2, <2>1, <2>2 DEF TransferInv, CountInv, Current
    <2>4. acked' \in Nat /\ blocks_read <= acked'
        BY <1>2, <2>1, <2>3
    <2>5. blocks_read * block_size > FileSize
        <3>1. (blocks_read - 1) * block_size = blocks_read * block_size - block_size
            BY <1>2
        <3>2. data_pkt.len = FileSize - data_pkt.off
            BY <1>2, <2>2 DEF Smaller
        <3> DEFINE area == blocks_read * block_size
        <3>3. area \in Int
            BY <1>2
        <3> HIDE DEF area
        <3>4. FileSize - (area - block_size) < block_size
            BY <2>2, <3>1, <3>2 DEF area
        <3>5. area > FileSize
            BY <1>2, <3>3, <3>4
        <3> QED BY <3>5 DEF area
    <2>6. ASSUME NEW n \in Nat, blocks_read <= n PROVE n * block_size > FileSize
        <3>1. blocks_read * block_size <= n * block_size
            BY <1>2, <2>6
        <3>2. blocks_read * block_size \in Int /\ n * block_size \in Int
            BY <1>2, <2>6
        <3> QED BY <1>2, <2>5, <3>1, <3>2
    <2>7. acked' * block_size > FileSize
        BY <2>4, <2>6
    <2> QED BY <1>1, <2>7 DEF ReadComplete
<1>4. acked' = acked \/ (acked' = acked + 1 /\ AckReceived)
    BY DEF Next, Dispatch, handle_read, handle_write, EpollWait, Cleanup, Deliver, IcmpError,
           TimerExpires, Ended, vars, machineVars, TimedOut, NothingRead, RecvThrows, AckReceived,
           NoAckReceived, DataWritten, DataNotWritten, NoDataReceived, ReadFails, SocketError,
           SendData, SendAck, SendOack, SendError
<1>5. CASE completed /\ type = "READ"
    <2>1. acked * block_size > FileSize
        BY <1>5 DEF ReadComplete
    <2>2. (acked + 1) * block_size > FileSize
        BY <1>2, <2>1
    <2> QED BY <1>1, <1>4, <2>1, <2>2 DEF ReadComplete
<1>6. completed' /\ ~completed /\ type = "READ" => AckReceived
    <2>1. \/ completed' = completed \/ AckReceived
          \/ \E result \in SendResults : SendAck(result)
        BY DEF Next, Dispatch, handle_read, handle_write, EpollWait, Cleanup, Deliver, IcmpError,
               TimerExpires, Ended, vars, machineVars, TimedOut, NothingRead, RecvThrows,
               NoAckReceived, DataWritten, DataNotWritten, NoDataReceived, ReadFails, SocketError,
               SendData, SendOack, SendError
    <2>2. ASSUME NEW result \in SendResults, SendAck(result) PROVE type # "READ"
        BY <2>2 DEF SendAck, TransferInv, PhaseInv
    <2> QED BY <2>1, <2>2
<1>7. CASE ~(completed' /\ type = "READ")
    BY <1>1, <1>7 DEF ReadComplete
<1> QED BY <1>3, <1>5, <1>6, <1>7

(* A READ session that reports success has had every block of the file     *)
(* acknowledged, the short (possibly empty) last one included, for every   *)
(* file and block size.                                                    *)
THEOREM CompleteReads == Spec => []ReadComplete
<1>1. Init => ReadComplete
    BY DEF Init, ReadComplete
<1> QED BY <1>1, NextComplete, TransferInvariant, TypeCorrect, PTL DEF Spec
=============================================================================
