----------------------------- MODULE GetFileProofs -----------------------------
(***************************************************************************)
(* What get_file and the session that serves it guarantee together, for    *)
(* every file shorter than a round of block numbers and every loss,        *)
(* duplication, delay and reordering of datagrams; and that they implement *)
(* the abstract transfer of FileTransfer.                                  *)
(***************************************************************************)
EXTENDS GetFile, ServerConnectionProofs

-----------------------------------------------------------------------------
(* The inductive invariant.                                                *)

(* The session was made for a request without options: blocks have their   *)
(* default size, and an acknowledgement is awaited only for a block.       *)
PlainInv ==
    /\ type = "READ" /\ block_size = DefaultBlockSize
    /\ state \in {"SEND_DATA", "WAIT_FOR_ACK", "ERROR"}
    /\ state = "WAIT_FOR_ACK" => pkt_ready

(* Blocks are counted from 1.                                              *)
NumberedInv == \A p \in sent : p.op = "DATA" => p.idx >= 1

SessionInv == TypeOK /\ TransferInv /\ DataFidelity /\ PlainInv /\ NumberedInv

(* The client acknowledged the blocks it accepted and no other, the        *)
(* session received nothing else, and so counted no more; the client       *)
(* accepted only what the session had read.                                *)
AckInv ==
    /\ \A d \in c_sent : d.op = "ACK" /\ d.num \in 1 .. accepted
    /\ \A i \in 1 .. Len(inbox) : inbox[i] \in c_sent
    /\ acked <= accepted
    /\ accepted <= blocks_read

(* Block n of the file.                                                    *)
IsBlock(p, n) ==
    /\ p.off = (n - 1) * DefaultBlockSize
    /\ p.len = Smaller(DefaultBlockSize, FileSize - p.off)

(* The block about to be written is the last accepted one, the others are  *)
(* in the output file, and success means that there are no more.           *)
ClientInv ==
    /\ c_pc = "store" => accepted >= 1 /\ IsBlock(c_packet, accepted)
    /\ ~c_bad /\ c_result # "exception"
        => Len(c_file) = accepted - (IF c_pc = "store" THEN 1 ELSE 0)
    /\ c_result = "true" => accepted = NumBlocks

GetInv ==
    /\ SessionInv /\ GetTypeOK /\ AckInv /\ ClientInv
    /\ GetPrefix /\ ServerSuccess

-----------------------------------------------------------------------------
(* The number of blocks, and the blocks that were sent.                    *)

(* Exactly the blocks 1 to NumBlocks begin within the file.                *)
LEMMA BlocksOfFile ==
    /\ NumBlocks \in Nat /\ NumBlocks >= 1 /\ NumBlocks < Modulus
    /\ \A k \in Nat : k * DefaultBlockSize <= FileSize => k < NumBlocks
    /\ \A k \in Nat : FileSize - k * DefaultBlockSize < DefaultBlockSize => k + 1 >= NumBlocks
<1> DEFINE q == FileSize \div DefaultBlockSize
           B == DefaultBlockSize
<1>1. FileSize \in Nat /\ B \in Nat /\ B > 0
    BY ConstantsAssumption
<1>2. /\ q \in Nat /\ q * B \in Nat
      /\ q * B <= FileSize /\ FileSize < q * B + B
    BY <1>1
<1>3. NumBlocks = q + 1 /\ NumBlocks < Modulus
    BY GetAssumption DEF NumBlocks
<1> HIDE DEF q, B
<1>4. (q + 1) * B = q * B + B
    BY <1>1, <1>2
<1>5. ASSUME NEW k \in Nat, k * B <= FileSize PROVE k < q + 1
    <2>1. SUFFICES ASSUME k >= q + 1 PROVE FALSE
        BY <1>2
    <2>2. k * B >= (q + 1) * B
        BY <1>1, <1>2, <2>1
    <2>3. k * B \in Nat
        BY <1>1
    <2> QED BY <1>1, <1>2, <1>4, <1>5, <2>2, <2>3
<1>6. ASSUME NEW k \in Nat, FileSize - k * B < B PROVE k + 1 >= q + 1
    <2>1. SUFFICES ASSUME k + 1 <= q PROVE FALSE
        BY <1>2
    <2>2. (k + 1) * B <= q * B
        BY <1>1, <1>2, <2>1
    <2>3. (k + 1) * B = k * B + B /\ k * B \in Nat
        BY <1>1
    <2> QED BY <1>1, <1>2, <1>6, <2>2, <2>3
<1> QED BY <1>2, <1>3, <1>5, <1>6 DEF B

(* Numbers below the width of the counter are not reduced.                 *)
LEMMA SmallNumber ==
    ASSUME NEW n \in Nat, n < Modulus
    PROVE  n % Modulus = n
<1>1. n \in BlockNumbers /\ (Modulus * 0 + n) % Modulus = n
    BY RemainderOf, ConstantsAssumption DEF BlockNumbers
<1> QED BY <1>1, ConstantsAssumption

(* The session has read at most the blocks of the file, and one fewer when *)
(* it is about to read the next; the final block is the last.              *)
LEMMA BlocksRead ==
    ASSUME TypeOK, PacketInv, PlainInv
    PROVE  /\ blocks_read \in Nat /\ blocks_read <= NumBlocks
           /\ ~final_ack => blocks_read < NumBlocks
           /\ final_ack => pkt_ready /\ blocks_read = NumBlocks
<1>1. /\ blocks_read \in Nat /\ FileSize \in Nat /\ DefaultBlockSize \in Nat
      /\ read_pos \in Nat /\ read_pos <= FileSize
      /\ final_ack \in BOOLEAN /\ data_pkt.len \in Nat /\ data_pkt.off \in Nat
    BY ConstantsAssumption DEF TypeOK, FileType, FlagType, DataPackets
<1>2. type = "READ" /\ block_size = DefaultBlockSize
    BY DEF PlainInv
<1>3. CASE ~final_ack
    <2>1. blocks_read * DefaultBlockSize <= FileSize
        BY <1>1, <1>2, <1>3 DEF PacketInv
    <2> QED BY <1>1, <1>3, <2>1, BlocksOfFile
<1>4. CASE final_ack
    <2> DEFINE k == blocks_read - 1
    <2>1. /\ pkt_ready /\ k \in Nat
          /\ data_pkt.off = k * DefaultBlockSize
          /\ data_pkt.len = Smaller(DefaultBlockSize, FileSize - data_pkt.off)
          /\ data_pkt.len < DefaultBlockSize
        BY <1>1, <1>2, <1>4 DEF PacketInv
    <2> HIDE DEF k
    <2>2. /\ k * DefaultBlockSize <= FileSize
          /\ FileSize - k * DefaultBlockSize < DefaultBlockSize
        BY <1>1, <2>1 DEF Smaller
    <2>3. k < NumBlocks /\ k + 1 >= NumBlocks
        BY <2>1, <2>2, BlocksOfFile
    <2>4. k + 1 = NumBlocks
        BY <2>1, <2>3, BlocksOfFile
    <2> QED BY <1>1, <1>4, <2>1, <2>4, BlocksOfFile DEF k
<1> QED BY <1>1, <1>3, <1>4

(* A DATA packet that was sent carries the number of its block unreduced,  *)
(* and the bytes of that block.                                            *)
LEMMA SentBlock ==
    ASSUME SessionInv, NEW p \in sent, p.op = "DATA"
    PROVE  /\ p.idx \in Nat /\ p.idx >= 1 /\ p.idx <= blocks_read /\ p.idx <= NumBlocks
           /\ p.num = p.idx
           /\ IsBlock(p, p.idx)
<1>1. p.idx \in Nat /\ p.idx >= 1
    BY DEF SessionInv, NumberedInv, TypeOK, FileType, Packets
<1>2. p.idx <= blocks_read
    BY DEF SessionInv, TransferInv, SentInv
<1>3. blocks_read \in Nat /\ blocks_read <= NumBlocks
    BY BlocksRead DEF SessionInv, TransferInv
<1>4. p.idx <= NumBlocks /\ p.idx < Modulus
    BY <1>1, <1>2, <1>3, BlocksOfFile, ConstantsAssumption
<1>5. p.num = p.idx
    BY <1>1, <1>4, SmallNumber DEF SessionInv, DataFidelity
<1>6. IsBlock(p, p.idx)
    BY DEF SessionInv, DataFidelity, PlainInv, IsBlock
<1> QED BY <1>1, <1>2, <1>4, <1>5, <1>6

(* What the client accepts is the block after the accepted ones, however   *)
(* old the packet is; its number is not reduced either.                    *)
LEMMA ExpectedBlock ==
    ASSUME SessionInv, GetTypeOK, NEW p \in sent, IsExpected(p)
    PROVE  /\ accepted \in Nat /\ p.idx = accepted + 1
           /\ accepted + 1 <= blocks_read /\ accepted + 1 <= NumBlocks
           /\ c_block_number = accepted + 1
           /\ IsBlock(p, accepted + 1)
<1>1. p.op = "DATA" /\ p.num = c_block_number
    BY DEF IsExpected, deserialise_data_packet
<1>2. /\ p.idx \in Nat /\ p.idx >= 1 /\ p.idx <= blocks_read /\ p.idx <= NumBlocks
      /\ p.num = p.idx
      /\ IsBlock(p, p.idx)
    BY <1>1, SentBlock
<1>3. accepted \in Nat /\ accepted <= NumBlocks /\ c_block_number = (accepted + 1) % Modulus
    BY BlocksOfFile DEF GetTypeOK
<1>4. CASE accepted + 1 < Modulus
    <2>1. (accepted + 1) % Modulus = accepted + 1
        BY <1>3, <1>4, SmallNumber
    <2> QED BY <1>1, <1>2, <1>3, <2>1
<1>5. CASE accepted + 1 >= Modulus
    <2>1. accepted + 1 = Modulus
        BY <1>3, <1>5, BlocksOfFile, ConstantsAssumption
    <2>2. Modulus = Modulus * 1 + 0 /\ 0 \in BlockNumbers
        BY ConstantsAssumption DEF BlockNumbers
    <2>3. (Modulus * 1 + 0) % Modulus = 0
        BY <2>2, RemainderOf
    <2>4. (accepted + 1) % Modulus = 0
        BY <2>1, <2>2, <2>3
    <2>5. p.idx = 0
        BY <1>1, <1>2, <1>3, <2>4
    <2> QED BY <1>2, <2>5
<1> QED BY <1>3, <1>4, <1>5, ConstantsAssumption

-----------------------------------------------------------------------------
(* The session: its invariants hold although its environment is now the    *)
(* client.                                                                 *)

(* What the client and the session do together is, for the session alone,  *)
(* a step of ServerConnection or no step.                                  *)
LEMMA SessionStep ==
    ASSUME GetTypeOK, [GetNext]_allVars
    PROVE  [Next]_vars
<1>1. CASE ServerStep
    <2>1. \A d \in c_sent : d \in Datagrams
        BY DEF GetTypeOK
    <2> QED BY <1>1, <2>1 DEF ServerStep, Next
<1>2. CASE ClientStep \/ UNCHANGED allVars
    BY <1>2 DEF ClientStep, allVars
<1> QED BY <1>1, <1>2 DEF GetNext

(* A DATA packet that is new was sent by SEND_DATA: it is the kept one.    *)
LEMMA NewData ==
    ASSUME TypeOK, [Next]_vars, NEW p \in sent', p.op = "DATA", p \notin sent
    PROVE  pkt_ready' /\ p.idx = data_pkt'.idx
<1>1. ASSUME NEW result \in SendResults, SendData(result)
      PROVE  pkt_ready' /\ p.idx = data_pkt'.idx
    <2>1. p = [op |-> "DATA", num |-> data_pkt'.num,
               idx |-> data_pkt'.idx, off |-> data_pkt'.off, len |-> data_pkt'.len]
        BY <1>1, SendDataSends
    <2>2. pkt_ready'
        BY <1>1 DEF SendData
    <2> QED BY <2>1, <2>2
<1>2. ASSUME NEW result \in SendResults, SendAck(result) \/ SendOack(result) \/ SendError(result)
      PROVE  FALSE
    BY <1>2, OthersSendNoData
<1>3. \E result \in SendResults : handle_write(result)
    <2>1. sent' # sent
        OBVIOUS
    <2> QED
        BY <2>1
        DEF Next, Dispatch, handle_read, EpollWait, Cleanup, Deliver, IcmpError, TimerExpires,
            Ended, vars, TimedOut, NothingRead, RecvThrows, AckReceived, NoAckReceived,
            DataWritten, DataNotWritten, NoDataReceived, Received, ReadFails, SocketError
<1> QED BY <1>1, <1>2, <1>3 DEF handle_write

(* The session goes on as a plain read.                                    *)
LEMMA PlainKept ==
    ASSUME PlainInv, [Next]_vars
    PROVE  PlainInv'
<1>1. UNCHANGED <<type, block_size>>
    BY RequestKept DEF requestVars
<1>2. ASSUME /\ state' \in {"SEND_DATA", "WAIT_FOR_ACK", "ERROR"}
             /\ state' = "WAIT_FOR_ACK" => pkt_ready'
      PROVE  PlainInv'
    BY <1>1, <1>2 DEF PlainInv
<1>3. CASE handle_read \/ SocketError
    <2>1. CASE TimedOut
        BY <1>2, <2>1 DEF TimedOut, retransmit, PlainInv, readVars
    <2>2. CASE AckReceived
        BY <1>2, <2>2 DEF AckReceived, PlainInv
    <2>3. CASE NothingRead \/ RecvThrows \/ NoAckReceived \/ SocketError
        BY <1>2, <2>3
        DEF NothingRead, RecvThrows, NoAckReceived, SocketError, machineVars, readVars, PlainInv
    <2> QED
        BY <1>3, <2>1, <2>2, <2>3
        DEF handle_read, DataWritten, DataNotWritten, NoDataReceived, Received, PlainInv
<1>4. CASE ReadFails
    BY <1>2, <1>4 DEF ReadFails, PlainInv
<1>5. ASSUME NEW result \in SendResults, handle_write(result)
      PROVE  PlainInv'
    <2>1. CASE SendData(result)
        BY <1>2, <2>1 DEF SendData
    <2>2. CASE SendError(result)
        BY <1>2, <2>2 DEF SendError, readVars, PlainInv
    <2> QED BY <1>5, <2>1, <2>2 DEF handle_write, SendAck, SendOack, PlainInv
<1>6. CASE \/ EpollWait \/ Cleanup \/ IcmpError \/ TimerExpires \/ UNCHANGED vars
           \/ \E d \in Datagrams : Deliver(d)
    BY <1>2, <1>6
    DEF EpollWait, Cleanup, IcmpError, TimerExpires, Deliver, vars, machineVars, readVars, PlainInv
<1> QED BY <1>3, <1>4, <1>5, <1>6 DEF Next, Dispatch, Ended

(* Every step of the session keeps its invariants.                         *)
LEMMA SessionKept ==
    ASSUME SessionInv, [Next]_vars
    PROVE  SessionInv'
<1>1. TypeOK' /\ TransferInv'
    BY NextType, NextTransferInv DEF SessionInv
<1>2. DataFidelity'
    BY <1>1, NextFidelity DEF SessionInv
<1>3. PlainInv'
    BY PlainKept DEF SessionInv
<1>4. NumberedInv'
    <2> SUFFICES ASSUME NEW p \in sent', p.op = "DATA" PROVE p.idx >= 1
        BY DEF NumberedInv
    <2>1. CASE p \in sent
        BY <2>1 DEF SessionInv, NumberedInv
    <2>2. CASE p \notin sent
        <3>1. pkt_ready' /\ p.idx = data_pkt'.idx
            BY <2>2, NewData DEF SessionInv
        <3>2. data_pkt'.idx = blocks_read' /\ blocks_read' >= 1
            BY <1>1, <3>1 DEF TransferInv, PacketInv
        <3> QED BY <3>1, <3>2
    <2> QED BY <2>1, <2>2
<1> QED BY <1>1, <1>2, <1>3, <1>4 DEF SessionInv

(* The client's request has no options: the session starts with SEND_DATA, *)
(* or in the ERROR state when the request is refused.                      *)
LEMMA SessionInit == Init => SessionInv
<1> SUFFICES ASSUME Init PROVE SessionInv
    OBVIOUS
<1>1. PICK r \in Requests, mtu \in MtuResults, opened \in BOOLEAN :
            Constructed(r, mtu, opened)
    BY DEF Init
<1>2. r.type = "READ" /\ r.blksize = NoOption /\ ~r.tsize /\ r.timeout = NoOption
    BY GetAssumption
<1>3. negotiated_block_size(r, mtu) = DefaultBlockSize
    BY <1>2 DEF negotiated_block_size
<1>4. acknowledged_options(r) = {}
    BY <1>2 DEF acknowledged_options, NoOption
<1>5. first_state(r, opened) = "SEND_DATA"
    BY <1>2, <1>4 DEF first_state
<1>6. PlainInv
    BY <1>1, <1>2, <1>3, <1>5 DEF Constructed, PlainInv
<1>7. sent = {}
    BY DEF Init
<1> QED
    BY <1>6, <1>7, InitType, InitTransferInv DEF SessionInv, DataFidelity, NumberedInv

-----------------------------------------------------------------------------
(* Steps of the session.                                                   *)

(* An acknowledgement is of a block the client accepted; the awaited block *)
(* is the last one read, and its number identifies it.                     *)
LEMMA AckNumbers ==
    ASSUME SessionInv, AckInv, AckReceived
    PROVE  /\ Head(inbox).num \in 1 .. accepted
           /\ pkt_ready
           /\ blocks_read \in Nat /\ blocks_read >= 1
           /\ block_number = blocks_read
<1>1. inbox # <<>> /\ state = "WAIT_FOR_ACK"
    BY DEF AckReceived, Received
<1>2. Head(inbox) = inbox[1] /\ 1 \in 1 .. Len(inbox)
    BY <1>1, TailFacts DEF SessionInv, TypeOK, LoopType
<1>3. Head(inbox).num \in 1 .. accepted
    BY <1>2 DEF AckInv
<1>4. pkt_ready
    BY <1>1 DEF SessionInv, PlainInv
<1>5. blocks_read \in Nat /\ blocks_read <= NumBlocks /\ blocks_read >= 1
    BY <1>4, BlocksRead DEF SessionInv, TransferInv, PacketInv
<1>6. block_number = blocks_read % Modulus
    BY <1>1, <1>4, <1>5 DEF SessionInv, TransferInv, CountInv, Current
<1>7. blocks_read < Modulus
    BY <1>5, BlocksOfFile, ConstantsAssumption
<1> QED BY <1>3, <1>4, <1>5, <1>6, <1>7, SmallNumber

(* The session counts an acknowledgement only when the client has sent it: *)
(* no acknowledgement is counted twice.                                    *)
LEMMA AckCounted ==
    ASSUME SessionInv, GetTypeOK, AckInv, AckReceived
    PROVE  acked' <= accepted
<1>1. acked \in Nat /\ acked <= accepted
    BY DEF SessionInv, TypeOK, FileType, AckInv
<1>2. accepted \in Nat /\ accepted < Modulus
    BY BlocksOfFile, ConstantsAssumption DEF GetTypeOK
<1>3. acked' = IF Head(inbox).num = (acked + 1) % Modulus THEN acked + 1 ELSE acked
    BY DEF AckReceived
<1>4. CASE acked < accepted
    BY <1>1, <1>2, <1>3, <1>4
<1>5. CASE acked = accepted
    <2>1. Head(inbox).num \in 1 .. accepted
        BY AckNumbers
    <2>2. CASE acked + 1 < Modulus
        <3>1. (acked + 1) % Modulus = acked + 1
            BY <1>1, <2>2, SmallNumber
        <3> QED BY <1>1, <1>2, <1>3, <1>5, <2>1, <3>1
    <2>3. CASE acked + 1 = Modulus
        <3>1. Modulus = Modulus * 1 + 0 /\ 0 \in BlockNumbers
            BY ConstantsAssumption DEF BlockNumbers
        <3>2. (Modulus * 1 + 0) % Modulus = 0
            BY <3>1, RemainderOf
        <3>3. (acked + 1) % Modulus = 0
            BY <2>3, <3>1, <3>2
        <3> QED BY <1>1, <1>2, <1>3, <1>5, <2>1, <3>3
    <2> QED BY <1>1, <1>2, <1>5, <2>2, <2>3, ConstantsAssumption
<1> QED BY <1>1, <1>2, <1>4, <1>5

(* The session ends with success only on the acknowledgement of the last   *)
(* block.                                                                  *)
LEMMA FinalAck ==
    ASSUME SessionInv, GetTypeOK, AckInv, AckReceived, IsCurrent(Head(inbox).num)
    PROVE  /\ blocks_read <= accepted
           /\ final_ack => blocks_read = NumBlocks /\ accepted = NumBlocks
           /\ ~final_ack => blocks_read < NumBlocks
<1>1. /\ Head(inbox).num \in 1 .. accepted
      /\ blocks_read \in Nat /\ block_number = blocks_read
    BY AckNumbers
<1>2. accepted \in Nat /\ accepted <= NumBlocks
    BY BlocksOfFile DEF GetTypeOK
<1>3. blocks_read <= accepted
    BY <1>1, <1>2 DEF IsCurrent
<1>4. /\ final_ack => blocks_read = NumBlocks
      /\ ~final_ack => blocks_read < NumBlocks
    BY BlocksRead DEF SessionInv, TransferInv
<1> QED BY <1>1, <1>2, <1>3, <1>4, BlocksOfFile

(* What a step of the session may do to the variables the client depends   *)
(* on.                                                                     *)
LEMMA ServerFrame ==
    ASSUME SessionInv, ServerStep
    PROVE  /\ UNCHANGED clientVars
           /\ blocks_read' \in Nat /\ blocks_read <= blocks_read'
           /\ acked' = acked \/ AckReceived
           /\ completed' = completed
                \/ (AckReceived /\ IsCurrent(Head(inbox).num) /\ final_ack)
           /\ \/ inbox' = inbox
              \/ inbox # <<>> /\ inbox' = Tail(inbox)
              \/ \E d \in c_sent : inbox' = Append(inbox, d)
<1>1. \A result : ~SendAck(result)
    BY DEF SendAck, SessionInv, PlainInv
<1>2. blocks_read \in Nat
    BY DEF SessionInv, TypeOK, FileType
<1>3. CASE Dispatch
    <2>1. CASE AckReceived
        BY <1>2, <2>1, <1>3 DEF AckReceived, Received, ServerStep
    <2>2. CASE \E result \in SendResults : SendData(result)
        BY <1>2, <2>2 DEF SendData, send, ServerStep
    <2>3. CASE ReadFails \/ \E result \in SendResults : SendOack(result) \/ SendError(result)
        BY <1>2, <2>3 DEF ReadFails, SendOack, SendError, send, readVars, ServerStep
    <2>4. CASE NothingRead \/ RecvThrows \/ TimedOut \/ SocketError
        BY <1>2, <2>4
        DEF NothingRead, RecvThrows, TimedOut, SocketError, machineVars, readVars, ServerStep
    <2>5. CASE NoAckReceived
        BY <1>2, <2>5 DEF NoAckReceived, Received, readVars, ServerStep
    <2> QED
        BY <1>1, <1>3, <2>1, <2>2, <2>3, <2>4, <2>5
        DEF Dispatch, handle_read, handle_write, DataWritten, DataNotWritten, NoDataReceived,
            Received, SessionInv, PlainInv
<1>4. CASE \E d \in c_sent : Deliver(d)
    BY <1>2, <1>4 DEF Deliver, machineVars, readVars, ServerStep
<1>5. CASE EpollWait \/ Cleanup \/ TimerExpires \/ IcmpError \/ Ended
    BY <1>2, <1>5
    DEF EpollWait, Cleanup, TimerExpires, IcmpError, Ended, vars, machineVars, readVars,
        kernelVars, ServerStep
<1> QED BY <1>3, <1>4, <1>5 DEF ServerStep

(* A step of the session keeps the invariant.                              *)
LEMMA ServerKeeps ==
    ASSUME GetInv, ServerStep, SessionInv'
    PROVE  GetInv'
<1> USE DEF GetInv
<1>1. UNCHANGED <<c_pc, c_result, c_block_number, c_packet, c_file, c_bad, c_sent, accepted>>
    BY ServerFrame DEF clientVars
<1>2. GetTypeOK'
    BY <1>1 DEF GetTypeOK
<1>3. ClientInv' /\ GetPrefix'
    BY <1>1 DEF ClientInv, IsBlock, GetPrefix
<1>4. AckInv'
    <2>1. acked' <= accepted'
        BY <1>1, ServerFrame, AckCounted DEF AckInv
    <2>2. accepted' <= blocks_read'
        <3>1. accepted \in Nat /\ blocks_read \in Nat
            BY BlocksOfFile DEF GetTypeOK, SessionInv, TypeOK, FileType
        <3>2. blocks_read' \in Nat /\ blocks_read <= blocks_read'
            BY ServerFrame
        <3> QED BY <1>1, <3>1, <3>2 DEF AckInv
    <2>3. \A d \in c_sent' : d.op = "ACK" /\ d.num \in 1 .. accepted'
        BY <1>1 DEF AckInv
    <2>4. \A i \in 1 .. Len(inbox') : inbox'[i] \in c_sent'
        <3>1. inbox \in Seq(Datagrams)
            BY DEF SessionInv, TypeOK, LoopType
        <3>2. CASE inbox' = inbox
            BY <1>1, <3>2 DEF AckInv
        <3>3. CASE inbox # <<>> /\ inbox' = Tail(inbox)
            BY <1>1, <3>1, <3>3, TailFacts DEF AckInv
        <3>4. ASSUME NEW d \in c_sent, inbox' = Append(inbox, d)
              PROVE  \A i \in 1 .. Len(inbox') : inbox'[i] \in c_sent'
            BY <1>1, <3>1, <3>4 DEF AckInv
        <3> QED BY <3>2, <3>3, <3>4, ServerFrame
    <2> QED BY <2>1, <2>2, <2>3, <2>4 DEF AckInv
<1>5. ServerSuccess'
    BY <1>1, ServerFrame, FinalAck DEF ServerSuccess
<1> QED BY <1>2, <1>3, <1>4, <1>5

-----------------------------------------------------------------------------
(* Steps of the client.                                                    *)

(* Accepting the expected block: its acknowledgement is a datagram the     *)
(* session may read, and the block waits to be written.                    *)
LEMMA AcknowledgeKeeps ==
    ASSUME GetInv, UNCHANGED vars, SessionInv', NEW p \in sent, IsExpected(p),
           c_pc \in {"first", "recv"}, Acknowledge(p)
    PROVE  GetInv'
<1> USE DEF GetInv
<1>1. /\ accepted \in Nat
      /\ accepted + 1 <= blocks_read /\ accepted + 1 <= NumBlocks
      /\ c_block_number = accepted + 1
      /\ IsBlock(p, accepted + 1)
    BY ExpectedBlock
<1>2. /\ c_packet' = p /\ c_block_number' = Inc(c_block_number)
      /\ c_sent' = c_sent \cup {[op |-> "ACK", num |-> c_block_number, len |-> 0]}
      /\ accepted' = accepted + 1 /\ c_pc' = "store"
      /\ UNCHANGED <<c_result, c_file, c_bad>>
    BY DEF Acknowledge
<1>3. UNCHANGED <<inbox, acked, blocks_read, completed>>
    BY DEF vars, machineVars, readVars, kernelVars
<1>4. accepted' \in Nat /\ accepted' <= NumBlocks /\ NumBlocks \in Nat
    BY <1>1, <1>2, BlocksOfFile
<1>5. c_result = "none" /\ c_result' = "none"
    BY <1>2 DEF GetTypeOK
<1>6. GetTypeOK'
    <2>1. c_block_number' = (accepted' + 1) % Modulus
        BY <1>1, <1>2, IncCounts DEF GetTypeOK
    <2>2. [op |-> "ACK", num |-> c_block_number, len |-> 0] \in Datagrams
        BY <1>1, BlocksOfFile, GetAssumption
    <2>3. c_sent' \subseteq Datagrams
        BY <1>2, <2>2 DEF GetTypeOK
    <2>4. c_packet' \in Packets
        BY <1>2 DEF SessionInv, TypeOK, FileType
    <2>5. accepted' \in 0 .. NumBlocks
        BY <1>4
    <2>6. c_pc' = "store" /\ UNCHANGED <<c_file, c_bad>>
        BY <1>2
    <2> QED BY <1>5, <2>1, <2>3, <2>4, <2>5, <2>6 DEF GetTypeOK
<1>7. AckInv'
    <2>1. \A d \in c_sent' : d.op = "ACK" /\ d.num \in 1 .. accepted'
        <3> SUFFICES ASSUME NEW d \in c_sent' PROVE d.op = "ACK" /\ d.num \in 1 .. accepted'
            OBVIOUS
        <3>1. CASE d \in c_sent
            BY <1>1, <1>2, <3>1 DEF AckInv
        <3>2. CASE d = [op |-> "ACK", num |-> c_block_number, len |-> 0]
            BY <1>1, <1>2, <3>2
        <3> QED BY <1>2, <3>1, <3>2
    <2>2. \A i \in 1 .. Len(inbox') : inbox'[i] \in c_sent'
        BY <1>2, <1>3 DEF AckInv
    <2>3. acked' <= accepted' /\ accepted' <= blocks_read'
        BY <1>1, <1>2, <1>3 DEF AckInv, SessionInv, TypeOK, FileType
    <2> QED BY <2>1, <2>2, <2>3 DEF AckInv
<1>8. ClientInv'
    <2>1. accepted' >= 1 /\ IsBlock(c_packet, accepted)'
        BY <1>1, <1>2 DEF IsBlock
    <2>2. ~c_bad' => Len(c_file') = accepted' - 1
        BY <1>1, <1>2, <1>5 DEF ClientInv, GetTypeOK
    <2> QED BY <1>2, <1>5, <2>1, <2>2 DEF ClientInv
<1>9. GetPrefix'
    BY <1>2 DEF GetPrefix
<1>10. ServerSuccess'
    <2>1. ~completed
        BY <1>1, BlocksOfFile DEF ServerSuccess
    <2> QED BY <1>3, <2>1 DEF ServerSuccess
<1> QED BY <1>6, <1>7, <1>8, <1>9, <1>10

(* Giving up changes nothing but the result.                               *)
LEMMA GiveUpKeeps ==
    ASSUME GetInv, UNCHANGED vars, SessionInv', NEW result \in {"false", "exception"},
           GiveUp(result), c_pc = "store" => result = "exception", c_pc # "returned"
    PROVE  GetInv'
<1> USE DEF GetInv
<1>1. /\ c_pc' = "returned" /\ c_result' = result
      /\ UNCHANGED <<c_block_number, c_packet, c_file, c_bad, c_sent, accepted>>
    BY DEF GiveUp, Return
<1>2. UNCHANGED <<inbox, acked, blocks_read, completed>>
    BY DEF vars, machineVars, readVars, kernelVars
<1>3. GetTypeOK'
    BY <1>1 DEF GetTypeOK
<1>4. AckInv' /\ GetPrefix' /\ ServerSuccess'
    BY <1>1, <1>2 DEF AckInv, GetPrefix, ServerSuccess
<1>5. ClientInv'
    <2>1. c_result = "none"
        BY DEF GetTypeOK
    <2>2. CASE result = "exception"
        BY <1>1, <2>2 DEF ClientInv
    <2>3. CASE result = "false"
        BY <1>1, <2>1, <2>3 DEF ClientInv
    <2> QED BY <2>2, <2>3
<1> QED BY <1>3, <1>4, <1>5

(* The short block is the last one.                                        *)
LEMMA LastBlock ==
    ASSUME NEW p \in Packets, NEW n \in Nat, n >= 1, n <= NumBlocks, IsBlock(p, n), IsLast(p)
    PROVE  n = NumBlocks
<1> DEFINE k == n - 1
<1>1. k \in Nat /\ n = k + 1
    OBVIOUS
<1>2. /\ FileSize \in Nat /\ DefaultBlockSize \in Nat
      /\ p.off = k * DefaultBlockSize
      /\ p.len = Smaller(DefaultBlockSize, FileSize - p.off)
      /\ p.len < DefaultBlockSize
    BY ConstantsAssumption DEF IsBlock, IsLast, DATA_PKT_DATA_MAX_SIZE
<1> HIDE DEF k
<1>3. FileSize - k * DefaultBlockSize < DefaultBlockSize
    BY <1>1, <1>2 DEF Smaller
<1> QED BY <1>1, <1>3, BlocksOfFile

(* Writing the accepted block: the output file grows by the next block of  *)
(* the session's file, and get_file returns true after the last one.       *)
LEMMA StoreKeeps ==
    ASSUME GetInv, UNCHANGED vars, SessionInv', StoreBlock
    PROVE  GetInv'
<1> USE DEF GetInv
<1>1. /\ c_pc = "store" /\ c_bad' \in {c_bad, TRUE}
      /\ c_file' = IF c_bad' THEN c_file ELSE Append(c_file, c_packet)
      /\ IF IsLast(c_packet) THEN c_pc' = "returned" /\ c_result' = "true"
                             ELSE c_pc' = "recv" /\ c_result' = c_result
      /\ UNCHANGED <<c_block_number, c_packet, c_sent, accepted>>
    BY DEF StoreBlock, Return
<1>2. UNCHANGED <<inbox, acked, blocks_read, completed>>
    BY DEF vars, machineVars, readVars, kernelVars
<1>3. /\ c_result = "none" /\ c_bad \in BOOLEAN
      /\ c_packet \in Packets /\ c_file \in Seq(Packets)
      /\ accepted \in Nat /\ accepted <= NumBlocks
    BY <1>1, BlocksOfFile DEF GetTypeOK
<1>4. accepted >= 1 /\ IsBlock(c_packet, accepted)
    BY <1>1 DEF ClientInv
<1>5. ~c_bad' => /\ ~c_bad /\ Len(c_file) = accepted - 1 /\ c_file' = Append(c_file, c_packet)
                 /\ Len(c_file') = accepted
    <2> SUFFICES ASSUME ~c_bad'
                 PROVE  /\ ~c_bad /\ Len(c_file) = accepted - 1
                        /\ c_file' = Append(c_file, c_packet) /\ Len(c_file') = accepted
        OBVIOUS
    <2>1. ~c_bad /\ c_file' = Append(c_file, c_packet)
        BY <1>1, <1>3
    <2>2. Len(c_file) = accepted - 1
        BY <1>1, <1>3, <2>1 DEF ClientInv
    <2>3. Len(c_file') = Len(c_file) + 1
        BY <1>3, <2>1
    <2> QED BY <1>3, <2>1, <2>2, <2>3
<1>6. GetTypeOK'
    <2>1. c_file' \in Seq(Packets)
        BY <1>1, <1>3
    <2>2. c_bad' \in BOOLEAN
        BY <1>1, <1>3
    <2>3. /\ c_pc' \in {"recv", "returned"}
          /\ c_result' \in {"none", "true"}
          /\ (c_result' = "none") = (c_pc' # "returned")
        BY <1>1, <1>3
    <2> QED BY <1>1, <2>1, <2>2, <2>3 DEF GetTypeOK
<1>7. AckInv' /\ ServerSuccess'
    BY <1>1, <1>2 DEF AckInv, ServerSuccess
<1>8. ClientInv'
    <2>1. c_result' = "true" => accepted' = NumBlocks
        BY <1>1, <1>3, <1>4, LastBlock
    <2>2. c_pc' # "store"
        BY <1>1
    <2>3. ~c_bad' => Len(c_file') = accepted' - 0
        BY <1>1, <1>3, <1>5
    <2> QED BY <2>1, <2>2, <2>3 DEF ClientInv
<1>9. GetPrefix'
    <2>1. CASE c_file' = c_file
        BY <2>1 DEF GetPrefix
    <2>2. CASE ~c_bad'
        <3> SUFFICES ASSUME NEW i \in DOMAIN c_file' PROVE IsBlock(c_file'[i], i)
            BY DEF GetPrefix, IsBlock
        <3>1. DOMAIN c_file' = 1 .. accepted /\ DOMAIN c_file = 1 .. (accepted - 1)
            BY <1>3, <1>5, <2>2
        <3>2. CASE i = accepted
            BY <1>3, <1>4, <1>5, <2>2, <3>2
        <3>3. CASE i # accepted
            <4>1. i \in DOMAIN c_file /\ c_file'[i] = c_file[i]
                BY <1>3, <1>5, <2>2, <3>1, <3>3
            <4> QED BY <4>1 DEF GetPrefix, IsBlock
        <3> QED BY <3>2, <3>3
    <2> QED BY <1>1, <2>1, <2>2
<1> QED BY <1>6, <1>7, <1>8, <1>9

(* Every step of either end keeps the invariant.                           *)
LEMMA NextGetInv == GetInv /\ [GetNext]_allVars => GetInv'
<1> SUFFICES ASSUME GetInv, [GetNext]_allVars PROVE GetInv'
    OBVIOUS
<1>1. SessionInv'
    BY SessionStep, SessionKept DEF GetInv
<1>2. CASE ServerStep
    BY <1>1, <1>2, ServerKeeps
<1>3. CASE ClientStep
    <2>1. UNCHANGED vars
        BY <1>3 DEF ClientStep
    <2>2. ASSUME NEW p \in sent, ReceiveFirst(p) \/ ReceiveNext(p) PROVE GetInv'
        <3>1. /\ c_pc \in {"first", "recv"}
              /\ \/ IsExpected(p) /\ Acknowledge(p)
                 \/ GiveUp("false")
            BY <2>2 DEF ReceiveFirst, ReceiveNext
        <3> QED BY <1>1, <2>1, <3>1, AcknowledgeKeeps, GiveUpKeeps
    <2>3. CASE ReceiveThrows \/ StoreThrows
        BY <1>1, <2>1, <2>3, GiveUpKeeps DEF ReceiveThrows, StoreThrows
    <2>4. CASE StoreBlock
        BY <1>1, <2>1, <2>4, StoreKeeps
    <2> QED BY <1>3, <2>2, <2>3, <2>4 DEF ClientStep
<1>4. CASE UNCHANGED allVars
    <2>1. UNCHANGED <<c_pc, c_result, c_block_number, c_packet, c_file, c_bad, c_sent, accepted,
                      inbox, acked, blocks_read, completed>>
        BY <1>4 DEF allVars, clientVars, vars, machineVars, readVars, kernelVars
    <2>2. GetTypeOK'
        BY <2>1 DEF GetInv, GetTypeOK
    <2>3. AckInv' /\ ServerSuccess' /\ GetPrefix'
        BY <2>1 DEF GetInv, AckInv, ServerSuccess, GetPrefix
    <2>4. ClientInv'
        BY <2>1 DEF GetInv, ClientInv, IsBlock
    <2> QED BY <1>1, <2>2, <2>3, <2>4 DEF GetInv
<1> QED BY <1>2, <1>3, <1>4 DEF GetNext

(* Both ends begin with nothing sent.                                      *)
LEMMA InitGetInv == GetInit => GetInv
<1> SUFFICES ASSUME GetInit PROVE GetInv
    OBVIOUS
<1>1. SessionInv
    BY SessionInit DEF GetInit
<1>2. /\ inbox = <<>> /\ acked = 0 /\ blocks_read = 0 /\ completed = FALSE
    BY DEF GetInit, Init
<1>3. /\ c_pc = "first" /\ c_result = "none" /\ c_block_number = 1
      /\ c_file = <<>> /\ c_bad = FALSE /\ c_sent = {} /\ accepted = 0
    BY DEF GetInit
<1>4. c_packet \in Packets
    BY ConstantsAssumption DEF GetInit, Packets, BlockNumbers
<1>5. GetTypeOK
    <2>1. c_block_number = (accepted + 1) % Modulus /\ accepted \in 0 .. NumBlocks
        BY <1>3, FirstNumber, BlocksOfFile
    <2>2. (c_result = "none") = (c_pc # "returned")
        BY <1>3
    <2>3. c_bad \in BOOLEAN
        BY <1>3
    <2>4. c_file \in Seq(Packets) /\ c_sent \subseteq Datagrams
        BY <1>3
    <2>5. c_pc \in {"first", "recv", "store", "returned"}
            /\ c_result \in {"none", "true", "false", "exception"}
        BY <1>3
    <2> QED BY <1>4, <2>1, <2>2, <2>3, <2>4, <2>5 DEF GetTypeOK
<1>6. AckInv /\ ServerSuccess /\ GetPrefix
    BY <1>2, <1>3 DEF AckInv, ServerSuccess, GetPrefix
<1>7. ClientInv
    BY <1>3 DEF ClientInv
<1> QED BY <1>1, <1>5, <1>6, <1>7 DEF GetInv

(* The invariant holds in every reachable state.                           *)
LEMMA GetInvariant == GetSpec => []GetInv
BY InitGetInv, NextGetInv, PTL DEF GetSpec

(* The client's block number is always that of the block after the ones it *)
(* accepted, it never accepts more blocks than the file has, and all it    *)
(* sends is well formed (get_file's loop).                                 *)
THEOREM GetTypeCorrect == GetSpec => []GetTypeOK
<1>1. GetInv => GetTypeOK
    BY DEF GetInv
<1> QED BY <1>1, GetInvariant, PTL

(* For every file and block size: what the client has written is a prefix  *)
(* of the session's file, block by block, whatever the network loses,      *)
(* repeats, delays or reorders (get_file, the check of block_number).      *)
THEOREM OutputIsPrefix == GetSpec => []GetPrefix
<1>1. GetInv => GetPrefix
    BY DEF GetInv
<1> QED BY <1>1, GetInvariant, PTL

(* get_file returns true only after it accepted every block; they are all  *)
(* in its output, unless a write failed, which get_file never looks at.    *)
THEOREM TrueMeansWhole == GetSpec => []GetWhole
<1>1. GetInv => GetWhole
    <2> SUFFICES ASSUME GetInv, c_result = "true"
                 PROVE  accepted = NumBlocks /\ (c_bad \/ Len(c_file) = NumBlocks)
        BY DEF GetWhole
    <2>1. accepted = NumBlocks /\ c_pc # "store"
        BY DEF GetInv, ClientInv, GetTypeOK
    <2>2. ~c_bad => Len(c_file) = accepted - 0
        BY <2>1 DEF GetInv, ClientInv
    <2> QED BY <2>1, <2>2, BlocksOfFile
<1> QED BY <1>1, GetInvariant, PTL

(* A session reports success only when its client accepted every block,    *)
(* although acknowledgements are repeated and late (handle_read,           *)
(* WAIT_FOR_ACK, against get_file's loop).                                 *)
THEOREM SuccessMeansAccepted == GetSpec => []ServerSuccess
<1>1. GetInv => ServerSuccess
    BY DEF GetInv
<1> QED BY <1>1, GetInvariant, PTL

-----------------------------------------------------------------------------
(* The abstract transfer.                                                  *)

(* The client is never behind what the session knows of it, and at most    *)
(* one block ahead.                                                        *)
LEMMA ConfirmedFacts ==
    ASSUME GetInv
    PROVE  /\ Confirmed \in Nat /\ accepted \in Nat
           /\ Confirmed <= accepted
           /\ ~completed => Confirmed = Current - 1 /\ blocks_read <= Confirmed + 1
<1>1. /\ blocks_read \in Nat /\ acked \in Nat /\ accepted \in Nat
      /\ pkt_ready \in BOOLEAN /\ completed \in BOOLEAN
    BY BlocksOfFile DEF GetInv, SessionInv, TypeOK, FileType, FlagType, GetTypeOK
<1>2. CASE completed
    BY <1>1, <1>2, BlocksOfFile DEF Confirmed, GetInv, ServerSuccess
<1>3. CASE ~completed
    <2>1. Confirmed = Current - 1 /\ blocks_read <= Confirmed + 1 /\ Current \in Nat
        BY <1>1, <1>3 DEF Confirmed, Current
    <2>2. pkt_ready => blocks_read >= 1
        BY DEF GetInv, SessionInv, TransferInv, PacketInv
    <2>3. Current >= 1
        BY <1>1, <2>2 DEF Current
    <2>4. Current <= acked + 1 /\ acked <= accepted
        BY DEF GetInv, SessionInv, TransferInv, CountInv, AckInv
    <2> QED BY <1>1, <1>3, <2>1, <2>3, <2>4
<1> QED BY <1>1, <1>2, <1>3

(* A step of the client is the arrival of a block, the end of the          *)
(* reception, or invisible.                                                *)
LEMMA ClientImplements ==
    ASSUME GetInv, GetInv', ClientStep
    PROVE  [Transfer!Next]_(Transfer!vars)
<1>1. UNCHANGED <<completed, life, blocks_read, pkt_ready>>
    BY DEF ClientStep, vars, machineVars, readVars, loopVars
<1>2. Confirmed' = Confirmed
    BY <1>1 DEF Confirmed
<1>3. ASSUME NEW p \in sent, c_pc \in {"first", "recv"}, IsExpected(p), Acknowledge(p)
      PROVE  Transfer!Receive
    <2>1. /\ accepted \in Nat /\ accepted + 1 <= blocks_read /\ accepted + 1 <= NumBlocks
        BY <1>3, ExpectedBlock DEF GetInv
    <2>2. accepted < NumBlocks /\ ~completed
        BY <2>1, BlocksOfFile DEF GetInv, ServerSuccess
    <2>3. Confirmed \in Nat /\ Confirmed <= accepted /\ blocks_read <= Confirmed + 1
        BY <2>2, ConfirmedFacts
    <2>4. accepted = Confirmed
        BY <2>1, <2>3 DEF GetInv, SessionInv, TypeOK, FileType
    <2>5. c_result = "none" /\ c_result' = c_result /\ accepted' = accepted + 1
        BY <1>3 DEF GetInv, GetTypeOK, Acknowledge
    <2> QED BY <1>1, <1>2, <2>2, <2>4, <2>5 DEF Transfer!Receive
<1>4. ASSUME c_pc # "returned", NEW result \in {"false", "exception"}, GiveUp(result)
      PROVE  Transfer!ReceiverFails
    <2>1. c_result = "none" /\ c_result' = result /\ accepted' = accepted
        BY <1>4 DEF GetInv, GetTypeOK, GiveUp, Return
    <2> QED BY <1>1, <1>2, <1>4, <2>1 DEF Transfer!ReceiverFails
<1>5. CASE StoreBlock
    <2>1. c_result = "none" /\ accepted' = accepted
        BY <1>5 DEF GetInv, GetTypeOK, StoreBlock
    <2>2. CASE IsLast(c_packet)
        <3>1. c_result' = "true" /\ accepted' = NumBlocks
            BY <1>5, <2>2 DEF StoreBlock, Return, GetInv, ClientInv
        <3> QED BY <1>1, <1>2, <2>1, <3>1 DEF Transfer!Next, Transfer!ReceiverDone
    <2>3. CASE ~IsLast(c_packet)
        <3>1. c_result' = c_result
            BY <1>5, <2>3 DEF StoreBlock
        <3> QED BY <1>1, <1>2, <2>1, <3>1 DEF Transfer!vars
    <2> QED BY <2>2, <2>3
<1>6. \/ \E p \in sent : c_pc \in {"first", "recv"} /\ IsExpected(p) /\ Acknowledge(p)
      \/ \E result \in {"false", "exception"} : c_pc # "returned" /\ GiveUp(result)
      \/ StoreBlock
    BY DEF ClientStep, ReceiveFirst, ReceiveNext, ReceiveThrows, StoreThrows
<1> QED BY <1>3, <1>4, <1>5, <1>6 DEF Transfer!Next

(* The acknowledgement of the current block confirms it; no other step of  *)
(* the session confirms anything.                                          *)
LEMMA ServerConfirms ==
    ASSUME GetInv, GetInv', ServerStep, ~completed
    PROVE  \/ /\ completed' = completed /\ Confirmed' = Confirmed
              /\ life' = life \/ (life = "open" /\ life' # "open")
           \/ /\ life = "open" /\ life' = life
              /\ Confirmed < accepted /\ Confirmed' = Confirmed + 1
              /\ completed' = (Confirmed' = NumBlocks)
<1>1. /\ blocks_read \in Nat /\ pkt_ready \in BOOLEAN /\ completed \in BOOLEAN
      /\ final_ack \in BOOLEAN
    BY DEF GetInv, SessionInv, TypeOK, FileType, FlagType
<1>2. CASE AckReceived
    <2>1. /\ pkt_ready /\ blocks_read >= 1 /\ blocks_read' = blocks_read
          /\ life = "open" /\ life' = life
        BY <1>2, AckNumbers
        DEF GetInv, AckReceived, Received, ServeRead, Serve
    <2>2. Confirmed = blocks_read - 1
        BY <1>1, <2>1 DEF Confirmed
    <2>3. CASE ~IsCurrent(Head(inbox).num) \/ IsPrevious(Head(inbox).num)
        <3>1. UNCHANGED <<completed, pkt_ready>>
            BY <1>2, <2>3 DEF AckReceived
        <3>2. Confirmed' = Confirmed
            BY <2>1, <3>1 DEF Confirmed
        <3> QED BY <2>1, <3>1, <3>2
    <2>4. CASE IsCurrent(Head(inbox).num) /\ ~IsPrevious(Head(inbox).num)
        <3>1. /\ accepted \in Nat /\ blocks_read <= accepted
              /\ final_ack => blocks_read = NumBlocks /\ accepted = NumBlocks
              /\ ~final_ack => blocks_read < NumBlocks
            BY <1>2, <2>4, FinalAck, BlocksOfFile DEF GetInv, GetTypeOK
        <3>2. CASE final_ack
            <4>1. completed' = TRUE
                BY <1>2, <2>4, <3>2 DEF AckReceived
            <4>2. Confirmed' = NumBlocks
                BY <4>1 DEF Confirmed
            <4>3. Confirmed < accepted /\ Confirmed' = Confirmed + 1
                BY <1>1, <2>2, <3>1, <3>2, <4>2, BlocksOfFile
            <4>4. completed' = (Confirmed' = NumBlocks)
                BY <4>1, <4>2
            <4> QED BY <2>1, <4>3, <4>4
        <3>3. CASE ~final_ack
            <4>1. completed' = completed /\ pkt_ready' = FALSE
                BY <1>2, <2>4, <3>3 DEF AckReceived
            <4>2. Confirmed' = blocks_read
                BY <1>1, <2>1, <4>1 DEF Confirmed
            <4>3. Confirmed' # NumBlocks
                BY <1>1, <3>1, <3>3, <4>2, BlocksOfFile
            <4> QED BY <1>1, <2>1, <2>2, <3>1, <4>1, <4>2, <4>3
        <3> QED BY <3>2, <3>3
    <2> QED BY <2>3, <2>4
<1>3. CASE ~AckReceived
    <2>1. completed' = completed
        BY <1>3, ServerFrame DEF GetInv
    <2>2. life' = life \/ life = "open"
        BY DEF ServerStep, EpollWait, Dispatch, Cleanup, TimerExpires, Deliver, IcmpError, Ended,
               vars, loopVars, handle_read, handle_write, ReadFails, SocketError, TimedOut,
               NothingRead, RecvThrows, AckReceived, NoAckReceived, DataWritten, DataNotWritten,
               NoDataReceived, Received, SendData, SendAck, SendOack, SendError, ServeRead,
               ServeWrite, Serve
    <2>3. \/ UNCHANGED <<blocks_read, pkt_ready>>
          \/ ~pkt_ready /\ pkt_ready' = TRUE /\ blocks_read' = blocks_read + 1
        <3>1. CASE \E result \in SendResults : SendData(result)
            BY <1>1, <3>1 DEF SendData, NeedsRead
        <3>2. CASE \A result \in SendResults : ~SendData(result)
            BY <1>3, <3>2
            DEF ServerStep, EpollWait, Dispatch, Cleanup, TimerExpires, Deliver, IcmpError, Ended,
                vars, machineVars, readVars, handle_read, handle_write, ReadFails, SocketError,
                TimedOut, NothingRead, RecvThrows, NoAckReceived, DataWritten, DataNotWritten,
                NoDataReceived, SendAck, SendOack, SendError
        <3> QED BY <3>1, <3>2
    <2>4. Confirmed' = Confirmed
        BY <1>1, <2>1, <2>3 DEF Confirmed
    <2> QED BY <2>1, <2>2, <2>4
<1> QED BY <1>2, <1>3

(* A step of the session is a confirmation, its failure, or invisible; a   *)
(* session that has reported success stays successful.                     *)
LEMMA ServerImplements ==
    ASSUME GetInv, GetInv', ServerStep
    PROVE  [Transfer!Next]_(Transfer!vars)
<1>1. UNCHANGED <<accepted, c_result>>
    BY DEF ServerStep, clientVars
<1>2. CASE completed
    <2>1. completed' = completed
        BY <1>2, ServerFrame DEF GetInv, SessionInv, TypeOK, FlagType, AckReceived
    <2>2. Confirmed' = Confirmed
        BY <1>2, <2>1 DEF Confirmed
    <2> QED BY <1>1, <1>2, <2>1, <2>2 DEF Transfer!vars
<1>3. CASE ~completed
    <2>1. CASE completed' = completed /\ Confirmed' = Confirmed /\ life' = life
        BY <1>1, <2>1 DEF Transfer!vars
    <2>2. CASE completed' = completed /\ Confirmed' = Confirmed /\ life = "open" /\ life' # "open"
        BY <1>1, <1>3, <2>2 DEF Transfer!Next, Transfer!SenderFails
    <2>3. CASE /\ life = "open" /\ life' = life
               /\ Confirmed < accepted /\ Confirmed' = Confirmed + 1
               /\ completed' = (Confirmed' = NumBlocks)
        BY <1>1, <1>3, <2>3 DEF Transfer!Next, Transfer!Confirm
    <2> QED BY <1>3, <2>1, <2>2, <2>3, ServerConfirms
<1> QED BY <1>2, <1>3

(* get_file and the session implement the abstract transfer, for every     *)
(* file shorter than a round of block numbers: a block arrives only when   *)
(* those before it are confirmed, is confirmed only when it has arrived,   *)
(* and either end reports success only for the whole file.                 *)
THEOREM TransferImplemented == GetSpec => ImplementsTransfer
<1>1. GetInit => Transfer!Init
    <2> SUFFICES ASSUME GetInit PROVE Transfer!Init
        OBVIOUS
    <2>1. /\ accepted = 0 /\ c_result = "none"
          /\ ~completed /\ blocks_read = 0 /\ ~pkt_ready /\ life = "open"
        BY DEF GetInit, Init
    <2>2. Confirmed = 0 - 0
        BY <2>1, BlocksOfFile DEF Confirmed
    <2>3. Confirmed = 0
        BY <2>2
    <2> QED BY <2>1, <2>3 DEF Transfer!Init
<1>2. GetInv /\ GetInv' /\ [GetNext]_allVars => [Transfer!Next]_(Transfer!vars)
    <2> SUFFICES ASSUME GetInv, GetInv', [GetNext]_allVars
                 PROVE  [Transfer!Next]_(Transfer!vars)
        OBVIOUS
    <2>1. CASE UNCHANGED allVars
        <3>1. UNCHANGED <<accepted, c_result, completed, blocks_read, pkt_ready, life>>
            BY <2>1 DEF allVars, clientVars, vars, machineVars, readVars, loopVars
        <3> QED BY <3>1 DEF Transfer!vars, Confirmed
    <2> QED BY <2>1, ClientImplements, ServerImplements DEF GetNext
<1> QED BY <1>1, <1>2, GetInvariant, PTL DEF GetSpec, ImplementsTransfer, Transfer!Spec
=============================================================================
