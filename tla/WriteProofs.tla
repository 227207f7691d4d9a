------------------------------ MODULE WriteProofs ------------------------------
(***************************************************************************)
(* What a WRITE session guarantees for every block size, width of the      *)
(* block number, set of requests and set of datagrams: the acknowledgement *)
(* of a block follows its storage.                                         *)
(***************************************************************************)
EXTENDS ServerConnectionProofs

-----------------------------------------------------------------------------
(* The number of the first block: an OACK takes the place of the ACK of    *)
(* block 0, and the code then counts from 0.                               *)
First == IF oack_packet = {} THEN 1 ELSE 0

(* A block is acknowledged under the number of the last stored one and     *)
(* awaited under the next.  Before the first acknowledgement of a session  *)
(* that began with an OACK the timer is off, so no time-out can step the   *)
(* block number back below the first block.                                *)
StoredInv ==
    /\ state = "SEND_OACK" => oack_packet # {} /\ Len(file) = 0
    /\ state = "SEND_ACK" =>
        /\ First + Len(file) >= 1
        /\ block_number = (First + Len(file) - 1) % Modulus
    /\ state = "WAIT_FOR_DATA" =>
        /\ block_number = (First + Len(file)) % Modulus
        /\ First + Len(file) = 0 => timer = "off"

WriteInv == StoredInv /\ AckMeansStored

-----------------------------------------------------------------------------
(* Facts about the operators.                                              *)

(* The uint16_t decrement undoes the increment, also across the wrap.      *)
LEMMA DecOfInc ==
    ASSUME NEW n \in BlockNumbers
    PROVE  Dec(Inc(n)) = n
BY ConstantsAssumption DEF BlockNumbers, Inc, Dec

(* The uint16_t decrement counts blocks down modulo the width.             *)
LEMMA DecCounts ==
    ASSUME NEW k \in Nat, k >= 1
    PROVE  Dec(k % Modulus) = (k - 1) % Modulus
<1>1. k - 1 \in Nat /\ (k - 1) + 1 = k
    OBVIOUS
<1>2. (k - 1) % Modulus \in BlockNumbers
    BY <1>1, DivMod
<1>3. Inc((k - 1) % Modulus) = k % Modulus
    BY <1>1, IncCounts
<1> QED BY <1>2, <1>3, DecOfInc

(* Blocks are counted by natural numbers.                                  *)
LEMMA FirstType ==
    ASSUME TypeOK
    PROVE  First \in Nat /\ Len(file) \in Nat /\ First + Len(file) \in Nat
<1>1. Len(file) \in Nat
    BY DEF TypeOK, FileType
<1> QED BY <1>1 DEF First

(* No step changes where the count begins.                                 *)
LEMMA FirstKept == [Next]_vars => First' = First /\ oack_packet' = oack_packet
BY RequestKept DEF requestVars, First

-----------------------------------------------------------------------------
(* One step at a time.                                                     *)

(* What StoredInv speaks of is unchanged, so it still holds.               *)
LEMMA StoredFrame ==
    ASSUME StoredInv, UNCHANGED <<oack_packet, file, state, block_number>>,
           timer' = timer \/ timer = "armed"
    PROVE  StoredInv'
BY DEF StoredInv, First

(* Outside the states of a write nothing is claimed.                       *)
LEMMA StoredElsewhere ==
    ASSUME state' \notin {"SEND_OACK", "SEND_ACK", "WAIT_FOR_DATA"}
    PROVE  StoredInv'
BY DEF StoredInv

(* A retransmission acknowledges the last stored block again: the timer    *)
(* runs only after an acknowledgement, so there is a number to go back to. *)
LEMMA TimedOutStored ==
    ASSUME TypeOK, StoredInv, TimedOut, UNCHANGED oack_packet
    PROVE  StoredInv'
<1>1. First \in Nat /\ Len(file) \in Nat /\ First + Len(file) \in Nat
    BY FirstType
<1>2. timer = "expired" /\ file' = file /\ First' = First
    BY DEF TimedOut, First
<1>3. CASE state' = "SEND_ACK" /\ state = "WAIT_FOR_DATA"
    <2>1. block_number' = Dec(block_number)
        BY <1>3 DEF TimedOut, retransmit
    <2>2. block_number = (First + Len(file)) % Modulus /\ First + Len(file) # 0
        BY <1>2, <1>3 DEF StoredInv
    <2>3. First + Len(file) >= 1
        BY <1>1, <2>2
    <2> DEFINE k == First + Len(file)
    <2> HIDE DEF k
    <2>4. Dec(k % Modulus) = (k - 1) % Modulus
        BY <1>1, <2>3, DecCounts DEF k
    <2>5. block_number' = (First + Len(file) - 1) % Modulus
        BY <1>1, <2>1, <2>2, <2>4 DEF k
    <2> QED BY <1>2, <1>3, <2>3, <2>5 DEF StoredInv
<1>4. CASE UNCHANGED <<state, block_number>>
    <2>1. timer' = "off"
        BY DEF TimedOut
    <2> QED BY <1>2, <1>4, <2>1 DEF StoredInv
<1>5. CASE state' = "SEND_DATA"
    BY <1>5, StoredElsewhere
<1> QED
    BY <1>3, <1>4, <1>5 DEF TimedOut, retransmit

(* A block that is stored is the one that will be acknowledged.            *)
LEMMA DataWrittenStored ==
    ASSUME TypeOK, StoredInv, NEW outcome, DataWritten(outcome), UNCHANGED oack_packet
    PROVE  StoredInv'
<1>1. First \in Nat /\ Len(file) \in Nat /\ First + Len(file) \in Nat
    BY FirstType
<1>2. First' = First
    BY DEF First
<1>3. /\ state = "WAIT_FOR_DATA" /\ block_number' = block_number /\ timer' = timer
      /\ state' = StateAfterWrite(outcome)
    BY DEF DataWritten, Received
<1>4. /\ block_number = (First + Len(file)) % Modulus
      /\ First + Len(file) = 0 => timer = "off"
    BY <1>3 DEF StoredInv
<1>5. CASE outcome = "ok"
    <2>1. PICK b : file' = Append(file, b)
        BY <1>5 DEF DataWritten
    <2>2. Len(file') = Len(file) + 1
        BY <2>1 DEF TypeOK, FileType
    <2>3. First + Len(file') - 1 = First + Len(file) /\ First + Len(file') >= 1
        BY <1>1, <2>2
    <2>4. state' = "SEND_ACK"
        BY <1>3, <1>5 DEF StateAfterWrite
    <2> QED BY <1>2, <1>3, <1>4, <2>3, <2>4 DEF StoredInv
<1>6. CASE outcome = "error"
    <2>1. state' = "ERROR"
        BY <1>3, <1>6 DEF StateAfterWrite
    <2> QED BY <2>1, StoredElsewhere
<1>7. CASE outcome \notin {"ok", "error"}
    <2>1. state' = state /\ file' = file
        BY <1>3, <1>7 DEF StateAfterWrite, DataWritten
    <2> QED BY <1>3, <2>1, StoredFrame
<1> QED BY <1>5, <1>6, <1>7

(* A repeated block makes the session acknowledge it again; block 0 has no *)
(* predecessor, so the count never falls below the first block.            *)
LEMMA DataNotWrittenStored ==
    ASSUME TypeOK, StoredInv, DataNotWritten, UNCHANGED oack_packet
    PROVE  StoredInv'
<1> DEFINE d == Head(inbox)
<1>1. First \in Nat /\ Len(file) \in Nat /\ First + Len(file) \in Nat
    BY FirstType
<1>2. First' = First /\ file' = file /\ state = "WAIT_FOR_DATA"
    BY DEF First, DataNotWritten, Received
<1>3. d.num \in BlockNumbers /\ block_number \in BlockNumbers
    BY ReceivedType, ConstantsAssumption DEF DataNotWritten, TypeOK, MachineType
<1>4. CASE IsPrevious(d.num)
    <2>1. state' = "SEND_ACK" /\ block_number' = Dec(block_number)
        BY <1>4 DEF DataNotWritten
    <2>2. block_number = (First + Len(file)) % Modulus
        BY <1>2 DEF StoredInv
    <2>3. block_number >= 1
        BY <1>3, <1>4, ConstantsAssumption DEF IsPrevious, BlockNumbers
    <2>4. 0 % Modulus = 0
        BY DivMod, RemainderOf, ConstantsAssumption DEF BlockNumbers
    <2>5. First + Len(file) >= 1
        BY <1>1, <2>2, <2>3, <2>4
    <2> DEFINE k == First + Len(file)
    <2> HIDE DEF k
    <2>6. Dec(k % Modulus) = (k - 1) % Modulus
        BY <1>1, <2>5, DecCounts DEF k
    <2>7. block_number' = (First + Len(file) - 1) % Modulus
        BY <1>1, <2>1, <2>2, <2>6 DEF k
    <2> QED BY <1>2, <2>1, <2>5, <2>7 DEF StoredInv
<1>5. CASE ~IsPrevious(d.num)
    <2>1. state' = "ERROR"
        BY <1>5 DEF DataNotWritten
    <2> QED BY <2>1, StoredElsewhere
<1> QED BY <1>4, <1>5

(* An acknowledgement that was sent moves the session to the next number;  *)
(* the packet carries the number of the last stored block.                 *)
LEMMA SendAckStored ==
    ASSUME TypeOK, WriteInv, NEW result \in SendResults, SendAck(result),
           UNCHANGED oack_packet
    PROVE  WriteInv'
<1>1. First \in Nat /\ Len(file) \in Nat /\ First + Len(file) \in Nat
    BY FirstType
<1>2. First' = First /\ file' = file /\ state = "SEND_ACK"
    BY DEF First, SendAck
<1>3. First + Len(file) >= 1 /\ block_number = (First + Len(file) - 1) % Modulus
    BY <1>2 DEF WriteInv, StoredInv
<1>4. StoredInv'
    <2>1. CASE result = "sent" /\ ~final_ack
        <3>1. state' = "WAIT_FOR_DATA" /\ block_number' = Inc(block_number)
            BY <2>1 DEF SendAck
        <3>2. First + Len(file) - 1 \in Nat
            BY <1>1, <1>3
        <3>3. Inc(block_number) = ((First + Len(file) - 1) + 1) % Modulus
            BY <1>3, <3>2, IncCounts
        <3>4. (First + Len(file) - 1) + 1 = First + Len(file)
            BY <1>1
        <3> QED BY <1>1, <1>2, <1>3, <3>1, <3>3, <3>4 DEF StoredInv
    <2>2. CASE UNCHANGED <<state, block_number, timer>>
        BY <1>2, <2>2, StoredFrame DEF WriteInv
    <2>3. CASE state' = "ERROR"
        BY <2>3, StoredElsewhere
    <2> QED BY <2>1, <2>2, <2>3 DEF SendAck
<1>5. AckMeansStored'
    <2> DEFINE packet == Packet("ACK", block_number)
    <2>1. sent' \subseteq sent \cup {packet}
        BY DEF SendAck, send
    <2>2. packet.num = block_number /\ packet.idx = Len(file)
        BY DEF Packet
    <2>3. packet.num = (First + packet.idx - 1) % Modulus
        BY <1>3, <2>2
    <2>4. \A p \in sent : p.op = "ACK" => p.num = (First + p.idx - 1) % Modulus
        BY DEF WriteInv, AckMeansStored, First
    <2> HIDE DEF packet
    <2>5. \A p \in sent' : p.op = "ACK" => p.num = (First + p.idx - 1) % Modulus
        BY <2>1, <2>3, <2>4
    <2> QED BY <2>5 DEF AckMeansStored, First
<1> QED BY <1>4, <1>5 DEF WriteInv

(* Steps that acknowledge nothing leave the acknowledgements alone.        *)
LEMMA OthersSendNoAck ==
    ASSUME TypeOK, [Next]_vars, \A result \in SendResults : ~SendAck(result)
    PROVE  \A p \in sent' : p.op = "ACK" => p \in sent
<1>1. \A op, num : Packet(op, num).op = op
    BY DEF Packet
<1>2. ASSUME NEW result \in SendResults, SendData(result)
      PROVE  \A p \in sent' : p.op = "ACK" => p \in sent
    BY <1>2, SendDataSends
<1>3. ASSUME NEW result \in SendResults, SendOack(result) \/ SendError(result)
      PROVE  \A p \in sent' : p.op = "ACK" => p \in sent
    BY <1>1, <1>3 DEF SendOack, SendError, send
<1>4. \/ \E result \in SendResults : handle_write(result)
      \/ sent' = sent
    BY DEF Next, Dispatch, handle_read, EpollWait, Cleanup, Deliver, IcmpError, TimerExpires,
           Ended, vars, TimedOut, NothingRead, RecvThrows, AckReceived, NoAckReceived, DataWritten,
           DataNotWritten, NoDataReceived, Received, ReadFails, SocketError
<1> QED BY <1>2, <1>3, <1>4 DEF handle_write

(* Every step keeps the invariant of a write.                              *)
LEMMA NextWriteInv == TypeOK /\ TransferInv /\ WriteInv /\ [Next]_vars => WriteInv'
<1> SUFFICES ASSUME TypeOK, TransferInv, WriteInv, [Next]_vars PROVE WriteInv'
    OBVIOUS
<1>1. First' = First /\ oack_packet' = oack_packet
    BY FirstKept
<1>2. StoredInv
    BY DEF WriteInv
<1>3. CASE \E result \in SendResults : SendAck(result)
    BY <1>1, <1>3, SendAckStored
<1>4. CASE \A result \in SendResults : ~SendAck(result)
    <2>1. AckMeansStored'
        BY <1>1, <1>4, OthersSendNoAck DEF WriteInv, AckMeansStored, First
    <2>2. ASSUME \/ TimedOut \/ DataNotWritten
                 \/ \E outcome \in {"ok", "error", "exception", "hung"} : DataWritten(outcome)
          PROVE  StoredInv'
        BY <1>1, <1>2, <2>2, TimedOutStored, DataWrittenStored, DataNotWrittenStored
    <2>3. ASSUME \/ NothingRead \/ RecvThrows \/ NoAckReceived \/ NoDataReceived \/ SocketError
                 \/ EpollWait \/ Cleanup \/ IcmpError \/ TimerExpires \/ UNCHANGED vars
                 \/ \E d \in Datagrams : Deliver(d)
                 \/ \E result \in SendResults : SendError(result)
          PROVE  StoredInv'
        <3>1. UNCHANGED <<file, state, block_number>> /\ (timer' = timer \/ timer = "armed")
            BY <2>3 DEF NothingRead, RecvThrows, NoAckReceived, NoDataReceived, Received,
                        SocketError, EpollWait, Cleanup, IcmpError, TimerExpires, Deliver,
                        SendError, vars, machineVars, kernelVars
        <3> QED BY <1>1, <1>2, <3>1, StoredFrame
    <2>4. ASSUME AckReceived \/ ReadFails \/ \E result \in SendResults : SendData(result)
          PROVE  StoredInv'
        <3>1. state' \in {"SEND_DATA", "WAIT_FOR_ACK", "ERROR"}
            BY <2>4 DEF AckReceived, Received, ReadFails, SendData
        <3> QED BY <3>1, StoredElsewhere
    <2>5. ASSUME NEW result \in SendResults, SendOack(result)
          PROVE  StoredInv'
        <3>1. /\ state = "SEND_OACK" /\ state' \in {"SEND_OACK", "WAIT_FOR_ACK", "WAIT_FOR_DATA"}
              /\ UNCHANGED <<file, block_number, timer>>
            BY <2>5 DEF SendOack
        <3>2. oack_packet # {} /\ Len(file) = 0
            BY <1>2, <3>1 DEF StoredInv
        <3>3. block_number = 0 /\ timer = "off"
            BY <3>1 DEF TransferInv, PhaseInv
        <3>4. First = 0 /\ First + Len(file) = 0
            BY <3>2 DEF First
        <3>5. 0 % Modulus = 0
            BY DivMod, RemainderOf, ConstantsAssumption DEF BlockNumbers
        <3>6. file' = file /\ block_number' = 0 /\ timer' = "off"
            BY <3>1, <3>3
        <3> QED BY <1>1, <3>1, <3>2, <3>4, <3>5, <3>6 DEF StoredInv
    <2>6. StoredInv'
        BY <1>4, <2>2, <2>3, <2>4, <2>5 DEF Next, Dispatch, handle_read, handle_write, Ended
    <2> QED BY <2>1, <2>6 DEF WriteInv
<1> QED BY <1>3, <1>4

(* A plain write begins by acknowledging block 0, one with options by an   *)
(* OACK, and nothing is stored or sent.                                    *)
LEMMA InitWriteInv == Init => WriteInv
<1> SUFFICES ASSUME Init PROVE WriteInv
    OBVIOUS
<1>1. PICK r \in Requests, mtu \in MtuResults, opened \in BOOLEAN :
            Constructed(r, mtu, opened)
    BY DEF Init
<1>2. file = <<>> /\ Len(file) = 0 /\ sent = {}
    BY DEF Init
<1>3. /\ state \in {"SEND_DATA", "SEND_ACK", "SEND_OACK", "ERROR"}
      /\ state = "SEND_ACK" => oack_packet = {} /\ block_number = 0
      /\ state = "SEND_OACK" => oack_packet # {}
    BY <1>1 DEF Constructed, first_state
<1>4. 0 % Modulus = 0
    BY DivMod, RemainderOf, ConstantsAssumption DEF BlockNumbers
<1>5. StoredInv
    BY <1>2, <1>3, <1>4 DEF StoredInv, First
<1> QED BY <1>2, <1>5 DEF WriteInv, AckMeansStored

(* The acknowledgement of a block is sent only when that block and all     *)
(* before it are stored, for every sequence of repeated, old, foreign and  *)
(* failing blocks, every time-out, and across the wrap of the block number *)
(* (handle_read, WAIT_FOR_DATA, and handle_write, SEND_ACK).               *)
THEOREM StoredBeforeAck == Spec => []AckMeansStored
<1>1. WriteInv => AckMeansStored
    BY DEF WriteInv
<1> QED
    BY <1>1, InitWriteInv, NextWriteInv, TransferInvariant, TypeCorrect, PTL DEF Spec
=============================================================================
