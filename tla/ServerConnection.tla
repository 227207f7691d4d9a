--------------------------- MODULE ServerConnection ---------------------------
(***************************************************************************)
(* One session of the TFTP server: tftp_server_connection, its timer, its  *)
(* connected UDP socket, its file, and the part of the epoll loop of       *)
(* tftp_server::start that drives it.  The client is the environment: any  *)
(* datagram of Datagrams may arrive at any time, in any order, any number  *)
(* of times (up to MaxDatagrams), and the client may vanish.               *)
(*                                                                         *)
(* Variables carry the names of the fields they model.  File contents are  *)
(* abstracted to offsets, messages to the fields the handlers inspect.     *)
(***************************************************************************)
EXTENDS Integers, Sequences

CONSTANTS
    Modulus,           \* block numbers are uint16_t: 2^16 in the code
    HeaderSize,        \* opcode and block number: 4 bytes in the code
    DefaultBlockSize,  \* 512 in the code
    MAX_TIMEOUTS,      \* 3 in the code
    NDEBUG,            \* assertions are compiled out, as in the default build
    FileSize,          \* bytes the file reader yields until end of file
    Requests,          \* the requests a session is constructed for
    MtuResults,        \* what utils::get_mtu may return
    Datagrams,         \* the datagrams the client may send
    MaxDatagrams,      \* bound: datagrams and ICMP errors that arrive
    OlderConnections   \* bound: sessions ahead of this one in the list

NoOption == -1         \* an option that is absent, or whose value does not parse

BlockNumbers == 0 .. Modulus - 1

ASSUME ConstantsAssumption ==
    /\ Modulus \in Nat /\ Modulus > 2
    /\ HeaderSize \in Nat \ {0}
    /\ DefaultBlockSize \in Nat \ {0}
    /\ MAX_TIMEOUTS \in Nat
    /\ NDEBUG \in BOOLEAN
    /\ FileSize \in Nat
    /\ Requests \subseteq [type : {"READ", "WRITE"}, mode : {"OCTET", "NETASCII"},
                           path : {"outside", "present", "absent"},
                           blksize : Nat \cup {NoOption}, tsize : BOOLEAN,
                           timeout : Nat \cup {NoOption}]
    /\ MtuResults \subseteq Int
    /\ Datagrams \subseteq [op : {"ACK", "DATA", "ERROR", "OTHER"},
                            num : BlockNumbers, len : Nat]
    /\ MaxDatagrams \in Nat
    /\ OlderConnections \in Nat

VARIABLES
    \* set by the constructor
    type, mode, block_size, oack_packet,
    reader_open,     \* _file_reader's _fd is not NULL
    \* the session's state machine
    state, finished, final_ack, pkt_ready, timeout_count, block_number,
    data_pkt,        \* the DATA packet kept for retransmission
    read_pos,        \* bytes the file reader has consumed
    file,            \* blocks the file writer has stored, in order
    \* the kernel's objects
    timer,           \* "off", "armed" or "expired" (not yet read)
    inbox,           \* datagrams in the socket's receive buffer
    sock_err,        \* an ICMP error is pending on the connected socket
    budget,          \* what may still arrive
    \* the event loop
    polling,         \* inside epoll_wait, as opposed to serving its events
    events,          \* events of this session still to be dispatched
    interest,        \* what the socket is registered for: "IN" or "OUT"
    older,           \* sessions ahead of this one that may still be erased
    life,            \* "open", "closed" (erased), or how the server ended
    \* history
    sent,            \* datagrams sent to the client
    blocks_read,     \* number of blocks read from the file
    acked,           \* number of blocks the client acknowledged, in order
    silent,          \* packets sent since the client was last heard
    completed        \* the transfer ended with its final acknowledgement

requestVars == <<type, mode, block_size, oack_packet, reader_open>>
kernelVars  == <<timer, inbox, sock_err, budget>>
readVars    == <<pkt_ready, data_pkt, read_pos, blocks_read>>
machineVars == <<state, finished, final_ack, timeout_count, block_number, file,
                 acked, silent, completed, readVars>>
loopVars    == <<polling, events, interest, older, life>>
vars        == <<requestVars, machineVars, kernelVars, loopVars, sent>>

SendStates == {"SEND_ACK", "SEND_OACK", "SEND_DATA", "ERROR"}
WaitStates == {"WAIT_FOR_ACK", "WAIT_FOR_DATA"}

Smaller(a, b) == IF a <= b THEN a ELSE b

(* uint16_t increment and decrement of _block_number.                      *)
IncWithoutWrap(n) == n + 1
Inc(n) == IF n = Modulus - 1 THEN 0 ELSE n + 1
Dec(n) == IF n = 0 THEN Modulus - 1 ELSE n - 1

-----------------------------------------------------------------------------
(* Construction: the request is checked, its options are processed and the *)
(* file is opened.                                                         *)

is_operation_allowed(r) ==
    /\ r.path # "outside"
    /\ r.type = "WRITE" => r.path = "absent"
    /\ r.type = "READ"  => r.path = "present"

(* BLKSIZE: the requested size, cut to the MTU when the query succeeds.    *)
negotiated_block_size(r, mtu) ==
    IF r.blksize = NoOption THEN DefaultBlockSize
    ELSE IF mtu >= 0 /\ mtu < r.blksize THEN mtu ELSE r.blksize

(* The options process_options puts into the OACK.                         *)
acknowledged_options(r) ==
    {o \in {"BLKSIZE", "TSIZE", "TIMEOUT"} :
        \/ o = "BLKSIZE" /\ r.blksize # NoOption
        \/ o = "TSIZE"   /\ r.tsize /\ r.type = "READ"
        \/ o = "TIMEOUT" /\ r.timeout \in 1 .. 255}

(* A failed open of the file to read leaves the state that the options     *)
(* select: the ERROR state set in the catch block is overwritten.          *)
first_state(r, opened) ==
    LET plain == acknowledged_options(r) = {} IN
    IF r.type = "READ"
    THEN IF plain THEN "SEND_DATA" ELSE "SEND_OACK"
    ELSE IF ~opened THEN "ERROR" ELSE IF plain THEN "SEND_ACK" ELSE "SEND_OACK"

Constructed(r, mtu, opened) ==
    /\ type = r.type
    /\ mode = r.mode
    /\ IF is_operation_allowed(r)
       THEN /\ block_size = negotiated_block_size(r, mtu)
            /\ oack_packet = acknowledged_options(r)
            /\ reader_open = (opened /\ r.type = "READ")
            /\ state = first_state(r, opened)
            /\ block_number = IF state = "SEND_DATA" THEN 1 ELSE 0
       ELSE /\ block_size = DefaultBlockSize
            /\ oack_packet = {}
            /\ reader_open = FALSE
            /\ state = "ERROR"
            /\ block_number = 0

-----------------------------------------------------------------------------
(* Datagrams as udp_connection::recv and tftp::deserialise_* see them: a   *)
(* datagram longer than the buffer is cut.  A datagram's len counts what   *)
(* follows the header; the message of an ERROR ends with its only NUL.     *)

recv(d, size) == Smaller(HeaderSize + d.len, size)

deserialise_ack_packet(d, size)  == d.op = "ACK"  /\ recv(d, size) >= HeaderSize
deserialise_data_packet(d, size) == d.op = "DATA" /\ recv(d, size) >= HeaderSize
deserialise_error_packet(d, size) ==
    d.op = "ERROR" /\ d.len > 0 /\ recv(d, size) = HeaderSize + d.len

ACK_PKT_MAX_SIZE == HeaderSize

-----------------------------------------------------------------------------
(* Serving one event of the session; epoll_ctl_mod follows each of them.   *)

InterestWithoutData(s) == IF s = "WAIT_FOR_ACK" THEN "IN" ELSE "OUT"
InterestOf(s) == IF s \in WaitStates THEN "IN" ELSE "OUT"

Serve(kinds) ==
    /\ life = "open" /\ ~polling /\ events # <<>>
    /\ Head(events) \in kinds
    /\ events' = Tail(events)
    /\ UNCHANGED <<requestVars, budget, polling, older>>

epoll_ctl_mod == interest' = InterestOf(state')

ServeRead  == Serve({"timer_in", "sd_in"})
ServeWrite == Serve({"sd_out"})

TimerLeftAlone == timer' = timer
arm_timer == timer' = "armed"

-----------------------------------------------------------------------------
(* handle_read *)

TooManyTimeoutsOffByOne == timeout_count > MAX_TIMEOUTS
TooManyTimeouts == timeout_count >= MAX_TIMEOUTS

(* In a sending state the assertion fails; without assertions, as in the   *)
(* default (release) build, the session goes on.                           *)
retransmit ==
    /\ state' = CASE state = "WAIT_FOR_ACK"  -> "SEND_DATA"
                  [] state = "WAIT_FOR_DATA" -> "SEND_ACK"
                  [] OTHER -> state
    /\ block_number' = IF state = "WAIT_FOR_DATA" THEN Dec(block_number)
                                                  ELSE block_number
    /\ life' = IF state \in WaitStates \/ NDEBUG THEN life ELSE "abort"

(* The timer is read first: an expiry hides a datagram that arrived.       *)
TimedOut ==
    /\ ServeRead
    /\ timer = "expired"
    /\ timer' = "off"
    /\ IF TooManyTimeouts
       THEN /\ finished' = TRUE
            /\ UNCHANGED <<state, block_number, timeout_count, life>>
       ELSE /\ timeout_count' = timeout_count + 1
            /\ retransmit
            /\ UNCHANGED finished
    /\ UNCHANGED <<final_ack, file, acked, silent, completed, readVars,
                   inbox, sock_err, sent>>

(* A sending state ignores the event; in a waiting state recv may find     *)
(* nothing to read.                                                        *)
NothingRead ==
    /\ ServeRead
    /\ timer # "expired"
    /\ state \in WaitStates => inbox = <<>> /\ ~sock_err
    /\ UNCHANGED <<machineVars, timer, inbox, sock_err, life, sent>>

(* recv throws on a pending socket error, and nothing catches it.          *)
RecvThrows ==
    /\ ServeRead
    /\ timer # "expired" /\ state \in WaitStates /\ sock_err
    /\ sock_err' = FALSE
    /\ life' = "exception"
    /\ UNCHANGED <<machineVars, timer, inbox, sent>>

(* The datagram at the head of the receive buffer is read in state s.      *)
Received(s) ==
    /\ ServeRead
    /\ timer # "expired" /\ state = s /\ ~sock_err /\ inbox # <<>>
    /\ inbox' = Tail(inbox)
    /\ UNCHANGED <<timer, sock_err, sent>>

(* The block number is promoted to int: at block 0 no number is previous.  *)
IsPrevious(num) == num = block_number - 1

NotAfterCurrent(num) == num <= block_number
IsCurrent(num)  == num = block_number

AckReceived ==
    LET d == Head(inbox) IN
    /\ Received("WAIT_FOR_ACK")
    /\ deserialise_ack_packet(d, ACK_PKT_MAX_SIZE)
    /\ timeout_count' = 0
    /\ silent' = 0
    /\ acked' = IF d.num = (acked + 1) % Modulus THEN acked + 1 ELSE acked
    /\ IF IsPrevious(d.num)
       THEN state' = "SEND_DATA" /\ UNCHANGED <<finished, completed, pkt_ready, block_number>>
       ELSE IF IsCurrent(d.num)
       THEN IF final_ack
            THEN /\ finished' = TRUE /\ completed' = TRUE
                 /\ UNCHANGED <<state, pkt_ready, block_number>>
            ELSE /\ pkt_ready' = FALSE
                 /\ state' = "SEND_DATA"
                 /\ block_number' = Inc(block_number)
                 /\ UNCHANGED <<finished, completed>>
       ELSE state' = "ERROR" /\ UNCHANGED <<finished, completed, pkt_ready, block_number>>
    /\ UNCHANGED <<final_ack, file, data_pkt, read_pos, blocks_read, life>>

(* Anything else ends the session only when it parses as an ERROR.         *)
NoAckReceived ==
    LET d == Head(inbox) IN
    /\ Received("WAIT_FOR_ACK")
    /\ ~deserialise_ack_packet(d, ACK_PKT_MAX_SIZE)
    /\ finished' = (finished \/ deserialise_error_packet(d, ACK_PKT_MAX_SIZE))
    /\ UNCHANGED <<state, final_ack, timeout_count, block_number, file, acked,
                   silent, completed, readVars, life>>

(* _file_writer.write and the check of error(): a NETASCII block may hold  *)
(* an invalid sequence, and the OCTET loop never ends on a failing disk.   *)
WriteOutcomes(len) ==
    IF len = 0 THEN {"ok"}
    ELSE {"ok", "error", IF mode = "NETASCII" THEN "exception" ELSE "hung"}

IsFinalWithFullBlock(len) == len <= block_size
IsFinal(len) == len < block_size

AcknowledgesFailedWrite(outcome) == "SEND_ACK"
StateAfterWrite(outcome) ==
    CASE outcome = "ok" -> "SEND_ACK" [] outcome = "error" -> "ERROR" [] OTHER -> state

DataWritten(outcome) ==
    LET d   == Head(inbox)
        len == recv(d, block_size) - HeaderSize
    IN
    /\ Received("WAIT_FOR_DATA")
    /\ deserialise_data_packet(d, block_size) /\ ~IsPrevious(d.num) /\ IsCurrent(d.num)
    /\ outcome \in WriteOutcomes(len)
    /\ timeout_count' = 0
    /\ silent' = 0
    /\ state' = StateAfterWrite(outcome)
    /\ file' = IF outcome = "ok"
               THEN Append(file, [num |-> d.num, len |-> d.len, stored |-> len])
               ELSE file
    /\ final_ack' = (final_ack \/ (outcome = "ok" /\ IsFinal(len)))
    /\ life' = IF outcome \in {"exception", "hung"} THEN outcome ELSE life
    /\ UNCHANGED <<finished, block_number, acked, completed, readVars>>

DataNotWritten ==
    LET d == Head(inbox) IN
    /\ Received("WAIT_FOR_DATA")
    /\ deserialise_data_packet(d, block_size) /\ (IsPrevious(d.num) \/ ~IsCurrent(d.num))
    /\ timeout_count' = 0
    /\ silent' = 0
    /\ IF IsPrevious(d.num)
       THEN state' = "SEND_ACK" /\ block_number' = Dec(block_number)
       ELSE state' = "ERROR" /\ UNCHANGED block_number
    /\ UNCHANGED <<finished, final_ack, file, acked, completed, readVars, life>>

NoDataReceived ==
    LET d == Head(inbox) IN
    /\ Received("WAIT_FOR_DATA")
    /\ ~deserialise_data_packet(d, block_size)
    /\ finished' = (finished \/ deserialise_error_packet(d, block_size))
    /\ UNCHANGED <<state, final_ack, timeout_count, block_number, file, acked,
                   silent, completed, readVars, life>>

handle_read ==
    \/ TimedOut \/ NothingRead \/ RecvThrows
    \/ AckReceived \/ NoAckReceived
    \/ \E outcome \in {"ok", "error", "exception", "hung"} : DataWritten(outcome)
    \/ DataNotWritten \/ NoDataReceived

-----------------------------------------------------------------------------
(* handle_write *)

SendResults == {"sent", "again", "failed"}

(* A pending socket error makes send fail, and is consumed by it.          *)
send(result, packet) ==
    /\ sock_err => result = "failed"
    /\ sock_err' = FALSE
    /\ sent' = IF result = "sent" THEN sent \cup {packet} ELSE sent
    /\ UNCHANGED inbox

Packet(op, num) == [op |-> op, num |-> num, idx |-> Len(file), off |-> 0, len |-> 0]

AlwaysReads == TRUE
NeedsRead == ~pkt_ready

(* What read_in_to yields next, kept in _data_pkt.                         *)
NextBlock ==
    [num |-> block_number, idx |-> blocks_read + 1, off |-> read_pos,
     len |-> Smaller(block_size, FileSize - read_pos)]

(* The stdio calls on a stream that is not open crash; an I/O error is     *)
(* reported to the client.                                                 *)
ReadFails ==
    /\ ServeWrite
    /\ state = "SEND_DATA" /\ NeedsRead
    /\ state' = IF reader_open THEN "ERROR" ELSE state
    /\ life' = IF reader_open THEN life ELSE "segv"
    /\ UNCHANGED <<finished, final_ack, timeout_count, block_number, file, acked,
                   silent, completed, readVars, timer, inbox, sock_err, sent>>

SendData(result) ==
    LET pkt == IF NeedsRead THEN NextBlock ELSE data_pkt IN
    /\ ServeWrite
    /\ state = "SEND_DATA" /\ (NeedsRead => reader_open)
    /\ data_pkt' = pkt
    /\ pkt_ready' = TRUE
    /\ IF NeedsRead
       THEN /\ read_pos' = read_pos + pkt.len
            /\ blocks_read' = blocks_read + 1
            /\ final_ack' = (final_ack \/ IsFinal(pkt.len))
       ELSE UNCHANGED <<read_pos, blocks_read, final_ack>>
    /\ send(result, [op |-> "DATA", num |-> pkt.num, idx |-> pkt.idx,
                     off |-> pkt.off, len |-> pkt.len])
    /\ state' = CASE result = "sent"   -> "WAIT_FOR_ACK"
                  [] result = "failed" -> "ERROR"
                  [] OTHER -> state
    /\ IF result = "sent" THEN arm_timer ELSE UNCHANGED timer
    /\ silent' = IF result = "sent" THEN silent + 1 ELSE silent
    /\ UNCHANGED <<finished, timeout_count, block_number, file, acked, completed, life>>

SendAck(result) ==
    /\ ServeWrite
    /\ state = "SEND_ACK"
    /\ send(result, Packet("ACK", block_number))
    /\ IF result = "sent"
       THEN /\ silent' = silent + 1
            /\ finished' = (finished \/ final_ack)
            /\ completed' = (completed \/ final_ack)
            /\ IF final_ack
               THEN UNCHANGED <<state, block_number, timer>>
               ELSE /\ block_number' = Inc(block_number)
                    /\ state' = "WAIT_FOR_DATA"
                    /\ arm_timer
       ELSE /\ state' = IF result = "failed" THEN "ERROR" ELSE state
            /\ UNCHANGED <<silent, finished, completed, block_number, timer>>
    /\ UNCHANGED <<final_ack, timeout_count, file, acked, readVars, life>>

(* The timer is not armed while the answer to an OACK is awaited.          *)
SendOack(result) ==
    /\ ServeWrite
    /\ state = "SEND_OACK"
    /\ send(result, Packet("OACK", 0))
    /\ state' = IF result # "sent" THEN state
                ELSE IF type = "READ" THEN "WAIT_FOR_ACK" ELSE "WAIT_FOR_DATA"
    /\ finished' = (finished \/ result = "failed")
    /\ silent' = IF result = "sent" THEN silent + 1 ELSE silent
    /\ UNCHANGED <<final_ack, timeout_count, block_number, file, acked, completed,
                   readVars, timer, life>>

(* A waiting state is a bug of the caller: the handler throws.             *)
SendError(result) ==
    /\ ServeWrite
    /\ state \notin {"SEND_DATA", "SEND_ACK", "SEND_OACK"}
    /\ IF state = "ERROR"
       THEN /\ send(result, Packet("ERROR", 0))
            /\ finished' = (finished \/ result # "again")
            /\ UNCHANGED life
       ELSE /\ life' = "error_state"
            /\ UNCHANGED <<finished, inbox, sock_err, sent>>
    /\ UNCHANGED <<state, final_ack, timeout_count, block_number, file, acked,
                   silent, completed, readVars, timer>>

handle_write(result) ==
    SendData(result) \/ SendAck(result) \/ SendOack(result) \/ SendError(result)

-----------------------------------------------------------------------------
(* The event loop of tftp_server::start, as this session sees it.          *)

Events == {"timer_in", "sd_in", "sd_out", "sd_err"}

(* EPOLLERR is always reported; it reaches the error branch only without   *)
(* EPOLLIN or EPOLLOUT, the latter missing while the send buffer is full.  *)
Ready ==
    {e \in Events :
        \/ e = "timer_in" /\ timer = "expired"
        \/ e = "sd_in"    /\ interest = "IN" /\ inbox # <<>>
        \/ e = "sd_out"   /\ interest = "OUT"
        \/ e = "sd_err"   /\ sock_err /\ (interest = "OUT" \/ inbox = <<>>)}

(* Each descriptor has at most one event, in either order; the array may   *)
(* be too small for both.                                                  *)
Batches ==
    {<<e>> : e \in Ready}
        \cup {b \in Ready \X Ready : (b[1] = "timer_in") # (b[2] = "timer_in")}

(* Other sessions' events end the wait too, which matters to this session  *)
(* only when it is finished and was not erased.                            *)
EpollWait ==
    /\ life = "open" /\ polling
    /\ events' \in Batches \/ (finished /\ events' = <<>>)
    /\ polling' = FALSE
    /\ UNCHANGED <<requestVars, machineVars, kernelVars, interest, older, life, sent>>

SocketError ==
    /\ Serve({"sd_err"})
    /\ finished' = TRUE
    /\ UNCHANGED <<state, final_ack, timeout_count, block_number, file, acked,
                   silent, completed, readVars, timer, inbox, sock_err, life, sent>>

(* Erasing the session runs ~tftp_read_file, which asserts that no         *)
(* converted bytes are left over.                                          *)
ErasedLife ==
    IF /\ ~NDEBUG /\ type = "READ" /\ mode = "NETASCII"
       /\ blocks_read > 0 /\ read_pos < FileSize
    THEN {"closed", "abort"} ELSE {"closed"}

(* The clean-up pass: erasing the session just ahead in the list moves the *)
(* iterator past this one, which then stays until a later pass.            *)
Cleanup ==
    /\ life = "open" /\ ~polling /\ events = <<>>
    /\ polling' = TRUE
    /\ \/ /\ ~finished
          /\ UNCHANGED <<older, life>>
       \/ /\ finished /\ older > 0
          /\ older' = older - 1
          /\ UNCHANGED life
       \/ /\ finished
          /\ life' \in ErasedLife
          /\ UNCHANGED older
    /\ UNCHANGED <<requestVars, machineVars, kernelVars, events, interest, sent>>

-----------------------------------------------------------------------------
(* The environment: the client, the network and the clock.                 *)

Deliver(d) ==
    /\ life = "open" /\ budget > 0
    /\ budget' = budget - 1
    /\ inbox' = Append(inbox, d)
    /\ UNCHANGED <<requestVars, machineVars, timer, sock_err, loopVars, sent>>

IcmpError ==
    /\ life = "open" /\ budget > 0 /\ sent # {} /\ ~sock_err
    /\ budget' = budget - 1
    /\ sock_err' = TRUE
    /\ UNCHANGED <<requestVars, machineVars, timer, inbox, loopVars, sent>>

TimerExpires ==
    /\ life = "open" /\ timer = "armed"
    /\ timer' = "expired"
    /\ UNCHANGED <<requestVars, machineVars, inbox, sock_err, budget, loopVars, sent>>

Ended ==
    /\ life # "open"
    /\ UNCHANGED vars

-----------------------------------------------------------------------------
Init ==
    /\ \E r \in Requests, mtu \in MtuResults, opened \in BOOLEAN :
            Constructed(r, mtu, opened)
    /\ finished = FALSE /\ final_ack = FALSE /\ pkt_ready = FALSE
    /\ timeout_count = 0
    /\ data_pkt = [num |-> 0, idx |-> 0, off |-> 0, len |-> 0]
    /\ read_pos = 0 /\ file = <<>>
    /\ timer = "off" /\ inbox = <<>> /\ sock_err = FALSE /\ budget = MaxDatagrams
    /\ polling = TRUE /\ events = <<>> /\ interest = InterestOf(state)
    /\ older \in 0 .. OlderConnections
    /\ life = "open"
    /\ sent = {} /\ blocks_read = 0 /\ acked = 0 /\ silent = 0 /\ completed = FALSE

Dispatch ==
    /\ \/ handle_read
       \/ ReadFails \/ (\E result \in SendResults : handle_write(result))
       \/ SocketError
    /\ epoll_ctl_mod

Next ==
    \/ EpollWait \/ Dispatch \/ Cleanup
    \/ (\E d \in Datagrams : Deliver(d)) \/ IcmpError \/ TimerExpires
    \/ Ended

Spec == Init /\ [][Next]_vars

(* The loop keeps running, time passes, and the kernel does not refuse     *)
(* every send for ever.  Nothing is assumed of the client or the network.  *)
Fairness ==
    /\ WF_vars(EpollWait) /\ WF_vars(Dispatch) /\ WF_vars(Cleanup)
    /\ WF_vars(TimerExpires)
    /\ SF_vars(handle_write("sent") /\ epoll_ctl_mod)

FairSpec == Spec /\ Fairness

-----------------------------------------------------------------------------
States == SendStates \cup WaitStates

DataPackets == [num : BlockNumbers, idx : Nat, off : Nat, len : Nat]
Packets == [op : {"DATA", "ACK", "OACK", "ERROR"}, num : BlockNumbers,
            idx : Nat, off : Nat, len : Nat]

RequestType ==
    /\ type \in {"READ", "WRITE"} /\ mode \in {"OCTET", "NETASCII"}
    /\ block_size \in Nat
    /\ oack_packet \subseteq {"BLKSIZE", "TSIZE", "TIMEOUT"}

FlagType ==
    /\ reader_open \in BOOLEAN /\ finished \in BOOLEAN /\ final_ack \in BOOLEAN
    /\ pkt_ready \in BOOLEAN /\ sock_err \in BOOLEAN /\ polling \in BOOLEAN
    /\ completed \in BOOLEAN

MachineType ==
    /\ state \in States
    /\ timeout_count \in 0 .. MAX_TIMEOUTS
    /\ block_number \in BlockNumbers
    /\ silent \in Nat

FileType ==
    /\ data_pkt \in DataPackets
    /\ read_pos \in 0 .. FileSize
    /\ file \in Seq([num : BlockNumbers, len : Nat, stored : Nat])
    /\ blocks_read \in Nat
    /\ acked \in Nat
    /\ sent \subseteq Packets

LoopType ==
    /\ timer \in {"off", "armed", "expired"}
    /\ inbox \in Seq(Datagrams)
    /\ budget \in 0 .. MaxDatagrams
    /\ events \in Seq(Events)
    /\ interest \in {"IN", "OUT"}
    /\ older \in 0 .. OlderConnections
    /\ life \in {"open", "closed", "abort", "exception", "hung", "segv", "error_state"}

(* Every variable keeps its type; in particular the block number stays in  *)
(* the range of a uint16_t, the retry counter never passes MAX_TIMEOUTS,   *)
(* and the reader never yields more than the file holds.                   *)
TypeOK == RequestType /\ FlagType /\ MachineType /\ FileType /\ LoopType

(* Lock-step: a READ session never sends block k + 1 before the client has *)
(* acknowledged blocks 1 to k, whatever duplicated, old or foreign numbers *)
(* arrive, and across the wrap of the block number (handle_read,           *)
(* WAIT_FOR_ACK).                                                          *)
StopAndWait == \A p \in sent : p.op = "DATA" => p.idx <= acked + 1

(* Every DATA sent, retransmissions included, carries the number of its    *)
(* block modulo the width of the counter, and the bytes of that block of   *)
(* the file and no other (handle_write, SEND_DATA; _pkt_ready).            *)
DataFidelity ==
    \A p \in sent : p.op = "DATA" =>
        /\ p.num = p.idx % Modulus
        /\ p.off = (p.idx - 1) * block_size
        /\ p.len = Smaller(block_size, FileSize - p.off)

(* A READ session reports success only when the client acknowledged every  *)
(* block of the file, the final short one (possibly empty) included        *)
(* (_final_ack).                                                           *)
ReadComplete ==
    completed /\ type = "READ" => acked * block_size > FileSize

(* An ACK of block n is sent only when n blocks are stored (_file_writer,  *)
(* SEND_ACK); after an OACK the code counts blocks from 0, so that n + 1   *)
(* are.                                                                    *)
AckMeansStored ==
    LET first == IF oack_packet = {} THEN 1 ELSE 0 IN
    \A p \in sent : p.op = "ACK" => p.num = (first + p.idx - 1) % Modulus

(* A session that is not being closed has sent at most MAX_TIMEOUTS + 1    *)
(* packets since it last heard from its client (_timeout_count).           *)
RetryBound == ~finished => silent <= MAX_TIMEOUTS + 1

(* handle_write is never entered in a waiting state, so the server is      *)
(* never ended by the exception "Error state" (handle_write, default): the *)
(* registration for EPOLLOUT and the events already fetched stay in step   *)
(* with the state machine.                                                 *)
NoErrorState == life # "error_state"

(* A session ends, even when the client vanishes: it is erased, or the     *)
(* server itself ends (handle_read, timeouts; tftp_server::start).  A      *)
(* handler that never returns is no end.                                   *)
SessionEnds == <>(life \notin {"open", "hung"})

(* A session that stores a file ends too, with one exception: on a failing *)
(* disk the OCTET loop of tftp_write_file::write turns for ever, and the   *)
(* session keeps its place and the server's thread.                        *)
WriteSessionEnds == SessionEnds \/ <>[](life = "hung" /\ mode = "OCTET")

-----------------------------------------------------------------------------
(* What the sources say and the code does not do; each is refuted by TLC.  *)

(* assert(false) in retransmit: a time-out is served only in a waiting     *)
(* state.                                                                  *)
AssertionHolds == life # "abort"

(* "IE the client retransmitted": an acknowledgement of the previous block *)
(* makes the session send the current block again.                         *)
PreviousAckResends ==
    [][state = "WAIT_FOR_ACK" /\ inbox # <<>> /\ inbox' = Tail(inbox)
       /\ Head(inbox).op = "ACK" /\ Inc(Head(inbox).num) = block_number
       => state' = "SEND_DATA"]_vars

(* A DATA packet carries up to a block of data after its header, and the   *)
(* file holds all of it.                                                   *)
WholeBlockStored ==
    \A i \in 1 .. Len(file) : file[i].len <= block_size => file[i].stored = file[i].len
=============================================================================
