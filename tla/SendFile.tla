-------------------------------- MODULE SendFile -------------------------------
(***************************************************************************)
(* tftp_client::send_file together with the session that serves it, over a *)
(* network that loses, delays, reorders and duplicates datagrams, as in    *)
(* GetFile.                                                                *)
(***************************************************************************)
EXTENDS ServerConnection

CONSTANT LocalSize   \* bytes of the client's file

VARIABLES
    c_pc,            \* "first": in recv_from, "send": about to send a block,
                     \* "wait": in recv, "returned"
    c_result,        \* "none", "true", "false" or "exception"
    c_block_number,
    c_pos,           \* bytes read from in_file
    c_data,          \* size of the data of the packet to be sent next
    c_finished,      \* finished: the packet last sent was short
    c_sent,          \* datagrams sent to the session
    c_blocks         \* history: blocks sent

clientVars == <<c_pc, c_result, c_block_number, c_pos, c_data, c_finished, c_sent, c_blocks>>

DATA_PKT_DATA_MAX_SIZE == DefaultBlockSize
DATA_PKT_MAX_SIZE == HeaderSize + DATA_PKT_DATA_MAX_SIZE

(* What native_to_netascii may make of len bytes.                          *)
Converted(len) == IF mode = "NETASCII" THEN len .. 2 * len ELSE {len}

(* in_file.read of a block, and the conversion of what was read.           *)
ReadBlock ==
    LET len == Smaller(DATA_PKT_DATA_MAX_SIZE, LocalSize - c_pos) IN
    /\ c_pos' = c_pos + len
    /\ c_data' \in Converted(len)

GiveUp(result) ==
    /\ c_pc' = "returned"
    /\ c_result' = result
    /\ UNCHANGED <<c_block_number, c_pos, c_data, c_finished, c_sent, c_blocks>>

(* The answer to the request; then the file is opened and its first block  *)
(* read, where a short read counts as an error.                            *)
FirstAck(p) ==
    /\ c_pc = "first"
    /\ deserialise_ack_packet(p, DATA_PKT_MAX_SIZE) /\ p.num = 0
    /\ LocalSize >= DATA_PKT_DATA_MAX_SIZE
    /\ c_pc' = "send"
    /\ c_block_number' = 1
    /\ ReadBlock
    /\ UNCHANGED <<c_result, c_finished, c_sent, c_blocks>>

FirstFails(p) ==
    /\ c_pc = "first"
    /\ GiveUp("false")

(* A block is sent and the next one read.                                  *)
SendBlock ==
    /\ c_pc = "send"
    /\ c_finished' = (c_data < DATA_PKT_DATA_MAX_SIZE)
    /\ c_sent' = c_sent \cup {[op |-> "DATA", num |-> c_block_number, len |-> c_data]}
    /\ c_block_number' = Inc(c_block_number)
    /\ c_blocks' = c_blocks + 1
    /\ ReadBlock
    /\ c_pc' = "wait"
    /\ UNCHANGED c_result

ReadError ==
    /\ c_pc = "send"
    /\ c_sent' = c_sent \cup {[op |-> "DATA", num |-> c_block_number, len |-> c_data]}
    /\ c_pc' = "returned" /\ c_result' = "false"
    /\ c_block_number' = Inc(c_block_number)
    /\ c_blocks' = c_blocks + 1
    /\ c_finished' = (c_data < DATA_PKT_DATA_MAX_SIZE)
    /\ UNCHANGED <<c_pos, c_data>>

(* Any acknowledgement counts: the number compared with block_number is    *)
(* that of the packet to be sent.                                          *)
ReceiveAck(p) ==
    /\ c_pc = "wait"
    /\ deserialise_ack_packet(p, ACK_PKT_MAX_SIZE)
    /\ c_pc' = IF c_finished THEN "returned" ELSE "send"
    /\ c_result' = IF c_finished THEN "true" ELSE c_result
    /\ UNCHANGED <<c_block_number, c_pos, c_data, c_finished, c_sent, c_blocks>>

ReceiveOther(p) ==
    /\ c_pc = "wait"
    /\ ~deserialise_ack_packet(p, ACK_PKT_MAX_SIZE)
    /\ GiveUp("false")

ReceiveThrows ==
    /\ c_pc = "wait"
    /\ life \notin {"open", "hung"}
    /\ GiveUp("exception")

-----------------------------------------------------------------------------
PutInit ==
    /\ Init
    /\ c_pc = "first" /\ c_result = "none"
    /\ c_block_number = 0 /\ c_pos = 0 /\ c_data = 0
    /\ c_finished = FALSE /\ c_sent = {} /\ c_blocks = 0

ClientStep ==
    /\ \/ \E p \in sent : FirstAck(p) \/ FirstFails(p) \/ ReceiveAck(p) \/ ReceiveOther(p)
       \/ SendBlock \/ ReadError \/ ReceiveThrows
    /\ UNCHANGED vars

ServerStep ==
    /\ \/ EpollWait \/ Dispatch \/ Cleanup \/ TimerExpires
       \/ (\E d \in c_sent : Deliver(d))
       \/ (c_pc = "returned" /\ IcmpError)
       \/ Ended
    /\ UNCHANGED clientVars

PutNext == ClientStep \/ ServerStep

PutSpec == PutInit /\ [][PutNext]_<<vars, clientVars>>

-----------------------------------------------------------------------------
(* "Received unexpected block number" (send_file, the check after an       *)
(* acknowledgement) says that the acknowledgement of another block is an   *)
(* error, so that success means that the session has stored every block.   *)
PutMeansStored == c_result = "true" => Len(file) = c_blocks
=============================================================================
