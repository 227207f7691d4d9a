-------------------------------- MODULE GetFile --------------------------------
(***************************************************************************)
(* tftp_client::get_file together with the session that serves it.  The    *)
(* model starts when the session has been constructed for the client's     *)
(* request.  Datagrams are lost, delayed, reordered and duplicated: each   *)
(* end may read anything the other has ever sent, at any time and any      *)
(* number of times.  (A second session, made for a duplicated request, can *)
(* only add another copy of block 1, before the client connects.)          *)
(***************************************************************************)
EXTENDS ServerConnection

VARIABLES
    c_pc,            \* "first": in recv_from, "recv": in recv,
                     \* "store": a block is acknowledged and not yet written,
                     \* "returned"
    c_result,        \* "none", "true", "false" or "exception"
    c_block_number,
    c_packet,        \* data_packet
    c_file,          \* blocks written to out_file, in order
    c_bad,           \* out_file's badbit: this and all later writes fail
    c_sent,          \* datagrams sent to the session
    accepted         \* history: blocks accepted and acknowledged

clientVars == <<c_pc, c_result, c_block_number, c_packet, c_file, c_bad, c_sent, accepted>>

(* Blocks of the file; the last one is short, possibly empty.              *)
NumBlocks == FileSize \div DefaultBlockSize + 1

(* The client sends no options.  Files are shorter than a round of block   *)
(* numbers: after that an old duplicate cannot be told from a new block.   *)
ASSUME GetAssumption ==
    /\ NumBlocks < Modulus
    /\ \A r \in Requests : /\ r.type = "READ" /\ r.blksize = NoOption
                           /\ ~r.tsize /\ r.timeout = NoOption
    /\ \A n \in 0 .. NumBlocks : [op |-> "ACK", num |-> n, len |-> 0] \in Datagrams

DATA_PKT_DATA_MAX_SIZE == DefaultBlockSize
DATA_PKT_MAX_SIZE == HeaderSize + DATA_PKT_DATA_MAX_SIZE

-----------------------------------------------------------------------------
Return(result) ==
    /\ c_pc' = "returned"
    /\ c_result' = result

AnyData(p) == deserialise_data_packet(p, DATA_PKT_MAX_SIZE)
IsExpected(p) ==
    deserialise_data_packet(p, DATA_PKT_MAX_SIZE) /\ p.num = c_block_number

(* The block is acknowledged before it is written.  A failing send goes    *)
(* unnoticed, like a lost datagram.                                        *)
Acknowledge(p) ==
    /\ c_packet' = p
    /\ c_sent' = c_sent \cup {[op |-> "ACK", num |-> c_block_number, len |-> 0]}
    /\ c_block_number' = Inc(c_block_number)
    /\ accepted' = accepted + 1
    /\ c_pc' = "store"
    /\ UNCHANGED <<c_result, c_file, c_bad>>

GiveUp(result) ==
    /\ Return(result)
    /\ UNCHANGED <<c_block_number, c_packet, c_file, c_bad, c_sent, accepted>>

(* The first answer, from any port; then the output file is opened and the *)
(* socket connected.                                                       *)
ReceiveFirst(p) ==
    /\ c_pc = "first"
    /\ IF IsExpected(p) THEN Acknowledge(p) \/ GiveUp("false") ELSE GiveUp("false")

(* The poll before recv waits for POLLOUT, which is always there: its      *)
(* time-out never happens, and recv blocks.                                *)
ReceiveNext(p) ==
    /\ c_pc = "recv"
    /\ IF IsExpected(p) THEN Acknowledge(p) ELSE GiveUp("false")

(* The session's socket is closed and an ACK to it was answered by ICMP.   *)
ReceiveThrows ==
    /\ c_pc = "recv"
    /\ life \notin {"open", "hung"}
    /\ GiveUp("exception")

(* netascii_to_native throws on a block that ends in the middle of a pair; *)
(* a failing write is not noticed.                                         *)
IsLastWhenFull(p) == p.len <= DATA_PKT_DATA_MAX_SIZE
IsLast(p) == p.len < DATA_PKT_DATA_MAX_SIZE

StoreBlock ==
    /\ c_pc = "store"
    /\ c_bad' \in {c_bad, TRUE}
    /\ c_file' = IF c_bad' THEN c_file ELSE Append(c_file, c_packet)
    /\ IF IsLast(c_packet)
       THEN Return("true")
       ELSE c_pc' = "recv" /\ UNCHANGED c_result
    /\ UNCHANGED <<c_block_number, c_packet, c_sent, accepted>>

StoreThrows ==
    /\ c_pc = "store" /\ mode = "NETASCII"
    /\ GiveUp("exception")

-----------------------------------------------------------------------------
GetInit ==
    /\ Init
    /\ c_pc = "first" /\ c_result = "none"
    /\ c_block_number = 1
    /\ c_packet = [op |-> "DATA", num |-> 0, idx |-> 0, off |-> 0, len |-> 0]
    /\ c_file = <<>> /\ c_bad = FALSE
    /\ c_sent = {} /\ accepted = 0

ClientStep ==
    /\ \/ \E p \in sent : ReceiveFirst(p) \/ ReceiveNext(p)
       \/ ReceiveThrows \/ StoreBlock \/ StoreThrows
    /\ UNCHANGED vars

(* The host answers the session's datagrams by ICMP once get_file has      *)
(* returned and its socket is closed.                                      *)
ServerStep ==
    /\ \/ EpollWait \/ Dispatch \/ Cleanup \/ TimerExpires
       \/ (\E d \in c_sent : Deliver(d))
       \/ (c_pc = "returned" /\ IcmpError)
       \/ Ended
    /\ UNCHANGED clientVars

GetNext == ClientStep \/ ServerStep

allVars == <<vars, clientVars>>

GetSpec == GetInit /\ [][GetNext]_allVars

-----------------------------------------------------------------------------
(* The client's variables keep their types; its block number is that of    *)
(* the block after the accepted ones.                                      *)
GetTypeOK ==
    /\ c_pc \in {"first", "recv", "store", "returned"}
    /\ c_result \in {"none", "true", "false", "exception"}
    /\ (c_result = "none") = (c_pc # "returned")
    /\ c_bad \in BOOLEAN
    /\ accepted \in 0 .. NumBlocks
    /\ c_block_number = (accepted + 1) % Modulus
    /\ c_packet \in Packets
    /\ c_file \in Seq(Packets)
    /\ c_sent \subseteq Datagrams

(* What the client has written is always a prefix of the session's file,   *)
(* block by block and byte by byte, whatever the network delivers again,   *)
(* late or out of order (get_file, the check of block_number).             *)
GetPrefix ==
    \A i \in DOMAIN c_file :
        /\ c_file[i].off = (i - 1) * DefaultBlockSize
        /\ c_file[i].len = Smaller(DefaultBlockSize, FileSize - c_file[i].off)

(* get_file returns true only after it accepted every block of the file.   *)
(* All of them are then in its output, unless a write failed: the state of *)
(* out_file is never looked at, and true is returned all the same.         *)
GetWhole ==
    c_result = "true" => accepted = NumBlocks /\ (c_bad \/ Len(c_file) = NumBlocks)

(* A session that ends with its final acknowledgement has a client that    *)
(* accepted every block, although acknowledgements are repeated and late   *)
(* (handle_read, WAIT_FOR_ACK, against get_file's loop).                   *)
ServerSuccess == completed => accepted = NumBlocks

(* The blocks the session has moved past.                                  *)
Confirmed ==
    IF completed THEN NumBlocks ELSE blocks_read - (IF pkt_ready THEN 1 ELSE 0)

(* The session is the sender, the client the receiver.                     *)
Transfer == INSTANCE FileTransfer WITH
    Blocks    <- NumBlocks,
    received  <- accepted,
    confirmed <- Confirmed,
    receiver  <- CASE c_result = "none" -> "active"
                   [] c_result = "true" -> "done"
                   [] OTHER -> "failed",
    sender    <- IF completed THEN "done"
                 ELSE IF life = "open" THEN "active" ELSE "failed"

(* get_file and the session together implement the abstract transfer: a    *)
(* block is sent only when those before it are confirmed, confirmed only   *)
(* when it has arrived, and success is reported, by either end, only for   *)
(* the whole file.                                                         *)
ImplementsTransfer == Transfer!Spec
=============================================================================
