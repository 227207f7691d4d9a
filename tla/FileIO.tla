-------------------------------- MODULE FileIO --------------------------------
(***************************************************************************)
(* A file on its way into and out of blocks, byte by byte.  In a READ      *)
(* tftp_read_file cuts it into blocks, converting it to netascii if asked  *)
(* to; get_file converts each block back and writes it to its output       *)
(* stream, or a client of another make takes the blocks.  In a WRITE a     *)
(* session receives the blocks of any client and stores them through       *)
(* tftp_write_file.  Blocks arrive one by one and in order (modules        *)
(* GetFile and ServerConnection), and the receiver's disk may fail.        *)
(***************************************************************************)
EXTENDS Naturals, SequencesExt

CONSTANTS
    BlockSize,       \* the size_bytes of every read_in_to, and _block_size
    HeaderSize,      \* opcode and block number of a DATA packet
    MaxLength,       \* bound: bytes of the file
    MaxFaults        \* bound: failing calls of fwrite and ofstream::write

ASSUME FileAssumption ==
    /\ BlockSize \in Nat \ {0} /\ HeaderSize \in 1 .. BlockSize
    /\ MaxLength \in Nat /\ MaxFaults \in Nat

(* Carriage return, line feed, zero, and any other byte.                   *)
Bytes == {"CR", "LF", "NUL", "x"}

VARIABLES
    mode,            \* "OCTET" or "NETASCII", for both ends
    peer,            \* who takes the blocks: "get_file", another ("foreign")
                     \* client, or a "session" that serves a WRITE
    source,          \* the file that is read; in a WRITE, what the client sends
    \* tftp_read_file
    pos,             \* the stream's position
    feof,            \* the stream's end-of-file indicator
    overflow,        \* _overflow_buffer
    blocks,          \* history: what read_in_to or recv returned, call by call
    \* the receiver: get_file's out_file, or tftp_write_file
    data,            \* the converted block of the write in progress
    bytes_written,   \* tftp_write_file only
    stored,          \* what the output stream has taken
    ferror,          \* the stream's error state (in get_file, badbit)
    faults,
    full,            \* the disk is full, for good
    pc               \* "read", "store" (get_file), "write" (session), "end",
                     \* "failed", "exception"

readerVars == <<mode, peer, source, pos, feof, overflow, blocks>>
writerVars == <<data, bytes_written, stored, ferror, faults, full>>
vars == <<readerVars, writerVars, pc>>

-----------------------------------------------------------------------------
(* utils *)

KeepsCarriageReturn(c) == IF c = "LF" THEN <<"CR", "LF">> ELSE <<c>>
NetasciiOf(c) ==
    CASE c = "LF" -> <<"CR", "LF">>
      [] c = "CR" -> <<"CR", "NUL">>
      [] OTHER    -> <<c>>

native_to_netascii(s) == FlattenSeq([i \in DOMAIN s |-> NetasciiOf(s[i])])

(* Every CR is followed by LF or NUL; otherwise the conversion throws.     *)
IsNetascii(s) ==
    \A i \in DOMAIN s : s[i] = "CR" => i < Len(s) /\ s[i + 1] \in {"LF", "NUL"}

(* CR LF becomes LF, CR NUL becomes CR.                                    *)
netascii_to_native(s) ==
    LET from[i \in 1 .. Len(s) + 2] ==
            IF i > Len(s) THEN <<>>
            ELSE IF s[i] # "CR" THEN <<s[i]>> \o from[i + 1]
            ELSE IF s[i + 1] = "NUL" THEN <<"CR">> \o from[i + 2]
            ELSE from[i + 1]
    IN from[1]

Encoded(s) == IF mode = "OCTET" THEN s ELSE native_to_netascii(s)
Decoded(s) == IF mode = "OCTET" THEN s ELSE netascii_to_native(s)

-----------------------------------------------------------------------------
(* tftp_read_file *)

ForgetsOverflow(size) == size
BytesFromFile(size) == size - Len(overflow)

(* What does not fit into the block is kept for the next one.              *)
DropsRest(ret, size) == <<>>
Rest(ret, size) == SubSeq(ret, size + 1, Len(ret))

ShortByOne(ret, size) == SubSeq(ret, 1, IF Len(ret) < size THEN Len(ret) ELSE size - 1)
FirstBytes(ret, size) == SubSeq(ret, 1, IF Len(ret) <= size THEN Len(ret) ELSE size)

(* fread stops short only at the end of the file.                          *)
read_in_to(size) ==
    LET want == BytesFromFile(size)
        n    == IF feof THEN 0
                ELSE IF want <= Len(source) - pos THEN want ELSE Len(source) - pos
        ret  == overflow \o Encoded(SubSeq(source, pos + 1, pos + n))
    IN
    /\ pos' = pos + n
    /\ feof' = (feof \/ n < want)
    /\ overflow' = Rest(ret, size)
    /\ blocks' = Append(blocks, FirstBytes(ret, size))
    /\ UNCHANGED <<mode, peer, source>>

(* A short block is the last one, for the sender and for the receiver.     *)
FullBlockIsLast(block) == IF Len(block) <= BlockSize THEN "end" ELSE "read"
AfterBlock(block) == IF Len(block) < BlockSize THEN "end" ELSE "read"

(* The receiver converts a block before it writes it, or throws.           *)
Convert(block, next) ==
    IF mode = "NETASCII" /\ ~IsNetascii(block)
    THEN pc' = "exception" /\ UNCHANGED data
    ELSE pc' = next /\ data' = Decoded(block)

(* A session of a READ reads a block, and the client receives it.          *)
Read ==
    /\ pc = "read" /\ peer # "session"
    /\ read_in_to(BlockSize)
    /\ bytes_written' = 0
    /\ IF peer = "foreign"
       THEN pc' = AfterBlock(Last(blocks')) /\ UNCHANGED data
       ELSE Convert(Last(blocks'), "store")
    /\ UNCHANGED <<stored, ferror, faults, full>>

(* The caller checks error().                                              *)
ReadFails ==
    /\ pc = "read" /\ peer # "session"
    /\ pc' = "failed"
    /\ UNCHANGED <<readerVars, writerVars>>

-----------------------------------------------------------------------------
(* get_file writes the block to out_file, whose state it never tests: once *)
(* a write has failed, the later ones do nothing.                          *)

Store ==
    /\ pc = "store"
    /\ stored' = IF ferror THEN stored ELSE stored \o data
    /\ pc' = AfterBlock(Last(blocks))
    /\ UNCHANGED <<readerVars, data, bytes_written, ferror, faults, full>>

StoreFails(k) ==
    /\ pc = "store" /\ ~ferror /\ faults < MaxFaults
    /\ k < Len(data)
    /\ stored' = stored \o SubSeq(data, 1, k)
    /\ ferror' = TRUE
    /\ faults' = faults + 1
    /\ pc' = AfterBlock(Last(blocks))
    /\ UNCHANGED <<readerVars, data, bytes_written, full>>

-----------------------------------------------------------------------------
(* A session of a WRITE.  The client puts up to a block of data behind the *)
(* header, and recv(_block_size) cuts the datagram.                        *)

RecvData == BlockSize - HeaderSize

Receive ==
    LET payload == FirstBytes(SubSeq(source, pos + 1, Len(source)), BlockSize) IN
    /\ pc = "read" /\ peer = "session"
    /\ pos' = pos + Len(payload)
    /\ blocks' = Append(blocks, FirstBytes(payload, RecvData))
    /\ bytes_written' = 0
    /\ Convert(Last(blocks'), "write")
    /\ UNCHANGED <<mode, peer, source, feof, overflow, stored, ferror, faults, full>>

(* tftp_write_file *)

(* One call of fwrite: it takes k bytes, always from the start of the      *)
(* block, and sets the error indicator when that is not all it was given.  *)
fwrite(k) ==
    /\ stored' = stored \o SubSeq(data, 1, k)
    /\ bytes_written' = bytes_written + k
    /\ ferror' = (ferror \/ k < Len(data) - bytes_written)

(* The netascii loop tests ferror, the octet loop does not.                *)
NeverTestsError == bytes_written >= Len(data)
LoopEnds ==
    \/ bytes_written >= Len(data)
    \/ mode = "NETASCII" /\ ferror

Write ==
    /\ pc = "write" /\ ~LoopEnds
    /\ fwrite(IF full THEN 0 ELSE Len(data) - bytes_written)
    /\ UNCHANGED <<readerVars, data, faults, full, pc>>

WriteFails(k) ==
    /\ pc = "write" /\ ~LoopEnds /\ ~full /\ faults < MaxFaults
    /\ k < Len(data) - bytes_written
    /\ fwrite(k)
    /\ faults' = faults + 1
    /\ full' \in BOOLEAN
    /\ UNCHANGED <<readerVars, data, pc>>

(* The session checks error(), and takes a short block for the last one.   *)
IgnoresError == FALSE
WriteError == ferror

WriteReturns ==
    /\ pc = "write" /\ LoopEnds
    /\ pc' = IF WriteError THEN "failed" ELSE AfterBlock(Last(blocks))
    /\ UNCHANGED <<readerVars, writerVars>>

Ended ==
    /\ pc \in {"end", "failed", "exception"}
    /\ UNCHANGED vars

-----------------------------------------------------------------------------
Init ==
    /\ mode \in {"OCTET", "NETASCII"} /\ peer \in {"get_file", "foreign", "session"}
    /\ source \in BoundedSeq(Bytes, MaxLength)
    /\ pos = 0 /\ feof = FALSE /\ overflow = <<>> /\ blocks = <<>>
    /\ data = <<>> /\ bytes_written = 0 /\ stored = <<>>
    /\ ferror = FALSE /\ faults = 0 /\ full = FALSE
    /\ pc = "read"

Next ==
    \/ Read \/ ReadFails \/ Store \/ Receive \/ Write \/ WriteReturns
    \/ (\E k \in 0 .. BlockSize : StoreFails(k) \/ WriteFails(k))
    \/ Ended

Spec == Init /\ [][Next]_vars

(* The thread runs.  A disk that is not full takes a block in the end.     *)
FairSpec == Spec /\ WF_vars(Read \/ Store \/ Receive \/ Write \/ WriteReturns)

-----------------------------------------------------------------------------
(* The types, and the capacity that read_in_to relies on when it subtracts *)
(* the size of the overflow from an unsigned size_bytes: what is left over *)
(* from a block always fits into the next one.                             *)
TypeOK ==
    /\ mode \in {"OCTET", "NETASCII"} /\ peer \in {"get_file", "foreign", "session"}
    /\ source \in Seq(Bytes) /\ pos \in 0 .. Len(source) /\ feof \in BOOLEAN
    /\ overflow \in Seq(Bytes) /\ Len(overflow) <= BlockSize
    /\ \A i \in DOMAIN blocks : blocks[i] \in Seq(Bytes) /\ Len(blocks[i]) <= BlockSize
    /\ data \in Seq(Bytes) /\ stored \in Seq(Bytes)
    /\ bytes_written \in 0 .. Len(data)
    /\ ferror \in BOOLEAN /\ faults \in 0 .. MaxFaults /\ full \in BOOLEAN
    /\ pc \in {"read", "store", "write", "end", "failed", "exception"}

(* The blocks, and what is kept for the next one, are the converted bytes  *)
(* read so far: none is lost, repeated or moved where a conversion         *)
(* straddles two blocks (read_in_to, _overflow_buffer).                    *)
BlocksExact ==
    peer # "session" =>
        FlattenSeq(blocks) \o overflow = Encoded(SubSeq(source, 1, pos))

(* A block is short only when the file is used up and nothing is left in   *)
(* the overflow buffer, so that the transfer does not end early and the    *)
(* assertion in ~tftp_read_file holds after a complete one.                *)
ShortMeansEnd ==
    peer # "session" /\ blocks # <<>> /\ Len(Last(blocks)) < BlockSize
        => pos = Len(source) /\ overflow = <<>>

(* When get_file's loop ends and no write to out_file has failed, its      *)
(* output is the file the session read, byte for byte, through the         *)
(* conversion at both ends.  (A failed write is never noticed: get_file    *)
(* does not test out_file.)                                                *)
ArrivesWhole == pc = "end" /\ peer = "get_file" /\ ~ferror => stored = source

(* What a session acknowledges is stored byte for byte: a block after      *)
(* which it goes on, or ends, is in the file as recv returned it, although *)
(* write starts again at the beginning of the block after a short fwrite   *)
(* (tftp_write_file::write, and the check of error() in handle_read).      *)
StoredExact ==
    peer = "session" /\ pc \in {"read", "end"} => stored = Decoded(FlattenSeq(blocks))

(* The converter of get_file throws on nothing the reader produces but a   *)
(* CR at the end of a block, whose LF or NUL is kept for the next one.     *)
OnlySplitPairThrows ==
    peer = "get_file" /\ pc = "exception" =>
        /\ Last(Last(blocks)) = "CR"
        /\ overflow # <<>> /\ Head(overflow) \in {"LF", "NUL"}

(* Reading and writing a file ends, with one exception: on a full disk the *)
(* octet loop of a session's write turns for ever.  The netascii loop does *)
(* not.                                                                    *)
FileEnds ==
    \/ <>(pc \in {"end", "failed", "exception"})
    \/ <>[](full /\ mode = "OCTET" /\ peer = "session" /\ pc = "write")
=============================================================================
