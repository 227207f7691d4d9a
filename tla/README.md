# A TLA+ verification of cpp-tftp

cpp-tftp is a TFTP server and client. The server is one thread: an epoll loop
drives a listening socket and a list of sessions, each with a connected UDP
socket, a timer and a file. What makes it hard to test is not the data but the
order of things: acknowledgements are lost, repeated and delayed, timers expire
while packets arrive, two events of one session are fetched together, and
sessions end while events for them are still pending. This project models that
control flow, model-checks it with TLC on small instances, and proves the
central properties with TLAPS for every value of the constants.

All source paths below are relative to the repository root.

## 1. Inventory

| Component (source) | State | Operations | Interacts with |
|---|---|---|---|
| `tftp_server_connection` (src/server) | state machine `_state`, `_block_number`, `_timeout_count`, `_final_ack`, `_finished`, `_data_pkt` and `_pkt_ready`, negotiated `_block_size`, OACK packet | constructor (`is_operation_allowed`, `process_options`), `handle_read`, `handle_write`, `retransmit`, `wait_for_read`/`wait_for_write`, `set_finished` | event loop, socket, timer, reader or writer |
| `tftp_server` (src/server) | epoll set, list of sessions, exit flag | `start` (the loop and its clean-up pass), `stop` (from the signal handler) | sessions, connection handler |
| `tftp_connection_handler` (src/server) | listening socket, request queue | `handle_read`, `get_request`, `request_pending` | event loop |
| `timer` (src/common) | a timerfd | `arm_timer`, `disarm_timer` (never called), `has_expired` | session |
| `udp_connection` (src/common) | a UDP socket | `bind`, `connect`, `send`, `recv`, `recv_from` | session, handler, client |
| `tftp_read_file` (src/common) | a stream, netascii overflow buffer | `read_in_to` | session |
| `tftp_write_file` (src/common) | a stream | `write` | session |
| packet codec `tftp` (src/common) | none | `serialise_*`, `deserialise_*` | everybody |
| `utils` (src/common) | none | netascii conversions, sub-path test, MTU query | reader, writer, session |
| `tftp_client` (src/client) | socket, block number, file | `get_file`, `send_file` | server |

Calls go from the loop to the sessions and from those to their socket, timer and
file. The shared state is the list of sessions, to whose elements epoll events
hold raw pointers, and the registration (EPOLLIN or EPOLLOUT) of each session's
socket, which the loop refreshes after every event from the session's state.

What is hard, and which properties make each component correct:

* **Session.** Duplicated and old acknowledgements, the wrap of the 16-bit block
  number, time-outs racing with answers, a send that would block, an ICMP error
  pending on the socket, an event served in a state another event has changed.
  Correct means: lock-step (`StopAndWait`), the right bytes under the right
  number also when a packet is sent again (`DataFidelity`), success only for a
  complete file (`ReadComplete`), nothing acknowledged that is not stored
  (`AckMeansStored`), bounded retries (`RetryBound`), no write event in a waiting
  state (`NoErrorState`), and an end (`SessionEnds`, `WriteSessionEnds`).
* **Event loop and connection handler.** Sessions that finish while another of
  their events is pending, a full list, a burst of requests, a clean-up pass that
  skips list elements, a session that throws or never returns, a stop at any
  moment. Correct means: `NoDanglingEvent`,
  `RequestsConserved`, `WithinCapacity`, `FinishedErased`, `StopHonoured`.
* **File reader and writer.** A netascii block grows while it is converted and is
  cut where it happens to be full; a disk fails in the middle of a block. Correct
  means: no byte lost, repeated or moved (`BlocksExact`), a short block only at the
  end (`ShortMeansEnd`), the overflow within its capacity (`TypeOK`), a file that
  `get_file` has written byte for byte (`ArrivesWhole`), blocks that a session
  stores as it received them (`StoredExact`), exceptions only where the
  conversion has to give up (`OnlySplitPairThrows`), and an end (`FileEnds`).
* **Codec.** Datagrams are cut by receive buffers that are too small. Correct means:
  a whole packet is understood as what was sent (`RoundTrip`), a cut one is refused
  or loses only its tail (`CutIsSafe`).
* **Client.** Its packets and the session's cross, repeat and get lost. Correct
  means: what `get_file` writes is a prefix of the file (`GetPrefix`), success is
  reported by either end only when the client has accepted the whole file
  (`GetWhole`, `ServerSuccess`), and
  both ends together are a transfer (`ImplementsTransfer`).

The hazards of the code are listed one by one, with their source lines and the
properties that cover them, under `hazards` in `PROJECT.json`.

## 2. Modules

| Module | Models |
|---|---|
| `ServerConnection` | one session with its timer, socket and file, and the part of the loop that drives it |
| `MCServerConnection` | instances of it for TLC: requests, datagrams, MTU results |
| `ServerConnectionProofs` | the theorems about it: types, event loop, retries, READ transfers |
| `WriteProofs` | the theorem about WRITE transfers |
| `TftpServer` | the listening socket, the request queue, the list of sessions and the loop, with sessions abstracted |
| `TftpServerProofs` | the theorems about it |
| `FileTransfer` | abstract: what a transfer promises, whatever protocol carries it |
| `GetFile`, `MCGetFile` | `tftp_client::get_file` composed with `ServerConnection` over an unreliable network; implements `FileTransfer` |
| `GetFileProofs` | the theorems about it, the refinement included |
| `SendFile`, `MCSendFile` | `tftp_client::send_file` composed with `ServerConnection` in the same way |
| `FileIO` | `tftp_read_file`, `tftp_write_file` and the netascii conversions, on bytes |
| `FileIOProofs` | the theorems about it, and what the conversions compute |
| `Codec`, `MCCodec` | the serialisers and deserialisers, on bytes |
| `CodecProofs` | the theorems about them |
| `Induction` | lemmas the proofs share: induction, recursion and flattening of sequences |

### ServerConnection

Variables carry the names of the fields they model. `type` to `reader_open` are
set by the constructor and never change. `state` to `file` are the session's
state machine and its file. `timer`, `inbox`, `sock_err` and `budget` are the
kernel's objects. `polling`, `events`, `interest`, `older` and `life` are the
loop. The rest is history, read by no action: `sent`, `blocks_read`, `acked`,
`silent`, `completed`.

| Code | Model |
|---|---|
| constructor, `is_operation_allowed`, `process_options` | `Constructed` and the operators above it, in `Init` |
| `handle_read`, time-out branch, with `retransmit` | `TimedOut`, `retransmit` |
| `handle_read` in a sending state, or nothing to read | `NothingRead` |
| `recv` throws | `RecvThrows` |
| `handle_read`, WAIT_FOR_ACK | `AckReceived`, `NoAckReceived` |
| `handle_read`, WAIT_FOR_DATA | `DataWritten`, `DataNotWritten`, `NoDataReceived` |
| `handle_write`, SEND_DATA | `SendData`, `ReadFails` |
| `handle_write`, SEND_ACK / SEND_OACK / ERROR and default | `SendAck` / `SendOack` / `SendError` |
| `start`: wait, dispatch, clean-up | `EpollWait`, `Dispatch` with `epoll_ctl_mod`, `SocketError`, `Cleanup` |

Every event served is one step, because the server is single-threaded; it
includes the `EPOLL_CTL_MOD` that follows it. Between two steps anything may
happen outside: datagrams arrive, an ICMP error becomes pending, the timer
expires. `life` says how the session ended: erased (`closed`), or together with
the whole server through a failed assertion (`abort`), an exception nobody
catches (`exception`), the exception of `handle_write`'s default case
(`error_state`) or a read from a NULL stream (`segv`). A session whose write
loop never ends is `hung`, which is not an end.

`NDEBUG` chooses the build. `src/Makefile` builds `release`, with `-DNDEBUG`,
unless told otherwise: that is the build of every passing run. `claim_assert` is
about a build with assertions, and the theorems hold for both.

Abstractions:

* File contents are offsets: a block is identified by its index, its offset and
  its length. `FileSize` is what the reader yields, so for netascii the length
  after conversion.
* A datagram is its opcode, its number and the length of what follows the header.
  Truncation by the receive buffer is modelled, since it decides what parses and
  how many bytes are stored. Error codes and texts are left out.
* An option appears at most once in a request, and its value fits an int. A value
  that does not parse is `NoOption`, as in the code. The value of the time-out
  only sets the length of the timer, which the model does not measure.
* `older` bounds how often the clean-up pass may skip this session; `TftpServer`
  models the list that this stands for.
* The outcome of a file write is chosen by the environment, as is that of
  opening a file, reading it, and of every send.

### TftpServer

A session is reduced to what the loop sees: serving an event of it may set its
`finished` flag, throw (`SessionThrows`), or never return (`SessionHangs`, the
octet loop of `tftp_write_file::write`), which leaves the only thread in `hung`.
Accepting a request may throw too, at any turn of its loop: the request of that turn
has left the queue and is lost, its session may or may not be in the list already,
and the server ends (`AcceptThrows`). `events` is the batch returned by `epoll_wait`, served
in any order; it holds any set of ready descriptors up to the size of the array,
and each session has two descriptors. Every session is taken to be ready at any
time, which allows more batches than a real session causes. `iter` is the
position of the clean-up loop, which is modelled step by step, because `erase`
followed by `++iter` is what is interesting about it: the session after an erased
one is skipped, and after erasing the last one the step starts from `end()`, for
which the model takes what the standard library's circular list does.

### GetFile, SendFile and FileTransfer

The client is added to all of `ServerConnection`: `GetFile` and `SendFile` extend
it and let the session read, instead of arbitrary datagrams, those the client has
sent. The network is the two sets of datagrams ever sent: either end may read any
of them, at any time and any number of times, or never, which is loss, delay,
reordering and duplication at once. The session's share of it is bounded by
`MaxDatagrams`. ICMP errors reach the session only after the client has returned
and its socket is closed, and make the client's `recv` throw only after the
session is gone.

| Code | Model |
|---|---|
| `get_file` up to the first answer | `GetInit`; `ReceiveFirst`, which includes opening the output file |
| `get_file`'s loop: ACK sent and block number incremented | `Acknowledge` |
| conversion, `out_file.write`, test for the last block | `StoreBlock`, `StoreThrows` |
| `recv` and the checks after it | `ReceiveNext`, `ReceiveThrows` |
| `send_file` up to the first block read | `PutInit`, `FirstAck`, `FirstFails` |
| `send_file`'s loop: send, read the next block | `SendBlock`, `ReadError` |
| `recv` and the checks after it | `ReceiveAck`, `ReceiveOther`, `ReceiveThrows` |

The client acknowledges a block before it writes it, so these are two steps. Its
polls wait for POLLOUT, which is always there, and thus do nothing: there is no
time-out of the client. The models start with the session constructed for the
client's request. A second session, made for a duplicated request, could only add
another copy of the first answer before the client connects its socket, and copies
are there anyway.

`FileTransfer` says what a transfer is: blocks are received one at a time, the
sender learns of each after it was received and before the next one is, and an end
is done only when it knows of all of them. `GetFile` implements it
(`ImplementsTransfer`) under this mapping: `received` is the number of blocks the
client has accepted; `confirmed` is the number of blocks the session has moved
past, that is the blocks it has read without the one it is still retransmitting,
or all of them once it has `completed`; `receiver` and `sender` are read off the
value `get_file` returned and off `completed` and `life`. The abstract step
`Receive` is possible only when everything before the block is confirmed: it is
the lock-step of both ends, seen from outside.

### FileIO

A file of any bytes among CR, LF, NUL and one other takes one of the ways the
repository has for it (`peer`):

* `get_file`: a session's `read_in_to` cuts it into blocks, and the client converts
  each and writes it to `out_file`. The client never tests that stream: after a
  failed write the later ones do nothing and the transfer goes on (`Store`,
  `StoreFails`).
* `foreign`: the blocks go to a client of another make, which is not modelled.
* `session`: a client sends it, and a session receives and stores it. The datagram
  is cut by `recv(_block_size)`, which has no room for the header; the session
  converts, writes and judges the cut block (`Receive`, `WriteReturns`). It always
  takes it for the last one, which is what `claim_whole_block` reports.

In `tftp_write_file` each call of `fwrite` is a step and may store less than it is
given, once in a while or, on a full disk, for good. As in the code, the netascii
loop stops at an error and the octet loop does not, each call of `fwrite` starts at
the beginning of the block, and the session looks at `error()` when the loop has
ended. That the blocks arrive once and in order is what `GetFile` and
`ServerConnection` are about and is taken for granted here.

### Codec

Bytes are numbers below `Base` (256 in the code), numbers take two of them, the
names of the modes are short strings of letters in two cases. A packet of either
end, or a request of another client with options and its own spelling of the mode,
is serialised, cut by the receive buffer at any length, and tried by all five
deserialisers. `std::optional` is a set of at most one packet.

## 3. Runs

| Run | Question | Result |
|---|---|---|
| `conn_read` | a plain READ against lost, repeated, old and foreign answers, time-outs, socket errors: is it lock-step, faithful, complete, bounded, and does it end? | holds |
| `conn_options` | the same with options (block size cut by the MTU, OACK), READ and WRITE | holds |
| `conn_write` | plain WRITEs and refused requests with failing disks: is only acknowledged what is stored, and does the session end? | holds; the octet write loop on a failing disk is the one exception |
| `server_loop` | requests, queue, list, loop and clean-up, with sessions that throw or hang | holds |
| `get_file` | `get_file` with its session over an unreliable network: right prefix, honest success at both ends, an implementation of `FileTransfer`? | holds |
| `file_io` | reader to `get_file`, and client to a session's writer, with failing disks: exact blocks, exact file, an end? | holds, with the same exception |
| `codec` | every packet, whole and cut | holds |
| `claim_put` | does `send_file` check what was acknowledged? | violated |
| `claim_assert` | does `assert(false)` in `retransmit` hold, in a build that has it? | violated |
| `claim_previous_ack` | does an ACK of the previous block cause a retransmission? | violated |
| `claim_whole_block` | is a full block stored whole? | violated |
| `claim_oack_ends` | does a session that sent an OACK end? | violated |

**Bounds.** Block numbers wrap at 3 and a block holds two bytes: a file of five
bytes takes three blocks, of which the third has number 0, so that the wrap, the
number before the wrap and a final short block all occur; four bytes (in
`conn_options`) give an empty final block where blocks are two bytes long, and a
short one where they are three. Three is also the smallest modulus for which the
previous, the current and the next number differ. `MAX_TIMEOUTS` is 1: one retry,
then the end. `MaxDatagrams` bounds what arrives; three or four suffice to acknowledge
every block and still have a repeated or foreign packet, and to store a block,
repeat it and finish. Datagrams may stay in `inbox` for any time, so old packets
are answered late. `server_loop` has three requests for two places and one bad or
empty datagram. Three clients allow a session behind an erased one, a full list,
and a waiting request.
`get_file` moves a file of three blocks, the last one short, with numbers that wrap
at 4: files shorter than one round of numbers, named as `GetAssumption`, since
beyond it a packet that is a round late has the expected number. Four datagrams
reach the session, one more than the transfer needs. `file_io` takes every file of
up to five bytes in blocks of three: one to four blocks after conversion, every
way a pair can be split, an overflow as large as a block, and files that end with
a block. A header of one byte cuts what a session receives to two, which is enough
for a pair, whole or split, and for a short `fwrite`. Two writes may fail. `codec` has eight values of a byte, so
that all numbers of two bytes and both signs of a char occur, and up to two
options, so that a cut can fall between and within them.
A negotiated block size of 0 is accepted by the code, and by the proofs, but is
in no run: such a READ never has a final block.

**Deadlock** is checked, except in `conn_options` and `claim_oack_ends`, where a
session that waits for the answer to its OACK has no timer and may really stop.

**Fairness** (`conn_read`, `conn_write`, `claim_oack_ends`, `server_loop`,
`file_io`). The
loop is a running thread: weak fairness of its steps. Time passes: weak fairness
of `TimerExpires`. A socket that epoll reports as writable is not refused by the
kernel every time: strong fairness of a successful send. Nothing is assumed of
the client; that finitely many datagrams arrive is the bound, and says that a
client falls silent in the end, since one that keeps answering keeps its session
open. In `TftpServer`, signals do not interrupt every wait (strong fairness of
`EpollWait`).
`SessionEnds` and `WriteSessionEnds` count the end of the whole server as an end of
the session; the other properties, and the findings, say which ends those are. A
handler that never returns is no end: `SessionEnds` does not allow it (a READ has
none), `WriteSessionEnds` and `FileEnds` name the octet loop as their one exception,
and `FinishedErased` and `StopHonoured` hold unless the loop is stuck in it. In `FileIO` the
thread that reads and writes runs (weak fairness of its steps), and the disk's
faults are bounded unless it is full. `get_file` needs no fairness: nothing is
claimed about its end, because the client has no working time-out.

## 4. What the runs refute

1. `claim_assert`: the timer is not disarmed by an answer. If it expires after an
   ACK and before the socket is writable, `retransmit` runs in SEND_DATA. In a build
   with assertions that ends the server; in the default (release) build, which
   compiles them out, it uses up a retry.
2. `claim_previous_ack`: `_block_number - 1` is computed in int. At block number 0
   the previous number is -1, which no packet carries, and a repeated ACK ends the
   transfer with an ERROR.
3. `claim_whole_block`: WAIT_FOR_DATA receives into a buffer of one block, without
   room for the header. A full block loses its last four bytes and is taken for
   the final one.
4. `claim_put`: `send_file` compares the number of its next block with itself. An
   ACK 0 that arrives twice is taken for the acknowledgement of block 1, and
   `send_file` returns true with nothing stored.
5. `claim_oack_ends`: the timer is not armed after an OACK. If it or its answer is
   lost, the session stays for ever.

More are visible in the models without a run of their own:

* a READ whose file cannot be opened goes on with a NULL stream (`first_state`, the
  life `segv`);
* the clean-up pass skips a session after each one it erases (`StepAfterErase`;
  `FinishedErased` shows that it is erased by a later pass);
* after an OACK a WRITE session waits for block 0 (`Constructed`, `SendOack`;
  `AckMeansStored` states the numbering that results);
* WAIT_FOR_ACK reads four bytes, which never parse as an ERROR (`NoAckReceived`);
* the client never times out (no such action), refuses to send files shorter than
  a block (`FirstAck`), and its `main` ignores what the transfer returned;
* a CR that ends a block makes the conversion throw (`OnlySplitPairThrows`);
* the octet write loop never ends on a full disk (`FileEnds`), and keeps the session
  and the whole server with it (`WriteSessionEnds`, `StopHonoured`);
* `get_file` does not notice that writing its output failed (the exception in
  `GetWhole`);
* a request is lost when the server dies while accepting it (`AcceptThrows`);
* error codes are sign-extended (`RoundTrip`).

## 5. What is proved

The theorems hold for every value of the constants that the named assumption
allows; TLC evaluates each assumption in the run of the component. Every
inductive invariant was model-checked on the component's run before it was
proved.

| Theorem | Statement | Module |
|---|---|---|
| `TypeCorrect` | `Spec => []TypeOK` | `ServerConnectionProofs` |
| `NeverErrorState` | `Spec => []NoErrorState` | |
| `RetriesBounded` | `Spec => []RetryBound` | |
| `LockStep` | `Spec => []StopAndWait` | |
| `BlocksFaithful` | `Spec => []DataFidelity` | |
| `CompleteReads` | `Spec => []ReadComplete` | |
| `StoredBeforeAck` | `Spec => []AckMeansStored` | `WriteProofs` |
| `GetTypeCorrect` | `GetSpec => []GetTypeOK` | `GetFileProofs` |
| `OutputIsPrefix` | `GetSpec => []GetPrefix` | |
| `TrueMeansWhole` | `GetSpec => []GetWhole` | |
| `SuccessMeansAccepted` | `GetSpec => []ServerSuccess` | |
| `TransferImplemented` | `GetSpec => ImplementsTransfer` | |
| `ServerTypeCorrect` | `Spec => []TypeOK` | `TftpServerProofs` |
| `EventsPointToSessions` | `Spec => []NoDanglingEvent` | |
| `CapacityRespected` | `Spec => []WithinCapacity` | |
| `NoRequestLost` | `Spec => []RequestsConserved` | |
| `FileTypeCorrect` | `Spec => []TypeOK` | `FileIOProofs` |
| `NoByteLost` | `Spec => []BlocksExact` | |
| `ShortBlockIsLast` | `Spec => []ShortMeansEnd` | |
| `ThrowsOnSplitPair` | `Spec => []OnlySplitPairThrows` | |
| `FileArrives` | `Spec => []ArrivesWhole` | |
| `BlockStoredExactly` | `Spec => []StoredExact` | |
| `CodecTypeCorrect` | `Spec => []TypeOK` | `CodecProofs` |
| `CutsAreSafe` | `Spec => []CutIsSafe` | |
| `RoundTrips` | `Spec => []RoundTrip` | |

### The session (`ServerConnectionProofs`, `WriteProofs`)

From `ConstantsAssumption`: any modulus greater than 2, any header, block and file
size, number of retries, set of requests, of MTU results and of datagrams, and both
builds. None of the properties but `TypeOK` is inductive.

* `NeverErrorState` needs `LoopInv`: the socket is registered for writing only in
  a sending state, a fetched write event still finds the session in a sending
  state, and a batch holds at most one. The last two together are why a batch of
  a timer and a socket event is safe in either order: a read event leaves a
  sending state alone (`ReadKeepsSending`), and only a write event leaves it.
* `RetriesBounded` needs `RetryInv`: the packets sent since the client was heard
  are at most the time-outs counted, plus one while waiting.
* `LockStep`, `BlocksFaithful` and `CompleteReads` rest on `TransferInv`.
  `PhaseInv`: which states a READ and a WRITE session can be in, and that nothing
  was read and no timer runs before the answer to an OACK. `CountInv`: the block
  number is the number of the current block modulo its width, and every block
  before it was acknowledged. `PacketInv`: the kept packet is the current block of
  the file, and the reader is right behind it. `SentInv`: nothing beyond the
  blocks read was sent. The arithmetic of the wrap is in `IncCounts`:
  incrementing the wrapped number numbers the next block.
* `StoredBeforeAck` needs `StoredInv`: the block number is that of the last stored
  block while it is acknowledged, and of the next one while it is awaited. Blocks
  count from 0 after an OACK and from 1 otherwise (`First`), so a time-out, which
  steps the number back to send the last ACK again, must not happen before the
  first block of a session that began with an OACK: there the timer is off, and
  that is part of the invariant.

### The client and the abstract transfer (`GetFileProofs`)

From `ConstantsAssumption` and `GetAssumption`: requests have no options, and the
file has fewer blocks than there are block numbers. The second is a real
restriction: in a longer file a block that is late by a whole round cannot be told
from the expected one (`src/src/client/tftp_client.cpp:114`), and the theorems are
false without it.

`GetInv` adds to the session's invariant that the client has acknowledged exactly
the blocks it accepted, that the session can therefore have counted no more, and
that the client accepted only what the session has read (`AckInv`); and that the
block about to be written is the last accepted one and the others are in the output
file (`ClientInv`). These bound the blocks ever sent to at most one beyond those
accepted; less than a round of numbers apart, the number decides which block it is.
That is how a duplicate or delayed datagram is refused. `TrueMeansWhole` says that
all blocks were accepted when `get_file` returns true, and that they are all in its
output unless a write failed: the code never tests `out_file`
(`src/src/client/tftp_client.cpp:91`), so no more can be said.

`TransferImplemented` maps every step: the initial states to the initial state of
`FileTransfer`, and each step of either end to an abstract step or a stutter
(`ClientImplements`, `ServerImplements`). The acceptance of a block is `Receive`; the
session's step past a block, when its acknowledgement arrives, is `Confirm`
(`ServerConfirms`); what `get_file` returns and the end of a session's life
are the abstract ends; all the rest stutters.

### The loop (`TftpServerProofs`)

From `ServerAssumption`: any set of clients, any capacity, any number of bad and
empty datagrams. `ServerInv` adds `Batch`: an event is pending only while a batch is
served, or was when the process died. This is why the clean-up pass may erase
sessions at all: no event that still points to one is left. `NoRequestLost` is
proved from `InOrder`, which holds as long as the server runs and is only broken, by
the one request being accepted, in the step that ends it. It rests on
what the loop of `handle_read` computes: the requests among some datagrams are those
among the first ones followed by those among the others (`RequestsConcat`).

### The files (`FileIOProofs`)

From `FileAssumption`: any block size, any file, any number of faults. What the
conversions compute for every sequence of bytes is proved first: the conversion of
a concatenation is the concatenation of the conversions (`NativeConcat`, and
`ConversionConcat` where the first part does not end within a pair), the result is
between once and twice as long (`NativeLength`) and consists of whole pairs
(`NativeIsNetascii`), converting there and back gives the file again
(`ThereAndBack`), and a block cut from a converted file is malformed only where the cut
separates a CR from the LF or NUL that belongs to it (`SplitPair`). `FileInv` then relates blocks, position and
overflow buffer (`BlocksExact`, which is inductive together with the end-of-file
indicator), and the blocks to what was stored: as long as no write failed, the
stored bytes and those in the receiver's hands are what the blocks decode to, for
`get_file` and for a session alike (`StoredInv`). `FileArrives` follows for
`get_file`, whose blocks are the whole file, and `BlockStoredExactly` for a session,
which goes on only when `error()` is false; neither says that a session's file is
the client's, since `recv` has cut the blocks. `FileTypeCorrect` contains the bound of the overflow buffer: it fits
into the next block, so `size_bytes - overflow` never wraps.

### The codec (`CodecProofs`)

From `CodecAssumption`: any even number of byte values above 6, any strings without
zeros, any number of options. The invariant `CodecInv` says that the datagram is the
packet (`WireOf`), that what was received is a beginning of it, and that `parsed` is
what the five deserialisers make of that; the work is in what those compute. By
induction over the bytes: a string with its zero, where a string may begin, is found
(`ScannedCString`), options are found name by name and value by value
(`ScannedOptions`), and further bytes leave the strings already found alone
(`ScannedConcat`), so those of a cut buffer are the first ones of the whole
(`ScannedCut`). Pairing undoes the flattening of options, and pairing a beginning
gives the first options or none (`PairedOptions`, `PairedBeginning`); a number is
taken apart into two bytes and put together again (`NumberBytes`). The opcode tells
the kinds apart (`CutOp`), and one lemma per kind (`CutRequest`, `CutData`, `CutAck`,
`CutError`, `CutOack`) says what is understood of a cut and of a whole packet. The
error code is the exception in all of them: its low byte is a signed char
(`src/src/common/tftp.cpp:150`), and the theorems say exactly when it is read wrong.

### Induction over data (`Induction`)

The library's induction theorems take a predicate as a parameter, which the provers
cannot instantiate. `Induction` states them for sets instead: a set of numbers that
holds 0 and with every number its successor holds all of them (`SetInduction`, from
`SmallestElement`), likewise for sequences (`SequenceInduction`), and a recursion
over a beginning of the numbers has a solution (`FiniteRecursion`). A proof then
puts the predicate into a set. This is how the lemmas about `FlattenSeq`, the
conversions, the request queue and the C strings in a buffer are proved; the
definitions they are about are recursive functions.

### Only model-checked

`SessionEnds`, `WriteSessionEnds`, `FinishedErased`, `StopHonoured` and `FileEnds`,
because liveness under
fairness is out of this prover's reach. Every invariant that a passing run checks, and
the refinement, is a theorem as well.

## 6. Not modelled

Socket set-up (`bind`, `connect`, address formatting), the command lines, logging,
`error_code_to_string` and the unit tests are left out: they are I/O or carry no
state a property could be about. The path check appears as the `path` field of a
request, the MTU query as `MtuResults`, the file size as `FileSize`, and the signal
handler as the action `stop`. The value of an option is a number in
`ServerConnection` and a string in `Codec`; its conversion by `std::stoi` is only
`NoOption` when it fails. `SendFile` is part of `claim_put` only: since the session
cuts every full block and takes it for the last (`claim_whole_block`), no file that
`send_file` accepts is ever stored whole, and there is no positive property of it
that would be worth a run.

## 7. Plan

Done: the session, the loop, the client and the abstract transfer, the files and the
codec, with their runs; the proofs of all their safety invariants, and of the
refinement.

Left: action properties of the session that are stated so far only through the
invariants (a block number moves on only by one, and only after the acknowledgement
of its block).
