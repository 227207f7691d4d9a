--------------------------------- MODULE Codec ---------------------------------
(***************************************************************************)
(* The packets of tftp.cpp on their way: one is serialised, received into  *)
(* a buffer that may be too small for it, and tried by every deserialiser. *)
(* A byte is a number below Base.  Requests with options come from clients *)
(* of another make, since serialise_rw_packet leaves options out.          *)
(***************************************************************************)
EXTENDS Naturals, SequencesExt

CONSTANTS
    Base,            \* values of a byte: 256 in the code
    Strings,         \* what file names, messages and options may be
    MaxOptions       \* bound: options of a packet

Bytes == 0 .. Base - 1

(* A letter is 1 or 2, in lower case 3 or 4; the sign bit of a char is set *)
(* from Base \div 2 on.                                                    *)
OCTET_MODE_STR    == <<1, 1>>
NETASCII_MODE_STR == <<2>>

ASSUME CodecAssumption ==
    /\ Base \in Nat /\ Base > 6 /\ Base % 2 = 0
    /\ \A s \in Strings : s \in Seq(Bytes \ {0})
    /\ MaxOptions \in Nat

VARIABLES
    packet,          \* what the sender serialises
    wire,            \* the datagram
    received,        \* what recv or recv_from returns of it
    parsed,          \* what the deserialisers made of that
    pc               \* "sent", "received" or "parsed"

vars == <<packet, wire, received, parsed, pc>>

-----------------------------------------------------------------------------
(* Packets.  A field that a packet does not have is 0, empty or "none".    *)

packet_t == [READ |-> 1, WRITE |-> 2, DATA |-> 3, ACK |-> 4, ERROR |-> 5, OACK |-> 6]

Packet(op, num, str, mode, options) ==
    [op |-> op, num |-> num, str |-> str, mode |-> mode, options |-> options]

(* Data may hold zeros.                                                    *)
Contents == Strings \cup {<<0>> \o s : s \in Strings}

Options == BoundedSeq(Strings \X Strings, MaxOptions)

(* The packets of this code's own two ends.                                *)
OwnPackets ==
    {Packet(op, 0, s, m, <<>>) : op \in {"READ", "WRITE"}, s \in Strings,
                                 m \in {"OCTET", "NETASCII"}}
        \cup {Packet("DATA", n, s, "none", <<>>) : n \in 0 .. Base * Base - 1, s \in Contents}
        \cup {Packet("ERROR", n, s, "none", <<>>) : n \in 0 .. Base * Base - 1, s \in Strings}
        \cup {Packet("ACK", n, <<>>, "none", <<>>) : n \in 0 .. Base * Base - 1}
        \cup {Packet("OACK", 0, <<>>, "none", o) : o \in Options}

-----------------------------------------------------------------------------
(* Serialisation *)

CString(s) == s \o <<0>>

mode_t_to_string(m) == IF m = "OCTET" THEN OCTET_MODE_STR ELSE NETASCII_MODE_STR

CStrings(options) ==
    FlattenSeq([i \in DOMAIN options |-> CString(options[i][1]) \o CString(options[i][2])])

Prefix(op) == <<0, packet_t[op]>>
BigEndianUnmasked(n) == <<n \div Base, n>>
BigEndian(n) == <<n \div Base, n % Base>>

serialise_rw_packet(p) ==
    Prefix(p.op) \o CString(p.str) \o CString(mode_t_to_string(p.mode))
serialise_data_packet(p)  == Prefix("DATA") \o BigEndian(p.num) \o p.str
serialise_ack_packet(p)   == Prefix("ACK") \o BigEndian(p.num)
serialise_error_packet(p) == Prefix("ERROR") \o BigEndian(p.num) \o CString(p.str)
serialise_oack_packet(p)  == Prefix("OACK") \o CStrings(p.options)

serialise(p) ==
    CASE p.op \in {"READ", "WRITE"} -> serialise_rw_packet(p)
      [] p.op = "DATA"  -> serialise_data_packet(p)
      [] p.op = "ACK"   -> serialise_ack_packet(p)
      [] p.op = "ERROR" -> serialise_error_packet(p)
      [] p.op = "OACK"  -> serialise_oack_packet(p)

(* Another client spells the mode in its own way and adds options.         *)
foreign_request(p, mode_str) ==
    Prefix(p.op) \o CString(p.str) \o CString(mode_str) \o CStrings(p.options)

(* How it may spell a mode; the last one is unknown here.                  *)
Spellings == {<<"OCTET", <<1, 1>>>>, <<"OCTET", <<3, 1>>>>, <<"NETASCII", <<4>>>>,
              <<"MAIL", <<1>>>>}

-----------------------------------------------------------------------------
(* Deserialisation: each yields the set of the packet found, or {}.        *)

toupper(s) == [i \in DOMAIN s |-> IF s[i] \in {3, 4} THEN s[i] - 2 ELSE s[i]]

UpperCase(options) ==
    [i \in DOMAIN options |-> <<toupper(options[i][1]), toupper(options[i][2])>>]

string_to_mode_t(s) ==
    CASE toupper(s) = OCTET_MODE_STR    -> {"OCTET"}
      [] toupper(s) = NETASCII_MODE_STR -> {"NETASCII"}
      [] OTHER -> {}

(* A buffer, byte by byte: the strings that ended with a zero, and what    *)
(* was found since the last one.                                           *)
Scanned(body) ==
    LET at[i \in 0 .. Len(body)] ==
            IF i = 0 THEN [strings |-> <<>>, rest |-> <<>>]
            ELSE LET before == at[i - 1] IN
                 IF body[i] = 0
                 THEN [strings |-> Append(before.strings, before.rest), rest |-> <<>>]
                 ELSE [strings |-> before.strings, rest |-> Append(before.rest, body[i])]
    IN at[Len(body)]

(* A rest without a zero is dropped.                                       *)
KeepsUnterminated(buffer, offset) ==
    Scanned(SubSeq(buffer, offset + 1, Len(buffer)) \o <<0>>).strings
extract_c_strings_from_buffer(buffer, offset) ==
    Scanned(SubSeq(buffer, offset + 1, Len(buffer))).strings

(* Options come in pairs; with an odd string among them all are ignored.   *)
Paired(params) ==
    IF Len(params) % 2 # 0 THEN <<>>
    ELSE [i \in 1 .. Len(params) \div 2 |-> <<params[2 * i - 1], params[2 * i]>>]

(* Only the second byte of the opcode is looked at.                        *)
IsOp(data, size, op) == Len(data) >= size /\ data[2] = packet_t[op]

deserialise_rw_packet(data) ==
    LET params  == extract_c_strings_from_buffer(data, 2)
        options == Paired(SubSeq(params, 3, Len(params)))
    IN {Packet(op, 0, params[1], m, UpperCase(options)) :
            op \in {o \in {"READ", "WRITE"} : IsOp(data, 4, o)},
            m  \in IF Len(params) < 2 THEN {} ELSE string_to_mode_t(params[2])}

SignExtendedNumber(data) ==
    IF data[4] >= Base \div 2 THEN (Base - 1) * Base + data[4] ELSE data[3] * Base + data[4]
Number(data) == data[3] * Base + data[4]

deserialise_data_packet(data) ==
    IF ~IsOp(data, 4, "DATA") THEN {}
    ELSE {Packet("DATA", Number(data), SubSeq(data, 5, Len(data)), "none", <<>>)}

deserialise_ack_packet(data) ==
    IF ~IsOp(data, 4, "ACK") THEN {} ELSE {Packet("ACK", Number(data), <<>>, "none", <<>>)}

(* The low byte of the code is a signed char, extended before the bits of  *)
(* the high byte are added.                                                *)
deserialise_error_packet(data) ==
    IF ~IsOp(data, 5, "ERROR") \/ 0 \notin Range(SubSeq(data, 5, Len(data))) THEN {}
    ELSE {Packet("ERROR", SignExtendedNumber(data),
                 Head(extract_c_strings_from_buffer(data, 4)), "none", <<>>)}

deserialise_oack_packet(data) ==
    IF ~IsOp(data, 2, "OACK") THEN {}
    ELSE {Packet("OACK", 0, <<>>, "none", Paired(extract_c_strings_from_buffer(data, 2)))}

-----------------------------------------------------------------------------
Init ==
    /\ \/ packet \in OwnPackets /\ wire = serialise(packet)
       \/ \E s \in Strings, m \in Spellings, o \in Options :
            /\ packet = Packet("WRITE", 0, s, m[1], o)
            /\ wire = foreign_request(packet, m[2])
    /\ received = <<>> /\ parsed = {} /\ pc = "sent"

(* recv and recv_from cut a datagram that is longer than their buffer.     *)
recv(size) ==
    /\ pc = "sent"
    /\ received' = SubSeq(wire, 1, size)
    /\ pc' = "received"
    /\ UNCHANGED <<packet, wire, parsed>>

Parse ==
    /\ pc = "received"
    /\ parsed' = UNION {deserialise_rw_packet(received), deserialise_data_packet(received),
                        deserialise_ack_packet(received), deserialise_error_packet(received),
                        deserialise_oack_packet(received)}
    /\ pc' = "parsed"
    /\ UNCHANGED <<packet, wire, received>>

Done == pc = "parsed" /\ UNCHANGED vars

Next == (\E size \in 1 .. Len(wire) : recv(size)) \/ Parse \/ Done

Spec == Init /\ [][Next]_vars

-----------------------------------------------------------------------------
(* A parsed packet is well formed: its number fits into two bytes and its  *)
(* strings hold no zero.                                                   *)
TypeOK ==
    /\ pc \in {"sent", "received", "parsed"}
    /\ wire \in Seq(Bytes) /\ received \in Seq(Bytes)
    /\ \A p \in parsed :
        /\ p.op \in DOMAIN packet_t
        /\ p.num \in 0 .. Base * Base - 1
        /\ p.mode \in {"OCTET", "NETASCII", "none"}
        /\ p.op # "DATA" => 0 \notin Range(p.str)

(* What the receiver should make of the packet: names and values of the    *)
(* options of a request are compared in upper case.                        *)
Meaning ==
    IF packet.mode = "MAIL" THEN {}
    ELSE {IF packet.op = "WRITE" THEN [packet EXCEPT !.options = UpperCase(@)] ELSE packet}

(* A packet that is received whole is understood as what was sent and as   *)
(* no other kind; the exception is an error code whose low byte has its    *)
(* sign bit set, where only the message is kept.                           *)
RoundTrip ==
    pc = "parsed" /\ received = wire =>
        \/ parsed = Meaning
        \/ /\ packet.op = "ERROR" /\ packet.num % Base >= Base \div 2
           /\ {[p EXCEPT !.num = packet.num] : p \in parsed} = {packet}

(* A packet that was cut on the way is refused, or is understood as the    *)
(* packet sent but for a shorter block of data or fewer options: never as  *)
(* another kind, another file, another mode, another number, or with half  *)
(* of an option (extract_c_strings_from_buffer, and the parity checks).    *)
CutIsSafe ==
    \A p \in parsed : \E q \in Meaning :
        /\ p.op = q.op /\ p.mode = q.mode
        /\ p.num = q.num \/ (q.op = "ERROR" /\ q.num % Base >= Base \div 2)
        /\ IF q.op = "DATA" THEN IsPrefix(p.str, q.str) ELSE p.str = q.str
        /\ IsPrefix(p.options, q.options)
=============================================================================
