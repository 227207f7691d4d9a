-------------------------- MODULE MCServerConnection --------------------------
(***************************************************************************)
(* Instances of ServerConnection for TLC.  A block holds two bytes, the    *)
(* header one, and block numbers wrap at 3, so that a file of five bytes   *)
(* takes three blocks, of which the third has number 0.                    *)
(***************************************************************************)
EXTENDS ServerConnection

Request(t, m, p, b, ts, to) ==
    [type |-> t, mode |-> m, path |-> p, blksize |-> b, tsize |-> ts, timeout |-> to]

Plain(t, m, p) == Request(t, m, p, NoOption, FALSE, NoOption)

(* A plain read of an existing file.                                       *)
ReadRequests == {Plain("READ", "OCTET", "present")}

(* Plain writes, and requests that are refused.                            *)
WriteRequests ==
    {Plain("WRITE", "OCTET", "absent"), Plain("WRITE", "NETASCII", "absent"),
     Plain("WRITE", "OCTET", "present"), Plain("WRITE", "OCTET", "outside"),
     Plain("READ", "OCTET", "absent")}

(* Requests with options, acknowledged or ignored.                         *)
OptionRequests ==
    {Request("READ", "NETASCII", "present", 3, TRUE, 1),
     Request("READ", "OCTET", "present", NoOption, FALSE, 256),
     Request("WRITE", "OCTET", "absent", 3, TRUE, NoOption),
     Request("WRITE", "OCTET", "absent", NoOption, TRUE, NoOption)}

(* A read whose block size was negotiated.                                 *)
ReadWithOptions == {Request("READ", "OCTET", "present", 2, FALSE, NoOption)}

NoMtu   == {-1}
SomeMtu == {-1, 2}

Datagram(op, num, len) == [op |-> op, num |-> num, len |-> len]

Acks == {Datagram("ACK", n, 0) : n \in BlockNumbers}

(* What a client may answer to DATA.                                       *)
AckDatagrams == Acks \cup {Datagram("ERROR", 0, 1), Datagram("OTHER", 0, 0)}

(* What a client may send during a write: full, short and empty blocks.    *)
DataDatagrams ==
    {Datagram("DATA", 0, 2), Datagram("DATA", 1, 2), Datagram("DATA", 1, 1),
     Datagram("DATA", 1, 0), Datagram("DATA", 2, 2),
     Datagram("ERROR", 0, 1), Datagram("ACK", 0, 0)}

AllDatagrams == Acks \cup DataDatagrams
=============================================================================
