------------------------------- MODULE MCGetFile -------------------------------
(***************************************************************************)
(* Instances of GetFile for TLC: requests as tftp_client sends them.       *)
(***************************************************************************)
EXTENDS GetFile

Plain(m, p) == [type |-> "READ", mode |-> m, path |-> p,
                blksize |-> NoOption, tsize |-> FALSE, timeout |-> NoOption]

(* A read of an existing file in either mode, and of a missing one.        *)
GetRequests == {Plain("OCTET", "present"), Plain("NETASCII", "present"),
                Plain("OCTET", "absent")}

NoMtu == {-1}

Acks == {[op |-> "ACK", num |-> n, len |-> 0] : n \in BlockNumbers}
=============================================================================
