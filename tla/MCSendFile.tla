------------------------------ MODULE MCSendFile ------------------------------
(***************************************************************************)
(* Instances of SendFile for TLC: requests as tftp_client sends them.      *)
(***************************************************************************)
EXTENDS SendFile

PutRequests ==
    {[type |-> "WRITE", mode |-> m, path |-> "absent",
      blksize |-> NoOption, tsize |-> FALSE, timeout |-> NoOption] : m \in {"OCTET", "NETASCII"}}

NoMtu == {-1}

DataBlocks == {[op |-> "DATA", num |-> n, len |-> l] :
                    n \in BlockNumbers, l \in 0 .. 2 * DefaultBlockSize}
=============================================================================
