----------------------------- MODULE FileTransfer -----------------------------
(***************************************************************************)
(* What a transfer promises, whatever protocol carries it: a file of       *)
(* Blocks blocks moves from a sender to a receiver one block at a time.    *)
(* The receiver is at most one block ahead of what the sender knows, and   *)
(* either end reports success only when the whole file has arrived.        *)
(***************************************************************************)
EXTENDS Naturals

CONSTANT Blocks      \* number of blocks of the file, the short last one included

VARIABLES
    received,        \* blocks the receiver has, in order
    confirmed,       \* blocks the sender knows the receiver has
    receiver,        \* "active", "done" or "failed"
    sender           \* "active", "done" or "failed"

vars == <<received, confirmed, receiver, sender>>

Init ==
    /\ received = 0 /\ confirmed = 0
    /\ receiver = "active" /\ sender = "active"

(* The block after the confirmed ones arrives.                             *)
Receive ==
    /\ receiver = "active"
    /\ received = confirmed /\ received < Blocks
    /\ received' = received + 1
    /\ UNCHANGED <<confirmed, receiver, sender>>

(* The sender learns that it has; with the last block it is done.          *)
Confirm ==
    /\ sender = "active"
    /\ confirmed < received
    /\ confirmed' = confirmed + 1
    /\ sender' = IF confirmed' = Blocks THEN "done" ELSE "active"
    /\ UNCHANGED <<received, receiver>>

ReceiverDone ==
    /\ receiver = "active" /\ received = Blocks
    /\ receiver' = "done"
    /\ UNCHANGED <<received, confirmed, sender>>

ReceiverFails ==
    /\ receiver = "active"
    /\ receiver' = "failed"
    /\ UNCHANGED <<received, confirmed, sender>>

SenderFails ==
    /\ sender = "active"
    /\ sender' = "failed"
    /\ UNCHANGED <<received, confirmed, receiver>>

Next == Receive \/ Confirm \/ ReceiverDone \/ ReceiverFails \/ SenderFails

Spec == Init /\ [][Next]_vars
=============================================================================
