------------------------------ MODULE ByteStream -------------------------------
(***************************************************************************)
(* What one direction of a channel promises the two Channel objects at its *)
(* ends (ssh/channel.h, ssh.h SshChannelVtable): a byte stream.  Bytes are *)
(* accepted at one end and delivered at the other in order, each once, and *)
(* end-of-file is seen only after every accepted byte was delivered.       *)
(***************************************************************************)
EXTENDS Naturals

VARIABLES
    accepted,    \* number of bytes the writing Channel has handed over
    delivered,   \* number of bytes handed to the reading Channel
    ended,       \* the writing Channel has announced end-of-file
    seen         \* the reading Channel has been told of it

Init == accepted = 0 /\ delivered = 0 /\ ended = FALSE /\ seen = FALSE

Accept ==
    /\ ~ended /\ accepted' \in Nat /\ accepted' > accepted
    /\ UNCHANGED <<delivered, ended, seen>>

Deliver ==
    /\ ~seen /\ delivered' \in Nat /\ delivered < delivered' /\ delivered' <= accepted
    /\ UNCHANGED <<accepted, ended, seen>>

End ==
    /\ ~ended /\ ended' = TRUE
    /\ UNCHANGED <<accepted, delivered, seen>>

SeeEnd ==
    /\ ended /\ ~seen /\ delivered = accepted
    /\ seen' = TRUE
    /\ UNCHANGED <<accepted, delivered, ended>>

Next == Accept \/ Deliver \/ End \/ SeeEnd

Spec == Init /\ [][Next]_<<accepted, delivered, ended, seen>>
================================================================================
