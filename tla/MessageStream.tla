--------------------------- MODULE MessageStream ---------------------------
(***************************************************************************)
(* What the line protocol (src/line_io.hh) promises: messages arrive whole *)
(* and in the order they were sent.  When the peer is gone, at most one    *)
(* torn piece, of the message that it was sending, comes after them (of    *)
(* any, when reads fail); a message may be refused, and then nothing more  *)
(* arrives.                                                                *)
(***************************************************************************)
EXTENDS Naturals

VARIABLES
    count,    \* how many messages the peer has to send, fixed for the run
    faulty,   \* whether reads may fail, fixed for the run
    sent,     \* how many it has sent whole
    received, \* how many have arrived
    torn,     \* whether a torn piece of the next has arrived
    refused   \* whether the next has been refused

vars == <<count, faulty, sent, received, torn, refused>>

Over == torn \/ refused

Init ==
    /\ count \in Nat /\ faulty \in BOOLEAN
    /\ sent = 0 /\ received = 0
    /\ torn = FALSE /\ refused = FALSE

Send ==
    /\ sent' \in (sent + 1)..count
    /\ UNCHANGED <<count, faulty, received, torn, refused>>

Receive ==
    /\ ~Over
    /\ received < sent
    /\ received' = received + 1
    /\ UNCHANGED <<count, faulty, sent, torn, refused>>

\* Only a message that was not sent whole can arrive torn, unless a read failed.
Tear ==
    /\ ~Over
    /\ received < count
    /\ faulty \/ received = sent
    /\ torn' = TRUE
    /\ UNCHANGED <<count, faulty, sent, received, refused>>

Refuse ==
    /\ ~Over
    /\ received < count
    /\ refused' = TRUE
    /\ UNCHANGED <<count, faulty, sent, received, torn>>

Next == Send \/ Receive \/ Tear \/ Refuse

Spec == Init /\ [][Next]_vars
=============================================================================
