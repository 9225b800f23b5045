------------------------------ MODULE Mailbox ------------------------------
(***************************************************************************)
(* What the server promises about the frames sent to one client: a bounded *)
(* FIFO.  Frames are numbered in the order in which they are accepted.     *)
(* When it has no room the mailbox is sealed instead of losing a frame     *)
(* from the middle; a sealed mailbox accepts nothing and is closed.        *)
(***************************************************************************)
EXTENDS Naturals, Sequences

CONSTANT Capacity    \* frames that may wait; one more may be in transfer

VARIABLES
    status,       \* "open", "sealed" or "closed"
    held,         \* frames accepted and not yet handed over
    handed        \* how many frames have been handed over

mailVars == <<status, held, handed>>

MailInit == status = "open" /\ held = <<>> /\ handed = 0

\* The number of the next frame to be accepted.
NextFrame == handed + Len(held) + 1

Accept ==
    /\ status = "open" /\ Len(held) <= Capacity
    /\ held' = Append(held, NextFrame)
    /\ UNCHANGED <<status, handed>>

\* A frame is refused: only a mailbox that is full may do so.
Seal ==
    /\ status = "open" /\ Len(held) >= Capacity
    /\ status' = "sealed"
    /\ UNCHANGED <<held, handed>>

\* The oldest frame goes to the client, once.
HandOver ==
    /\ status # "closed" /\ held # <<>>
    /\ Head(held) = handed + 1
    /\ handed' = handed + 1
    /\ held' = Tail(held)
    /\ UNCHANGED status

Close ==
    /\ status # "closed"
    /\ status' = "closed" /\ held' = <<>>
    /\ UNCHANGED handed

CloseSealed == status = "sealed" /\ Close

MailNext == Accept \/ Seal \/ HandOver \/ Close

MailSpec == MailInit /\ [][MailNext]_mailVars

\* A sealed mailbox does not stay.
MailFairSpec == MailSpec /\ WF_mailVars(CloseSealed)
=============================================================================
