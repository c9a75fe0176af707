----------------------------- MODULE OrderedStream -----------------------------
(***************************************************************************)
(* What the control exchange promises the code on both of its ends: frames *)
(* are delivered one by one, in the order they were handed over, each      *)
(* counted once, and the sender only ever forgets delivered ones.          *)
(***************************************************************************)
EXTENDS Naturals, Sequences

CONSTANT Frame

VARIABLES
    sent,        \* every frame ever handed over, in order
    delivered,   \* how many of them the receiver has taken
    confirmed    \* how many of them the sender knows to be delivered

Init == sent = <<>> /\ delivered = 0 /\ confirmed = 0

Send ==
    /\ \E f \in Frame : sent' = Append(sent, f)
    /\ UNCHANGED <<delivered, confirmed>>

Deliver ==
    /\ delivered < Len(sent)
    /\ delivered' = delivered + 1
    /\ UNCHANGED <<sent, confirmed>>

Confirm ==
    /\ confirmed' \in confirmed..delivered
    /\ UNCHANGED <<sent, delivered>>

Next == Send \/ Deliver \/ Confirm

Spec == Init /\ [][Next]_<<sent, delivered, confirmed>>
=============================================================================
