----------------------------- MODULE SmsDelivery -----------------------------
(***************************************************************************)
(* What the base station promises of the SMS that reach it: the callback   *)
(* is given SMS that did arrive, in the order in which they arrived, and   *)
(* each at most MaxCopies times, whatever restarts come in between.  It    *)
(* does not promise that every SMS is delivered.                           *)
(***************************************************************************)
EXTENDS Naturals

CONSTANTS MaxSms, MaxCopies

VARIABLES
    arrived,    \* how many SMS have arrived; they are numbered in that order
    delivered   \* how often each was given to the callback

Numbered == 1 .. MaxSms

Init ==
    /\ arrived = 0
    /\ delivered = [n \in Numbered |-> 0]

Arrive ==
    /\ arrived < MaxSms
    /\ arrived' = arrived + 1
    /\ UNCHANGED delivered

Deliver(n) ==
    /\ n <= arrived
    /\ delivered[n] < MaxCopies
    /\ \A m \in Numbered : m > n => delivered[m] = 0
    /\ delivered' = [delivered EXCEPT ![n] = @ + 1]
    /\ UNCHANGED arrived

Next == Arrive \/ \E n \in Numbered : Deliver(n)

Spec == Init /\ [][Next]_<<arrived, delivered>>
=============================================================================
