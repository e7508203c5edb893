------------------------------- MODULE Mailbox -------------------------------
(***************************************************************************)
(* What the queue between the loops that sample the vehicle and the loop   *)
(* that reports promises, apart from how it is done.  The samples of a     *)
(* signal are numbered in the order they are posted; those up to settled   *)
(* are published or lost, those up to taken are in the reporter's hand,    *)
(* and the others up to posted wait.  A payload is a cut through all       *)
(* signals at one instant, and shares one fate.                            *)
(***************************************************************************)
EXTENDS Naturals

CONSTANT Signals

VARIABLES
    posted,     \* samples of each signal ever posted
    taken,      \* how many of them the reporter has taken
    settled,    \* how many of those are no longer in its hand
    published   \* how many were published

mailVars == <<posted, taken, settled, published>>

Zero == [n \in Signals |-> 0]

Init == posted = Zero /\ taken = Zero /\ settled = Zero /\ published = Zero

Post(n) ==
    /\ posted' = [posted EXCEPT ![n] = @ + 1]
    /\ UNCHANGED <<taken, settled, published>>

\* The reporter, its hand empty, takes all that waits, of every signal.
Take ==
    /\ taken = settled
    /\ taken' = posted
    /\ UNCHANGED <<posted, settled, published>>

\* What is in the hand is published, or lost, all of it.
Publish ==
    /\ settled' = taken
    /\ published' = [n \in Signals |-> published[n] + (taken[n] - settled[n])]
    /\ UNCHANGED <<posted, taken>>

Drop ==
    /\ settled' = taken
    /\ UNCHANGED <<posted, taken, published>>

\* The process ends, and with it both the hand and what waits.
Lose ==
    /\ taken' = posted /\ settled' = posted
    /\ UNCHANGED <<posted, published>>

Next == (\E n \in Signals : Post(n)) \/ Take \/ Publish \/ Drop \/ Lose

Spec == Init /\ [][Next]_mailVars
=============================================================================
