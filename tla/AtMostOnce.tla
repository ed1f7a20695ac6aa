----------------------------- MODULE AtMostOnce -----------------------------
(***************************************************************************)
(* What the ways through the system promise of the items that travel them: *)
(* an item is sent at most once, one that is under way arrives or is lost, *)
(* nothing arrives that is not under way, and what is lost never comes     *)
(* back.  One failure may lose several items; they arrive one at a time.   *)
(***************************************************************************)
EXTENDS Naturals

VARIABLES
    unsent,    \* items that may yet be sent
    underway,  \* items that were sent, and have neither arrived nor been lost
    arrived    \* how often each item has arrived

Init ==
    /\ arrived = [x \in DOMAIN arrived |-> 0]
    /\ unsent \subseteq DOMAIN arrived
    /\ underway = {}

\* Items that are not sent any more are under way, or given up.
Leave == unsent' \subseteq unsent /\ underway' \subseteq underway \cup (unsent \ unsent')

Arrive(x) == x \in underway \ underway' /\ arrived' = [arrived EXCEPT ![x] = @ + 1]

Next == Leave /\ (UNCHANGED arrived \/ \E x \in underway : Arrive(x))

Spec == Init /\ [][Next]_<<unsent, underway, arrived>>
=============================================================================
