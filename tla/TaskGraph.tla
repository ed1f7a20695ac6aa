----------------------------- MODULE TaskGraph -----------------------------
(***************************************************************************)
(* What the scheduler of exteriord promises: every task of a dependency    *)
(* graph runs at most once, and not before all that it depends on is over. *)
(***************************************************************************)
CONSTANTS Tasks, Deps

VARIABLE status   \* of each task: "waiting", "running" or "over"

TypeInvariant == status \in [Tasks -> {"waiting", "running", "over"}]

Init == status = [t \in Tasks |-> "waiting"]

Begin(t) ==
    /\ status[t] = "waiting"
    /\ \A d \in Deps[t] : status[d] = "over"
    /\ status' = [status EXCEPT ![t] = "running"]

End(t) ==
    /\ status[t] = "running"
    /\ status' = [status EXCEPT ![t] = "over"]

Next == \E t \in Tasks : Begin(t) \/ End(t)

Spec == Init /\ [][Next]_status
=============================================================================
