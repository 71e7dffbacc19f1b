---------------------------- MODULE AtLeastOnce -----------------------------
(***************************************************************************)
(* What webhook delivery promises for every delivery: it is attempted      *)
(* until the customer answers 2xx or the schedule is used up, every        *)
(* attempt is counted, and what is settled stays settled.  The promise is  *)
(* void for a delivery whose job was run twice at once.                    *)
(***************************************************************************)
EXTENDS Naturals

CONSTANTS
    Deliveries,     \* delivery ids
    Limit           \* attempts before a delivery is given up

VARIABLES
    status,         \* "none", "pending", "delivered", "failed" or "void", per delivery
    tries           \* attempts recorded so far, per delivery

abstractVars == <<status, tries>>

Init ==
    /\ status = [d \in Deliveries |-> "none"]
    /\ tries = [d \in Deliveries |-> 0]

Create(d) ==
    /\ status[d] = "none"
    /\ status' = [status EXCEPT ![d] = "pending"]
    /\ UNCHANGED tries

\* One attempt is recorded: accepted, to be tried again, or the last one.
Attempt(d) ==
    /\ status[d] = "pending"
    /\ tries[d] < Limit
    /\ tries' = [tries EXCEPT ![d] = @ + 1]
    /\ \/ status' = [status EXCEPT ![d] = "delivered"]
       \/ tries[d] + 1 < Limit /\ UNCHANGED status
       \/ tries[d] + 1 = Limit /\ status' = [status EXCEPT ![d] = "failed"]

\* The job's lock lapsed under a running worker.
Void(d) ==
    /\ status' = [status EXCEPT ![d] = "void"]
    /\ tries' = [tries EXCEPT ![d] = 0]

\* The organisation is purged, its deliveries with it.
Purge ==
    /\ status' = [d \in Deliveries |-> IF status[d] = "void" THEN "void" ELSE "none"]
    /\ tries' = [d \in Deliveries |-> 0]

Next ==
    \/ \E d \in Deliveries : Create(d) \/ Attempt(d) \/ Void(d)
    \/ Purge

Spec == Init /\ [][Next]_abstractVars
=============================================================================
