------------------------------ MODULE Delivery ------------------------------
(***************************************************************************)
(* What a producer promises of each message, whatever queues and retries it *)
(* has inside: it is written only while it is being sent, possibly more     *)
(* than once, and once its sending has ended it is not sent again.          *)
(***************************************************************************)
EXTENDS Naturals

CONSTANTS Msgs,
          MaxWrites   \* bound: writes of one message that are told apart

VARIABLES state,      \* per message: "new", "sending" or "ended"
          written     \* per message: how often the broker wrote it

vars == <<state, written>>

Init == /\ state = [m \in Msgs |-> "new"]
        /\ written = [m \in Msgs |-> 0]

Accept(m) == /\ state[m] = "new"
             /\ state' = [state EXCEPT ![m] = "sending"]
             /\ UNCHANGED written

Write(m) == /\ state[m] = "sending"
            /\ written' = [written EXCEPT ![m] = IF @ < MaxWrites THEN @ + 1 ELSE @]
            /\ UNCHANGED state

\* Destroying a producer ends whatever it was sending at once.
End(S) == /\ \A m \in S : state[m] = "sending"
          /\ state' = [m \in Msgs |-> IF m \in S THEN "ended" ELSE state[m]]
          /\ UNCHANGED written

Next == \/ \E m \in Msgs : Accept(m) \/ Write(m)
        \/ \E S \in SUBSET Msgs : End(S)

Spec == Init /\ [][Next]_vars
=============================================================================
