------------------------------ MODULE AskOnce -------------------------------
(***************************************************************************)
(* What forward_to_agent promises a chat: a call returns once, and it      *)
(* returns an answer only if the agent has answered that very call.        *)
(***************************************************************************)
CONSTANT Call
VARIABLES outcome,  \* "none", "refused", "gave_up" or the call whose answer it returned
          said      \* calls the agent has answered

Init == outcome = [q \in Call |-> "none"] /\ said = {}

\* The agent answers, whoever still waits for it.
Say(q) == said' = said \cup {q} /\ UNCHANGED outcome

Return(q, how) ==
  /\ outcome[q] = "none" /\ outcome' = [outcome EXCEPT ![q] = how]
  /\ UNCHANGED said

\* The bot dies: its calls are over.
Die(Q) ==
  /\ \A q \in Q : outcome[q] = "none"
  /\ outcome' = [q \in Call |-> IF q \in Q THEN "gave_up" ELSE outcome[q]]
  /\ UNCHANGED said

Next == \/ \E q \in Call : \/ Say(q) \/ Return(q, "refused") \/ Return(q, "gave_up")
                           \/ q \in said /\ Return(q, q)
        \/ \E Q \in SUBSET Call : Die(Q)

Spec == Init /\ [][Next]_<<outcome, said>>
=============================================================================
