---------------------------- MODULE ExclusiveUse ----------------------------
(***************************************************************************)
(* What the task of a device promises those who want the device for        *)
(* themselves: one at a time has it, each at most once.                    *)
(***************************************************************************)
CONSTANT Users

VARIABLE turn   \* turn[u]: "away", "waiting", "using" or "done"

Turns == [Users -> {"away", "waiting", "using", "done"}]

Init == turn = [u \in Users |-> "away"]

Ask(u) == turn[u] = "away" /\ turn' = [turn EXCEPT ![u] = "waiting"]

Begin(u) ==
  /\ turn[u] = "waiting" /\ \A v \in Users : turn[v] # "using"
  /\ turn' = [turn EXCEPT ![u] = "using"]

End(u) == turn[u] = "using" /\ turn' = [turn EXCEPT ![u] = "done"]

GiveUp(u) == turn[u] = "waiting" /\ turn' = [turn EXCEPT ![u] = "done"]

Next == \E u \in Users : Ask(u) \/ Begin(u) \/ End(u) \/ GiveUp(u)

Spec == Init /\ [][Next]_turn
=============================================================================
