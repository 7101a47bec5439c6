---------------------------- MODULE PlanContract ----------------------------
(***************************************************************************)
(* What a playbook run promises about its frozen plan, whoever carries it  *)
(* out and however often: actions are opened one after the other, each     *)
(* when all before it are done, and what is done stays done.  A failed     *)
(* action may be opened again by an operator; nothing after it starts      *)
(* before it is done.                                                      *)
(***************************************************************************)
EXTENDS Naturals

CONSTANT Size                   \* longest plan

VARIABLE action                 \* the state of each action of the plan

Slots == 1..Size
States == {"closed", "open", "done", "failed"}

Init == action = [i \in Slots |-> "closed"]

Becomes(i, s) == action' = [action EXCEPT ![i] = s]

\* An action nobody can carry out fails as soon as its turn comes.
Open(i) ==
    /\ action[i] = "closed"
    /\ \A j \in 1..(i - 1) : action[j] = "done"
    /\ Becomes(i, "open") \/ Becomes(i, "failed")

Finish(i) == action[i] = "open" /\ Becomes(i, "done")
Fail(i) == action[i] = "open" /\ Becomes(i, "failed")
Reopen(i) == action[i] = "failed" /\ Becomes(i, "open")

Next == \E i \in Slots : Open(i) \/ Finish(i) \/ Fail(i) \/ Reopen(i)

Spec == Init /\ [][Next]_action
=============================================================================
