--------------------------- MODULE SingleUseGrant ---------------------------
(***************************************************************************)
(* What a store of approvals promises, without saying how: Thomas's answer *)
(* moves an ask from PENDING once and for all, only an APPROVED grant is    *)
(* spent, and the one action it names happens at most once, after the       *)
(* spend.  A grant signed elsewhere starts APPROVED.  ApprovalSpend and     *)
(* DeployRunner are shown to implement this.                                *)
(***************************************************************************)
CONSTANT Asks

VARIABLES state,    \* state[a] is where ask a is in its life
          used      \* used[a] counts how often the action a was granted for happened

grantVars == <<state, used>>

States == {"none", "PENDING", "APPROVED", "REJECTED", "EXPIRED", "CONSUMED"}

GrantInit == /\ state \in [Asks -> {"none", "APPROVED"}]
             /\ used = [a \in Asks |-> 0]

Move(a, from, to) == /\ state[a] = from
                     /\ state' = [state EXCEPT ![a] = to]
                     /\ UNCHANGED used

Ask(a)    == Move(a, "none", "PENDING")
Answer(a) == \E to \in {"APPROVED", "REJECTED", "EXPIRED"} : Move(a, "PENDING", to)
Spend(a)  == Move(a, "APPROVED", "CONSUMED")

Use(a) == /\ state[a] = "CONSUMED"
          /\ used[a] = 0
          /\ used' = [used EXCEPT ![a] = 1]
          /\ UNCHANGED state

GrantNext == \E a \in Asks : Ask(a) \/ Answer(a) \/ Spend(a) \/ Use(a)

GrantSpec == GrantInit /\ [][GrantNext]_grantVars
=============================================================================
