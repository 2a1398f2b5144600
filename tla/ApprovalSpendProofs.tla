------------------------ MODULE ApprovalSpendProofs ------------------------
(***************************************************************************)
(* The spend keeps its types, no grant is used twice, and the store         *)
(* implements SingleUseGrant: proofs for any processes, asks and            *)
(* candidates.  The inductive invariant is ApprovalSpend's IInv.            *)
(***************************************************************************)
EXTENDS ApprovalSpend, FiniteSetTheorems, TLAPS

Recs == [at : Places, ask : Asks \cup {Nobody}, cand : Cands \cup {Nobody},
         now : Nat, outcome : Outcomes]

(* The invariants but for the types, which is what the steps argue about.   *)
Rest == LockInv /\ HandInv /\ ActingInv /\ SingleUse

(* At the start nothing is asked and nobody is at work.                     *)
LEMMA InitInv == Init => IInv
  <1> SUFFICES ASSUME Init PROVE IInv
    OBVIOUS
  <1> USE Lifetimes, Names DEF Init
  <1>1. TypeOK
    BY DEF TypeOK, NoAsk, NoCand, AtRest, Statuses, Places, Outcomes, Never
  <1>2. Rest
    BY DEF Rest, LockInv, HandInv, ActingInv, SingleUse, Acting, AtRest, Procs
  <1> QED
    BY <1>1, <1>2 DEF IInv, Rest

Approvals == [status : Statuses, target : Cands \cup {Trial, Nobody}, expires : Nat]

(* A row that only moves an ask's status keeps the store typed.             *)
LEMMA StatusMoves ==
  ASSUME TypeOK, NEW a \in Asks, NEW status \in Statuses,
         approval' = [approval EXCEPT ![a].status = status]
  PROVE  /\ approval' \in [Asks -> Approvals]
         /\ \A b \in Asks : Status(b)' = IF b = a THEN status ELSE Status(b)
  <1>1. approval \in [Asks -> Approvals]
    BY DEF TypeOK, Approvals
  <1>2. [approval[a] EXCEPT !.status = status] \in Approvals
    BY <1>1 DEF Approvals
  <1>3. approval' \in [Asks -> Approvals]
    BY <1>1, <1>2
  <1>4. [approval[a] EXCEPT !.status = status].status = status
    BY <1>1 DEF Approvals
  <1> QED
    BY <1>1, <1>3, <1>4 DEF Status

(* The steps of the world leave every process where it is, and change no    *)
(* status a process depends on.                                             *)
LEMMA WorldKeepsIInv == ASSUME IInv, World PROVE IInv'
  <1> USE Lifetimes, Names
  <1> TypeOK /\ Rest
    BY DEF IInv, Rest
  <1>1. CASE Tick
    <2>1. TypeOK'
      BY <1>1 DEF TypeOK, Tick, files, history
    <2>2. Rest'
      BY <1>1 DEF Tick, files, history, Rest, LockInv, HandInv, ActingInv, SingleUse, Acting, Status
    <2> QED
      BY <2>1, <2>2 DEF IInv, Rest
  <1>2. CASE SwitchControl
    <2>1. TypeOK'
      BY <1>2 DEF TypeOK, SwitchControl, files, history
    <2>2. Rest'
      BY <1>2 DEF SwitchControl, files, history, Rest, LockInv, HandInv, ActingInv, SingleUse, Acting, Status
    <2> QED
      BY <2>1, <2>2 DEF IInv, Rest
  <1>3. CASE Prune
    <2>1. \E dead \in SUBSET Cands :
            candidate' = [c \in Cands |->
              IF c \in dead THEN [candidate[c] EXCEPT !.row = "pruned"] ELSE candidate[c]]
      BY <1>3 DEF Prune
    <2>2. TypeOK'
      BY <1>3, <2>1 DEF TypeOK, Prune, world, history
    <2>3. Rest'
      BY <1>3 DEF Prune, world, history, Rest, LockInv, HandInv, ActingInv, SingleUse, Acting, Status
    <2> QED
      BY <2>2, <2>3 DEF IInv, Rest
  <1>4. ASSUME NEW c \in Cands, Propose(c) PROVE IInv'
    <2>1. TypeOK'
      BY <1>4 DEF TypeOK, Propose, world, history
    <2>2. Rest'
      BY <1>4 DEF Propose, world, history, Rest, LockInv, HandInv, ActingInv, SingleUse, Acting, Status
    <2> QED
      BY <2>1, <2>2 DEF IInv, Rest
  <1>5. ASSUME NEW a \in Asks, NEW target \in Cands \cup {Trial}, Request(a, target) PROVE IInv'
    <2>1. TypeOK'
      BY <1>5 DEF TypeOK, Request, world, history, Statuses
    <2>2. Rest'
      BY <1>5 DEF Request, world, history, Rest, LockInv, HandInv, ActingInv, SingleUse, Acting, Status, TypeOK
    <2> QED
      BY <2>1, <2>2 DEF IInv, Rest
  <1>6. ASSUME NEW a \in Asks, NEW answer \in {"APPROVED", "REJECTED"}, Decide(a, answer) PROVE IInv'
    <2>1. TypeOK'
      <3> DEFINE decided == IF Expired(approval[a], clock) THEN "EXPIRED" ELSE answer
      <3>1. decided \in Statuses
        BY DEF Statuses
      <3>2. approval' = [approval EXCEPT ![a].status = decided]
        BY <1>6 DEF Decide
      <3> HIDE DEF decided
      <3>3. approval' \in [Asks -> Approvals]
        BY <3>1, <3>2, StatusMoves
      <3> QED
        BY <1>6, <3>3 DEF TypeOK, Approvals, Decide, world, history
    <2>2. Rest'
      BY <1>6 DEF Decide, world, history, Rest, LockInv, HandInv, ActingInv, SingleUse, Acting, Status, TypeOK
    <2> QED
      BY <2>1, <2>2 DEF IInv, Rest
  <1> QED
    BY <1>1, <1>2, <1>3, <1>4, <1>5, <1>6 DEF World

(* What a step within a door's run does to the processes, and what ending   *)
(* one does.                                                                *)
LEMMA GoMoves ==
  ASSUME TypeOK, NEW p \in Procs, NEW place \in Places, Go(p, place)
  PROVE  /\ proc' \in [Procs -> Recs]
         /\ proc'[p].at = place /\ proc'[p].ask = proc[p].ask /\ proc'[p].cand = proc[p].cand
         /\ \A q \in Procs : q # p => proc'[q] = proc[q]
  BY DEF TypeOK, Go, Recs

LEMMA LeaveMoves ==
  ASSUME TypeOK, NEW p \in Procs, NEW outcome \in Outcomes, Leave(p, outcome)
  PROVE  /\ proc' \in [Procs -> Recs]
         /\ proc'[p].at = "idle" /\ proc'[p].ask = proc[p].ask /\ proc'[p].cand = proc[p].cand
         /\ \A q \in Procs : q # p => proc'[q] = proc[q]
         /\ spendLock' = IF spendLock = p THEN Nobody ELSE spendLock
         /\ spendLock' \in Procs \cup {Nobody}
  BY DEF TypeOK, Leave, Recs, Places

(* A door's step moves one process; the facts a step needs about it.        *)
LEMMA DoorKeepsIInv == ASSUME IInv, NEW p \in Procs, Door(p) PROVE IInv'
  <1> USE Lifetimes, Names
  <1> TypeOK /\ Rest /\ proc[p] \in Recs
    BY DEF IInv, Rest, TypeOK, Recs
  <1> USE DEF Recs
  <1>1. ASSUME NEW a \in Asks, SpendBegin(p, a) PROVE IInv'
    <2>1. TypeOK'
      BY <1>1 DEF TypeOK, SpendBegin, world, files, history, Places, Outcomes, Statuses, NoAsk, Status
    <2>2. Rest'
      BY <1>1 DEF SpendBegin, world, files, history, Rest, LockInv, HandInv, ActingInv, SingleUse,
                  Acting, Status, TypeOK
    <2> QED
      BY <2>1, <2>2 DEF IInv, Rest
  <1>2. ASSUME NEW c \in Cands, PromoteBegin(p, c) PROVE IInv'
    <2>1. TypeOK'
      BY <1>2 DEF TypeOK, PromoteBegin, world, files, history, Places, Outcomes
    <2>2. Rest'
      BY <1>2 DEF PromoteBegin, world, files, history, Rest, LockInv, HandInv, ActingInv, SingleUse,
                  Acting, Status, TypeOK
    <2> QED
      BY <2>1, <2>2 DEF IInv, Rest
  <1>3. ASSUME NEW outcome \in Outcomes, Leave(p, outcome), UNCHANGED <<approval, effects>>
        PROVE  Rest'
    <2>1. /\ proc'[p].at = "idle"
          /\ \A q \in Procs : q # p => proc'[q] = proc[q]
          /\ spendLock' = IF spendLock = p THEN Nobody ELSE spendLock
      BY <1>3, LeaveMoves
    <2>2. LockInv'
      BY <2>1 DEF Rest, LockInv
    <2>3. HandInv' /\ ActingInv' /\ SingleUse'
      BY <1>3, <2>1 DEF Rest, HandInv, ActingInv, SingleUse, Acting, Status
    <2> QED
      BY <2>2, <2>3 DEF Rest
  <1>4. CASE LoseSpend(p) \/ GiveUp(p)
    <2>1. TypeOK'
      BY <1>4, LeaveMoves DEF TypeOK, LoseSpend, GiveUp, world, files, history, Outcomes
    <2>2. Rest'
      BY <1>3, <1>4 DEF LoseSpend, GiveUp, files, history, Outcomes
    <2> QED
      BY <2>1, <2>2 DEF IInv, Rest
  <1>5. CASE ResolveCandidate(p)
    <2>1. TypeOK'
      BY <1>5, LeaveMoves, GoMoves DEF TypeOK, ResolveCandidate, world, files, history, Places, Outcomes
    <2>2. CASE Go(p, "spend")
      <3>1. /\ proc'[p].at = "spend" /\ proc'[p].ask = proc[p].ask /\ proc'[p].cand = proc[p].cand
            /\ \A q \in Procs : q # p => proc'[q] = proc[q]
        BY <2>2, GoMoves DEF Places
      <3>2. spendLock = Nobody /\ proc[p].at = "wait" /\ UNCHANGED <<approval, effects>>
        BY <1>5 DEF ResolveCandidate, files, history
      <3>3. spendLock' = p
        BY <1>5, <3>1, <3>2, LeaveMoves DEF ResolveCandidate, Outcomes
      <3>4. LockInv'
        BY <3>1, <3>2, <3>3 DEF Rest, LockInv
      <3>5. HandInv'
        BY <1>5, <3>1, <3>2 DEF ResolveCandidate, Rest, HandInv, Status
      <3>6. ActingInv' /\ SingleUse'
        BY <3>1, <3>2 DEF Rest, ActingInv, SingleUse, Acting, Status
      <3> QED
        BY <2>1, <3>4, <3>5, <3>6 DEF IInv
    <2>3. CASE Leave(p, "CANDIDATE_GONE") \/ Leave(p, "CANDIDATE_EXPIRED")
      <3>1. UNCHANGED <<approval, effects>>
        BY <1>5 DEF ResolveCandidate, files, history
      <3>2. Rest'
        BY <1>3, <2>3, <3>1 DEF Outcomes
      <3> QED
        BY <2>1, <3>2 DEF IInv, Rest
    <2> QED
      BY <1>5, <2>2, <2>3 DEF ResolveCandidate
  <1>6. CASE SpendGrant(p)
    <2>1. TypeOK'
      <3>1. proc' \in [Procs -> Recs]
        BY <1>6, GoMoves DEF SpendGrant, Places
      <3>2. proc[p].ask \in Asks
        BY <1>6 DEF SpendGrant, Rest, HandInv
      <3>3. approval' \in [Asks -> Approvals]
        BY <1>6, <3>2, StatusMoves DEF SpendGrant, MarkConsumed, Statuses
      <3>4. spentAt' \in [Asks -> Nat]
        BY <1>6, <3>2 DEF SpendGrant, MarkConsumed, TypeOK
      <3> QED
        BY <1>6, <3>1, <3>3, <3>4 DEF TypeOK, Approvals, SpendGrant, world
    <2>2. /\ proc'[p].at = "write" /\ proc'[p].ask = proc[p].ask /\ proc'[p].cand = proc[p].cand
          /\ \A q \in Procs : q # p => proc'[q] = proc[q]
      BY <1>6, GoMoves DEF SpendGrant, Places
    <2>3. LockInv'
      BY <1>6, <2>2 DEF SpendGrant, Rest, LockInv, HandInv, MarkConsumed
    <2>4. HandInv'
      BY <1>6, <2>2 DEF SpendGrant, Rest, LockInv, HandInv, ActingInv, Acting, Status, TypeOK, MarkConsumed
    <2>5. ActingInv'
      <3> SUFFICES ASSUME NEW a \in Asks, NEW q \in Procs, Acting(q, a)'
                   PROVE  /\ Status(a)' = "CONSUMED"
                          /\ effects'[a] = 0
                          /\ \A r \in Procs : Acting(r, a)' => r = q
        BY DEF ActingInv
      <3>1. effects' = effects /\ effects[a] \in Nat
        BY <1>6 DEF SpendGrant, TypeOK
      <3>2. Status(proc[p].ask) = "APPROVED" /\ proc[p].ask \in Asks
        BY <1>6 DEF SpendGrant, Rest, HandInv
      <3>3. \A b \in Asks : Status(b)' = IF b = proc[p].ask THEN "CONSUMED" ELSE Status(b)
        BY <1>6, <3>2 DEF SpendGrant, MarkConsumed, Status, TypeOK
      <3>4. \A r \in Procs : r # p => Acting(r, a)' = Acting(r, a)
        BY <2>2 DEF Acting
      <3>5. CASE a = proc[p].ask
        <4>1. \A r \in Procs : ~ Acting(r, a)
          BY <3>2, <3>5 DEF Rest, ActingInv
        <4> QED
          BY <3>1, <3>2, <3>3, <3>4, <3>5, <4>1 DEF Rest, SingleUse
      <3>6. CASE a # proc[p].ask
        <4>1. ~ Acting(p, a)' /\ q # p
          BY <2>2, <3>6 DEF Acting
        <4> QED
          BY <3>1, <3>3, <3>4, <3>6, <4>1 DEF Rest, ActingInv
      <3> QED
        BY <3>5, <3>6
    <2>6. SingleUse'
      BY <1>6, <2>2 DEF SpendGrant, Rest, HandInv, ActingInv, SingleUse, Acting, Status, TypeOK, MarkConsumed
    <2> QED
      BY <2>1, <2>3, <2>4, <2>5, <2>6 DEF IInv
  <1>7. CASE SpendTrial(p)
    <2>1. TypeOK'
      <3>1. proc' \in [Procs -> Recs]
        BY <1>7, GoMoves DEF SpendTrial, Places
      <3>2. proc[p].ask \in Asks
        BY <1>7 DEF SpendTrial, Rest, HandInv
      <3>3. approval' \in [Asks -> Approvals]
        BY <1>7, <3>2, StatusMoves DEF SpendTrial, MarkConsumed, Statuses
      <3>4. spentAt' \in [Asks -> Nat]
        BY <1>7, <3>2 DEF SpendTrial, MarkConsumed, TypeOK
      <3> QED
        BY <1>7, <3>1, <3>3, <3>4 DEF TypeOK, Approvals, SpendTrial, world
    <2>2. /\ proc'[p].at = "run" /\ proc'[p].ask = proc[p].ask /\ proc'[p].cand = proc[p].cand
          /\ \A q \in Procs : q # p => proc'[q] = proc[q]
      BY <1>7, GoMoves DEF SpendTrial, Places
    <2>3. LockInv'
      BY <1>7, <2>2 DEF SpendTrial, Rest, LockInv, HandInv, MarkConsumed
    <2>4. HandInv'
      BY <1>7, <2>2 DEF SpendTrial, Rest, LockInv, HandInv, ActingInv, Acting, Status, TypeOK, MarkConsumed
    <2>5. ActingInv'
      <3> SUFFICES ASSUME NEW a \in Asks, NEW q \in Procs, Acting(q, a)'
                   PROVE  /\ Status(a)' = "CONSUMED"
                          /\ effects'[a] = 0
                          /\ \A r \in Procs : Acting(r, a)' => r = q
        BY DEF ActingInv
      <3>1. effects' = effects /\ effects[a] \in Nat
        BY <1>7 DEF SpendTrial, TypeOK
      <3>2. Status(proc[p].ask) = "APPROVED" /\ proc[p].ask \in Asks
        BY <1>7 DEF SpendTrial, Rest, HandInv
      <3>3. \A b \in Asks : Status(b)' = IF b = proc[p].ask THEN "CONSUMED" ELSE Status(b)
        BY <1>7, <3>2 DEF SpendTrial, MarkConsumed, Status, TypeOK
      <3>4. \A r \in Procs : r # p => Acting(r, a)' = Acting(r, a)
        BY <2>2 DEF Acting
      <3>5. CASE a = proc[p].ask
        <4>1. \A r \in Procs : ~ Acting(r, a)
          BY <3>2, <3>5 DEF Rest, ActingInv
        <4> QED
          BY <3>1, <3>2, <3>3, <3>4, <3>5, <4>1 DEF Rest, SingleUse
      <3>6. CASE a # proc[p].ask
        <4>1. ~ Acting(p, a)' /\ q # p
          BY <2>2, <3>6 DEF Acting
        <4> QED
          BY <3>1, <3>3, <3>4, <3>6, <4>1 DEF Rest, ActingInv
      <3> QED
        BY <3>5, <3>6
    <2>6. SingleUse'
      BY <1>7, <2>2 DEF SpendTrial, Rest, HandInv, ActingInv, SingleUse, Acting, Status, TypeOK, MarkConsumed
    <2> QED
      BY <2>1, <2>3, <2>4, <2>5, <2>6 DEF IInv
  <1>8. CASE RunTrial(p)
    <2>1. TypeOK'
      BY <1>8, GoMoves DEF TypeOK, RunTrial, world, files, Places, HandInv, Rest
    <2>2. /\ proc'[p].at = "report" /\ proc'[p].ask = proc[p].ask /\ proc'[p].cand = proc[p].cand
          /\ \A q \in Procs : q # p => proc'[q] = proc[q]
      BY <1>8, GoMoves DEF RunTrial, Places
    <2>3. LockInv'
      BY <1>8, <2>2 DEF RunTrial, Rest, LockInv, HandInv, files
    <2>4. HandInv'
      BY <1>8, <2>2 DEF RunTrial, Rest, LockInv, HandInv, ActingInv, Acting, Status, TypeOK, files
    <2>5. ActingInv'
      <3> SUFFICES ASSUME NEW a \in Asks, NEW q \in Procs, Acting(q, a)'
                   PROVE  /\ Status(a)' = "CONSUMED"
                          /\ effects'[a] = 0
                          /\ \A r \in Procs : Acting(r, a)' => r = q
        BY DEF ActingInv
      <3>1. ~ Acting(p, a)' /\ q # p
        BY <2>2 DEF Acting
      <3>2. \A r \in Procs : r # p => Acting(r, a)' = Acting(r, a)
        BY <2>2 DEF Acting
      <3>3. a # proc[p].ask
        BY <1>8, <3>1, <3>2 DEF RunTrial, Rest, ActingInv, Acting
      <3>4. effects'[a] = effects[a] /\ Status(a)' = Status(a)
        BY <1>8, <3>3 DEF RunTrial, Status, TypeOK, files
      <3> QED
        BY <3>1, <3>2, <3>4 DEF Rest, ActingInv
    <2>6. SingleUse'
      BY <1>8, <2>2 DEF RunTrial, Rest, HandInv, ActingInv, SingleUse, Acting, Status, TypeOK, files
    <2> QED
      BY <2>1, <2>3, <2>4, <2>5, <2>6 DEF IInv
  <1>9. CASE WriteValidated(p)
    <2>1. TypeOK'
      BY <1>9, GoMoves DEF TypeOK, WriteValidated, world, Places, HandInv, Rest
    <2>2. /\ proc'[p].at = "retire" /\ proc'[p].ask = proc[p].ask /\ proc'[p].cand = proc[p].cand
          /\ \A q \in Procs : q # p => proc'[q] = proc[q]
      BY <1>9, GoMoves DEF WriteValidated, Places
    <2>3. LockInv'
      BY <1>9, <2>2 DEF WriteValidated, Rest, LockInv, HandInv
    <2>4. HandInv'
      BY <1>9, <2>2 DEF WriteValidated, Rest, LockInv, HandInv, ActingInv, Acting, Status, TypeOK
    <2>5. ActingInv'
      <3> SUFFICES ASSUME NEW a \in Asks, NEW q \in Procs, Acting(q, a)'
                   PROVE  /\ Status(a)' = "CONSUMED"
                          /\ effects'[a] = 0
                          /\ \A r \in Procs : Acting(r, a)' => r = q
        BY DEF ActingInv
      <3>1. ~ Acting(p, a)' /\ q # p
        BY <2>2 DEF Acting
      <3>2. \A r \in Procs : r # p => Acting(r, a)' = Acting(r, a)
        BY <2>2 DEF Acting
      <3>3. a # proc[p].ask
        BY <1>9, <3>1, <3>2 DEF WriteValidated, Rest, ActingInv, Acting
      <3>4. effects'[a] = effects[a] /\ Status(a)' = Status(a)
        BY <1>9, <3>3 DEF WriteValidated, Status, TypeOK
      <3> QED
        BY <3>1, <3>2, <3>4 DEF Rest, ActingInv
    <2>6. SingleUse'
      BY <1>9, <2>2 DEF WriteValidated, Rest, HandInv, ActingInv, SingleUse, Acting, Status, TypeOK
    <2> QED
      BY <2>1, <2>3, <2>4, <2>5, <2>6 DEF IInv
  <1>10. CASE Retire(p)
    <2>1. TypeOK'
      <3>1. proc' \in [Procs -> Recs]
        BY <1>10, GoMoves DEF Retire, Places
      <3>2. candidate' \in [Cands -> [row : {"none", "CANDIDATE", "PROMOTED", "pruned"}, expires : Nat]]
        <4>1. proc[p].cand \in Cands
          BY <1>10 DEF Retire, Rest, HandInv
        <4>2. [candidate[proc[p].cand] EXCEPT !.row = "PROMOTED"]
                \in [row : {"none", "CANDIDATE", "PROMOTED", "pruned"}, expires : Nat]
          BY <4>1 DEF TypeOK
        <4> QED
          BY <1>10, <4>1, <4>2 DEF Retire, TypeOK
      <3> QED
        BY <1>10, <3>1, <3>2 DEF TypeOK, Retire, world, history
    <2>2. /\ proc'[p].at = "audit" /\ proc'[p].ask = proc[p].ask /\ proc'[p].cand = proc[p].cand
          /\ \A q \in Procs : q # p => proc'[q] = proc[q]
      BY <1>10, GoMoves DEF Retire, Places
    <2>3. LockInv'
      BY <1>10, <2>2 DEF Retire, Rest, LockInv, HandInv, history
    <2>4. HandInv'
      BY <1>10, <2>2 DEF Retire, Rest, LockInv, HandInv, ActingInv, Acting, Status, TypeOK, history
    <2>5. ActingInv'
      <3>1. \A r \in Procs, a \in Asks : Acting(r, a)' => Acting(r, a)
        BY <2>2 DEF Acting
      <3>2. effects' = effects /\ approval' = approval
        BY <1>10 DEF Retire, history
      <3> QED
        BY <3>1, <3>2 DEF Rest, ActingInv, Status
    <2>6. SingleUse'
      BY <1>10, <2>2 DEF Retire, Rest, HandInv, ActingInv, SingleUse, Acting, Status, TypeOK, history
    <2> QED
      BY <2>1, <2>3, <2>4, <2>5, <2>6 DEF IInv
  <1>11. CASE Audit(p)
    <2>1. TypeOK'
      BY <1>11, LeaveMoves DEF TypeOK, Audit, Subject, world, history, Outcomes, HandInv, Rest
    <2>2. Rest'
      BY <1>3, <1>11 DEF Audit, history, Outcomes
    <2> QED
      BY <2>1, <2>2 DEF IInv, Rest
  <1>12. CASE Fail(p)
    <2>1. TypeOK'
      <3>1. unretired' \in [Cands -> Nat]
        BY <1>12 DEF Fail, TypeOK
      <3>2. failures' \in 0..MaxFailures
        BY <1>12 DEF Fail, TypeOK
      <3> QED
        BY <1>12, <3>1, <3>2, LeaveMoves DEF TypeOK, Fail, files, Outcomes
    <2>2. Rest'
      BY <1>3, <1>12 DEF Fail, files, Outcomes
    <2> QED
      BY <2>1, <2>2 DEF IInv, Rest
  <1> QED
    BY <1>1, <1>2, <1>4, <1>5, <1>6, <1>7, <1>8, <1>9, <1>10, <1>11, <1>12 DEF Door

(* Every reachable state satisfies the invariant.                           *)
THEOREM SpendInvariant == Spec => []IInv
  <1>1. Init => IInv
    BY InitInv
  <1>2. IInv /\ [Next]_vars => IInv'
    <2> SUFFICES ASSUME IInv, [Next]_vars PROVE IInv'
      OBVIOUS
    <2>1. CASE World
      BY <2>1, WorldKeepsIInv
    <2>2. ASSUME NEW p \in Procs, Door(p) PROVE IInv'
      BY <2>2, DoorKeepsIInv
    <2>3. CASE UNCHANGED vars
      BY <2>3 DEF IInv, TypeOK, LockInv, HandInv, ActingInv, SingleUse, Acting, Status,
                  vars, world, files, history
    <2> QED
      BY <2>1, <2>2, <2>3 DEF Next
  <1> QED
    BY <1>1, <1>2, PTL DEF Spec

(* No grant is used twice, and none is used before it was spent: what the   *)
(* spend lock's re-read and the spend-first order are for.                  *)
THEOREM GrantUsedOnce == Spec => []SingleUse
  <1>1. IInv => SingleUse
    BY DEF IInv
  <1> QED
    BY <1>1, SpendInvariant, PTL

-----------------------------------------------------------------------------
(* The store implements the single-use grant of SingleUseGrant.             *)

(* A step that moves the status of one ask from its value to another, and   *)
(* uses nothing, is a Move of the abstract grant.                           *)
LEMMA MoveRefines ==
  ASSUME TypeOK, NEW a \in Asks, NEW status \in Statuses,
         approval' = [approval EXCEPT ![a].status = status], effects' = effects
  PROVE  Grant!Move(a, Status(a), status)
  <1>1. \A b \in Asks : Status(b)' = IF b = a THEN status ELSE Status(b)
    BY StatusMoves
  <1>2. [b \in Asks |-> Status(b)]' = [[b \in Asks |-> Status(b)] EXCEPT ![a] = status]
    BY <1>1
  <1> QED
    BY <1>2 DEF Grant!Move

(* A step that leaves the asks and the effects alone is invisible.          *)
LEMMA QuietRefines ==
  ASSUME UNCHANGED <<approval, effects>> PROVE UNCHANGED Grant!grantVars
  BY DEF Grant!grantVars, Status

(* An effect lands under a spent, unused grant: it is the grant's one use.  *)
LEMMA UseRefines ==
  ASSUME IInv, NEW p \in Procs, NEW a \in Asks, Acting(p, a), UNCHANGED approval,
         effects' = [effects EXCEPT ![a] = @ + 1]
  PROVE  Grant!Use(a)
  <1>1. Status(a) = "CONSUMED" /\ effects[a] = 0
    BY DEF IInv, ActingInv
  <1>2. effects' = [effects EXCEPT ![a] = 1]
    BY <1>1
  <1> QED
    BY <1>1, <1>2 DEF Grant!Use, Status

LEMMA StepRefines == ASSUME IInv, [Next]_vars PROVE [Grant!GrantNext]_(Grant!grantVars)
  <1> TypeOK /\ Rest
    BY DEF IInv, Rest
  <1>1. CASE UNCHANGED <<approval, effects>>
    BY <1>1, QuietRefines
  <1>2. ASSUME NEW a \in Asks, NEW target \in Cands \cup {Trial}, Request(a, target)
        PROVE  Grant!GrantNext
    <2>1. \A b \in Asks : Status(b)' = IF b = a THEN "PENDING" ELSE Status(b)
      BY <1>2 DEF Request, Status, TypeOK
    <2>2. [b \in Asks |-> Status(b)]' = [[b \in Asks |-> Status(b)] EXCEPT ![a] = "PENDING"]
      BY <2>1
    <2>3. Grant!Ask(a)
      BY <1>2, <2>2 DEF Grant!Ask, Grant!Move, Request, history
    <2> QED
      BY <2>3 DEF Grant!GrantNext
  <1>3. ASSUME NEW a \in Asks, NEW answer \in {"APPROVED", "REJECTED"}, Decide(a, answer)
        PROVE  Grant!GrantNext
    <2> DEFINE decided == IF Expired(approval[a], clock) THEN "EXPIRED" ELSE answer
    <2>1. decided \in {"APPROVED", "REJECTED", "EXPIRED"} /\ decided \in Statuses
      BY DEF Statuses
    <2>2. /\ approval' = [approval EXCEPT ![a].status = decided]
          /\ effects' = effects /\ Status(a) = "PENDING"
      BY <1>3 DEF Decide, history
    <2> HIDE DEF decided
    <2>3. Grant!Move(a, "PENDING", decided)
      BY <2>1, <2>2, MoveRefines
    <2>4. Grant!Answer(a)
      BY <2>1, <2>3 DEF Grant!Answer
    <2> QED
      BY <2>4 DEF Grant!GrantNext
  <1>4. ASSUME NEW p \in Procs, SpendGrant(p) \/ SpendTrial(p) PROVE Grant!GrantNext
    <2>1. proc[p].ask \in Asks /\ Status(proc[p].ask) = "APPROVED"
      BY <1>4 DEF SpendGrant, SpendTrial, Rest, HandInv
    <2>2. approval' = [approval EXCEPT ![proc[p].ask].status = "CONSUMED"] /\ effects' = effects
      BY <1>4 DEF SpendGrant, SpendTrial, MarkConsumed
    <2>3. Grant!Spend(proc[p].ask)
      BY <2>1, <2>2, MoveRefines DEF Grant!Spend, Statuses
    <2> QED
      BY <2>1, <2>3 DEF Grant!GrantNext
  <1>5. ASSUME NEW p \in Procs, RunTrial(p) PROVE Grant!GrantNext
    <2>1. proc[p].ask \in Asks /\ Acting(p, proc[p].ask)
      BY <1>5 DEF RunTrial, Rest, HandInv, Acting
    <2>2. Grant!Use(proc[p].ask)
      BY <1>5, <2>1, UseRefines DEF RunTrial, files
    <2> QED
      BY <2>1, <2>2 DEF Grant!GrantNext
  <1>6. ASSUME NEW p \in Procs, WriteValidated(p) PROVE [Grant!GrantNext]_(Grant!grantVars)
    <2>1. CASE proc[p].ask \in Asks
      <3>1. effects' = [effects EXCEPT ![proc[p].ask] = @ + 1]
        BY <1>6, <2>1 DEF WriteValidated, TypeOK
      <3>2. Acting(p, proc[p].ask) /\ UNCHANGED approval
        BY <1>6 DEF WriteValidated, Acting
      <3>3. Grant!Use(proc[p].ask)
        BY <2>1, <3>1, <3>2, UseRefines
      <3> QED
        BY <2>1, <3>3 DEF Grant!GrantNext
    <2>2. CASE proc[p].ask \notin Asks
      <3>1. UNCHANGED <<approval, effects>>
        BY <1>6, <2>2 DEF WriteValidated, TypeOK
      <3> QED
        BY <3>1, QuietRefines
    <2> QED
      BY <2>1, <2>2
  <1>7. CASE World
    BY <1>1, <1>2, <1>3, <1>7 DEF World, Tick, SwitchControl, Prune, Propose, files, history
  <1>8. ASSUME NEW p \in Procs, Door(p) PROVE [Grant!GrantNext]_(Grant!grantVars)
    <2>1. \/ SpendGrant(p) \/ SpendTrial(p) \/ RunTrial(p) \/ WriteValidated(p)
          \/ UNCHANGED <<approval, effects>>
      BY <1>8 DEF Door, SpendBegin, PromoteBegin, LoseSpend, GiveUp, ResolveCandidate, Retire, Audit, Fail,
                  files, history
    <2> QED
      BY <2>1, <1>1, <1>4, <1>5, <1>6
  <1>9. CASE UNCHANGED vars
    BY <1>1, <1>9 DEF vars, files, history
  <1> QED
    BY <1>7, <1>8, <1>9 DEF Next

(* The files implement the abstract grant: every answer final, spent only   *)
(* when approved, used at most once and after the spend.                    *)
THEOREM KeepsItsPromise == Spec => Promise
  <1>1. Init => Grant!GrantInit
    BY DEF Init, Grant!GrantInit, Status, NoAsk
  <1>2. IInv /\ [Next]_vars => [Grant!GrantNext]_(Grant!grantVars)
    BY StepRefines
  <1> QED
    BY <1>1, <1>2, SpendInvariant, PTL DEF Spec, Promise, Grant!GrantSpec
-----------------------------------------------------------------------------
(* The types, the audit and the answer to the loser of a race.              *)

(* Every file, lock and process stays within its types.                     *)
THEOREM SpendTypes == Spec => []TypeOK
  <1>1. IInv => TypeOK
    BY DEF IInv
  <1> QED
    BY <1>1, SpendInvariant, PTL

(* A process that has used ask a and is on its way to the audit.            *)
Carrying(p, a) == proc[p].ask = a /\ proc[p].at \in {"retire", "audit", "report"}

LEMMA AuditStep == ASSUME IInv, EffectsAreAudited, [Next]_vars PROVE EffectsAreAudited'
  <1> TypeOK /\ Rest
    BY DEF IInv, Rest
  <1>1. \A a \in Asks : effects[a] > ledger[a] => (\E p \in Procs : Carrying(p, a)) \/ failures > 0
    BY DEF EffectsAreAudited, Carrying
  <1>2. ASSUME \A a \in Asks : effects'[a] > ledger'[a] =>
                 (\E p \in Procs : Carrying(p, a)') \/ failures' > 0
        PROVE  EffectsAreAudited'
    BY <1>2 DEF EffectsAreAudited, Carrying
  <1>3. failures \in Nat /\ \A a \in Asks : effects[a] \in Nat /\ ledger[a] \in Nat
    BY Lifetimes DEF TypeOK
  <1>4. ASSUME UNCHANGED <<effects, ledger, failures>>,
               \A p \in Procs, a \in Asks : Carrying(p, a) => Carrying(p, a)'
        PROVE  EffectsAreAudited'
    BY <1>1, <1>2, <1>4
  <1>5. CASE World \/ UNCHANGED vars
    BY <1>4, <1>5 DEF World, Tick, SwitchControl, Prune, Propose, Request, Decide, vars, world, files,
       history, Carrying
  <1>6. ASSUME NEW p \in Procs, Door(p) PROVE EffectsAreAudited'
    <2> proc \in [Procs -> Recs] /\ proc[p] \in Recs
      BY DEF TypeOK, Recs
    <2>1. ASSUME NEW place \in Places, Go(p, place), UNCHANGED <<ledger, failures>>,
                 place \in {"retire", "audit", "report"} \/ proc[p].at \notin {"retire", "audit", "report"},
                 \A a \in Asks : \/ effects'[a] = effects[a]
                                 \/ a = proc[p].ask /\ place \in {"retire", "report"}
          PROVE  EffectsAreAudited'
      <3>1. /\ proc'[p].at = place /\ proc'[p].ask = proc[p].ask
            /\ \A q \in Procs : q # p => proc'[q] = proc[q]
        BY <2>1, GoMoves
      <3>2. \A q \in Procs, a \in Asks : Carrying(q, a) => Carrying(q, a)'
        BY <2>1, <3>1 DEF Carrying
      <3>3. \A a \in Asks : effects'[a] # effects[a] => Carrying(p, a)'
        BY <2>1, <3>1 DEF Carrying
      <3> QED
        BY <1>1, <1>2, <2>1, <3>2, <3>3
    <2>2. ASSUME NEW outcome \in Outcomes, Leave(p, outcome),
                 proc[p].at \notin {"retire", "audit", "report"}, UNCHANGED <<effects, ledger, failures>>
          PROVE  EffectsAreAudited'
      <3>1. \A q \in Procs : q # p => proc'[q] = proc[q]
        BY <2>2, LeaveMoves
      <3> QED
        BY <1>4, <2>2, <3>1 DEF Carrying
    <2>3. CASE Audit(p)
      <3>1. \A q \in Procs : q # p => proc'[q] = proc[q]
        BY <2>3, LeaveMoves DEF Audit, Outcomes
      <3>2. UNCHANGED <<effects, failures>> /\ \A a \in Asks : effects[a] <= 1
        BY <2>3 DEF Audit, world, history, Rest, SingleUse
      <3>3. ASSUME NEW a \in Asks, effects[a] > ledger'[a]
            PROVE  (\E q \in Procs : Carrying(q, a)') \/ failures > 0
        <4>1. a # Subject(p)
          BY <1>3, <2>3, <3>2, <3>3 DEF Audit, TypeOK
        <4>2. ledger'[a] = ledger[a]
          BY <2>3, <4>1 DEF Audit, TypeOK
        <4>3. ~ Carrying(p, a)
          BY <4>1, Names DEF Carrying, Subject
        <4> QED
          BY <1>1, <3>1, <3>3, <4>2, <4>3 DEF Carrying
      <3> QED
        BY <1>2, <3>2, <3>3
    <2>4. CASE Fail(p)
      BY <1>2, <1>3, <2>4 DEF Fail
    <2>5. CASE (\E a \in Asks : SpendBegin(p, a)) \/ (\E c \in Cands : PromoteBegin(p, c))
      BY <1>4, <2>5 DEF SpendBegin, PromoteBegin, world, files, history, Carrying
    <2>6. CASE WriteValidated(p) \/ RunTrial(p)
      BY <2>1, <2>6 DEF WriteValidated, RunTrial, world, files, Places, TypeOK
    <2>7. CASE SpendGrant(p) \/ SpendTrial(p) \/ Retire(p)
      BY <2>1, <2>7 DEF SpendGrant, SpendTrial, Retire, world, files, history, Places
    <2>8. CASE LoseSpend(p) \/ GiveUp(p)
      BY <2>2, <2>8 DEF LoseSpend, GiveUp, world, files, history, Outcomes
    <2>9. CASE ResolveCandidate(p)
      BY <2>1, <2>2, <2>9 DEF ResolveCandidate, world, files, history, Places, Outcomes
    <2> QED
      BY <1>6, <2>3, <2>4, <2>5, <2>6, <2>7, <2>8, <2>9 DEF Door
  <1> QED
    BY <1>5, <1>6 DEF Next

(* Whatever a grant did is in the audit ledger, or its door is on the way   *)
(* there, or a write failed.                                                *)
THEOREM NothingUnaudited == Spec => []EffectsAreAudited
  <1>1. Init => EffectsAreAudited
    BY Names DEF Init, EffectsAreAudited
  <1>2. IInv /\ EffectsAreAudited /\ [Next]_vars => EffectsAreAudited'
    BY AuditStep
  <1> QED
    BY <1>1, <1>2, SpendInvariant, PTL DEF Spec

(* A door under way has no outcome yet.                                     *)
Unreported == \A p \in Procs : proc[p].at # "idle" => proc[p].outcome = "none"

LEMMA UnreportedStep ==
  ASSUME IInv, Unreported, [Next]_vars
  PROVE  /\ Unreported'
         /\ \A p \in Procs :
              proc'[p].outcome \in {"CANDIDATE_GONE", "CANDIDATE_EXPIRED"} /\ proc[p].at = "wait"
                => Status(proc[p].ask) = "APPROVED"
  <1> DEFINE Told == \A p \in Procs :
        proc'[p].outcome \in {"CANDIDATE_GONE", "CANDIDATE_EXPIRED"} /\ proc[p].at = "wait"
          => Status(proc[p].ask) = "APPROVED"
  <1> TypeOK /\ proc \in [Procs -> Recs]
    BY DEF IInv, TypeOK, Recs
  <1>1. CASE World \/ UNCHANGED vars
    BY <1>1 DEF World, Tick, SwitchControl, Prune, Propose, Request, Decide, vars, world, files,
       history, Unreported
  <1>2. ASSUME NEW p \in Procs, Door(p) PROVE Unreported' /\ Told
    <2>1. \A q \in Procs : q # p => proc'[q] = proc[q]
      BY <1>2 DEF Door, SpendBegin, PromoteBegin, LoseSpend, GiveUp, ResolveCandidate, SpendGrant,
         SpendTrial, RunTrial, WriteValidated, Retire, Audit, Fail, Go, Leave
    <2>2. proc'[p].at # "idle" => proc'[p].outcome = "none"
      BY <1>2 DEF Door, SpendBegin, PromoteBegin, LoseSpend, GiveUp, ResolveCandidate, SpendGrant,
         SpendTrial, RunTrial, WriteValidated, Retire, Audit, Fail, Go, Leave, Unreported, Recs
    <2>3. \/ Status(proc[p].ask) = "APPROVED"
          \/ proc[p].at # "wait"
          \/ proc'[p].outcome \in {"ALREADY_CONSUMED", "LOCK_TIMEOUT", "FAILED", "DIED", "none"}
      BY <1>2 DEF Door, SpendBegin, PromoteBegin, LoseSpend, GiveUp, ResolveCandidate, SpendGrant,
         SpendTrial, RunTrial, WriteValidated, Retire, Audit, Fail, Go, Leave, Unreported, Recs
    <2> QED
      BY <2>1, <2>2, <2>3 DEF Unreported
  <1> QED
    BY <1>1, <1>2 DEF Next

(* A grant another process has spent is refused as ALREADY_CONSUMED, never  *)
(* as a candidate that is gone.                                             *)
THEOREM LosersLearn == Spec => LoserLearnsItLost
  <1>1. Init => Unreported
    BY DEF Init, Unreported, AtRest
  <1>2. IInv /\ Unreported /\ [Next]_vars => Unreported'
    BY UnreportedStep
  <1>3. IInv /\ Unreported /\ [Next]_vars =>
          [\A p \in Procs :
             proc'[p].outcome \in {"CANDIDATE_GONE", "CANDIDATE_EXPIRED"} /\ proc[p].at = "wait"
               => Status(proc[p].ask) = "APPROVED"]_vars
    BY UnreportedStep
  <1> QED
    BY <1>1, <1>2, <1>3, SpendInvariant, PTL DEF Spec, LoserLearnsItLost
-----------------------------------------------------------------------------
(* Two grants for one candidate cannot both promote it.                     *)

(* A process under way with an ask in hand holds what that ask targets: the *)
(* candidate, or nothing for a trial.                                       *)
Paired(p) == proc[p].at # "idle" /\ proc[p].ask # Nobody =>
  /\ Status(proc[p].ask) # "none"
  /\ proc[p].cand = IF approval[proc[p].ask].target = Trial THEN Nobody
                                                            ELSE approval[proc[p].ask].target
  /\ proc[p].at = "run" => proc[p].cand = Nobody
InHand == \A p \in Procs : Paired(p)

(* Who is about to promote c under a grant, who did so and has not written  *)
(* the PROMOTED marker yet, and whether c can still be looked up.           *)
Promoting(p, c) == proc[p].at \in {"spend", "write"} /\ proc[p].ask # Nobody /\ proc[p].cand = c
Retiring(p, c)  == proc[p].at = "retire" /\ proc[p].ask # Nobody /\ proc[p].cand = c
Open(c)         == candidate[c].row \in {"none", "CANDIDATE"}

Uses(c) == Cardinality(PromotedByGrant(c))

(* Whoever may still promote c, by the grant in its hand or by looking c up, *)
(* finds no more uses than lost markers.                                    *)
UsesInv == \A c \in Cands :
  /\ IsFiniteSet(PromotedByGrant(c))
  /\ Uses(c) <= 1 + unretired[c]
  /\ Open(c) /\ (\A p \in Procs : ~ Retiring(p, c)) => Uses(c) <= unretired[c]
  /\ (\E p \in Procs : Promoting(p, c)) => Uses(c) <= unretired[c]

(* A step that uses no grant for a candidate, and hands nobody a candidate  *)
(* that has been used, keeps the count.                                     *)
LEMMA UsesFrame ==
  ASSUME TypeOK, UsesInv, NEW c \in Cands,
         PromotedByGrant(c)' = PromotedByGrant(c), unretired'[c] \in Nat, unretired'[c] >= unretired[c],
         Open(c)' => Open(c),
         \A p \in Procs : Retiring(p, c) => \/ Retiring(p, c)'
                                           \/ ~ Open(c)'
                                           \/ unretired'[c] > unretired[c],
         \A p \in Procs : Promoting(p, c)' => Promoting(p, c) \/ Uses(c) <= unretired[c]
  PROVE  /\ IsFiniteSet(PromotedByGrant(c))'
         /\ Uses(c)' <= 1 + unretired'[c]
         /\ Open(c)' /\ (\A p \in Procs : ~ Retiring(p, c)') => Uses(c)' <= unretired'[c]
         /\ (\E p \in Procs : Promoting(p, c)') => Uses(c)' <= unretired'[c]
  <1>1. Uses(c)' = Uses(c) /\ Uses(c) \in Nat /\ unretired[c] \in Nat
    BY FS_CardinalityType DEF Uses, UsesInv, TypeOK
  <1>2. /\ IsFiniteSet(PromotedByGrant(c))
        /\ Uses(c) <= 1 + unretired[c]
        /\ Open(c) /\ (\A p \in Procs : ~ Retiring(p, c)) => Uses(c) <= unretired[c]
        /\ (\E p \in Procs : Promoting(p, c)) => Uses(c) <= unretired[c]
    BY DEF UsesInv
  <1> QED
    BY <1>1, <1>2

(* The same, for the steps that neither use a grant nor lose a marker.      *)
LEMMA UsesKept ==
  ASSUME TypeOK, UsesInv, UNCHANGED <<effects, unretired>>,
         \A a \in Asks : \/ approval'[a].target = approval[a].target
                         \/ effects[a] = 0,
         \A c \in Cands : Open(c)' => Open(c),
         \A p \in Procs, c \in Cands : Retiring(p, c) => Retiring(p, c)' \/ ~ Open(c)',
         \A p \in Procs, c \in Cands : Promoting(p, c)' => Promoting(p, c) \/ Uses(c) <= unretired[c]
  PROVE  UsesInv'
  <1>1. ASSUME NEW c \in Cands PROVE PromotedByGrant(c)' = PromotedByGrant(c)
    BY DEF PromotedByGrant
  <1>2. \A c \in Cands : unretired[c] \in Nat
    BY DEF TypeOK
  <1> QED
    BY <1>1, <1>2, UsesFrame DEF UsesInv

(* The one step that uses a grant for a candidate: the process in front of  *)
(* it was Promoting, and is now the one Retiring.                           *)
LEMMA UsesWrite ==
  ASSUME IInv, InHand, UsesInv, NEW p \in Procs, WriteValidated(p) PROVE UsesInv'
  <1> TypeOK /\ Rest
    BY DEF IInv, Rest
  <1> DEFINE a == proc[p].ask
  <1>1. /\ proc'[p].at = "retire" /\ proc'[p].ask = a /\ proc'[p].cand = proc[p].cand
        /\ \A q \in Procs : q # p => proc'[q] = proc[q]
    BY GoMoves DEF WriteValidated, Places
  <1>2. UNCHANGED <<approval, candidate, unretired>>
    BY DEF WriteValidated
  <1>3. CASE a = Nobody
    <2>1. UNCHANGED effects
      BY <1>3, Names DEF WriteValidated, TypeOK
    <2>2. \A q \in Procs, c \in Cands : /\ Retiring(q, c) => Retiring(q, c)'
                                        /\ Promoting(q, c)' => Promoting(q, c)
      BY <1>1, <1>3 DEF Retiring, Promoting, WriteValidated
    <2> QED
      BY <1>2, <2>1, <2>2, UsesKept DEF Open
  <1>4. CASE a # Nobody
    <2>1. /\ a \in Asks /\ proc[p].at = "write" /\ proc[p].cand \in Cands
          /\ approval[a].target = proc[p].cand /\ effects[a] = 0
      <3>1. a \in Asks /\ proc[p].at = "write" /\ proc[p].cand \in Cands
        BY <1>4 DEF WriteValidated, Rest, HandInv, TypeOK
      <3>2. effects[a] = 0
        BY <3>1 DEF Rest, ActingInv, Acting
      <3>3. approval[a].target = proc[p].cand
        BY <1>4, <3>1, Names DEF InHand, Paired
      <3> QED
        BY <3>1, <3>2, <3>3
    <2>2. \A b \in Asks : effects'[b] = IF b = a THEN 1 ELSE effects[b]
      BY <2>1 DEF WriteValidated
    <2>3. \A q \in Procs : q # p => ~ (proc[q].at \in {"spend", "write", "retire"} /\ proc[q].ask # Nobody)
      BY <1>4, <2>1 DEF Rest, LockInv
    <2>4. ASSUME NEW c \in Cands, c # proc[p].cand
          PROVE  /\ IsFiniteSet(PromotedByGrant(c))'
                 /\ Uses(c)' <= 1 + unretired'[c]
                 /\ Open(c)' /\ (\A q \in Procs : ~ Retiring(q, c)') => Uses(c)' <= unretired'[c]
                 /\ (\E q \in Procs : Promoting(q, c)') => Uses(c)' <= unretired'[c]
      <3>1. PromotedByGrant(c)' = PromotedByGrant(c)
        BY <1>2, <2>1, <2>2, <2>4 DEF PromotedByGrant, TypeOK
      <3>2. \A q \in Procs : /\ Retiring(q, c) => Retiring(q, c)'
                             /\ Promoting(q, c)' => Promoting(q, c)
        BY <1>1, <2>1 DEF Retiring, Promoting
      <3>3. unretired'[c] \in Nat /\ unretired'[c] >= unretired[c] /\ (Open(c)' => Open(c))
        BY <1>2 DEF TypeOK, Open
      <3> HIDE DEF a
      <3> QED
        BY <3>1, <3>2, <3>3, UsesFrame
    <2>5. ASSUME NEW c \in Cands, c = proc[p].cand
          PROVE  /\ IsFiniteSet(PromotedByGrant(c))'
                 /\ Uses(c)' <= 1 + unretired'[c]
                 /\ Open(c)' /\ (\A q \in Procs : ~ Retiring(q, c)') => Uses(c)' <= unretired'[c]
                 /\ (\E q \in Procs : Promoting(q, c)') => Uses(c)' <= unretired'[c]
      <3>1. PromotedByGrant(c)' = PromotedByGrant(c) \cup {a} /\ a \notin PromotedByGrant(c)
        BY <1>2, <2>1, <2>2, <2>5 DEF PromotedByGrant, TypeOK
      <3>2. Promoting(p, c) /\ Retiring(p, c)' /\ \A q \in Procs : ~ Promoting(q, c)'
        BY <1>1, <1>4, <2>1, <2>3, <2>5 DEF Promoting, Retiring
      <3>3. IsFiniteSet(PromotedByGrant(c)) /\ Uses(c) <= unretired[c] /\ unretired[c] \in Nat
        BY <3>2 DEF UsesInv, TypeOK
      <3> HIDE DEF a
      <3>4. /\ IsFiniteSet(PromotedByGrant(c) \cup {a})
            /\ Cardinality(PromotedByGrant(c) \cup {a}) = Uses(c) + 1
            /\ Uses(c) \in Nat
        BY <3>1, <3>3, FS_AddElement, FS_CardinalityType DEF Uses
      <3>5. IsFiniteSet(PromotedByGrant(c))' /\ Uses(c)' = Uses(c) + 1
        BY <3>1, <3>4 DEF Uses
      <3> QED
        BY <1>2, <3>2, <3>3, <3>4, <3>5
    <2> QED
      BY <2>4, <2>5 DEF UsesInv
  <1> QED
    BY <1>3, <1>4

LEMMA InHandStep == ASSUME IInv, InHand, [Next]_vars PROVE InHand'
  <1> TypeOK /\ Rest
    BY DEF IInv, Rest
  <1>1. ASSUME NEW p \in Procs, proc'[p] = proc[p],
               \A a \in Asks : Status(a) # "none" =>
                 Status(a)' # "none" /\ approval'[a].target = approval[a].target
        PROVE  Paired(p)'
    BY <1>1 DEF InHand, Paired, TypeOK
  <1>2. CASE Tick \/ SwitchControl \/ Prune \/ (\E c \in Cands : Propose(c)) \/ UNCHANGED vars
    BY <1>1, <1>2 DEF Tick, SwitchControl, Prune, Propose, vars, files, world, history, Status, InHand
  <1>3. ASSUME NEW a \in Asks, NEW target \in Cands \cup {Trial}, Request(a, target) PROVE InHand'
    BY <1>1, <1>3 DEF Request, Status, TypeOK, InHand
  <1>4. ASSUME NEW a \in Asks, NEW answer \in {"APPROVED", "REJECTED"}, Decide(a, answer) PROVE InHand'
    <2>1. \A b \in Asks : Status(b) # "none" =>
            Status(b)' # "none" /\ approval'[b].target = approval[b].target
      BY <1>4 DEF Decide, Status, TypeOK
    <2> QED
      BY <1>1, <1>4, <2>1 DEF Decide, InHand
  <1>5. ASSUME NEW p \in Procs, Door(p) PROVE InHand'
    <2> proc \in [Procs -> Recs] /\ proc[p] \in Recs
      BY DEF TypeOK, Recs
    <2>1. \A q \in Procs : q # p => proc'[q] = proc[q]
      BY <1>5 DEF Door, SpendBegin, PromoteBegin, LoseSpend, GiveUp, ResolveCandidate, SpendGrant,
         SpendTrial, RunTrial, WriteValidated, Retire, Audit, Fail, Go, Leave
    <2>2. \A a \in Asks : Status(a) # "none" =>
            Status(a)' # "none" /\ approval'[a].target = approval[a].target
      BY <1>5 DEF Door, SpendBegin, PromoteBegin, LoseSpend, GiveUp, ResolveCandidate, SpendGrant,
         SpendTrial, RunTrial, WriteValidated, Retire, Audit, Fail, MarkConsumed, Status, files, TypeOK
    <2> SUFFICES Paired(p)'
      BY <1>1, <2>1, <2>2 DEF InHand
    <2>3. ASSUME NEW place \in Places, Go(p, place), proc[p].at # "idle",
                 place = "run" => proc[p].cand = Nobody
          PROVE  Paired(p)'
      <3>1. proc'[p].at = place /\ proc'[p].ask = proc[p].ask /\ proc'[p].cand = proc[p].cand
        BY <2>3, GoMoves
      <3>2. proc[p].ask \in Asks \/ proc[p].ask = Nobody
        BY DEF Recs
      <3> QED
        BY <2>2, <2>3, <3>1, <3>2 DEF InHand, Paired, Status
    <2>4. ASSUME NEW outcome \in Outcomes, Leave(p, outcome) PROVE Paired(p)'
      BY <2>4, LeaveMoves DEF Paired
    <2>5. CASE \E a \in Asks : SpendBegin(p, a)
      BY <2>2, <2>5 DEF SpendBegin, Paired, Status
    <2>6. CASE \E c \in Cands : PromoteBegin(p, c)
      BY <2>6 DEF PromoteBegin, Paired
    <2>7. CASE SpendGrant(p) \/ SpendTrial(p) \/ RunTrial(p) \/ WriteValidated(p) \/ Retire(p)
      BY <2>3, <2>7 DEF SpendGrant, SpendTrial, RunTrial, WriteValidated, Retire, Places
    <2>8. CASE LoseSpend(p) \/ GiveUp(p) \/ Audit(p) \/ Fail(p)
      BY <2>4, <2>8 DEF LoseSpend, GiveUp, Audit, Fail, Outcomes
    <2>9. CASE ResolveCandidate(p)
      BY <2>3, <2>4, <2>9 DEF ResolveCandidate, Places, Outcomes
    <2> QED
      BY <1>5, <2>5, <2>6, <2>7, <2>8, <2>9 DEF Door
  <1> QED
    BY <1>2, <1>3, <1>4, <1>5 DEF Next, World

LEMMA UsesStep == ASSUME IInv, InHand, UsesInv, [Next]_vars PROVE UsesInv'
  <1> TypeOK /\ Rest
    BY DEF IInv, Rest
  <1>1. ASSUME UNCHANGED <<proc, effects, unretired>>,
               \A a \in Asks : approval'[a].target = approval[a].target \/ effects[a] = 0,
               \A c \in Cands : Open(c)' => Open(c)
        PROVE  UsesInv'
    BY <1>1, UsesKept DEF Retiring, Promoting
  <1>2. CASE Tick \/ SwitchControl \/ UNCHANGED vars
    BY <1>1, <1>2 DEF Tick, SwitchControl, vars, files, history, Open
  <1>3. CASE Prune
    BY <1>1, <1>3 DEF Prune, history, Open, TypeOK
  <1>4. ASSUME NEW c \in Cands, Propose(c) PROVE UsesInv'
    <2>1. \A d \in Cands : Open(d)' => Open(d)
      BY <1>4 DEF Propose, Open, NoCand, TypeOK
    <2> QED
      BY <1>1, <1>4, <2>1 DEF Propose, history
  <1>5. ASSUME NEW a \in Asks, NEW target \in Cands \cup {Trial}, Request(a, target) PROVE UsesInv'
    <2>1. effects[a] = 0
      BY <1>5 DEF Request, Rest, SingleUse, TypeOK
    <2> QED
      BY <1>1, <1>5, <2>1 DEF Request, history, Open
  <1>6. ASSUME NEW a \in Asks, NEW answer \in {"APPROVED", "REJECTED"}, Decide(a, answer) PROVE UsesInv'
    <2>1. \A b \in Asks : approval'[b].target = approval[b].target
      BY <1>6 DEF Decide, TypeOK
    <2> QED
      BY <1>1, <1>6, <2>1 DEF Decide, history, Open
  <1>7. ASSUME NEW p \in Procs, Door(p) PROVE UsesInv'
    <2> proc \in [Procs -> Recs] /\ proc[p] \in Recs
      BY DEF TypeOK, Recs
    <2>1. \A a \in Asks : approval'[a].target = approval[a].target
      BY <1>7 DEF Door, SpendBegin, PromoteBegin, LoseSpend, GiveUp, ResolveCandidate, SpendGrant,
         SpendTrial, RunTrial, WriteValidated, Retire, Audit, Fail, MarkConsumed, files, TypeOK
    <2>2. ASSUME NEW place \in Places, Go(p, place), UNCHANGED <<effects, unretired>>,
                 \A c \in Cands : Open(c)' => Open(c),
                 \A c \in Cands : Retiring(p, c) => ~ Open(c)',
                 \A c \in Cands : place \in {"spend", "write"} /\ proc[p].ask # Nobody /\ proc[p].cand = c
                                    => Promoting(p, c) \/ Uses(c) <= unretired[c]
          PROVE  UsesInv'
      <3>1. /\ proc'[p].at = place /\ proc'[p].ask = proc[p].ask /\ proc'[p].cand = proc[p].cand
            /\ \A q \in Procs : q # p => proc'[q] = proc[q]
        BY <2>2, GoMoves
      <3>2. \A q \in Procs, c \in Cands : Retiring(q, c) => Retiring(q, c)' \/ ~ Open(c)'
        BY <2>2, <3>1 DEF Retiring
      <3>3. \A q \in Procs, c \in Cands : Promoting(q, c)' => Promoting(q, c) \/ Uses(c) <= unretired[c]
        BY <2>2, <3>1 DEF Promoting
      <3> QED
        BY <2>1, <2>2, <3>2, <3>3, UsesKept
    <2>3. ASSUME NEW outcome \in Outcomes, Leave(p, outcome), proc[p].at # "retire",
                 UNCHANGED <<candidate, effects, unretired>>
          PROVE  UsesInv'
      <3>1. proc'[p].at = "idle" /\ \A q \in Procs : q # p => proc'[q] = proc[q]
        BY <2>3, LeaveMoves
      <3>2. \A q \in Procs, c \in Cands : /\ Retiring(q, c) => Retiring(q, c)'
                                          /\ Promoting(q, c)' => Promoting(q, c)
        BY <2>3, <3>1 DEF Retiring, Promoting
      <3> QED
        BY <2>1, <2>3, <3>2, UsesKept DEF Open
    <2>4. CASE (\E a \in Asks : SpendBegin(p, a)) \/ (\E c \in Cands : PromoteBegin(p, c))
      <3>1. /\ proc[p].at = "idle" /\ \A q \in Procs : q # p => proc'[q] = proc[q]
            /\ proc'[p].at = "wait" \/ proc'[p].ask = Nobody
            /\ UNCHANGED <<approval, candidate, effects, unretired>>
        BY <2>4 DEF SpendBegin, PromoteBegin, files, history
      <3>2. \A q \in Procs, c \in Cands : /\ Retiring(q, c) => Retiring(q, c)'
                                          /\ Promoting(q, c)' => Promoting(q, c)
        BY <3>1 DEF Retiring, Promoting
      <3> QED
        BY <3>1, <3>2, UsesKept DEF Open
    <2>5. CASE LoseSpend(p) \/ GiveUp(p)
      BY <2>3, <2>5 DEF LoseSpend, GiveUp, files, history, Outcomes
    <2>6. CASE ResolveCandidate(p)
      <3>1. CASE Go(p, "spend")
        <4>1. Open(proc[p].cand) \/ proc[p].cand \notin Cands
          BY <2>6, <3>1, GoMoves, LeaveMoves DEF ResolveCandidate, Places, Outcomes, Open, Live
        <4>2. \A q \in Procs, c \in Cands : ~ Retiring(q, c)
          BY <2>6, Names DEF ResolveCandidate, Rest, LockInv, Retiring
        <4>3. \A c \in Cands : proc[p].cand = c => Uses(c) <= unretired[c]
          BY <4>1, <4>2 DEF UsesInv
        <4> QED
          BY <2>2, <2>6, <3>1, <4>2, <4>3 DEF ResolveCandidate, files, history, Places, Open
      <3>2. CASE Leave(p, "CANDIDATE_GONE") \/ Leave(p, "CANDIDATE_EXPIRED")
        BY <2>3, <2>6, <3>2 DEF ResolveCandidate, files, history, Outcomes
      <3> QED
        BY <2>6, <3>1, <3>2 DEF ResolveCandidate
    <2>7. CASE SpendGrant(p)
      <3>1. \A c \in Cands : ~ Retiring(p, c) /\ (proc[p].ask # Nobody /\ proc[p].cand = c => Promoting(p, c))
        BY <2>7 DEF SpendGrant, Retiring, Promoting
      <3> QED
        BY <2>2, <2>7, <3>1 DEF SpendGrant, Places, Open
    <2>8. CASE SpendTrial(p)
      <3>1. \A c \in Cands : ~ Retiring(p, c)
        BY <2>8 DEF SpendTrial, Retiring
      <3> QED
        BY <2>2, <2>8, <3>1 DEF SpendTrial, Places, Open
    <2>9. CASE RunTrial(p)
      <3> DEFINE a == proc[p].ask
      <3>1. a \in Asks /\ approval[a].target \notin Cands
        BY <2>9, Names DEF RunTrial, Rest, HandInv, InHand, Paired
      <3>2. /\ UNCHANGED <<approval, candidate, unretired>>
            /\ \A b \in Asks : b # a => effects'[b] = effects[b]
        BY <2>9, <3>1 DEF RunTrial, files, TypeOK
      <3>3. \A c \in Cands : PromotedByGrant(c)' = PromotedByGrant(c)
        BY <3>1, <3>2 DEF PromotedByGrant
      <3>4. /\ proc'[p].at = "report" /\ proc[p].at = "run"
            /\ \A q \in Procs : q # p => proc'[q] = proc[q]
        BY <2>9, GoMoves DEF RunTrial, Places
      <3>5. \A q \in Procs, c \in Cands : /\ Retiring(q, c) => Retiring(q, c)'
                                          /\ Promoting(q, c)' => Promoting(q, c)
        BY <3>4 DEF Retiring, Promoting
      <3> HIDE DEF a
      <3>6. \A c \in Cands : unretired'[c] \in Nat /\ unretired'[c] >= unretired[c] /\ (Open(c)' => Open(c))
        BY <3>2 DEF TypeOK, Open
      <3> QED
        BY <3>3, <3>5, <3>6, UsesFrame DEF UsesInv
    <2>10. CASE WriteValidated(p)
      BY <2>10, UsesWrite
    <2>11. CASE Retire(p)
      <3>1. proc[p].cand \in Cands
        BY <2>11 DEF Retire, Rest, HandInv
      <3>2. \A c \in Cands : (Open(c)' => Open(c)) /\ (Retiring(p, c) => ~ Open(c)')
        BY <2>11, <3>1 DEF Retire, Open, Retiring, TypeOK
      <3> QED
        BY <2>2, <2>11, <3>2 DEF Retire, history, Places
    <2>12. CASE Audit(p)
      BY <2>3, <2>12 DEF Audit, history, Outcomes
    <2>13. CASE Fail(p)
      <3>1. proc'[p].at = "idle" /\ \A q \in Procs : q # p => proc'[q] = proc[q]
        BY <2>13, LeaveMoves DEF Fail, Outcomes
      <3>2. UNCHANGED <<approval, candidate, effects>>
        BY <2>13 DEF Fail, files
      <3>3. \A c \in Cands :
              unretired'[c] = IF proc[p].at = "retire" /\ c = proc[p].cand
                              THEN unretired[c] + 1 ELSE unretired[c]
        BY <2>13 DEF Fail
      <3>4. \A c \in Cands : /\ unretired'[c] \in Nat /\ unretired'[c] >= unretired[c]
                             /\ Retiring(p, c) => unretired'[c] > unretired[c]
                             /\ PromotedByGrant(c)' = PromotedByGrant(c)
                             /\ Open(c)' => Open(c)
        BY <3>2, <3>3 DEF Retiring, TypeOK, PromotedByGrant, Open
      <3>5. \A c \in Cands, q \in Procs :
              /\ Retiring(q, c) => Retiring(q, c)' \/ unretired'[c] > unretired[c]
              /\ Promoting(q, c)' => Promoting(q, c)
        BY <3>1, <3>4 DEF Retiring, Promoting
      <3> QED
        BY <3>4, <3>5, UsesFrame DEF UsesInv
    <2> QED
      BY <1>7, <2>4, <2>5, <2>6, <2>7, <2>8, <2>9, <2>10, <2>11, <2>12, <2>13 DEF Door
  <1> QED
    BY <1>2, <1>3, <1>4, <1>5, <1>6, <1>7 DEF Next, World

(* Two grants for one candidate cannot both promote it: a second one does   *)
(* so only after a promotion whose PROMOTED marker was lost, whatever the   *)
(* doors without a grant, the retention pass and the crashes do in between. *)
THEOREM SecondGrantFindsNothing == Spec => []OncePerRetirement
  <1>1. Init => InHand /\ UsesInv
    <2> SUFFICES ASSUME Init PROVE InHand /\ UsesInv
      OBVIOUS
    <2>1. InHand
      BY DEF Init, InHand, Paired, AtRest
    <2>2. \A c \in Cands : PromotedByGrant(c) = {} /\ unretired[c] = 0
      BY DEF Init, PromotedByGrant
    <2>3. \A c \in Cands : IsFiniteSet(PromotedByGrant(c)) /\ Uses(c) = 0
      BY <2>2, FS_EmptySet DEF Uses
    <2> QED
      BY <2>1, <2>2, <2>3 DEF UsesInv
  <1>2. IInv /\ InHand /\ UsesInv /\ [Next]_vars => (InHand /\ UsesInv)'
    BY InHandStep, UsesStep
  <1>3. UsesInv => OncePerRetirement
    BY DEF UsesInv, OncePerRetirement, Uses
  <1> QED
    BY <1>1, <1>2, <1>3, SpendInvariant, PTL DEF Spec
=============================================================================
