---------------------------- MODULE ApprovalSpend ----------------------------
(***************************************************************************)
(* How an approval is asked, answered and spent, and how a memory           *)
(* candidate becomes VALIDATED memory: approval.py, consumption.py,         *)
(* trial.py, working_memory.py and the two promotion doors.                 *)
(*                                                                          *)
(* Processes in Spenders run `approval_cli consume` and `trial_cli run`;     *)
(* processes in Promoters promote a candidate without a grant (/promote in  *)
(* the operator loop, scripts/promote_memory_candidate.py).  Only spenders  *)
(* take the spend lock; the files are shared by all.  Thomas's answers come *)
(* from the operator loop alone, so an answer is one step.                  *)
(*                                                                          *)
(* Simplifications.  An ask's content, scope and fingerprint never change   *)
(* after it is stored: an ask is told apart by what it targets.  A          *)
(* candidate id derives from its content and task, so an id is proposed     *)
(* once and its content is the id.  The environment opt-in and the other    *)
(* refusals before the lock leave every file alone and are not steps.       *)
(***************************************************************************)
EXTENDS Naturals, FiniteSets

CONSTANTS Spenders, Promoters,  \* the processes, by the doors they use
          Asks,                 \* approval ids
          Cands,                \* memory candidate ids
          Trial,                \* the target of an ask for a candidate-role trial
          Nobody,               \* no process, no ask and no candidate
          AskTtl, CandTtl,      \* lifetimes, in ticks of the clock
          MaxTime,              \* the clock stops there
          MaxFailures           \* writes that fail and processes that die

Procs == Spenders \cup Promoters

ASSUME Lifetimes == /\ AskTtl \in Nat \ {0}
                    /\ CandTtl \in Nat \ {0}
                    /\ MaxTime \in Nat
                    /\ MaxFailures \in Nat
ASSUME Names == /\ Nobody \notin Procs \cup Asks \cup Cands
                /\ Trial \notin Cands \cup {Nobody}
                /\ Asks \cap Cands = {}

VARIABLES clock,
          allowed,     \* control.execution_allowed: neither paused nor killed
          approval,    \* approvals.jsonl, latest row per ask
          candidate,   \* candidates.jsonl, latest row per candidate
          promoted,    \* validated.jsonl: VALIDATED entries per source candidate
          ledger,      \* audit events per spent ask and per promoted candidate
          spendLock,   \* who holds .consume.lock
          proc,        \* each process: where it is and what it holds in hand
          failures,    \* writes that failed and processes that died so far
          effects,     \* history: promotions and trial runs done under each ask
          spentAt,     \* history: the time each ask was spent, by the real clock
          unretired    \* history: promotions whose PROMOTED marker was never written

files   == <<approval, candidate, promoted, ledger>>
history == <<effects, spentAt, unretired>>
world   == <<clock, allowed, failures>>
vars    == <<world, files, spendLock, proc, history>>
-----------------------------------------------------------------------------
Never == MaxTime + 1      \* a time that does not come: not spent yet

Statuses == {"none", "PENDING", "APPROVED", "REJECTED", "EXPIRED", "CONSUMED"}

(* The steps of a door: waiting for the spend lock, holding the candidate   *)
(* it resolved, then the writes; a trial runs outside the lock.             *)
Places   == {"idle", "wait", "spend", "write", "retire", "audit", "run", "report"}
Outcomes == {"none", "DONE", "ALREADY_CONSUMED", "CANDIDATE_GONE", "CANDIDATE_EXPIRED",
             "LOCK_TIMEOUT", "FAILED", "DIED"}

NoAsk   == [status |-> "none", target |-> Nobody, expires |-> 0]
NoCand  == [row |-> "none", expires |-> 0]
AtRest  == [at |-> "idle", ask |-> Nobody, cand |-> Nobody, now |-> 0, outcome |-> "none"]

Status(a)  == approval[a].status
Live(c)    == candidate[c].row = "CANDIDATE"           \* find_candidate
Expired(record, now) == now >= record.expires

Init == /\ clock = 0
        /\ allowed = TRUE
        /\ approval = [a \in Asks |-> NoAsk]
        /\ candidate = [c \in Cands |-> NoCand]
        /\ promoted = [c \in Cands |-> 0]
        /\ ledger = [s \in Asks \cup Cands |-> 0]
        /\ spendLock = Nobody
        /\ proc = [p \in Procs |-> AtRest]
        /\ failures = 0
        /\ effects = [a \in Asks |-> 0]
        /\ spentAt = [a \in Asks |-> Never]
        /\ unretired = [c \in Cands |-> 0]
-----------------------------------------------------------------------------
(* The world around the doors.                                              *)

Tick == /\ clock < MaxTime
        /\ clock' = clock + 1
        /\ UNCHANGED <<allowed, failures, files, spendLock, proc, history>>

(* /kill or /pause, and /resume.                                            *)
SwitchControl == /\ allowed' = ~ allowed
                 /\ UNCHANGED <<clock, failures, files, spendLock, proc, history>>

(* A run proposes a finding it has not seen.                                *)
Propose(c) ==
  /\ candidate[c] = NoCand
  /\ candidate' = [candidate EXCEPT ![c] = [row |-> "CANDIDATE", expires |-> clock + CandTtl]]
  /\ UNCHANGED <<world, approval, promoted, ledger, spendLock, proc, history>>

(* The retention pass deletes what has expired, under the candidates lock;  *)
(* it sampled its clock at or before the deletion.                          *)
Prune ==
  \E now \in 0..clock :
    LET dead == {c \in Cands : candidate[c].row \in {"CANDIDATE", "PROMOTED"}
                               /\ Expired(candidate[c], now)}
    IN /\ dead # {}
       /\ candidate' = [c \in Cands |->
            IF c \in dead THEN [candidate[c] EXCEPT !.row = "pruned"] ELSE candidate[c]]
       /\ UNCHANGED <<world, approval, promoted, ledger, spendLock, proc, history>>

(* An ask for a live candidate, or for a trial, is stored PENDING.  Asking  *)
(* starts nothing, so it is allowed in any control mode.                    *)
Request(a, target) ==
  /\ Status(a) = "none"
  /\ target \in Cands => Live(target)
  /\ approval' = [approval EXCEPT ![a] =
                    [status |-> "PENDING", target |-> target, expires |-> clock + AskTtl]]
  /\ UNCHANGED <<world, candidate, promoted, ledger, spendLock, proc, history>>

(* Variants of Decide, for the mutants: a decided ask is answered again, and *)
(* the row keeps the verb Thomas sent.                                      *)
DecideAgain(a, answer) ==
  /\ Status(a) \in {"PENDING", "REJECTED"}
  /\ approval' = [approval EXCEPT ![a].status =
                    IF Expired(approval[a], clock) THEN "EXPIRED" ELSE answer]
  /\ UNCHANGED <<world, candidate, promoted, ledger, spendLock, proc, history>>

DecideVerb(a, answer) ==
  /\ Status(a) = "PENDING"
  /\ approval' = [approval EXCEPT ![a].status = IF answer = "APPROVED" THEN "approve" ELSE "reject"]
  /\ UNCHANGED <<world, candidate, promoted, ledger, spendLock, proc, history>>

(* Thomas answers; answering an ask that has timed out retires it.          *)
Decide(a, answer) ==
  /\ Status(a) = "PENDING"
  /\ approval' = [approval EXCEPT ![a].status =
                    IF Expired(approval[a], clock) THEN "EXPIRED" ELSE answer]
  /\ UNCHANGED <<world, candidate, promoted, ledger, spendLock, proc, history>>

-----------------------------------------------------------------------------
(* The doors.  A step moves its process, and Leave ends a door's run: the   *)
(* lock, if held, is released and the outcome is what the door reports.     *)

Go(p, place) == proc' = [proc EXCEPT ![p].at = place]

LeaveHolding(p, outcome) ==     \* a variant for the mutants: the lock is kept
  /\ proc' = [proc EXCEPT ![p].at = "idle", ![p].outcome = outcome]
  /\ UNCHANGED spendLock

Leave(p, outcome) ==
  /\ proc' = [proc EXCEPT ![p].at = "idle", ![p].outcome = outcome]
  /\ spendLock' = IF spendLock = p THEN Nobody ELSE spendLock

(* validate_spendable_approval, with the clock sampled at the start of the  *)
(* command.  Nothing is locked yet.                                         *)
SpendBegin(p, a) ==
  /\ p \in Spenders
  /\ proc[p].at = "idle"
  /\ allowed
  /\ Status(a) = "APPROVED"
  /\ ~ Expired(approval[a], clock)
  /\ proc' = [proc EXCEPT ![p] = [at |-> "wait", ask |-> a, now |-> clock, outcome |-> "none",
               cand |-> IF approval[a].target = Trial THEN Nobody ELSE approval[a].target]]
  /\ UNCHANGED <<world, files, spendLock, history>>

(* spend_lock re-reads the status under the lock: the loser of a concurrent *)
(* spend stops here.                                                        *)
LoseSpend(p) ==
  /\ proc[p].at = "wait"
  /\ spendLock = Nobody
  /\ Status(proc[p].ask) # "APPROVED"
  /\ Leave(p, "ALREADY_CONSUMED")
  /\ UNCHANGED <<world, files, history>>

(* filelock gives up waiting for a lock another process keeps holding.      *)
GiveUp(p) ==
  /\ proc[p].at = "wait"
  /\ spendLock # Nobody
  /\ Leave(p, "LOCK_TIMEOUT")
  /\ UNCHANGED <<world, files, history>>

(* Variants of ResolveCandidate, for the mutants: the candidate is looked   *)
(* up before the status is re-read, or only when the command began.         *)
ResolveFirst(p) ==
  LET c == proc[p].cand IN
  /\ proc[p].at = "wait"
  /\ spendLock = Nobody
  /\ c # Nobody
  /\ \/ ~ Live(c) /\ Leave(p, "CANDIDATE_GONE")
     \/ Live(c) /\ Expired(candidate[c], proc[p].now) /\ Leave(p, "CANDIDATE_EXPIRED")
     \/ /\ Live(c)
        /\ ~ Expired(candidate[c], proc[p].now)
        /\ Status(proc[p].ask) = "APPROVED"
        /\ spendLock' = p
        /\ Go(p, "spend")
  /\ UNCHANGED <<world, files, history>>

ResolveEarlier(p) ==
  /\ proc[p].at = "wait"
  /\ spendLock = Nobody
  /\ Status(proc[p].ask) = "APPROVED"
  /\ proc[p].cand # Nobody
  /\ spendLock' = p
  /\ Go(p, "spend")
  /\ UNCHANGED <<world, files, history>>

(* consume_approval under the lock: the candidate is looked up only after   *)
(* the re-read, and its expiry judged by the clock of SpendBegin.           *)
ResolveCandidate(p) ==
  LET c == proc[p].cand IN
  /\ proc[p].at = "wait"
  /\ spendLock = Nobody
  /\ Status(proc[p].ask) = "APPROVED"
  /\ c # Nobody
  /\ \/ ~ Live(c) /\ Leave(p, "CANDIDATE_GONE")
     \/ Live(c) /\ Expired(candidate[c], proc[p].now) /\ Leave(p, "CANDIDATE_EXPIRED")
     \/ /\ Live(c)
        /\ ~ Expired(candidate[c], proc[p].now)
        /\ spendLock' = p
        /\ Go(p, "spend")
  /\ UNCHANGED <<world, files, history>>

MarkConsumed(a) == /\ approval' = [approval EXCEPT ![a].status = "CONSUMED"]
                   /\ spentAt' = [spentAt EXCEPT ![a] = clock]

(* Spend first: the CONSUMED row lands before the promotion.                *)
SpendGrant(p) ==
  /\ proc[p].at = "spend"
  /\ MarkConsumed(proc[p].ask)
  /\ Go(p, "write")
  /\ UNCHANGED <<world, candidate, promoted, ledger, spendLock, effects, unretired>>

SpendTrialUnread(p) ==     \* a variant for the mutants: the status is not re-read
  /\ proc[p].at = "wait"
  /\ spendLock = Nobody
  /\ proc[p].cand = Nobody
  /\ MarkConsumed(proc[p].ask)
  /\ Go(p, "run")
  /\ UNCHANGED <<world, candidate, promoted, ledger, spendLock, effects, unretired>>

(* run_trial: the compare-and-set and the CONSUMED row under the lock, and  *)
(* the trial itself after it was released.                                  *)
SpendTrial(p) ==
  /\ proc[p].at = "wait"
  /\ spendLock = Nobody
  /\ Status(proc[p].ask) = "APPROVED"
  /\ proc[p].cand = Nobody
  /\ MarkConsumed(proc[p].ask)
  /\ Go(p, "run")
  /\ UNCHANGED <<world, candidate, promoted, ledger, spendLock, effects, unretired>>

RunTrial(p) ==
  /\ proc[p].at = "run"
  /\ effects' = [effects EXCEPT ![proc[p].ask] = @ + 1]
  /\ Go(p, "report")
  /\ UNCHANGED <<world, files, spendLock, spentAt, unretired>>

(* The promotion doors: kill switch, the live candidate and its expiry, no  *)
(* grant and no lock.                                                       *)
PromoteBegin(p, c) ==
  /\ p \in Promoters
  /\ proc[p].at = "idle"
  /\ allowed
  /\ Live(c)
  /\ ~ Expired(candidate[c], clock)
  /\ proc' = [proc EXCEPT ![p] = [at |-> "write", ask |-> Nobody, cand |-> c, now |-> clock,
                                  outcome |-> "none"]]
  /\ UNCHANGED <<world, files, spendLock, history>>

(* append_validated: the entry, from the candidate in hand.                 *)
WriteValidated(p) ==
  /\ proc[p].at = "write"
  /\ promoted' = [promoted EXCEPT ![proc[p].cand] = @ + 1]
  /\ effects' = [a \in Asks |-> IF a = proc[p].ask THEN effects[a] + 1 ELSE effects[a]]
  /\ Go(p, "retire")
  /\ UNCHANGED <<world, approval, candidate, ledger, spendLock, spentAt, unretired>>

RetireLive(p) ==     \* a variant for the mutants: nothing to retire ends the run early
  /\ proc[p].at = "retire"
  /\ IF Live(proc[p].cand)
     THEN /\ candidate' = [candidate EXCEPT ![proc[p].cand].row = "PROMOTED"]
          /\ Go(p, "audit")
          /\ UNCHANGED spendLock
     ELSE Leave(p, "DONE") /\ UNCHANGED candidate
  /\ UNCHANGED <<world, approval, promoted, ledger, history>>

(* mark_promoted: the PROMOTED marker becomes the candidate's latest row.   *)
Retire(p) ==
  /\ proc[p].at = "retire"
  /\ candidate' = [candidate EXCEPT ![proc[p].cand].row = "PROMOTED"]
  /\ Go(p, "audit")
  /\ UNCHANGED <<world, approval, promoted, ledger, spendLock, history>>

Subject(p) == IF proc[p].ask # Nobody THEN proc[p].ask ELSE proc[p].cand

(* The audit event, the last write of every door.                           *)
Audit(p) ==
  /\ proc[p].at \in {"audit", "report"}
  /\ ledger' = [ledger EXCEPT ![Subject(p)] = @ + 1]
  /\ Leave(p, "DONE")
  /\ UNCHANGED <<world, approval, candidate, promoted, history>>

(* The next write of a door fails and it reports so, or its process dies;   *)
(* either way the lock is freed and the rest of its writes never happen.    *)
Fail(p) ==
  /\ proc[p].at # "idle"
  /\ failures < MaxFailures
  /\ failures' = failures + 1
  /\ \E outcome \in {"FAILED", "DIED"} : Leave(p, outcome)
  /\ unretired' = [c \in Cands |-> IF proc[p].at = "retire" /\ c = proc[p].cand
                                   THEN unretired[c] + 1 ELSE unretired[c]]
  /\ UNCHANGED <<clock, allowed, files, effects, spentAt>>
-----------------------------------------------------------------------------
World == \/ Tick \/ SwitchControl \/ Prune
         \/ \E c \in Cands : Propose(c)
         \/ \E a \in Asks : \/ \E target \in Cands \cup {Trial} : Request(a, target)
                            \/ \E answer \in {"APPROVED", "REJECTED"} : Decide(a, answer)

Door(p) == \/ \E a \in Asks : SpendBegin(p, a)
           \/ \E c \in Cands : PromoteBegin(p, c)
           \/ LoseSpend(p) \/ GiveUp(p) \/ ResolveCandidate(p) \/ SpendGrant(p)
           \/ SpendTrial(p) \/ RunTrial(p)
           \/ WriteValidated(p) \/ Retire(p) \/ Audit(p) \/ Fail(p)

Next == World \/ \E p \in Procs : Door(p)

Spec == Init /\ [][Next]_vars
-----------------------------------------------------------------------------
(* What the approval store promises of one grant.                           *)
Grant == INSTANCE SingleUseGrant WITH state <- [a \in Asks |-> Status(a)], used <- effects

(* Every answer is final, only an APPROVED grant is spent, and the action   *)
(* it was given for happens at most once and only after the spend, whatever *)
(* the doors race (approval.spend_lock, "spend first").                     *)
Promise == Grant!GrantSpec

TypeOK ==
  /\ clock \in 0..MaxTime
  /\ allowed \in BOOLEAN
  /\ approval \in [Asks -> [status : Statuses, target : Cands \cup {Trial, Nobody}, expires : Nat]]
  /\ candidate \in [Cands -> [row : {"none", "CANDIDATE", "PROMOTED", "pruned"}, expires : Nat]]
  /\ promoted \in [Cands -> Nat]
  /\ ledger \in [Asks \cup Cands -> Nat]
  /\ spendLock \in Procs \cup {Nobody}
  /\ proc \in [Procs -> [at : Places, ask : Asks \cup {Nobody}, cand : Cands \cup {Nobody},
                        now : Nat, outcome : Outcomes]]
  /\ failures \in 0..MaxFailures
  /\ effects \in [Asks -> Nat]
  /\ spentAt \in [Asks -> Nat]
  /\ unretired \in [Cands -> Nat]

(* No grant is used twice, and none is used before its CONSUMED row         *)
(* (consume_approval and run_trial spend under the lock before they act).   *)
SingleUse == \A a \in Asks : /\ effects[a] <= 1
                             /\ effects[a] > 0 => Status(a) = "CONSUMED"

(* A grant another process has spent is refused as ALREADY_CONSUMED and     *)
(* never as CANDIDATE_GONE, however far the winner has got: the candidate   *)
(* is looked up only after the re-read (consumption.py, 2026-09-18).        *)
LoserLearnsItLost ==
  [][\A p \in Procs :
       proc'[p].outcome \in {"CANDIDATE_GONE", "CANDIDATE_EXPIRED"} /\ proc[p].at = "wait"
         => Status(proc[p].ask) = "APPROVED"]_vars

(* Two grants for one candidate cannot both promote it: a second one does   *)
(* so only after a promotion whose PROMOTED marker was lost                 *)
(* (consume_approval looks the candidate up under the spend lock).          *)
PromotedByGrant(c) == {a \in Asks : approval[a].target = c /\ effects[a] > 0}
OncePerRetirement  == \A c \in Cands : Cardinality(PromotedByGrant(c)) <= 1 + unretired[c]

(* Whatever a grant did is in the audit ledger, or its door is still on the *)
(* way there, or a write failed: no path through the doors skips the audit. *)
EffectsAreAudited ==
  \A a \in Asks : effects[a] > ledger[a] =>
    \/ \E p \in Procs : proc[p].ask = a /\ proc[p].at \in {"retire", "audit", "report"}
    \/ failures > 0

(* The lock is held exactly by a door between its compare-and-set and its    *)
(* last write, and the grant in its hand is in the state the step needs.    *)
LockInv == \A p \in Procs :
  spendLock = p <=> \/ proc[p].at = "spend"
                    \/ proc[p].at \in {"write", "retire", "audit"} /\ proc[p].ask # Nobody

HandInv == \A p \in Procs :
  /\ proc[p].at \in {"wait", "spend", "run", "report"} => proc[p].ask \in Asks
  /\ proc[p].at \in {"spend", "write", "retire", "audit"} => proc[p].cand \in Cands
  /\ proc[p].at = "spend" => Status(proc[p].ask) = "APPROVED"

(* A process about to act under a grant has spent it and is alone with it.  *)
Acting(p, a) == proc[p].at \in {"write", "run"} /\ proc[p].ask = a

ActingInv == \A a \in Asks, p \in Procs : Acting(p, a) =>
  /\ Status(a) = "CONSUMED"
  /\ effects[a] = 0
  /\ \A q \in Procs : Acting(q, a) => q = p

(* What makes SingleUse inductive.                                          *)
IInv == TypeOK /\ LockInv /\ HandInv /\ ActingInv /\ SingleUse

(* "Promotion consumes the candidate, so a second ask/spend for the same id *)
(* resolves to nothing instead of re-promoting the same content"            *)
(* (working_memory.find_candidate): with no failure anywhere, one VALIDATED *)
(* entry per candidate.  The doors that promote without the spend lock      *)
(* break it.                                                                *)
PromotedOnce == failures = 0 => \A c \in Cands : promoted[c] <= 1

(* "It can no longer be consumed" (approval.validate_spendable_approval, of *)
(* an approval past its expiry): no grant is spent at or after its expiry.  *)
(* consume_approval and run_trial judge it by the clock they sampled before *)
(* they waited for the lock.                                                *)
SpentInTime == \A a \in Asks : spentAt[a] # Never => spentAt[a] < approval[a].expires
=============================================================================
