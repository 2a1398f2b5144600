---------------------------- MODULE StageRules ----------------------------
(***************************************************************************)
(* The rules of crypto/execution_stage.py, as operators on values: what a  *)
(* stage ledger, its anchor, the approvals and the running policy say the  *)
(* execution stage IS (_resolve), which transition the ladder allows       *)
(* (plan_transition), what a demotion writes (demote_record), and which    *)
(* chain a new row may extend (_chain_to_extend).                          *)
(*                                                                         *)
(* A stage is its rank on LADDER.  A record keeps the fields a rule reads; *)
(* its stage_id and record_sha256 are the record itself, and a row's       *)
(* row_sha256 is the chain up to that row, so an anchor is the prefix of   *)
(* the ledger it vouches for (<<>> when there is no anchor file).          *)
(* Venue, schema and self-hash damage, which the doors never write, are    *)
(* left out.                                                               *)
(***************************************************************************)
EXTENDS Integers, Sequences

CONSTANTS
  Policies,   \* policy identities (version and safety fingerprint)
  NoPolicy    \* the policy field of a record that binds none

ASSUME PolicyAssumption == Policies # {} /\ NoPolicy \notin Policies

READ_ONLY       == 0
SHADOW          == 1
PAPER           == 2
SIGNED_TESTNET  == 3
LIVE_AUTONOMOUS == 4
LIVE_SCALED     == 5
LADDER == READ_ONLY .. LIVE_SCALED
NONE   == -1                                  \* previous_stage / from_stage None
BOOTSTRAP_STAGES == {SHADOW, PAPER}

\* Why a record reads READ_ONLY ("OK": it binds), and what an ask replaces.
Reasons == {"OK", "RECORD_MISSING", "LEDGER_MISSING", "LEDGER_BROKEN",
            "ANCHOR_MISSING", "ROLLED_BACK", "ANCHOR_BEHIND",
            "TRANSITION_INVALID", "NOT_YET_EFFECTIVE", "NOT_WITNESSED",
            "POLICY_CHANGED"}

Transitions == {"BOOTSTRAP", "CLIMB", "REBIND", "DEMOTE"}

Records == [stage : LADDER, prev : LADDER \cup {NONE}, trans : Transitions,
            approval : Nat, policy : Policies \cup {NoPolicy}, eff : Nat]
NoRecord == [stage |-> NONE, prev |-> NONE, trans |-> "NONE",
             approval |-> 0, policy |-> NoPolicy, eff |-> 0]

Contents == [trans : Transitions, from : LADDER \cup {NONE}, to : LADDER,
             ref : Records \cup {NoRecord}, policy : Policies, why : Reasons \cup {""}]
NoContent == [trans |-> "NONE", from |-> NONE, to |-> NONE, ref |-> NoRecord,
              policy |-> NoPolicy, why |-> ""]

Tip(rows) == rows[Len(rows)]

-----------------------------------------------------------------------------
(* The chain and its anchor.                                               *)

\* read_ledger: every non-BOOTSTRAP record continues from the row before it,
\* and no approval witnesses two approved rows.
Verifies(rows) ==
  /\ \A i \in 2 .. Len(rows) :
       rows[i].trans # "BOOTSTRAP" => rows[i].prev = rows[i-1].stage
  /\ \A i, j \in 1 .. Len(rows) :
       i # j /\ rows[i].trans # "DEMOTE" /\ rows[j].trans # "DEMOTE"
         => rows[i].approval # rows[j].approval

\* Variant of OnChain: the row's number is compared, its hash is not.
OnChainBySeq(anchor, rows) == Len(anchor) <= Len(rows)

\* _anchor_problem: the row the anchor names is on the chain.
OnChain(anchor, rows) ==
  /\ Len(anchor) <= Len(rows)
  /\ \A i \in 1 .. Len(anchor) : rows[i] = anchor[i]

\* Variant of AnchorProblem: an anchor one row behind does not vouch either.
AnchorProblemExact(rows, anchor) ==
  IF anchor = <<>> THEN "ANCHOR_MISSING"
  ELSE IF anchor # rows THEN "ROLLED_BACK" ELSE "OK"

AnchorProblem(rows, anchor) ==
  IF anchor = <<>> THEN "ANCHOR_MISSING"
  ELSE IF ~OnChain(anchor, rows) THEN "ROLLED_BACK"
  ELSE IF Len(rows) > Len(anchor) + 1 THEN "ANCHOR_BEHIND"
  ELSE "OK"

\* _chain_to_extend: <<>> when a new chain must start.
ChainToExtend(rows, anchor) ==
  IF Verifies(rows) /\ anchor # <<>> /\ OnChain(anchor, rows) THEN rows ELSE <<>>

\* _may_start_chain and assert_appendable.
MayStartChain(rec) ==
  rec.trans = "BOOTSTRAP" \/ (rec.trans = "DEMOTE" /\ rec.stage = READ_ONLY)

Appendable(rec, rows, anchor) ==
  ChainToExtend(rows, anchor) # <<>> \/ MayStartChain(rec)

-----------------------------------------------------------------------------
(* What the machine's stage is.                                            *)

\* _transition_consistent.  A DEMOTE carries its ancestor's approval, every
\* other transition its own; READ_ONLY carries none.
TransitionConsistent(rec) ==
  \/ rec.trans = "BOOTSTRAP" /\ rec.prev = NONE /\ rec.stage \in BOOTSTRAP_STAGES
                             /\ rec.approval # 0
  \/ rec.trans = "CLIMB"  /\ rec.prev \notin {NONE, READ_ONLY}
                          /\ rec.stage = rec.prev + 1 /\ rec.approval # 0
  \/ rec.trans = "REBIND" /\ rec.prev = rec.stage /\ rec.stage # READ_ONLY
                          /\ rec.approval # 0
  \/ rec.trans = "DEMOTE" /\ rec.stage = READ_ONLY /\ rec.prev # READ_ONLY
                          /\ rec.approval = 0
  \/ rec.trans = "DEMOTE" /\ rec.stage # READ_ONLY /\ rec.stage < rec.prev
                          /\ rec.approval # 0

\* _witness_reason: the record stands on a spent approval whose content it
\* carries; a DEMOTE sits strictly below the approval it descends from.
Witnessed(rec, asks) ==
  \/ rec.trans = "DEMOTE" /\ rec.stage = READ_ONLY
  \/ /\ rec.approval \in DOMAIN asks
     /\ LET ask == asks[rec.approval] IN
        /\ ask.status = "CONSUMED"
        /\ rec.policy = ask.content.policy
        /\ IF rec.trans = "DEMOTE"
           THEN rec.stage < ask.content.to
           ELSE /\ rec.trans = ask.content.trans
                /\ rec.stage = ask.content.to
                /\ rec.prev  = ask.content.from
                /\ rec.eff   = ask.consumedAt

\* _resolve, in the order the code refuses.
Reason(rows, anchor, mirror, asks, policy, now) ==
  IF rows = <<>>
    THEN IF mirror = NoRecord THEN "RECORD_MISSING" ELSE "LEDGER_MISSING"
  ELSE IF ~Verifies(rows) THEN "LEDGER_BROKEN"
  ELSE IF AnchorProblem(rows, anchor) # "OK" THEN AnchorProblem(rows, anchor)
  ELSE IF ~TransitionConsistent(Tip(rows)) THEN "TRANSITION_INVALID"
  ELSE IF Tip(rows).eff > now THEN "NOT_YET_EFFECTIVE"
  ELSE IF ~Witnessed(Tip(rows), asks) THEN "NOT_WITNESSED"
  ELSE IF Tip(rows).stage # READ_ONLY /\ Tip(rows).policy # policy
    THEN "POLICY_CHANGED"
  ELSE "OK"

\* The record a status names: the tip, the mirror when the ledger is missing,
\* nothing when the chain does not verify.
NamedRecord(rows, mirror) ==
  IF rows = <<>> THEN mirror ELSE IF Verifies(rows) THEN Tip(rows) ELSE NoRecord

Resolve(rows, anchor, mirror, asks, policy, now) ==
  LET reason == Reason(rows, anchor, mirror, asks, policy, now)
      rec    == NamedRecord(rows, mirror)
  IN [stage   |-> IF reason = "OK" THEN rec.stage ELSE READ_ONLY,
      reason  |-> reason,
      valid   |-> reason = "OK",
      rec     |-> rec,
      present |-> reason # "RECORD_MISSING",
      behind  |-> reason = "OK" /\ Len(anchor) # Len(rows)]

Binding(st) == st.valid /\ st.stage # READ_ONLY

-----------------------------------------------------------------------------
(* What the doors may write.                                               *)

\* Variant of Plan: a climb into LIVE_AUTONOMOUS asks for no testnet cycle.
PlanWithoutEvidence(st, target, policy, cycleComplete) ==
  IF Binding(st) /\ target = st.rec.stage + 1
  THEN [trans |-> "CLIMB", from |-> st.rec.stage, to |-> target, ref |-> st.rec,
        policy |-> policy, why |-> ""]
  ELSE IF ~Binding(st) /\ target \in BOOTSTRAP_STAGES
  THEN [trans |-> "BOOTSTRAP", from |-> NONE, to |-> target, ref |-> st.rec,
        policy |-> policy, why |-> ""]
  ELSE NoContent

\* plan_transition: the content an ask binds, NoContent when it refuses.
\* cycleComplete: the signed testnet cycle the ask names is complete
\* (_live_entry_evidence).
Plan(st, target, policy, cycleComplete) ==
  LET rebindable == ~st.valid /\ st.reason = "POLICY_CHANGED"
      onto(trans, from, why) ==
        [trans |-> trans, from |-> from, to |-> target, ref |-> st.rec,
         policy |-> policy, why |-> why]
      unbound == st.present /\ ~(st.valid /\ st.rec.stage = READ_ONLY)
  IN IF st.behind \/ (target = LIVE_AUTONOMOUS /\ ~cycleComplete) THEN NoContent
     ELSE IF Binding(st)
       THEN IF target = st.rec.stage + 1 /\ target # LIVE_SCALED
            THEN onto("CLIMB", st.rec.stage, "") ELSE NoContent
     ELSE IF rebindable /\ target = st.rec.stage
       THEN onto("REBIND", target, st.reason)
     ELSE IF target \in BOOTSTRAP_STAGES
       THEN onto("BOOTSTRAP", NONE, IF unbound THEN st.reason ELSE "")
     ELSE NoContent

\* Variant of RecordFromApproved: the ask is taken at its word.
RecordUnchecked(content, approval, st, policy, cycleComplete, now) ==
  [stage |-> content.to, prev |-> content.from, trans |-> content.trans,
   approval |-> approval, policy |-> content.policy, eff |-> now]

\* record_from_approved: the record, NoRecord when the machine is no longer
\* the one the transition was asked for.
RecordFromApproved(content, approval, st, policy, cycleComplete, now) ==
  IF /\ content.ref = st.rec
     /\ content.policy = policy
     /\ Plan(st, content.to, policy, cycleComplete) = content
  THEN [stage |-> content.to, prev |-> content.from, trans |-> content.trans,
        approval |-> approval, policy |-> content.policy, eff |-> now]
  ELSE NoRecord

\* Variants of DemoteRecord: a stop needs a record that binds; a lowered rung
\* forgets the row it continues.
DemoteBindingOnly(st, target, now) ==
  IF Binding(st) /\ target < st.rec.stage
  THEN [stage |-> target, prev |-> st.rec.stage, trans |-> "DEMOTE",
        approval |-> IF target = READ_ONLY THEN 0 ELSE st.rec.approval,
        policy |-> IF target = READ_ONLY THEN NoPolicy ELSE st.rec.policy, eff |-> now]
  ELSE NoRecord

DemoteUnlinked(st, target, now) ==
  IF Binding(st) /\ target < st.rec.stage
  THEN [stage |-> target, prev |-> NONE, trans |-> "DEMOTE",
        approval |-> st.rec.approval, policy |-> st.rec.policy, eff |-> now]
  ELSE NoRecord

\* demote_record: to READ_ONLY from anything present, to another rung only
\* from a record that binds, whose witness and policy it carries.
DemoteRecord(st, target, now) ==
  LET lowered(prev, approval, policy) ==
        [stage |-> target, prev |-> prev, trans |-> "DEMOTE",
         approval |-> approval, policy |-> policy, eff |-> now]
  IN IF target = READ_ONLY
     THEN IF st.present /\ ~(st.valid /\ st.rec.stage = READ_ONLY)
          THEN lowered(IF st.rec.stage = READ_ONLY THEN NONE ELSE st.rec.stage,
                       0, NoPolicy)
          ELSE NoRecord
     ELSE IF Binding(st) /\ target < st.rec.stage
          THEN lowered(st.rec.stage, st.rec.approval, st.rec.policy)
          ELSE NoRecord
=============================================================================
