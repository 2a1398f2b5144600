--------------------------- MODULE ExecutionStage ---------------------------
(***************************************************************************)
(* The execution stage record and its registration door                    *)
(* (scripts/register_execution_stage.py over crypto/execution_stage.py).   *)
(*                                                                         *)
(* Several --confirm, --demote and --sync-anchor processes share one state *)
(* directory under one stage lock.  A write is three file writes (ledger   *)
(* row, anchor, mirror), preceded by setting an untrusted chain aside, and *)
(* a process may die between any two; a write that raises after its row is *)
(* the same step as dying there.  The state directory may be archived at   *)
(* any moment and restored when no process runs; the anchor is excluded    *)
(* from the archive.                                                       *)
(*                                                                         *)
(* Each invocation samples its clock once, before it waits for the lock,   *)
(* so records need not land in the order of their times.  Invocations      *)
(* start in different seconds.  The kill switch and the expiry of an       *)
(* approval, which can only refuse a --confirm at its start, are left to   *)
(* ApprovalSpend.                                                          *)
(***************************************************************************)
EXTENDS StageRules, FiniteSets

CONSTANTS
  Doors,        \* processes of the registration door
  NoDoor,       \* the stage lock is free
  MaxTime,      \* bound: invocations started in one behaviour
  MaxArchives,  \* bound: archives kept at once
  Targets,      \* bound: the stages the operators ask for or demote to
  StartRung     \* 0: a fresh machine; 2..4: climbed from PAPER to this rung

ASSUME DoorAssumption == NoDoor \notin Doors
ASSUME BoundAssumption ==
  /\ MaxTime \in Nat
  /\ MaxArchives \in Nat
  /\ Targets \subseteq LADDER
  /\ StartRung \in {READ_ONLY} \cup PAPER .. LIVE_AUTONOMOUS
  /\ StartRung - SHADOW <= MaxTime

Times == 1 .. MaxTime

VARIABLES
  ledger,     \* rows of execution_stage_ledger.jsonl; <<>> when there is no file
  anchor,     \* the prefix execution_stage_anchor.json names; <<>> when missing
  mirror,     \* execution_stage.json
  asks,       \* the approvals in the stage's scope, by the time they were asked
  cycle,      \* the signed testnet cycle: "none", "running", "complete"
  policy,     \* the running governance policy
  clock,      \* the last invocation's second
  stageLock,  \* holder of the stage lock
  pc,         \* where each door process is
  now,        \* the second each process sampled
  arg,        \* the approval it confirms, or the stage it demotes to
  rec,        \* the record it is writing
  archives,   \* backups of the state directory, without the anchor
  ceiling,    \* history: the stage of the last row any door landed
  exposed     \* history: a restore ran while the anchor was not at the tip

stores   == <<ledger, anchor, mirror>>
world    == <<policy, cycle, archives, exposed>>
doorVars == <<stageLock, pc, now, arg, rec>>
vars == <<ledger, anchor, mirror, asks, cycle, policy, clock,
          stageLock, pc, now, arg, rec, archives, ceiling, exposed>>

NoAsk == [status |-> "NONE", content |-> NoContent, consumedAt |-> 0]
Asks  == {NoAsk} \cup [status : {"PENDING", "APPROVED", "CONSUMED"},
                       content : Contents, consumedAt : Nat]

PCs == {"idle", "confirm", "demote", "sync", "aside", "row", "anchor", "mirror"}
Waiting == {"confirm", "demote", "sync"}
Writing == {"aside", "row", "anchor", "mirror"}

StageAt(t) == Resolve(ledger, anchor, mirror, asks, policy, t)

\* What a reader that starts now is told.
Effective == StageAt(clock).stage

-----------------------------------------------------------------------------
\* A chain climbed one approved rung at a time, as the door would have left it.
FoundingRow(i) ==
  [stage |-> i + 1, prev |-> IF i = 1 THEN NONE ELSE i,
   trans |-> IF i = 1 THEN "BOOTSTRAP" ELSE "CLIMB",
   approval |-> i, policy |-> policy, eff |-> i]

Founding == [i \in 1 .. (IF StartRung = READ_ONLY THEN 0 ELSE StartRung - 1)
               |-> FoundingRow(i)]

FoundingAsk(i) ==
  [status |-> "CONSUMED", consumedAt |-> i,
   content |-> [trans |-> Founding[i].trans, from |-> Founding[i].prev,
                to |-> Founding[i].stage,
                ref |-> IF i = 1 THEN NoRecord ELSE Founding[i-1],
                policy |-> policy, why |-> ""]]

Init ==
  /\ policy \in Policies
  /\ ledger = Founding
  /\ anchor = ledger
  /\ mirror = IF ledger = <<>> THEN NoRecord ELSE Tip(ledger)
  /\ asks = [t \in Times |-> IF t \in DOMAIN ledger THEN FoundingAsk(t) ELSE NoAsk]
  /\ cycle = IF StartRung = LIVE_AUTONOMOUS THEN "complete" ELSE "none"
  /\ clock = Len(ledger)
  /\ stageLock = NoDoor
  /\ pc  = [d \in Doors |-> "idle"]
  /\ now = [d \in Doors |-> 0]
  /\ arg = [d \in Doors |-> 0]
  /\ rec = [d \in Doors |-> NoRecord]
  /\ archives = {}
  /\ ceiling = StartRung
  /\ exposed = FALSE

-----------------------------------------------------------------------------
(* The ask and Thomas's answer.                                            *)

\* run_request: the content is planned against the stage as it reads now.
Request(target) ==
  LET t       == clock + 1
      content == Plan(StageAt(t), target, policy, cycle = "complete")
  IN /\ t \in Times
     /\ content # NoContent
     /\ asks' = [asks EXCEPT ![t] = [status |-> "PENDING", content |-> content,
                                     consumedAt |-> 0]]
     /\ clock' = t
     /\ UNCHANGED <<stores, world, doorVars, ceiling>>

\* The operator loop records Thomas's APPROVED.  A REJECTED or EXPIRED ask is
\* one that is never approved.
Approve(a) ==
  /\ asks[a].status = "PENDING"
  /\ asks' = [asks EXCEPT ![a].status = "APPROVED"]
  /\ UNCHANGED <<stores, world, doorVars, clock, ceiling>>

-----------------------------------------------------------------------------
(* The door.                                                               *)

\* A process samples its clock and goes to wait for the stage lock.
Begin(d, where, what) ==
  /\ pc[d] = "idle"
  /\ clock + 1 \in Times
  /\ clock' = clock + 1
  /\ pc'  = [pc  EXCEPT ![d] = where]
  /\ now' = [now EXCEPT ![d] = clock + 1]
  /\ arg' = [arg EXCEPT ![d] = what]
  /\ UNCHANGED <<stores, world, asks, stageLock, rec, ceiling>>

\* validate_spendable_approval, before the lock.
ConfirmBegin(d, a) == asks[a].status = "APPROVED" /\ Begin(d, "confirm", a)
DemoteBegin(d, target) == Begin(d, "demote", target)
SyncBegin(d) == Begin(d, "sync", 0)

\* The process is over: refused, finished or dead.  The OS drops its lock.
Leave(d) ==
  /\ stageLock' = IF stageLock = d THEN NoDoor ELSE stageLock
  /\ pc'  = [pc  EXCEPT ![d] = "idle"]
  /\ now' = [now EXCEPT ![d] = 0]
  /\ arg' = [arg EXCEPT ![d] = 0]
  /\ rec' = [rec EXCEPT ![d] = NoRecord]

\* The process has its record and starts append_stage_record: a chain that
\* cannot be extended is set aside first, when there is a file.
StartAppend(d, record) ==
  /\ stageLock' = d
  /\ rec' = [rec EXCEPT ![d] = record]
  /\ pc'  = [pc EXCEPT ![d] =
        IF ledger # <<>> /\ ChainToExtend(ledger, anchor) = <<>>
        THEN "aside" ELSE "row"]
  /\ UNCHANGED <<now, arg>>

\* run_confirm under the stage lock, up to the CONSUMED record: the grant is
\* re-read, the transition re-planned, the append foreseen, then the grant spent.
ConfirmSpend(d) ==
  LET a       == arg[d]
      record  == RecordFromApproved(asks[a].content, a, StageAt(now[d]), policy,
                                    cycle = "complete", now[d])
      granted == /\ asks[a].status = "APPROVED"
                 /\ record # NoRecord
                 /\ Appendable(record, ledger, anchor)
  IN /\ pc[d] = "confirm" /\ stageLock = NoDoor
     /\ \/ /\ granted
           /\ asks' = [asks EXCEPT ![a].status = "CONSUMED",
                                   ![a].consumedAt = now[d]]
           /\ StartAppend(d, record)
        \/ ~granted /\ Leave(d) /\ UNCHANGED asks
     /\ UNCHANGED <<stores, world, clock, ceiling>>

\* Variant of DemotePlan: the refusals of demote_record are not heeded.
DemotePlanUnrefused(d) ==
  LET record == DemoteRecord(StageAt(now[d]), arg[d], now[d])
  IN /\ pc[d] = "demote" /\ stageLock = NoDoor
     /\ StartAppend(d, record)
     /\ UNCHANGED <<stores, world, asks, clock, ceiling>>

\* run_demote under the stage lock, up to the append.
DemotePlan(d) ==
  LET record == DemoteRecord(StageAt(now[d]), arg[d], now[d])
      lands  == record # NoRecord /\ Appendable(record, ledger, anchor)
  IN /\ pc[d] = "demote" /\ stageLock = NoDoor
     /\ \/ lands /\ StartAppend(d, record)
        \/ ~lands /\ Leave(d)
     /\ UNCHANGED <<stores, world, asks, clock, ceiling>>

\* Variant of SyncAnchor: any chain is re-anchored.
SyncAnyChain(d) ==
  /\ pc[d] = "sync" /\ stageLock = NoDoor
  /\ anchor' = IF ledger # <<>> /\ anchor # <<>> THEN ledger ELSE anchor
  /\ Leave(d)
  /\ UNCHANGED <<ledger, mirror, world, asks, clock, ceiling>>

\* sync_anchor: re-anchors the verified tip of a chain the anchor is on.
SyncAnchor(d) ==
  /\ pc[d] = "sync" /\ stageLock = NoDoor
  /\ anchor' = IF ledger # <<>> /\ ChainToExtend(ledger, anchor) # <<>>
               THEN ledger ELSE anchor
  /\ Leave(d)
  /\ UNCHANGED <<ledger, mirror, world, asks, clock, ceiling>>

\* Variant of SetAside: the chain is cut back to the row the anchor names.
CutBack(d) ==
  /\ pc[d] = "aside"
  /\ ledger' = anchor
  /\ pc' = [pc EXCEPT ![d] = "row"]
  /\ UNCHANGED <<anchor, mirror, world, asks, clock, stageLock, now, arg, rec, ceiling>>

\* append_stage_record.  The untrusted chain is renamed out of the way,
SetAside(d) ==
  /\ pc[d] = "aside"
  /\ ledger' = <<>>
  /\ pc' = [pc EXCEPT ![d] = "row"]
  /\ UNCHANGED <<anchor, mirror, world, asks, clock, stageLock, now, arg, rec, ceiling>>

\* the row lands (the chain it extends is the ledger, or none),
WriteRow(d) ==
  /\ pc[d] = "row"
  /\ ledger' = Append(ledger, rec[d])
  /\ ceiling' = rec[d].stage
  /\ pc' = [pc EXCEPT ![d] = "anchor"]
  /\ UNCHANGED <<anchor, mirror, world, asks, clock, stageLock, now, arg, rec>>

\* the anchor follows, or its write fails with a warning,
WriteAnchor(d) ==
  /\ pc[d] = "anchor"
  /\ anchor' \in {ledger, anchor}
  /\ pc' = [pc EXCEPT ![d] = "mirror"]
  /\ UNCHANGED <<ledger, mirror, world, asks, clock, stageLock, now, arg, rec, ceiling>>

\* and the mirror.
WriteMirror(d) ==
  /\ pc[d] = "mirror"
  /\ mirror' = rec[d]
  /\ Leave(d)
  /\ UNCHANGED <<ledger, anchor, world, asks, clock, ceiling>>

\* The process dies, its write raises, or it gives up waiting for the lock.
Crash(d) ==
  /\ pc[d] # "idle"
  /\ Leave(d)
  /\ UNCHANGED <<stores, world, asks, clock, ceiling>>

-----------------------------------------------------------------------------
(* The world around the door.                                              *)

\* A deploy replaces the governance policy.
PolicyChange ==
  /\ policy' \in Policies \ {policy}
  /\ UNCHANGED <<stores, cycle, archives, exposed, asks, clock, doorVars, ceiling>>

\* run_signed_testnet_cycle: admitted at SIGNED_TESTNET, recorded later.
StartCycle ==
  /\ cycle = "none" /\ Effective >= SIGNED_TESTNET
  /\ cycle' = "running"
  /\ UNCHANGED <<stores, policy, archives, exposed, asks, clock, doorVars, ceiling>>

FinishCycle ==
  /\ cycle = "running" /\ cycle' = "complete"
  /\ UNCHANGED <<stores, policy, archives, exposed, asks, clock, doorVars, ceiling>>

\* harness_backup.sh: the state directory without the anchor.
Backup ==
  /\ Cardinality(archives) < MaxArchives
  /\ archives' = archives \cup
       {[ledger |-> ledger, mirror |-> mirror, asks |-> asks, cycle |-> cycle]}
  /\ UNCHANGED <<stores, policy, cycle, exposed, asks, clock, doorVars, ceiling>>

\* RUNBOOK_HARNESS_BACKUP_RESTORE 2.1: the services are stopped and the archive
\* is untarred, over the directory (a file it lacks stays) or into an empty one.
Stopped == \A d \in Doors : pc[d] = "idle"

Restore(b, wiped) ==
  /\ Stopped
  /\ ledger' = IF b.ledger = <<>> /\ ~wiped THEN ledger ELSE b.ledger
  /\ mirror' = IF b.mirror = NoRecord /\ ~wiped THEN mirror ELSE b.mirror
  /\ asks'   = IF ~wiped /\ \A t \in Times : b.asks[t] = NoAsk THEN asks ELSE b.asks
  /\ cycle'  = IF b.cycle = "complete" \/ (cycle = "complete" /\ ~wiped)
               THEN "complete" ELSE "none"
  /\ anchor' = IF wiped THEN <<>> ELSE anchor
  /\ exposed' = (exposed \/ anchor # ledger)
  /\ UNCHANGED <<policy, archives, clock, doorVars, ceiling>>

-----------------------------------------------------------------------------
DoorStep(d) ==
  \/ ConfirmSpend(d) \/ DemotePlan(d) \/ SyncAnchor(d)
  \/ SetAside(d) \/ WriteRow(d) \/ WriteAnchor(d) \/ WriteMirror(d)

DoorBegin(d) ==
  \/ \E a \in Times : ConfirmBegin(d, a)
  \/ \E target \in Targets : DemoteBegin(d, target)
  \/ SyncBegin(d)

World ==
  \/ PolicyChange \/ StartCycle \/ FinishCycle \/ Backup
  \/ \E b \in archives, wiped \in BOOLEAN : Restore(b, wiped)

Running ==
  \/ \E target \in Targets : Request(target)
  \/ \E a \in Times : Approve(a)
  \/ \E d \in Doors : DoorBegin(d) \/ DoorStep(d)
  \/ World

Next == Running \/ \E d \in Doors : Crash(d)

Spec == Init /\ [][Next]_vars

\* No process dies and none gives up on the lock; a live process keeps taking
\* its steps.
CrashFree == Init /\ [][Running]_vars /\ \A d \in Doors : WF_vars(DoorStep(d))

-----------------------------------------------------------------------------
(* Properties.                                                             *)

TypeOK ==
  /\ ledger \in Seq(Records)
  /\ anchor \in Seq(Records)
  /\ mirror \in Records \cup {NoRecord}
  /\ asks \in [Times -> Asks]
  /\ cycle \in {"none", "running", "complete"}
  /\ policy \in Policies
  /\ clock \in 0 .. MaxTime
  /\ stageLock \in Doors \cup {NoDoor}
  /\ pc \in [Doors -> PCs]
  /\ now \in [Doors -> 0 .. MaxTime]
  /\ arg \in [Doors -> Nat]
  /\ rec \in [Doors -> Records \cup {NoRecord}]
  /\ \A b \in archives :
       /\ b.ledger \in Seq(Records)
       /\ b.mirror \in Records \cup {NoRecord}
       /\ b.asks \in [Times -> Asks]
       /\ b.cycle \in {"none", "running", "complete"}
  /\ ceiling \in LADDER
  /\ exposed \in BOOLEAN

\* EXECUTION_STAGE_V0.1.md section 4: a restore of the state directory can
\* never bring a demoted stage back; the machine never reads above the last row
\* a door landed.  The code breaks it: append_stage_record lets the anchor lag
\* its row, and the archive taken before that row then matches the anchor.
RestoreProof == Effective <= ceiling

\* The part of that claim the code keeps: when every restore ran with the
\* anchor at the tip, no sequence of crashes, lost anchor writes, re-anchoring,
\* replaced chains and restores lifts the stage above the last landed row.
RestoreProofWhenAnchored == ~exposed => Effective <= ceiling

Consumed(trans, to) ==
  {a \in Times : /\ asks[a].status = "CONSUMED"
                 /\ asks[a].content.trans = trans /\ asks[a].content.to = to}

\* The ladder (decision 5, plan_transition): whatever interleaving of doors, deaths
\* and policy changes led here, each rung from SIGNED_TESTNET up to the one in
\* force was climbed by its own spent approval, in order, from a spent BOOTSTRAP;
\* and LIVE_AUTONOMOUS also has its completed testnet cycle.
LadderEarned ==
  Effective >= SIGNED_TESTNET =>
    /\ \E boot \in Consumed("BOOTSTRAP", SHADOW) \cup Consumed("BOOTSTRAP", PAPER),
          test \in Consumed("CLIMB", SIGNED_TESTNET) :
         /\ asks[boot].consumedAt < asks[test].consumedAt
         /\ Effective >= LIVE_AUTONOMOUS =>
              \E live \in Consumed("CLIMB", LIVE_AUTONOMOUS) :
                asks[test].consumedAt < asks[live].consumedAt
    /\ Effective >= LIVE_AUTONOMOUS => cycle = "complete"

\* Decision 8's stop must never be lost (stage_lock, stage_ref): an approved row
\* lands only over the very record it was asked against, never over a demotion
\* that came in between, and only after its approval was spent for it.
NoRowOvertakesADemotion ==
  \A i \in 1 .. Len(ledger) :
    ledger[i].trans # "DEMOTE" =>
      LET ask == asks[ledger[i].approval] IN
      /\ ask.status = "CONSUMED" /\ ask.consumedAt = ledger[i].eff
      /\ i > 1 => ask.content.ref = ledger[i-1]

\* read_ledger's continuity rule, of the rows the doors themselves write.  The
\* code breaks it: a --demote to READ_ONLY over a READ_ONLY tip that does not
\* read valid writes previous_stage None and still extends the chain.
DoorsKeepTheChain == Verifies(ledger)

\* What remains of it: the doors break their chain only at the floor, so a broken
\* chain never hides a granted stage.
BrokenOnlyAtTheFloor ==
  ledger # <<>> /\ ~Verifies(ledger) => Tip(ledger).stage = READ_ONLY

Landed(kinds) ==
  \E d \in Doors : pc[d] = "row" /\ pc'[d] = "anchor" /\ rec[d].trans \in kinds

\* A row that lands was granted under a policy that is no longer the running one.
LandedStale ==
  \E d \in Doors : pc[d] = "row" /\ pc'[d] = "anchor" /\ rec[d].policy # policy

\* A stage falls only for a landed demotion, for a policy change, or for a grant
\* whose policy was replaced while its row was being written: no crash, lost
\* write, set-aside chain, other approved transition or re-anchoring lowers it.
LoweredOnlyByDemotion ==
  [][Effective' < Effective =>
       Landed({"DEMOTE"}) \/ policy' # policy \/ LandedStale]_vars

\* A stage rises only for a landed approval, the return of the policy it was
\* bound to, or the re-anchoring of a chain whose anchor had fallen behind;
\* a demotion never lifts the stage, nor does another process's crash or refusal.
RaisedOnlyByGrant ==
  [][Effective' > Effective =>
       \/ Landed({"BOOTSTRAP", "CLIMB", "REBIND"})
       \/ policy' # policy
       \/ anchor' = ledger /\ anchor' # anchor]_vars

\* Decision 8: a --demote to READ_ONLY works from any state.  Whatever doors it
\* races, and however late it gets the lock, the machine gets to READ_ONLY.
StopTakesEffect ==
  \A d \in Doors :
    pc[d] = "demote" /\ arg[d] = READ_ONLY ~> Effective = READ_ONLY

-----------------------------------------------------------------------------
(* The inductive invariant behind RestoreProofWhenAnchored.                *)

\* The stage lock: held by exactly the process between its plan and its last
\* write.  What a waiting process was given, and what a writing one writes.
LockInv ==
  \A d \in Doors :
    /\ pc[d] \in Writing <=> stageLock = d
    /\ pc[d] = "confirm" => arg[d] \in Times
    /\ pc[d] = "demote"  => arg[d] \in LADDER
    /\ pc[d] \in Writing => rec[d] \in Records /\ rec[d].eff = now[d]

Chains == {ledger} \cup {b.ledger : b \in archives}

\* Seconds are not shared: each running process has its own, no row is from the
\* future, and a process's row is nowhere before it writes it.
FreshInv ==
  /\ \A rows \in Chains : \A i \in 1 .. Len(rows) : rows[i].eff <= clock
  /\ \A d \in Doors : pc[d] # "idle" =>
       /\ now[d] <= clock
       /\ \A e \in Doors : d # e /\ pc[e] # "idle" => now[d] # now[e]
       /\ pc[d] \notin {"anchor", "mirror"} =>
            \A rows \in Chains : \A i \in 1 .. Len(rows) : rows[i].eff # now[d]

\* No archive holds a strict extension of this chain.
Longest == \A b \in archives : OnChain(ledger, b.ledger) => b.ledger = ledger

Vouched == anchor # <<>> /\ OnChain(anchor, ledger)

\* A chain the anchor vouches for is no higher than the last landed row, and
\* none of its archived continuations is waiting to be put back.
VouchedInv ==
  /\ ~exposed /\ Vouched => Longest /\ Tip(ledger).stage <= ceiling
  /\ \A d \in Doors : pc[d] = "anchor" =>
       ledger # <<>> /\ Longest /\ Tip(ledger).stage = ceiling

IInv == TypeOK /\ LockInv /\ FreshInv /\ VouchedInv
=============================================================================
